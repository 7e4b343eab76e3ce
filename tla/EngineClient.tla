---------------------------- MODULE EngineClient ----------------------------
(***************************************************************************)
(* One question put to the isolated semantic engine                        *)
(* (src/ise/treesitter/client.mjs): a child process is spawned, its output *)
(* is collected, and whichever of its exit, an error, the output limit and *)
(* the timer comes first settles the promise.  One action per event        *)
(* handler; the child itself may do what any program may do.               *)
(***************************************************************************)
EXTENDS Naturals, Sequences

CONSTANTS MaxOutput,   \* maxOutputBytes
          MaxWritten,  \* bound of the model: bytes a child writes
          ChunkSizes   \* sizes of the chunks its output arrives in

\* Assumed of the constants.
EngineClientAssumption ==
  /\ MaxOutput \in Nat
  /\ MaxWritten \in Nat
  /\ ChunkSizes \subseteq Nat \ {0}

VARIABLES
  timer,     \* "unset", "armed" or "off": fired or cleared
  outcome,   \* "none", "answer", or why the promise was rejected
  received,  \* stdoutBytes
  kept,      \* bytes of the chunks in stdout
  child,     \* "none", "unborn", "running", "exited" or "closed"
  code,      \* exit code of the child: "none", "zero" or "nonzero"
  killed,    \* SIGKILL was sent
  written,   \* bytes the child wrote
  complete,  \* what it wrote is a whole JSON text
  pipe,      \* chunks it wrote that have not arrived
  broken     \* its standard input has raised an error

ours == <<timer, outcome, received, kept>>
theirs == <<code, written, complete, pipe>>
vars == <<timer, outcome, received, kept, child, code, killed, written,
          complete, pipe, broken>>

Forced == {"timeout", "output-too-large"}
Rejections == Forced \cup {"missing", "spawn-error", "stdin-error",
                           "engine-error", "not-json"}

TypeOK ==
  /\ timer \in {"unset", "armed", "off"}
  /\ outcome \in {"none", "answer"} \cup Rejections
  /\ received \in Nat
  /\ kept \in Nat
  /\ child \in {"none", "unborn", "running", "exited", "closed"}
  /\ code \in {"none", "zero", "nonzero"}
  /\ killed \in BOOLEAN
  /\ written \in Nat
  /\ complete \in BOOLEAN
  /\ pipe \in Seq(ChunkSizes)
  /\ broken \in BOOLEAN

Init ==
  /\ timer = "unset"
  /\ outcome = "none"
  /\ received = 0
  /\ kept = 0
  /\ child = "none"
  /\ code = "none"
  /\ killed = FALSE
  /\ written = 0
  /\ complete = FALSE
  /\ pipe = <<>>
  /\ broken = FALSE

-----------------------------------------------------------------------------
(* The helpers of the runner *)

settled == outcome # "none"

\* A plausible bug: the timer of a settled question is left running.
SettleKeepingTimer(result) ==
  /\ outcome' = IF settled THEN outcome ELSE result
  /\ UNCHANGED timer

Settle(result) ==
  /\ outcome' = IF settled THEN outcome ELSE result
  /\ timer' = IF settled THEN timer ELSE "off"

\* A plausible bug: the rejection is left to the exit of the killed child.
AbortByExit(reason) ==
  /\ killed' = TRUE
  /\ timer' = "off"
  /\ UNCHANGED outcome

\* A plausible bug: the child is left to itself.
AbortWithoutKill(reason) ==
  /\ Settle(reason)
  /\ UNCHANGED killed

Abort(reason) ==
  /\ killed' = TRUE
  /\ Settle(reason)

-----------------------------------------------------------------------------
(* The question *)

Ask ==
  /\ child = "none"
  /\ outcome = "none"
  /\ child' \in {"unborn", "running"}
  /\ timer' = "armed"
  /\ UNCHANGED <<outcome, received, kept, code, killed, written, complete,
                 pipe, broken>>

AskInVain ==
  /\ child = "none"
  /\ outcome = "none"
  /\ outcome' = "missing"
  /\ UNCHANGED <<timer, received, kept, child, code, killed, written,
                 complete, pipe, broken>>

-----------------------------------------------------------------------------
(* The child *)

ChildWrites ==
  /\ child = "running"
  /\ ~complete
  /\ \E size \in ChunkSizes :
       /\ written + size <= MaxWritten
       /\ written' = written + size
       /\ pipe' = Append(pipe, size)
  /\ complete' \in BOOLEAN
  /\ UNCHANGED <<ours, child, code, killed, broken>>

ChildExits ==
  /\ child = "running"
  /\ child' = "exited"
  /\ code' \in {"zero", "nonzero"}
  /\ UNCHANGED <<ours, killed, written, complete, pipe, broken>>

ChildDies ==
  /\ child = "running"
  /\ killed
  /\ child' = "exited"
  /\ code' = "nonzero"
  /\ UNCHANGED <<ours, killed, written, complete, pipe, broken>>

-----------------------------------------------------------------------------
(* The handlers *)

\* A plausible bug: the limit is looked at only before a chunk is added.
TooLargeBefore(size) == received > MaxOutput

TooLarge(size) == received + size > MaxOutput

OnData ==
  /\ pipe # <<>>
  /\ received' = received + Head(pipe)
  /\ pipe' = Tail(pipe)
  /\ \/ /\ TooLarge(Head(pipe))
        /\ Abort("output-too-large")
        /\ UNCHANGED kept
     \/ /\ ~TooLarge(Head(pipe))
        /\ kept' = kept + Head(pipe)
        /\ UNCHANGED <<outcome, timer, killed>>
  /\ UNCHANGED <<child, code, written, complete, broken>>

OnError ==
  /\ child = "unborn"
  /\ child' = "exited"
  /\ code' = "nonzero"
  /\ Settle("spawn-error")
  /\ UNCHANGED <<received, kept, killed, written, complete, pipe, broken>>

OnStdinError ==
  /\ child # "none"
  /\ ~broken
  /\ broken' = TRUE
  /\ Settle("stdin-error")
  /\ UNCHANGED <<received, kept, child, killed, theirs>>

\* A plausible bug: an exit without a message is reported by its code.
ClosedByCode ==
  IF code # "zero" THEN code
  ELSE IF complete /\ kept = written THEN "answer" ELSE "not-json"

\* A plausible bug: the output is parsed without a look at the exit code.
ClosedWithAnyCode ==
  IF complete /\ kept = written THEN "answer" ELSE "not-json"

Closed ==
  IF code # "zero" THEN "engine-error"
  ELSE IF complete /\ kept = written THEN "answer" ELSE "not-json"

OnClose ==
  /\ child = "exited"
  /\ pipe = <<>>
  /\ child' = "closed"
  /\ Settle(Closed)
  /\ UNCHANGED <<received, kept, killed, theirs, broken>>

OnTimer ==
  /\ timer = "armed"
  /\ Abort("timeout")
  /\ UNCHANGED <<received, kept, child, theirs, broken>>

Next ==
  \/ Ask \/ AskInVain
  \/ ChildWrites \/ ChildExits \/ ChildDies
  \/ OnData \/ OnError \/ OnStdinError \/ OnClose \/ OnTimer

Spec == Init /\ [][Next]_vars

(* The event loop runs a timer that is due; nothing is assumed of the child. *)
FairSpec == Spec /\ WF_vars(OnTimer)

-----------------------------------------------------------------------------
(* Properties *)

(***************************************************************************)
(* The output that an answer is parsed from never exceeds the limit, also  *)
(* while chunks go on arriving after the question was settled              *)
(* (client.mjs:40-47).                                                     *)
(***************************************************************************)
BufferBounded == kept <= MaxOutput

(***************************************************************************)
(* An answer is all that a child wrote which then exited with 0 by itself: *)
(* not the beginning of an output cut off, not the output of a child that  *)
(* was killed or that failed after it wrote (client.mjs:51-61).            *)
(***************************************************************************)
AnswerIsWhole ==
  outcome = "answer" =>
    complete /\ kept = written /\ code = "zero" /\ ~killed

(***************************************************************************)
(* A question given up for its time or its output leaves no child running  *)
(* without its kill signal, whichever handlers run afterwards              *)
(* (client.mjs:33-36).                                                     *)
(***************************************************************************)
ForcedOutIsKilled ==
  outcome \in Forced /\ child = "running" => killed

(***************************************************************************)
(* The timer is armed exactly while a spawned question is open: an open    *)
(* question has a way to end, and a settled one neither keeps the host's   *)
(* process alive nor kills anything (client.mjs:27-38).                    *)
(***************************************************************************)
TimerGuardsTheQuestion ==
  timer = "armed" <=> child # "none" /\ ~settled

(***************************************************************************)
(* What the handlers keep between them, in whatever order they run: the    *)
(* buffer within its limit, answers whole, children given up killed, the   *)
(* timer armed while a question is open (client.mjs:17-65).                *)
(***************************************************************************)
ClientInvariant ==
  TypeOK /\ BufferBounded /\ AnswerIsWhole /\ ForcedOutIsKilled
  /\ TimerGuardsTheQuestion

Answered ==
  IF outcome \in {"none", "answer"} THEN outcome ELSE "failure"

Promise == INSTANCE OneAnswer WITH
  asked <- child # "none" \/ settled, outcome <- Answered

(***************************************************************************)
(* The runner implements OneAnswer: the first outcome is final, and every  *)
(* question is settled, by its timer if by nothing else                    *)
(* (client.mjs:17-65).                                                     *)
(***************************************************************************)
KeepsPromise == Promise!Spec

(* The part of the promise that needs no fairness (client.mjs:17-65). *)
SettlesOnce == Promise!Safety
=============================================================================
