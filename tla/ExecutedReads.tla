---------------------------- MODULE ExecutedReads ----------------------------
(***************************************************************************)
(* The arguments that reads were executed with                             *)
(* (src/adapters/hermes/__init__.py).  Hermes may change them after the    *)
(* model has made a call, so the plugin records them in a store of the     *)
(* process; every bridge call carries a copy of the store, the bridge adds *)
(* it to the state file of its session (src/adapters/hermes/bridge.mjs),   *)
(* and a turn that was observed clears the store.                          *)
(*                                                                         *)
(* The sessions of a process run at the same time and share the store: a   *)
(* turn of one of them may clear what another has read and not yet saved.  *)
(***************************************************************************)
EXTENDS Naturals, FiniteSets

CONSTANTS
  Sessions,
  Calls,
  SessionOf      \* the session each call is made in

\* Assumed of the constants.
ExecutedReadsAssumption == SessionOf \in [Calls -> Sessions]

VARIABLES
  store,       \* _executed_read_args(), by call id
  executed,    \* history: the calls that ran
  stateFile,   \* executedReadArgsByCallId of each session's state file
  operation,   \* the bridge operation each session waits for
  payload,     \* executedReadArgsByCallId of that operation
  saved,       \* the bridge process has renamed its new state file
  taken        \* history: the calls that were not in their own session's file
               \* when they were cleared, each with the session that cleared

vars == <<store, executed, stateFile, operation, payload, saved, taken>>

TypeOK ==
  /\ store \subseteq executed
  /\ executed \subseteq Calls
  /\ stateFile \in [Sessions -> SUBSET executed]
  /\ operation \in [Sessions -> {"none", "select", "observe"}]
  /\ payload \in [Sessions -> SUBSET executed]
  /\ saved \in [Sessions -> BOOLEAN]
  /\ \A s \in Sessions : operation[s] = "none" => ~saved[s] /\ payload[s] = {}
  /\ taken \subseteq executed \X Sessions

Init ==
  /\ store = {} /\ executed = {}
  /\ stateFile = [s \in Sessions |-> {}]
  /\ operation = [s \in Sessions |-> "none"]
  /\ payload = [s \in Sessions |-> {}]
  /\ saved = [s \in Sessions |-> FALSE]
  /\ taken = {}

\* post_tool_call; a session runs no tool while it waits for the bridge.
RecordExecutedReadArgs(c) ==
  /\ operation[SessionOf[c]] = "none"
  /\ c \notin executed
  /\ store' = store \cup {c}
  /\ executed' = executed \cup {c}
  /\ UNCHANGED <<stateFile, operation, payload, saved, taken>>

CallBridge(s, op) ==
  /\ operation[s] = "none"
  /\ operation' = [operation EXCEPT ![s] = op]
  /\ payload' = [payload EXCEPT ![s] = store]
  /\ UNCHANGED <<store, executed, stateFile, saved, taken>>

\* A plausible bug: what this call brings replaces what the file held.
SaveReplacing(s) ==
  /\ operation[s] # "none" /\ ~saved[s]
  /\ stateFile' = [stateFile EXCEPT ![s] = payload[s]]
  /\ saved' = [saved EXCEPT ![s] = TRUE]
  /\ UNCHANGED <<store, executed, operation, payload, taken>>

\* mergeExecutedReadArgs and saveState
Save(s) ==
  /\ operation[s] # "none" /\ ~saved[s]
  /\ stateFile' = [stateFile EXCEPT ![s] = @ \cup payload[s]]
  /\ saved' = [saved EXCEPT ![s] = TRUE]
  /\ UNCHANGED <<store, executed, operation, payload, taken>>

Over(s) ==
  /\ operation' = [operation EXCEPT ![s] = "none"]
  /\ payload' = [payload EXCEPT ![s] = {}]
  /\ saved' = [saved EXCEPT ![s] = FALSE]

Unsaved == {c \in store : c \notin stateFile[SessionOf[c]]}

Result(s) ==
  /\ operation[s] # "none" /\ saved[s]
  /\ Over(s)
  /\ IF operation[s] = "observe"
     THEN store' = {} /\ taken' = taken \cup {<<c, s>> : c \in Unsaved}
     ELSE UNCHANGED <<store, taken>>
  /\ UNCHANGED <<executed, stateFile>>

\* A plausible bug: the store is cleared whatever became of the call.
NoResultButCleared(s) ==
  /\ operation[s] # "none"
  /\ Over(s)
  /\ store' = {} /\ taken' = taken \cup {<<c, s>> : c \in Unsaved}
  /\ UNCHANGED <<executed, stateFile>>

\* The result is not taken: time limit, exit code, or an answer cut short.
NoResult(s) ==
  /\ operation[s] # "none"
  /\ Over(s)
  /\ UNCHANGED <<store, executed, stateFile, taken>>

Next ==
  \/ \E c \in Calls : RecordExecutedReadArgs(c)
  \/ \E s \in Sessions :
       \/ CallBridge(s, "select") \/ CallBridge(s, "observe")
       \/ Save(s) \/ Result(s) \/ NoResult(s)

Spec == Init /\ [][Next]_vars

-----------------------------------------------------------------------------
(* Properties *)

Own(s) == {c \in executed : SessionOf[c] = s}

\* The read was cleared by a turn of another session before its own had
\* saved it.
TakenByAnother(c) == \E t \in Sessions \ {SessionOf[c]} : <<c, t>> \in taken

(***************************************************************************)
(* The bridge of a session is told, by its payload or its state file, the  *)
(* executed arguments of every read the session has made, whatever became  *)
(* of its earlier calls and of those of other sessions; but for the reads  *)
(* that a turn of another session cleared before a call of their own had   *)
(* saved them. A session's own turns lose it nothing: "the bridge          *)
(* persisted them in the session state file" (__init__.py:196-205,         *)
(* adapters/hermes/README.md:87-98).                                       *)
(***************************************************************************)
BridgeKnows ==
  \A s \in Sessions : operation[s] # "none" =>
    \A c \in Own(s) : c \in payload[s] \cup stateFile[s] \/ TakenByAnother(c)

(***************************************************************************)
(* What the documents promise: the bridge is told of every read of its     *)
(* session (adapters/hermes/README.md:87-98). The code does not keep it    *)
(* with two sessions: the one's completed turn clears the store that the   *)
(* other's reads are in (__init__.py:204-205), and the transcript then     *)
(* names another file.                                                     *)
(***************************************************************************)
EveryReadIsKnown ==
  \A s \in Sessions : operation[s] # "none" =>
    Own(s) \subseteq payload[s] \cup stateFile[s]

(***************************************************************************)
(* The store, the payloads and the state files hold reads that were        *)
(* executed, and the bridge of each session all of its own that no other   *)
(* session took (__init__.py:196-205).                                     *)
(***************************************************************************)
PluginInvariant == TypeOK /\ BridgeKnows
=============================================================================
