------------------------------ MODULE PiCodec ------------------------------
(***************************************************************************)
(* The codec for Pi (src/adapters/pi/codec.mjs): a request is rewritten    *)
(* from its own history alone.  The reads that the history shows are put   *)
(* into a new registry, the workspace is read, and the transformer of the  *)
(* replay adapter (src/adapters/pi/replay.mjs) prunes the copy; calls and  *)
(* results of shells are given other names meanwhile, so that it leaves    *)
(* them alone.  A candidate is valid when its calls and results are those  *)
(* of the history, in their places, without reads that may be retired.     *)
(*                                                                         *)
(* A message's calls are answered in the order of their ids.               *)
(***************************************************************************)
EXTENDS HostCodec, RequestPrune, Selection, SequencesExt

CONSTANTS
  Questions,    \* sets of calls a reply may make together
  Refused,      \* files outside the workspace, binary or too large
  Turns,        \* the turn a host may name
  Overlaps,     \* task terms a unit may contain
  Interrupts,   \* whether the user may speak before the results are there
  Interferes,   \* whether the host may change the object while it waits
  Corrupts,     \* whether a codec built on this one breaks what it returns
  MaxMessages, MaxEdits     \* bounds

ASSUME PiCodecAssumption ==
  /\ Calls \subseteq Nat
  /\ Questions \subseteq SUBSET Calls
  /\ Refused \subseteq Paths
  /\ Turns \subseteq Nat /\ Overlaps \subseteq Nat
  /\ {Interrupts, Interferes, Corrupts} \subseteq BOOLEAN
  /\ MaxMessages \in Nat /\ MaxEdits \in Nat

VARIABLES
  disk,    \* the content of each file
  edits    \* how often a file was written

vars == <<messages, codecVars, disk, edits>>

\* What capture() returns: the calls of the reads that were decoded, and,
\* after transform(), those whose pairs have left.
Nothing == [observed |-> {}, retired |-> {}]

Init ==
  /\ disk \in [Paths -> Versions] /\ edits = 0
  /\ messages = <<>>
  /\ Idle(Nothing)

-----------------------------------------------------------------------------
(* pairingRecord: the calls and results of a request in their order, each  *)
(* with the number of turns of the conversation before it; nothing when    *)
(* results do not follow their calls one by one.                           *)

InOrder(calls) == SetToSortSeq(calls, LAMBDA c, d : c < d)

Start == [ok |-> TRUE, pending |-> <<>>, called |-> {}, answered |-> {},
          boundary |-> 0, events |-> <<>>]

Event(kind, c, boundary) == [kind |-> kind, call |-> c, boundary |-> boundary]

\* A plausible bug: results may come in any order.
ReadResultAnyOrder(s, c) ==
  [s EXCEPT !.ok = @ /\ c \in ToSet(s.pending) /\ c \notin s.answered,
            !.pending = IF @ = <<>> THEN @ ELSE Remove(@, c),
            !.answered = @ \cup {c},
            !.events = Append(@, Event("result", c, s.boundary))]

ReadResult(s, c) ==
  [s EXCEPT !.ok = @ /\ s.pending # <<>> /\ c = s.pending[1] /\ c \notin s.answered,
            !.pending = IF @ = <<>> THEN @ ELSE Tail(@),
            !.answered = @ \cup {c},
            !.events = Append(@, Event("result", c, s.boundary))]

\* A plausible bug: turns of the conversation are not counted.
ReadOtherUncounted(s, calls, talks) ==
  LET order == InOrder(calls)
  IN  [s EXCEPT !.ok = @ /\ s.pending = <<>> /\ calls \cap s.called = {},
                !.pending = order,
                !.called = @ \cup calls,
                !.events = @ \o [i \in DOMAIN order |-> Event("call", order[i], s.boundary)]]

ReadOther(s, calls, talks) ==
  LET order == InOrder(calls)
  IN  [s EXCEPT !.ok = @ /\ s.pending = <<>> /\ calls \cap s.called = {},
                !.pending = order,
                !.called = @ \cup calls,
                !.events = @ \o [i \in DOMAIN order |-> Event("call", order[i], s.boundary)],
                !.boundary = IF calls = {} \/ talks THEN @ + 1 ELSE @]

ReadMessage(s, m) ==
  CASE m.role = "tool" -> ReadResult(s, m.call)
    [] m.role = "assistant" -> ReadOther(s, m.calls, m.says)
    [] OTHER -> ReadOther(s, {}, TRUE)

PairingRecord(ms) ==
  LET s == FoldLeft(ReadMessage, Start, ms)
  IN  IF s.ok /\ s.pending = <<>> THEN {s.events} ELSE {}

-----------------------------------------------------------------------------
(* decodePiReadObservations                                                *)

ResultOf(ms, c) == (CHOOSE i \in DOMAIN ms : ms[i].role = "tool" /\ ms[i].call = c)

\* successfulNativeReadCallIds, and the reads that decode: a result in text,
\* also one that was cut.
Decoded(ms) ==
  {c \in CallsIn(ms) \cap ResultsIn(ms) :
     Tool[c] = "read" /\ ms[ResultOf(ms, c)].body.kind \in {"text", "cut"}}

\* Assistants' messages before the one that made the call.
TurnOf(ms, c) ==
  LET i == CHOOSE j \in DOMAIN ms : ms[j].role = "assistant" /\ c \in ms[j].calls
  IN  Cardinality({j \in 1..(i - 1) : ms[j].role = "assistant"})

PiCapture == Capture(PairingRecord(messages) # {},
                     [observed |-> Decoded(messages), retired |-> {}])

-----------------------------------------------------------------------------
(* transform: a registry seeded in the order of the results                *)

\* protectPassthroughShellPairs: the transformer knows no shell by this name.
Protected == [c \in Calls |-> IF Tool[c] = "shell" THEN "other" ELSE Tool[c]]

Replay == INSTANCE RequestPrune WITH Tool <- Protected

\* seedReadObservation, which refuses; and observations that were cut.
Reconstructs(ms, observed) ==
  \A c \in observed : /\ ms[ResultOf(ms, c)].body.kind = "text"
                      /\ ReadOf[c] \notin Refused

\* A read that is observed: trackRead in the turn of its message.
Seeded(known, p, v, turn) ==
  LET changed == p \in DOMAIN known /\ known[p].content # v
      card == [content |-> v, lastUsedAt |-> turn,
               changedAt |-> IF p \in DOMAIN known /\ ~changed
                            THEN known[p].changedAt ELSE turn,
               changes |-> (p \in DOMAIN known /\ known[p].changes) \/ changed]
  IN  [q \in DOMAIN known \cup {p} |-> IF q = p THEN card ELSE known[q]]

Registry(ms, observed) ==
  LET order == SelectSeq(ms, LAMBDA m : m.role = "tool" /\ m.call \in observed)
  IN  FoldLeft(LAMBDA known, m :
                 Seeded(known, ReadOf[m.call], m.body.at, TurnOf(ms, m.call)),
               <<>>, order)

Resolves(p) == disk[p] # Gone

\* The registry after the refresh, as the policy sees it.
Hand(known, turn) ==
  [p \in DOMAIN known |->
     LET differs == Resolves(p) /\ disk[p] # known[p].content
     IN  [state |-> IF Resolves(p) THEN "resolved" ELSE "unresolved",
          pinned |-> FALSE,
          lastUsedAt |-> known[p].lastUsedAt,
          changedAt |-> IF differs THEN turn ELSE known[p].changedAt,
          changeCount |-> IF known[p].changes \/ differs THEN 1 ELSE 0,
          size |-> Length[IF Resolves(p) THEN disk[p] ELSE known[p].content]]]

ProjectionOf(hand, chosen) ==
  LET unresolved == {p \in DOMAIN hand : hand[p].state = "unresolved"}
  IN  [selected |-> chosen, unresolved |-> unresolved,
       budget |-> DOMAIN hand \ (chosen \cup unresolved),
       content |-> disk,
       changed |-> {p \in DOMAIN hand : hand[p].changeCount > 0}]

NothingInjected == [p \in Paths |-> Gone]
NoHistory == [c \in Calls |-> "none"]

\* onContext of an adapter that has sent nothing yet.
OnContext(ms, observed, P) ==
  LET active == Replay!LatestReads(ms, observed)
      unitOf == [c \in active |-> ReadOf[c]]
      tail == Replay!ResolveProjectionText(ms, P, NothingInjected)
      rewritten == Replay!ReplaceHistorical(
                     Replay!ReplaceTracked(ms, unitOf, P, tail, NothingInjected))
      pruned == Replay!DropPairs(rewritten, unitOf, P, NoHistory)
  IN  Replay!WithTail(
        Replay!QuoteOmitted(pruned, ms, unitOf, P, tail, NoHistory, active), tail)

\* A plausible bug: every call that is missing counts as retired.
RetiredOfAll(made, observed) ==
  Calls \ UNION {{r[i].call : i \in DOMAIN r} : r \in PairingRecord(made)}

\* A plausible bug: no read counts as retired.
RetiredNever(made, observed) == {}

RetiredBy(made, observed) ==
  LET left == UNION {{r[i].call : i \in DOMAIN r} : r \in PairingRecord(made)}
  IN  observed \ left

\* What a codec that wraps this one may do to its result: a message is lost,
\* repeated, or moved behind one or two that follow it.
Broken(ms) ==
  {RemoveAt(ms, i) : i \in DOMAIN ms}
  \cup {InsertAt(ms, i, ms[i]) : i \in DOMAIN ms}
  \cup {InsertAt(RemoveAt(ms, m[1]), m[1] + m[2], ms[m[1]]) :
          m \in {n \in (DOMAIN ms) \X {1, 2} : n[1] + n[2] =< Len(ms)}}

Made(made, retired) ==
  \E request \in {made} \cup (IF Corrupts THEN Broken(made) ELSE {}) :
    Transform(TRUE, request, [caught EXCEPT !.retired = retired])

PiTransform ==
  /\ \/ /\ caught.observed = {}
        /\ Made(snapshot, {})
     \/ /\ caught.observed # {}
        /\ ~Reconstructs(snapshot, caught.observed)
        /\ Transform(FALSE, <<>>, caught)
     \/ /\ caught.observed # {}
        /\ Reconstructs(snapshot, caught.observed)
        /\ \E turn \in Turns :
             LET known == Registry(snapshot, caught.observed)
                 hand == Hand(known, turn)
             IN  \E chosen \in SUBSET DOMAIN hand, overlap \in [DOMAIN hand -> Overlaps] :
                   /\ IsWorkingSet(chosen, hand, turn, overlap)
                   /\ LET made == OnContext(snapshot, caught.observed,
                                            ProjectionOf(hand, chosen))
                      IN  Made(made, RetiredBy(made, caught.observed))
  /\ UNCHANGED <<messages, disk, edits>>

-----------------------------------------------------------------------------
(* validatePiNativeRequest                                                 *)

Accepts(request, captured, retired) ==
  /\ retired \subseteq Decoded(captured)
  /\ \E r \in PairingRecord(request), s \in PairingRecord(captured) :
       r = SelectSeq(s, LAMBDA e : e.call \notin retired)

PiValidate ==
  /\ Validate(Accepts(candidate, snapshot, caught.retired))
  /\ UNCHANGED <<messages, disk, edits>>

-----------------------------------------------------------------------------
(* The host: Pi's history, to which it appends, also while it waits.       *)

Pending == CallsIn(messages) \ ResultsIn(messages)

MayAppend ==
  /\ phase = "host" \/ (Interferes /\ phase \in {"captured", "transformed"})
  /\ Len(messages) < MaxMessages

UserSpeaks ==
  /\ MayAppend
  /\ Pending = {} \/ Interrupts
  /\ messages' = Append(messages, User(Words))
  /\ UNCHANGED <<codecVars, disk, edits>>

Replies ==
  /\ MayAppend /\ phase = "host"
  /\ Pending = {} \/ Interrupts
  /\ \E calls \in Questions, says \in BOOLEAN :
       /\ says \/ calls # {}
       /\ calls \cap CallsIn(messages) = {}
       /\ messages' = Append(messages, Assistant(says, calls))
  /\ UNCHANGED <<codecVars, disk, edits>>

\* A read shows the file, is cut, fails, or is an image.
Shown(c) ==
  IF Tool[c] # "read" THEN {Output(c)}
  ELSE {[kind |-> k, call |-> c] : k \in {"cut", "error", "image"}}
       \cup (IF disk[ReadOf[c]] = Gone THEN {} ELSE {Text(ReadOf[c], disk[ReadOf[c]])})

ToolAnswers ==
  /\ MayAppend
  /\ messages # <<>> /\ messages[Len(messages)].role # "user"
  /\ \E c \in Pending :
       /\ \A d \in Pending : c =< d
       /\ \E body \in Shown(c) : messages' = Append(messages, Result(c, body))
  /\ UNCHANGED <<codecVars, disk, edits>>

\* Later writes are not seen by the codec that is at work.
Edit ==
  /\ phase \in {"host", "captured"}
  /\ edits < MaxEdits /\ edits' = edits + 1
  /\ \E p \in Paths, v \in Content : v # disk[p] /\ disk' = [disk EXCEPT ![p] = v]
  /\ UNCHANGED <<messages, codecVars>>

Apply ==
  /\ messages # <<>>
  /\ PiCapture
  /\ UNCHANGED <<messages, disk, edits>>

Send == Sent(Nothing) /\ UNCHANGED <<messages, disk, edits>>

Next ==
  \/ UserSpeaks \/ Replies \/ ToolAnswers \/ Edit
  \/ Apply \/ PiTransform \/ PiValidate \/ Send

Spec == Init /\ [][Next]_vars

-----------------------------------------------------------------------------
(* Properties *)

TypeOK ==
  /\ disk \in [Paths -> Content] /\ edits \in 0..MaxEdits
  /\ Len(messages) =< MaxMessages
  /\ phase \in {"host", "captured", "transformed", "answered"}
  /\ caught.observed \subseteq Calls
  /\ caught.retired \subseteq caught.observed
  /\ answer.applied => phase = "answered"

\* Every result stands where its call says: behind the reply, in its order.
WellPaired(ms) ==
  /\ \A i \in DOMAIN ms : ms[i].role = "tool" =>
       \E a \in 1..(i - 1) :
         /\ ms[a].role = "assistant"
         /\ \A j \in (a + 1)..i : ms[j].role = "tool"
         /\ i - a =< Cardinality(ms[a].calls)
         /\ ms[i].call = InOrder(ms[a].calls)[i - a]
  /\ \A a \in DOMAIN ms : ms[a].role = "assistant" =>
       /\ \A i \in (a + 1)..(a + Cardinality(ms[a].calls)) :
            i \in DOMAIN ms /\ ms[i].role = "tool"
       /\ \A b \in DOMAIN ms :
            ms[b].role = "assistant" /\ b # a => ms[a].calls \cap ms[b].calls = {}

(***************************************************************************)
(* The parser of calls and results accepts a request exactly when every    *)
(* reply is followed by its results, all of them, in its order, and no     *)
(* call is made twice (codec.mjs:61-134).                                  *)
(***************************************************************************)
RecordIsExact ==
  \A ms \in {messages, candidate} : PairingRecord(ms) # {} <=> WellPaired(ms)

\* A later read of the same file took its place.
Superseded(c) ==
  \E d \in Decoded(messages) :
    /\ c \in Decoded(messages) /\ ReadOf[d] = ReadOf[c]
    /\ ResultOf(messages, c) < ResultOf(messages, d)

\* What stands where, apart from what reads show.
Outline(ms, gone) ==
  LET stays(m) == IF m.role = "tool" THEN m.call \notin gone
                  ELSE m.role = "assistant" => m.says \/ m.calls \ gone # {}
      bare(m) == CASE m.role = "tool" ->
                     <<"result", m.call, IF Tool[m.call] = "read" THEN Nothing ELSE m.body>>
                   [] m.role = "assistant" -> <<"reply", m.says, m.calls \ gone>>
                   [] OTHER -> <<"user", m.body>>
      kept == SelectSeq(ms, stays)
  IN  [i \in DOMAIN kept |-> bare(kept[i])]

(***************************************************************************)
(* Whatever the host did while the codec was at work, the request has all  *)
(* of its conversation, in its order, as it is when it is sent, with the   *)
(* words and the outputs of other tools as they were; only reads that a    *)
(* later one superseded have left, as pairs, and the projection is the one *)
(* message that was added (host-codec.mjs:50-82,                           *)
(* adapters/pi/README.md:90-97).                                           *)
(***************************************************************************)
NothingIsLost ==
  phase = "answered" =>
    IF answer.applied
    THEN Outline(SelectSeq(answer.request, LAMBDA m : ~IsProjection(m)), {})
           = Outline(messages, {c \in Calls : Superseded(c)})
    ELSE answer.request = messages

(***************************************************************************)
(* A history that can be reconstructed is rewritten: its results are in    *)
(* place, each read shows a file that may be tracked, whole, and the host  *)
(* did not change the object meanwhile (codec.mjs:408-459).                *)
(***************************************************************************)
SafeIsApplied ==
  (/\ phase = "answered"
   /\ snapshot \in {<<>>, messages}
   /\ WellPaired(messages)
   /\ \A i \in DOMAIN messages :
        messages[i].role = "tool" /\ Tool[messages[i].call] = "read" =>
          messages[i].body.kind = "text" /\ messages[i].body.path \notin Refused)
  => answer.applied

\* Turns of the conversation before a message.
TurnsBefore(ms, i) ==
  Cardinality({j \in 1..(i - 1) : \/ ms[j].role = "user"
                                  \/ ms[j].role = "assistant" /\ ms[j].says})

(***************************************************************************)
(* However a codec breaks its own result, a request that is sent is well   *)
(* paired, keeps every pair that is not a successful read, and has its     *)
(* pairs between the turns they stood between (codec.mjs:61-187,           *)
(* docs/lab/pcr/0131-pi-host-codec-parity.md, "Preserved retained native   *)
(* IDs, order, pairing").                                                  *)
(***************************************************************************)
PairsInPlace ==
  phase = "answered" /\ answer.applied =>
    /\ WellPaired(answer.request)
    /\ \A i \in DOMAIN messages : messages[i].role = "tool" =>
         \/ messages[i].call \in Decoded(messages)
         \/ \E j \in DOMAIN answer.request :
              answer.request[j].role = "tool" /\ answer.request[j].call = messages[i].call
    /\ \A i \in DOMAIN messages, j \in DOMAIN answer.request :
         (/\ messages[i].role = "tool" /\ answer.request[j].role = "tool"
          /\ messages[i].call = answer.request[j].call) =>
           TurnsBefore(messages, i) = TurnsBefore(answer.request, j)
=============================================================================
