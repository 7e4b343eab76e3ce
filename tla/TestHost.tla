------------------------------ MODULE TestHost ------------------------------
(***************************************************************************)
(* The codec of the test host                                              *)
(* (src/adapters/host-codec-test-double.mjs): it replaces the results of   *)
(* chosen calls and can be told to fail in a phase or to break the pairs   *)
(* of its own result.                                                      *)
(*                                                                         *)
(* A message is a reply with its calls, the result of a call, or a user's. *)
(* Ids are those of the host, which may repeat one or lose a result.       *)
(***************************************************************************)
EXTENDS HostCodec, SequencesExt

CONSTANTS
  Calls,         \* ids of calls
  Reads,         \* those that name a file to read
  OldBodies,        \* what a result may hold
  NewBody,       \* what the results of chosen calls are replaced by
  Chosen,       \* which calls may be chosen
  MaxMessages    \* bound

\* Assumed of the constants.
TestHostAssumption ==
  /\ Reads \subseteq Calls /\ Chosen \subseteq SUBSET Calls
  /\ NewBody \notin OldBodies
  /\ MaxMessages \in Nat

VARIABLES
  failAt,     \* "capture", "transform", "validate" or "none"
  corrupt,    \* "drop-result", "drop-all" or "none"
  replaced    \* context.replacementByCallId: the calls it names

options == <<failAt, corrupt, replaced>>
vars == <<messages, codecVars, options>>

Reply(calls) == [role |-> "assistant", calls |-> calls]
Result(c, body, error) == [role |-> "tool", call |-> c, body |-> body, error |-> error]
User == [role |-> "user"]

Nothing == [observations |-> <<>>]

Init ==
  /\ messages = <<>> /\ Idle(Nothing)
  /\ failAt \in {"none", "capture", "transform", "validate"}
  /\ corrupt \in {"none", "drop-result", "drop-all"}
  /\ replaced \in Chosen

-----------------------------------------------------------------------------
\* The calls of a request, in order.
CallsOf(ms) == FlattenSeq([i \in DOMAIN ms |->
                             IF ms[i].role = "assistant" THEN ms[i].calls ELSE <<>>])

ResultsOf(ms) == SelectSeq(ms, LAMBDA m : m.role = "tool")

\* captureReadObservations: results of reads that did not fail.
Observations(ms) ==
  SelectSeq(ResultsOf(ms), LAMBDA m :
    ~m.error /\ m.call \in Reads \cap ToSet(CallsOf(ms)))

TestCapture ==
  /\ messages # <<>>
  /\ Capture(failAt # "capture", [observations |-> Observations(messages)])
  /\ UNCHANGED <<messages, options>>

Replaced(ms) ==
  [i \in DOMAIN ms |->
     IF ms[i].role = "tool" /\ ms[i].call \in replaced
     THEN Result(ms[i].call, NewBody, ms[i].error) ELSE ms[i]]

WithoutResults(ms) == SelectSeq(ms, LAMBDA m : m.role # "tool")

Corrupted(ms) ==
  CASE corrupt = "drop-result" -> WithoutResults(ms)
    [] corrupt = "drop-all" ->
         LET left == WithoutResults(ms)
         IN  [i \in DOMAIN left |->
                IF left[i].role = "assistant" THEN Reply(<<>>) ELSE left[i]]
    [] OTHER -> ms

TestTransform ==
  /\ Transform(failAt # "transform", Corrupted(Replaced(snapshot)), caught)
  /\ UNCHANGED <<messages, options>>

-----------------------------------------------------------------------------
(* validateTestHostPairing *)

Once(s) == \A i, j \in DOMAIN s : s[i] = s[j] => i = j

PairingOrder(ms) ==
  [calls   |-> CallsOf(ms),
   results |-> [i \in DOMAIN ResultsOf(ms) |-> ResultsOf(ms)[i].call]]

\* A plausible bug: calls and results are only counted.
PairedByCount(ms) ==
  LET order == PairingOrder(ms)
  IN  Once(order.calls) /\ Len(order.calls) = Len(order.results)

\* Each call is made once and has one result, in a later message.
Paired(ms) ==
  LET order == PairingOrder(ms)
      before(c, i) == \E a \in 1..(i - 1) : /\ ms[a].role = "assistant"
                                            /\ c \in ToSet(ms[a].calls)
  IN  /\ Once(order.calls) /\ Once(order.results)
      /\ Len(order.calls) = Len(order.results)
      /\ \A i \in DOMAIN ms : ms[i].role = "tool" => before(ms[i].call, i)

\* A plausible bug: pairs are looked at, but not which ones there were.
AcceptsAnyPairs(request, captured) == Paired(request)

Accepts(request, captured) ==
  Paired(request) /\ PairingOrder(request) = PairingOrder(captured)

TestValidate ==
  /\ Validate(failAt # "validate" /\ Accepts(candidate, snapshot))
  /\ UNCHANGED <<messages, options>>

-----------------------------------------------------------------------------
\* The host appends to its request, also while the codec is at work.
Appends ==
  /\ phase # "answered"
  /\ Len(messages) < MaxMessages
  /\ \E m \in {User}
        \cup {Reply(calls) : calls \in {<<>>} \cup {<<c>> : c \in Calls}
                                        \cup {<<c, d>> : c, d \in Calls}}
        \cup {Result(c, b, e) : c \in Calls, b \in OldBodies, e \in BOOLEAN} :
       messages' = Append(messages, m)
  /\ UNCHANGED <<codecVars, options>>

Send == Sent(Nothing) /\ UNCHANGED <<messages, options>>

Next == Appends \/ TestCapture \/ TestTransform \/ TestValidate \/ Send

Spec == Init /\ [][Next]_vars

-----------------------------------------------------------------------------
(* Properties *)

TypeOK ==
  /\ Len(messages) =< MaxMessages
  /\ phase \in {"host", "captured", "transformed", "answered"}
  /\ ToSet(caught.observations) \subseteq ToSet(snapshot)
  /\ answer.applied => phase = "answered"

(***************************************************************************)
(* Whatever phase fails, however the codec breaks its pairs and whatever   *)
(* the host does to its object meanwhile, the answer is that object with   *)
(* no other change than the results that were to be replaced               *)
(* (host-codec.mjs:50-82, docs/ARCHITECTURE.md:190-196).                   *)
(***************************************************************************)
OnlyResultsChange ==
  phase = "answered" =>
    /\ Len(answer.request) = Len(messages)
    /\ \A i \in DOMAIN messages :
         answer.request[i] # messages[i] =>
           /\ answer.applied
           /\ messages[i].role = "tool" /\ messages[i].call \in replaced
           /\ answer.request[i] = Result(messages[i].call, NewBody, messages[i].error)

(***************************************************************************)
(* A request is rewritten only when each of its calls was answered, once   *)
(* and later: a history that was cut in the middle of a turn goes out as   *)
(* it is (host-codec-test-double.mjs:77-108).                              *)
(***************************************************************************)
RewrittenIsAnswered ==
  phase = "answered" /\ answer.applied =>
    \A i \in DOMAIN messages :
      /\ messages[i].role = "assistant" =>
           \A c \in ToSet(messages[i].calls) :
             Cardinality({k \in DOMAIN messages : messages[k].role = "tool"
                                                  /\ messages[k].call = c}) = 1
      /\ messages[i].role = "tool" =>
           \E k \in 1..(i - 1) : messages[k].role = "assistant"
                                 /\ messages[i].call \in ToSet(messages[k].calls)
=============================================================================
