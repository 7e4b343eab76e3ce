------------------------- MODULE EngineClientProofs -------------------------
(***************************************************************************)
(* Proofs about EngineClient, for every limit on the output, every set of  *)
(* chunk sizes and any child.                                              *)
(***************************************************************************)
EXTENDS EngineClient, SequenceTheorems, TLAPS

(***************************************************************************)
(* What the handlers rely on without saying so: nothing is in the pipe of  *)
(* a child that was closed, an answer comes from the close handler alone,  *)
(* a kill signal is sent only with a rejection, and no more is kept than   *)
(* was received.                                                           *)
(***************************************************************************)
ClosedIsDrained == child = "closed" => pipe = <<>>
AnsweredIsClosed == outcome = "answer" => child = "closed"
KilledIsSettled == killed => settled
ForcedIsKilled == outcome \in Forced => killed
KeptWasReceived == kept =< received

IndInv ==
  /\ TypeOK /\ BufferBounded /\ AnswerIsWhole /\ TimerGuardsTheQuestion
  /\ ClosedIsDrained /\ AnsweredIsClosed /\ KilledIsSettled /\ ForcedIsKilled
  /\ KeptWasReceived

\* Before the question is asked the invariant holds.
LEMMA InitIndInv == ASSUME EngineClientAssumption, Init PROVE IndInv
<1>1. TypeOK
  <2>1. <<>> \in Seq(ChunkSizes)
    BY EmptySeq
  <2> QED
    BY <2>1 DEF Init, TypeOK
<1>2. BufferBounded /\ KeptWasReceived
  BY DEF EngineClientAssumption, Init, BufferBounded, KeptWasReceived
<1>3. /\ AnswerIsWhole /\ TimerGuardsTheQuestion /\ ClosedIsDrained
      /\ AnsweredIsClosed /\ KilledIsSettled /\ ForcedIsKilled
  BY DEF Init, AnswerIsWhole, TimerGuardsTheQuestion, ClosedIsDrained,
         AnsweredIsClosed, KilledIsSettled, ForcedIsKilled, settled, Forced
<1> QED
  BY <1>1, <1>2, <1>3 DEF IndInv

\* The chunk at the head of a pipe, and the pipe without it.
LEMMA HeadOfPipe ==
  ASSUME EngineClientAssumption, TypeOK, pipe # <<>>
  PROVE  Head(pipe) \in Nat /\ Tail(pipe) \in Seq(ChunkSizes)
<1>1. pipe \in Seq(ChunkSizes) /\ ChunkSizes \subseteq Nat
  BY DEF EngineClientAssumption, TypeOK
<1> QED
  BY <1>1, HeadTailProperties

(***************************************************************************)
(* The typing of the outcome and of the timer is kept by whatever settles. *)
(***************************************************************************)
LEMMA SettleType ==
  ASSUME TypeOK, NEW result \in {"answer"} \cup Rejections, Settle(result)
  PROVE  /\ timer' \in {"unset", "armed", "off"}
         /\ outcome' \in {"none", "answer"} \cup Rejections
  BY DEF TypeOK, Settle

\* Every callback leaves the client's variables well typed.
LEMMA TypeStep ==
  ASSUME EngineClientAssumption, TypeOK, Next
  PROVE  TypeOK'
<1> USE DEF TypeOK
<1>1. CASE Ask
  BY <1>1 DEF Ask
<1>2. CASE AskInVain
  BY <1>2 DEF AskInVain, Rejections
<1>3. CASE ChildWrites
  <2>1. PICK size \in ChunkSizes :
          written' = written + size /\ pipe' = Append(pipe, size)
    BY <1>3 DEF ChildWrites
  <2>2. size \in Nat
    BY <2>1 DEF EngineClientAssumption
  <2>3. written' \in Nat /\ pipe' \in Seq(ChunkSizes)
    BY <2>1, <2>2, AppendProperties
  <2> QED
    BY <1>3, <2>3 DEF ChildWrites, ours
<1>4. CASE ChildExits
  BY <1>4 DEF ChildExits, ours
<1>5. CASE ChildDies
  BY <1>5 DEF ChildDies, ours
<1>6. CASE OnData
  <2>1. /\ Head(pipe) \in Nat /\ pipe' \in Seq(ChunkSizes)
        /\ received' = received + Head(pipe)
    BY <1>6, HeadOfPipe DEF OnData
  <2>2. CASE TooLarge(Head(pipe)) /\ Abort("output-too-large") /\ kept' = kept
    BY <1>6, <2>1, <2>2, SettleType DEF OnData, Abort, Rejections, Forced
  <2>3. CASE /\ kept' = kept + Head(pipe)
             /\ UNCHANGED <<outcome, timer, killed>>
    BY <1>6, <2>1, <2>3 DEF OnData
  <2> QED
    BY <1>6, <2>2, <2>3 DEF OnData
<1>7. CASE OnError
  BY <1>7, SettleType DEF OnError, Rejections
<1>8. CASE OnStdinError
  BY <1>8, SettleType DEF OnStdinError, Rejections, theirs
<1>9. CASE OnClose
  <2>1. Closed \in {"answer"} \cup Rejections
    BY DEF Closed, Rejections
  <2> QED
    BY <1>9, <2>1, SettleType DEF OnClose, theirs
<1>10. CASE OnTimer
  BY <1>10, SettleType DEF OnTimer, Abort, Rejections, Forced, theirs
<1> QED
  BY <1>1, <1>2, <1>3, <1>4, <1>5, <1>6, <1>7, <1>8, <1>9, <1>10 DEF Next

(***************************************************************************)
(* The buffer: a chunk is kept only when everything received with it is    *)
(* within the limit (client.mjs:40-47).                                    *)
(***************************************************************************)
LEMMA BufferStep ==
  ASSUME EngineClientAssumption, TypeOK, BufferBounded, KeptWasReceived,
         [Next]_vars
  PROVE  BufferBounded' /\ KeptWasReceived'
<1> USE DEF BufferBounded, KeptWasReceived
<1>1. CASE OnData
  <2>1. /\ Head(pipe) \in Nat /\ received \in Nat /\ kept \in Nat
        /\ MaxOutput \in Nat /\ received' = received + Head(pipe)
    BY <1>1, HeadOfPipe DEF OnData, TypeOK, EngineClientAssumption
  <2>2. CASE kept' = kept
    BY <2>1, <2>2
  <2>3. CASE ~TooLarge(Head(pipe)) /\ kept' = kept + Head(pipe)
    BY <2>1, <2>3 DEF TooLarge
  <2> QED
    BY <1>1, <2>2, <2>3 DEF OnData
<1>2. CASE UNCHANGED <<received, kept>>
  BY <1>2
<1> QED
  BY <1>1, <1>2 DEF Next, vars, Ask, AskInVain, ChildWrites, ChildExits,
     ChildDies, OnError, OnStdinError, OnClose, OnTimer, ours

(***************************************************************************)
(* The rest: one step per handler.  Settling twice changes nothing, so     *)
(* what a late handler could break is the timer, the kill signal and the   *)
(* claims about the child.                                                 *)
(***************************************************************************)
LEMMA SettledStep ==
  ASSUME EngineClientAssumption, IndInv, [Next]_vars
  PROVE  /\ AnswerIsWhole' /\ TimerGuardsTheQuestion' /\ ClosedIsDrained'
         /\ AnsweredIsClosed' /\ KilledIsSettled' /\ ForcedIsKilled'
<1> USE DEF IndInv, AnswerIsWhole, TimerGuardsTheQuestion, ClosedIsDrained,
            AnsweredIsClosed, KilledIsSettled, ForcedIsKilled, settled
<1>1. CASE Ask
  BY <1>1 DEF Ask, Forced
<1>2. CASE AskInVain
  BY <1>2 DEF AskInVain, Forced, TypeOK
<1>3. CASE ChildWrites
  BY <1>3 DEF ChildWrites, ours
<1>4. CASE ChildExits
  BY <1>4 DEF ChildExits, ours
<1>5. CASE ChildDies
  BY <1>5 DEF ChildDies, ours
<1>6. CASE OnData
  BY <1>6 DEF OnData, Abort, Settle, Forced
<1>7. CASE OnError
  BY <1>7 DEF OnError, Settle, Forced
<1>8. CASE OnStdinError
  BY <1>8 DEF OnStdinError, Settle, Forced, theirs
<1>9. CASE OnClose
  BY <1>9 DEF OnClose, Settle, Closed, Forced, theirs
<1>10. CASE OnTimer
  BY <1>10 DEF OnTimer, Abort, Settle, Forced, theirs
<1>11. CASE UNCHANGED vars
  BY <1>11 DEF vars
<1> QED
  BY <1>1, <1>2, <1>3, <1>4, <1>5, <1>6, <1>7, <1>8, <1>9, <1>10, <1>11
     DEF Next

\* The invariant holds of every reachable state.
LEMMA SpecIndInv == ASSUME EngineClientAssumption PROVE Spec => []IndInv
<1>1. Init => IndInv
  BY InitIndInv
<1>2. IndInv /\ [Next]_vars => IndInv'
  <2> SUFFICES ASSUME IndInv, [Next]_vars PROVE IndInv'
    OBVIOUS
  <2>1. TypeOK'
    <3>1. CASE Next
      BY <3>1, TypeStep DEF IndInv
    <3>2. CASE UNCHANGED vars
      BY <3>2 DEF IndInv, TypeOK, vars
    <3> QED
      BY <3>1, <3>2
  <2>2. BufferBounded' /\ KeptWasReceived'
    BY BufferStep DEF IndInv
  <2> QED
    BY <2>1, <2>2, SettledStep DEF IndInv
<1> QED
  BY <1>1, <1>2, PTL DEF Spec

(***************************************************************************)
(* Whatever order the handlers run in, and whatever the child does: the    *)
(* buffer stays within its limit, an answer is the whole output of a child *)
(* that ended well, a child given up is killed, and the timer is armed     *)
(* exactly while a spawned question is open (client.mjs:17-65).            *)
(***************************************************************************)
THEOREM ClientTheorem ==
  ASSUME EngineClientAssumption
  PROVE  Spec => []ClientInvariant
<1>1. IndInv => ClientInvariant
  BY DEF IndInv, ClientInvariant, ForcedIsKilled, ForcedOutIsKilled
<1> QED
  BY <1>1, SpecIndInv, PTL

(***************************************************************************)
(* The runner implements the safety part of OneAnswer: each of its steps   *)
(* asks, settles for the first time, or leaves the promise as it was       *)
(* (client.mjs:17-65).                                                     *)
(***************************************************************************)
THEOREM SettlesOnceTheorem ==
  ASSUME EngineClientAssumption
  PROVE  Spec => SettlesOnce
<1>1. Init => Promise!Init
  BY DEF Init, Promise!Init, Answered, settled
<1>2. IndInv /\ [Next]_vars => [Promise!Ask \/ Promise!Settle]_(Promise!vars)
  <2> SUFFICES ASSUME IndInv, [Next]_vars
               PROVE  [Promise!Ask \/ Promise!Settle]_(Promise!vars)
    OBVIOUS
  <2> USE DEF Promise!Ask, Promise!Settle, Promise!vars, Answered, settled
  <2>1. CASE Ask \/ AskInVain
    BY <2>1 DEF Ask, AskInVain
  <2>2. CASE ChildWrites \/ ChildExits \/ ChildDies \/ UNCHANGED vars
    BY <2>2 DEF ChildWrites, ChildExits, ChildDies, ours, vars
  <2>3. CASE OnData
    BY <2>3 DEF OnData, Abort, Settle
  <2>4. CASE OnError \/ OnStdinError \/ OnTimer
    BY <2>4 DEF OnError, OnStdinError, OnTimer, Abort, Settle, theirs
  <2>5. CASE OnClose
    BY <2>5 DEF OnClose, Settle, Closed, theirs
  <2> QED
    BY <2>1, <2>2, <2>3, <2>4, <2>5 DEF Next
<1> QED
  BY <1>1, <1>2, SpecIndInv, PTL DEF Spec, SettlesOnce, Promise!Safety
=============================================================================
