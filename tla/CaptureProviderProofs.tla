------------------------ MODULE CaptureProviderProofs ------------------------
(***************************************************************************)
(* Proofs about CaptureProvider, for any number of requests, in whatever   *)
(* order their bodies come, with and without a file that may fail.         *)
(***************************************************************************)
EXTENDS CaptureProvider, FiniteSetTheorems, SequenceTheorems, TLAPS

-----------------------------------------------------------------------------
(* The inductive invariant *)

Counted == {r \in Requests : phase[r] # "none"}

\* A request waits for one append, which is its own.
ChainIsWaiting ==
  /\ \A i \in DOMAIN chain : phase[chain[i].request] = "append"
  /\ \A i, j \in DOMAIN chain : chain[i].request = chain[j].request => i = j

\* Whoever is past its append is in the file.
PastIsRecorded ==
  WritesToFile => \A r \in Requests :
    phase[r] \in {"answer", "answered"} =>
      \E i \in DOMAIN file : file[i].request = r

\* The captures begin with the file, and until an append fails the chain is
\* the rest of them.
FileIsBeginning ==
  /\ Len(file) =< Len(captures)
  /\ \A i \in 1..Len(file) : file[i] = captures[i]

ChainIsRest ==
  WritesToFile /\ ~stuck =>
    /\ Len(captures) = Len(file) + Len(chain)
    /\ \A i \in 1..Len(chain) : chain[i] = captures[Len(file) + i]

NoFileNoChain == ~WritesToFile => chain = <<>> /\ file = <<>>

\* Numbers are counts of requests, which only grow; a captured request was
\* counted before, and let in.
NumbersAreCounts ==
  /\ \A r \in Requests : arrival[r] =< semanticRequests
  /\ \A i \in DOMAIN captures : captures[i].sequence =< semanticRequests

CapturedIsPast ==
  \A i \in DOMAIN captures :
    phase[captures[i].request] \in {"append", "answer", "failed", "answered"}

LetInIsExpected ==
  Expected > 0 =>
    \A r \in Requests : phase[r] = "body" => arrival[r] =< Expected

IndInv ==
  /\ CaptureTypeOK /\ IsFiniteSet(Counted) /\ ChainIsWaiting /\ PastIsRecorded
  /\ FileIsBeginning /\ ChainIsRest /\ NoFileNoChain /\ NumbersAreCounts
  /\ CapturedIsPast /\ LetInIsExpected /\ SequencesGrow /\ NoMoreThanExpected

-----------------------------------------------------------------------------
(* What the types say *)

\* Sequences of entries, their lengths and their elements.
LEMMA EntrySeq ==
  ASSUME NEW s \in Seq(Entry)
  PROVE  /\ Len(s) \in Nat
         /\ DOMAIN s = 1..Len(s)
         /\ \A i \in 1..Len(s) : /\ s[i] \in Entry
                                 /\ s[i].request \in Requests
                                 /\ s[i].sequence \in Nat
<1>1. /\ Len(s) \in Nat /\ DOMAIN s = 1..Len(s)
      /\ \A i \in 1..Len(s) : s[i] \in Entry
  BY LenProperties, ElementOfSeq
<1> QED
  BY <1>1 DEF Entry

\* Appending an entry keeps the others where they were.
LEMMA AppendEntry ==
  ASSUME NEW s \in Seq(Entry), NEW e \in Entry, NEW t, t = Append(s, e)
  PROVE  /\ t \in Seq(Entry)
         /\ Len(t) = Len(s) + 1
         /\ \A i \in 1..Len(s) : t[i] = s[i]
         /\ t[Len(s) + 1] = e
  BY AppendProperties

\* Taking the first entry away moves every other one place forward.
LEMMA TailEntry ==
  ASSUME NEW s \in Seq(Entry), s # <<>>, NEW t, t = Tail(s)
  PROVE  /\ Len(s) \in Nat \ {0} /\ Head(s) = s[1] /\ Head(s) \in Entry
         /\ t \in Seq(Entry)
         /\ Len(t) = Len(s) - 1
         /\ \A i \in 1..Len(t) : t[i] = s[i + 1]
  BY HeadTailProperties, EmptySeq, ElementOfSeq

\* A provider that was just created has a sound, empty record.
LEMMA InitIndInv == ASSUME CaptureAssumption, CaptureInit PROVE IndInv
<1>1. <<>> \in Seq(Entry) /\ Len(<<>>) = 0 /\ DOMAIN <<>> = 1..0
  BY EmptySeq
<1>2. Cardinality(Requests) \in Nat
  BY FS_CardinalityType DEF CaptureAssumption
<1>3. Counted = {} /\ IsFiniteSet(Counted) /\ Cardinality(Counted) = 0
  BY FS_EmptySet DEF CaptureInit, Counted
<1>4. CaptureTypeOK
  <2>1. semanticRequests = Cardinality(Counted)
    BY <1>3 DEF CaptureInit
  <2>2. /\ phase \in [Requests -> Phases]
        /\ arrival \in [Requests -> 0..Cardinality(Requests)]
    BY <1>2 DEF CaptureInit, Phases
  <2>3. /\ captures \in Seq(Entry) /\ chain \in Seq(Entry)
        /\ file \in Seq(Entry)
        /\ stuck \in BOOLEAN
    BY <1>1 DEF CaptureInit
  <2>4. \A i \in DOMAIN chain : phase[chain[i].request] = "append"
    BY <1>1 DEF CaptureInit
  <2> QED
    BY <2>1, <2>2, <2>3, <2>4 DEF CaptureTypeOK, Counted
<1>5. /\ ChainIsWaiting /\ PastIsRecorded /\ FileIsBeginning /\ ChainIsRest
      /\ NoFileNoChain
  BY <1>1 DEF CaptureInit, ChainIsWaiting, PastIsRecorded, FileIsBeginning,
     ChainIsRest, NoFileNoChain
<1>6. /\ NumbersAreCounts /\ CapturedIsPast /\ LetInIsExpected
      /\ SequencesGrow /\ NoMoreThanExpected
  BY <1>1 DEF CaptureInit, NumbersAreCounts, CapturedIsPast, LetInIsExpected,
     SequencesGrow, NoMoreThanExpected
<1> QED
  BY <1>3, <1>4, <1>5, <1>6 DEF IndInv
-----------------------------------------------------------------------------
(* One lemma per action *)

\* What a step leaves alone when it changes the phase of one request.
OnlyPhaseOf(r, p) ==
  /\ phase' = [phase EXCEPT ![r] = p]
  /\ UNCHANGED <<arrival, semanticRequests, captures, chain, stuck, file>>

(***************************************************************************)
(* BadBody and Respond: a handler ends or answers.  It waits for no        *)
(* append, and answers only when its request is in the file.               *)
(***************************************************************************)
LEMMA PhaseStep ==
  ASSUME IndInv, NEW r \in Requests, NEW p \in Phases, OnlyPhaseOf(r, p),
         \/ phase[r] = "body" /\ p = "failed"
         \/ phase[r] = "answer" /\ p \in {"failed", "answered"}
  PROVE  IndInv'
<1> USE DEF IndInv, OnlyPhaseOf
<1>1. phase \in [Requests -> Phases] /\ phase' \in [Requests -> Phases]
  BY DEF CaptureTypeOK
<1>2. \A q \in Requests : phase'[q] = IF q = r THEN p ELSE phase[q]
  BY <1>1
<1>3. Counted' = Counted
  BY <1>2 DEF Counted
<1>4. /\ \A i \in DOMAIN chain : chain[i].request \in Requests
      /\ \A i \in DOMAIN captures : captures[i].request \in Requests
  BY EntrySeq DEF CaptureTypeOK
<1>5. ChainIsWaiting'
  BY <1>2, <1>4 DEF ChainIsWaiting
<1>6. CaptureTypeOK' /\ IsFiniteSet(Counted)'
  <2>1. semanticRequests' = Cardinality(Counted')
    BY <1>3 DEF CaptureTypeOK, Counted
  <2>2. \A i \in DOMAIN chain' : phase'[chain'[i].request] = "append"
    BY <1>5 DEF ChainIsWaiting
  <2> QED
    BY <1>1, <1>3, <2>1, <2>2 DEF CaptureTypeOK, Counted
<1>7. PastIsRecorded' /\ CapturedIsPast' /\ LetInIsExpected'
  BY <1>2, <1>4 DEF PastIsRecorded, CapturedIsPast, LetInIsExpected
<1>8. /\ FileIsBeginning' /\ ChainIsRest' /\ NoFileNoChain'
      /\ NumbersAreCounts' /\ SequencesGrow' /\ NoMoreThanExpected'
  BY DEF FileIsBeginning, ChainIsRest, NoFileNoChain, NumbersAreCounts,
     SequencesGrow, NoMoreThanExpected
<1> QED
  BY <1>5, <1>6, <1>7, <1>8

(***************************************************************************)
(* Post: a request is counted, and let in or refused (provider.mjs:150-158)*)
(***************************************************************************)
LEMMA PostStep ==
  ASSUME CaptureAssumption, IndInv, NEW r \in Requests, Post(r)
  PROVE  IndInv'
<1> USE DEF IndInv
<1> DEFINE n == semanticRequests + 1
           p == IF TooMany(n) THEN "refused" ELSE "body"
<1>1. /\ phase[r] = "none" /\ semanticRequests' = n
      /\ arrival' = [arrival EXCEPT ![r] = n]
      /\ phase' = [phase EXCEPT ![r] = p]
      /\ UNCHANGED <<captures, chain, stuck, file>>
  BY DEF Post
<1>2. phase \in [Requests -> Phases] /\ p \in Phases \ {"none"}
  BY DEF CaptureTypeOK, Phases
<1>3. \A q \in Requests : phase'[q] = IF q = r THEN p ELSE phase[q]
  BY <1>1, <1>2
<1>4. Counted' = Counted \cup {r} /\ r \notin Counted
  BY <1>1, <1>2, <1>3 DEF Counted
<1>5. /\ semanticRequests = Cardinality(Counted) /\ semanticRequests \in Nat
      /\ IsFiniteSet(Counted') /\ Cardinality(Counted') = n
  <2>1. semanticRequests = Cardinality(Counted)
    BY DEF CaptureTypeOK, Counted
  <2>2. IsFiniteSet(Counted)
    OBVIOUS
  <2>3. semanticRequests \in Nat
    BY <2>1, <2>2, FS_CardinalityType
  <2>4. /\ IsFiniteSet(Counted \cup {r})
        /\ Cardinality(Counted \cup {r}) = Cardinality(Counted) + 1
    BY <1>4, <2>2, FS_AddElement
  <2> QED
    BY <1>4, <2>1, <2>3, <2>4
<1>6. n \in 0..Cardinality(Requests) /\ Cardinality(Requests) \in Nat
  BY <1>5, FS_Subset, FS_CardinalityType DEF CaptureAssumption, Counted
<1>7. /\ \A i \in DOMAIN chain : chain[i].request \in Requests
      /\ \A i \in DOMAIN captures : /\ captures[i].request \in Requests
                                    /\ captures[i].sequence \in Nat
  BY EntrySeq DEF CaptureTypeOK
<1>8. ChainIsWaiting'
  BY <1>1, <1>3, <1>7 DEF ChainIsWaiting
<1>9. /\ arrival \in [Requests -> 0..Cardinality(Requests)]
      /\ arrival' \in [Requests -> 0..Cardinality(Requests)]
      /\ \A q \in Requests : arrival'[q] = IF q = r THEN n ELSE arrival[q]
  BY <1>1, <1>6 DEF CaptureTypeOK
<1>10. CaptureTypeOK'
  <2>1. semanticRequests' = Cardinality(Counted')
    BY <1>1, <1>5
  <2>2. \A i \in DOMAIN chain' : phase'[chain'[i].request] = "append"
    BY <1>8 DEF ChainIsWaiting
  <2>3. phase' \in [Requests -> Phases]
    BY <1>1, <1>2
  <2> QED
    BY <1>1, <1>9, <2>1, <2>2, <2>3 DEF CaptureTypeOK, Counted
<1>11. PastIsRecorded' /\ CapturedIsPast'
  BY <1>1, <1>3, <1>7 DEF PastIsRecorded, CapturedIsPast
<1>12. LetInIsExpected'
  <2> SUFFICES ASSUME Expected > 0, NEW q \in Requests, phase'[q] = "body"
               PROVE  arrival'[q] =< Expected
    BY DEF LetInIsExpected
  <2>1. CASE q = r
    BY <1>3, <1>5, <1>9, <2>1 DEF TooMany, CaptureAssumption
  <2>2. CASE q # r
    BY <1>3, <1>9, <2>2 DEF LetInIsExpected
  <2> QED
    BY <2>1, <2>2
<1>13. NumbersAreCounts'
  BY <1>1, <1>5, <1>7, <1>9 DEF NumbersAreCounts
<1>14. \A i \in DOMAIN captures : captures[i].request # r
  BY <1>1 DEF CapturedIsPast
<1>15. SequencesGrow' /\ NoMoreThanExpected'
  BY <1>1, <1>7, <1>9, <1>14 DEF SequencesGrow, NoMoreThanExpected
<1>16. FileIsBeginning' /\ ChainIsRest' /\ NoFileNoChain'
  BY <1>1 DEF FileIsBeginning, ChainIsRest, NoFileNoChain
<1> QED
  BY <1>5, <1>8, <1>10, <1>11, <1>12, <1>13, <1>15, <1>16

(***************************************************************************)
(* Record: the body has come; the entry ends the captures and, with a      *)
(* file, the chain (provider.mjs:112-135).                                 *)
(***************************************************************************)
LEMMA RecordStep ==
  ASSUME CaptureAssumption, IndInv, NEW r \in Requests, Record(r)
  PROVE  IndInv'
<1> USE DEF IndInv
<1> DEFINE entry == [request |-> r, sequence |-> semanticRequests]
           p == IF WritesToFile THEN "append" ELSE "answer"
<1>1. /\ phase[r] = "body" /\ phase' = [phase EXCEPT ![r] = p]
      /\ captures' = Append(captures, entry)
      /\ chain' = IF WritesToFile THEN Append(chain, entry) ELSE chain
      /\ UNCHANGED <<arrival, semanticRequests, stuck, file>>
  BY DEF Record
<1>2. phase \in [Requests -> Phases] /\ phase' \in [Requests -> Phases]
  BY <1>1 DEF CaptureTypeOK, Phases
<1>3. \A q \in Requests : phase'[q] = IF q = r THEN p ELSE phase[q]
  BY <1>1, <1>2
<1>4. Counted' = Counted
  BY <1>1, <1>3 DEF Counted
<1>5. semanticRequests \in Nat
  <2>1. semanticRequests = Cardinality(Counted)
    BY DEF CaptureTypeOK, Counted
  <2> QED
    BY <2>1, FS_CardinalityType
<1>6. entry \in Entry /\ entry.request = r /\ entry.sequence = semanticRequests
  BY <1>5 DEF Entry
<1>7. captures \in Seq(Entry) /\ chain \in Seq(Entry) /\ file \in Seq(Entry)
  BY DEF CaptureTypeOK
<1>8. /\ Len(captures) \in Nat /\ DOMAIN captures = 1..Len(captures)
      /\ \A i \in 1..Len(captures) : /\ captures[i].request \in Requests
                                    /\ captures[i].sequence \in Nat
  BY <1>7, EntrySeq
<1>9. /\ captures' \in Seq(Entry) /\ Len(captures') = Len(captures) + 1
      /\ \A i \in 1..Len(captures) : captures'[i] = captures[i]
      /\ captures'[Len(captures) + 1] = entry
      /\ DOMAIN captures' = 1..(Len(captures) + 1)
  <2> HIDE DEF entry
  <2> QED
    BY <1>1, <1>6, <1>7, AppendEntry, LenProperties
<1>10. /\ Len(chain) \in Nat /\ DOMAIN chain = 1..Len(chain)
       /\ \A i \in 1..Len(chain) : chain[i].request \in Requests
  BY <1>7, EntrySeq
<1>11. WritesToFile => /\ chain' \in Seq(Entry) /\ Len(chain') = Len(chain) + 1
                       /\ \A i \in 1..Len(chain) : chain'[i] = chain[i]
                       /\ chain'[Len(chain) + 1] = entry
                       /\ DOMAIN chain' = 1..(Len(chain) + 1)
  <2> HIDE DEF entry
  <2> QED
    BY <1>1, <1>6, <1>7, AppendEntry, LenProperties
<1>12. Len(file) \in Nat /\ DOMAIN file = 1..Len(file)
  BY <1>7, EntrySeq
<1> HIDE DEF entry
<1>13. ChainIsWaiting'
  <2>1. CASE WritesToFile
    <3>1. \A i \in 1..Len(chain) : chain[i].request # r
      BY <1>1, <1>10 DEF ChainIsWaiting
    <3>2. \A i \in DOMAIN chain' : phase'[chain'[i].request] = "append"
      <4> SUFFICES ASSUME NEW i \in 1..(Len(chain) + 1)
                   PROVE  phase'[chain'[i].request] = "append"
        BY <1>11, <2>1
      <4>1. CASE i = Len(chain) + 1
        BY <1>3, <1>6, <1>11, <2>1, <4>1
      <4>2. CASE i # Len(chain) + 1
        <5>1. i \in 1..Len(chain)
          BY <1>10, <4>2
        <5> QED
          BY <1>3, <1>10, <1>11, <2>1, <3>1, <5>1 DEF ChainIsWaiting
      <4> QED
        BY <4>1, <4>2
    <3>3. \A i, j \in DOMAIN chain' :
            chain'[i].request = chain'[j].request => i = j
      <4> SUFFICES ASSUME NEW i \in 1..(Len(chain) + 1),
                          NEW j \in 1..(Len(chain) + 1),
                          chain'[i].request = chain'[j].request
                   PROVE  i = j
        BY <1>11, <2>1
      <4>1. \A k \in 1..(Len(chain) + 1) :
              k = Len(chain) + 1 \/ k \in 1..Len(chain)
        BY <1>10
      <4> QED
        BY <1>6, <1>10, <1>11, <2>1, <3>1, <4>1 DEF ChainIsWaiting
    <3> QED
      BY <3>2, <3>3 DEF ChainIsWaiting
  <2>2. CASE ~WritesToFile
    BY <1>1, <1>3, <1>10, <2>2 DEF ChainIsWaiting
  <2> QED
    BY <2>1, <2>2
<1>14. CaptureTypeOK' /\ IsFiniteSet(Counted)'
  <2>1. semanticRequests' = Cardinality(Counted')
    BY <1>1, <1>4 DEF CaptureTypeOK, Counted
  <2>2. \A i \in DOMAIN chain' : phase'[chain'[i].request] = "append"
    BY <1>13 DEF ChainIsWaiting
  <2>3. chain' \in Seq(Entry)
    BY <1>1, <1>7, <1>11
  <2>4. arrival' \in [Requests -> 0..Cardinality(Requests)]
    BY <1>1 DEF CaptureTypeOK
  <2>5. file' \in Seq(Entry) /\ stuck' \in BOOLEAN
    BY <1>1 DEF CaptureTypeOK
  <2> QED
    BY <1>2, <1>4, <1>9, <2>1, <2>2, <2>3, <2>4, <2>5 DEF CaptureTypeOK, Counted
<1>15. PastIsRecorded' /\ LetInIsExpected'
  BY <1>1, <1>3 DEF PastIsRecorded, LetInIsExpected
<1>16. FileIsBeginning' /\ NoFileNoChain'
  BY <1>1, <1>8, <1>9, <1>12 DEF FileIsBeginning, NoFileNoChain
<1>17. ChainIsRest'
  <2> SUFFICES ASSUME WritesToFile, ~stuck
               PROVE  /\ Len(captures') = Len(file) + Len(chain')
                      /\ \A i \in 1..Len(chain') :
                           chain'[i] = captures'[Len(file) + i]
    BY <1>1 DEF ChainIsRest
  <2>1. /\ Len(captures) = Len(file) + Len(chain)
        /\ \A i \in 1..Len(chain) : chain[i] = captures[Len(file) + i]
    BY DEF ChainIsRest
  <2>2. ASSUME NEW i \in 1..(Len(chain) + 1)
        PROVE  chain'[i] = captures'[Len(file) + i]
    <3>1. CASE i = Len(chain) + 1
      <4>1. Len(file) + i = Len(captures) + 1
        BY <1>10, <1>12, <2>1, <3>1
      <4> QED
        BY <1>9, <1>11, <3>1, <4>1
    <3>2. CASE i # Len(chain) + 1
      <4>1. i \in 1..Len(chain) /\ Len(file) + i \in 1..Len(captures)
        BY <1>10, <1>12, <2>1, <3>2
      <4> QED
        BY <1>9, <1>11, <2>1, <4>1
    <3> QED
      BY <3>1, <3>2
  <2> QED
    BY <1>9, <1>10, <1>11, <1>12, <2>1, <2>2
<1>18. \A i \in DOMAIN captures' : \/ i \in DOMAIN captures
                                       /\ captures'[i] = captures[i]
                                   \/ i = Len(captures) + 1
                                       /\ captures'[i] = entry
  BY <1>8, <1>9
<1>19. NumbersAreCounts'
  BY <1>1, <1>5, <1>6, <1>18 DEF NumbersAreCounts
<1>20. CapturedIsPast'
  BY <1>1, <1>3, <1>6, <1>8, <1>18 DEF CapturedIsPast
<1>21. NoMoreThanExpected'
  BY <1>1, <1>6, <1>18 DEF NoMoreThanExpected, LetInIsExpected
<1>22. SequencesGrow'
  <2> SUFFICES ASSUME NEW i \in DOMAIN captures'
               PROVE  /\ captures'[i].sequence >= arrival[captures'[i].request]
                      /\ i > 1 =>
                           captures'[i].sequence >= captures'[i - 1].sequence
    BY <1>1 DEF SequencesGrow
  <2>1. CASE i = Len(captures) + 1 /\ captures'[i] = entry
    <3>1. arrival[r] =< semanticRequests /\ arrival[r] \in Nat
      BY DEF NumbersAreCounts, CaptureTypeOK
    <3>2. ASSUME i > 1
          PROVE  captures'[i - 1].sequence =< semanticRequests
      BY <1>8, <1>9, <2>1, <3>2 DEF NumbersAreCounts
    <3>3. i > 1 => captures'[i - 1].sequence \in Nat
      BY <1>8, <1>9, <2>1
    <3> QED
      BY <1>5, <1>6, <2>1, <3>1, <3>2, <3>3
  <2>2. CASE i \in DOMAIN captures /\ captures'[i] = captures[i]
    <3>1. i > 1 => captures'[i - 1] = captures[i - 1]
      BY <1>8, <1>9, <2>2
    <3> QED
      BY <2>2, <3>1 DEF SequencesGrow
  <2> QED
    BY <1>18, <2>1, <2>2
<1> QED
  BY <1>13, <1>14, <1>15, <1>16, <1>17, <1>19, <1>20, <1>21, <1>22

(***************************************************************************)
(* AppendFile: the head of the chain is written, and its handler goes on;  *)
(* or the append fails, and every later one with it (provider.mjs:126-133).*)
(***************************************************************************)
LEMMA AppendFileStep ==
  ASSUME CaptureAssumption, IndInv, AppendFile
  PROVE  IndInv'
<1> USE DEF IndInv
<1> DEFINE first == Head(chain)
           r == first.request
<1>1. /\ chain # <<>> /\ chain' = Tail(chain)
      /\ UNCHANGED <<arrival, semanticRequests, captures>>
  BY DEF AppendFile
<1>2. captures \in Seq(Entry) /\ chain \in Seq(Entry) /\ file \in Seq(Entry)
  BY DEF CaptureTypeOK
<1>3. /\ Len(chain) \in Nat \ {0} /\ first = chain[1] /\ first \in Entry
      /\ chain' \in Seq(Entry) /\ Len(chain') = Len(chain) - 1
      /\ \A i \in 1..Len(chain') : chain'[i] = chain[i + 1]
  BY <1>1, <1>2, TailEntry
<1>4. /\ DOMAIN chain = 1..Len(chain) /\ DOMAIN chain' = 1..Len(chain')
      /\ \A i \in 1..Len(chain) : chain[i].request \in Requests
      /\ DOMAIN file = 1..Len(file) /\ Len(file) \in Nat
      /\ DOMAIN captures = 1..Len(captures) /\ Len(captures) \in Nat
      /\ \A i \in 1..Len(captures) : captures[i].request \in Requests
  BY <1>2, <1>3, EntrySeq
<1>5. r \in Requests /\ phase[r] = "append"
  BY <1>3, <1>4 DEF Entry, ChainIsWaiting
<1> HIDE DEF first
<1>6. PICK p \in {"answer", "failed"} : phase' = [phase EXCEPT ![r] = p]
  BY DEF AppendFile, first
<1>7. phase \in [Requests -> Phases] /\ phase' \in [Requests -> Phases]
  BY <1>6 DEF CaptureTypeOK, Phases
<1>8. \A q \in Requests : phase'[q] = IF q = r THEN p ELSE phase[q]
  BY <1>6, <1>7
<1>9. Counted' = Counted
  BY <1>5, <1>8 DEF Counted
<1>10. \A i \in 1..Len(chain') : chain'[i].request # r
  <2> TAKE i \in 1..Len(chain')
  <2>1. i + 1 \in DOMAIN chain /\ 1 \in DOMAIN chain /\ i + 1 # 1
    BY <1>3, <1>4
  <2> QED
    BY <1>3, <2>1 DEF ChainIsWaiting
<1>11. ChainIsWaiting'
  <2>1. \A i \in DOMAIN chain' : /\ i \in 1..Len(chain') /\ i \in Int
                                 /\ i + 1 \in DOMAIN chain
                                 /\ chain'[i] = chain[i + 1]
    BY <1>3, <1>4
  <2>2. \A i \in DOMAIN chain' : phase'[chain'[i].request] = "append"
    <3> TAKE i \in DOMAIN chain'
    <3>1. /\ phase[chain'[i].request] = "append"
          /\ chain'[i].request \in Requests /\ chain'[i].request # r
      BY <1>4, <1>10, <2>1 DEF ChainIsWaiting
    <3> QED
      BY <1>8, <3>1
  <2>3. ASSUME NEW i \in DOMAIN chain', NEW j \in DOMAIN chain',
               chain'[i].request = chain'[j].request
        PROVE  i = j
    <3>1. i + 1 = j + 1
      BY <2>1, <2>3 DEF ChainIsWaiting
    <3> QED
      BY <2>1, <3>1
  <2> QED
    BY <2>2, <2>3 DEF ChainIsWaiting
<1>12. /\ NumbersAreCounts' /\ SequencesGrow' /\ NoMoreThanExpected'
  BY <1>1 DEF NumbersAreCounts, SequencesGrow, NoMoreThanExpected
<1>13. CapturedIsPast' /\ LetInIsExpected'
  BY <1>1, <1>4, <1>8 DEF CapturedIsPast, LetInIsExpected
<1>14. WritesToFile
  BY <1>1 DEF NoFileNoChain
<1>15. file' \in Seq(Entry) /\ stuck' \in BOOLEAN
  <2>1. CASE file' = Append(file, first) /\ UNCHANGED stuck
    BY <1>2, <1>3, <2>1, AppendEntry DEF CaptureTypeOK
  <2>2. CASE UNCHANGED file /\ stuck' = TRUE
    BY <1>2, <2>2
  <2> QED
    BY <2>1, <2>2 DEF AppendFile, first
<1>16. CaptureTypeOK' /\ IsFiniteSet(Counted)'
  <2>1. semanticRequests' = Cardinality(Counted')
    BY <1>1, <1>9 DEF CaptureTypeOK, Counted
  <2>2. \A i \in DOMAIN chain' : phase'[chain'[i].request] = "append"
    BY <1>11 DEF ChainIsWaiting
  <2>3. /\ arrival' \in [Requests -> 0..Cardinality(Requests)]
        /\ captures' \in Seq(Entry)
    BY <1>1 DEF CaptureTypeOK
  <2> QED
    BY <1>3, <1>7, <1>9, <1>15, <2>1, <2>2, <2>3 DEF CaptureTypeOK, Counted
<1>17. PastIsRecorded' /\ FileIsBeginning' /\ ChainIsRest'
  <2>1. CASE /\ ~stuck /\ file' = Append(file, first) /\ UNCHANGED stuck
    <3>1. /\ Len(file') = Len(file) + 1
          /\ \A i \in 1..Len(file) : file'[i] = file[i]
          /\ file'[Len(file) + 1] = first
          /\ DOMAIN file' = 1..(Len(file) + 1)
      BY <1>2, <1>3, <2>1, AppendEntry, LenProperties
    <3>2. /\ Len(captures) = Len(file) + Len(chain)
          /\ \A i \in 1..Len(chain) : chain[i] = captures[Len(file) + i]
      BY <1>14, <2>1 DEF ChainIsRest
    <3>3. first = captures[Len(file) + 1]
      BY <1>3, <3>2
    <3>4. FileIsBeginning'
      BY <1>1, <1>3, <1>4, <3>1, <3>2, <3>3 DEF FileIsBeginning
    <3>5. ChainIsRest'
      <4>1. Len(captures) = Len(file') + Len(chain')
        BY <1>3, <1>4, <3>1, <3>2
      <4>2. ASSUME NEW i \in 1..Len(chain')
            PROVE  chain'[i] = captures[Len(file') + i]
        <5>1. /\ i + 1 \in 1..Len(chain)
              /\ Len(file) + (i + 1) = Len(file') + i
          BY <1>3, <1>4, <3>1
        <5> QED
          BY <1>3, <3>2, <5>1
      <4> QED
        BY <1>1, <4>1, <4>2 DEF ChainIsRest
    <3>6. PastIsRecorded'
      <4> SUFFICES ASSUME NEW q \in Requests,
                          phase'[q] \in {"answer", "answered"}
                   PROVE  \E i \in DOMAIN file' : file'[i].request = q
        BY DEF PastIsRecorded
      <4>1. CASE q = r
        <5>1. Len(file) + 1 \in DOMAIN file'
          BY <1>4, <3>1
        <5> QED
          BY <3>1, <4>1, <5>1
      <4>2. CASE q # r
        <5>1. PICK i \in DOMAIN file : file[i].request = q
          BY <1>8, <1>14, <4>2 DEF PastIsRecorded
        <5>2. i \in DOMAIN file' /\ file'[i] = file[i]
          BY <1>4, <3>1, <5>1
        <5> QED
          BY <5>1, <5>2
      <4> QED
        BY <4>1, <4>2
    <3> QED
      BY <3>4, <3>5, <3>6
  <2>2. CASE /\ stuck' = TRUE /\ UNCHANGED file
             /\ phase' = [phase EXCEPT ![r] = "failed"]
    <3>1. \A q \in Requests : phase'[q] = IF q = r THEN "failed" ELSE phase[q]
      BY <1>7, <2>2
    <3> QED
      BY <1>1, <2>2, <3>1 DEF PastIsRecorded, FileIsBeginning, ChainIsRest
  <2> QED
    BY <2>1, <2>2 DEF AppendFile, first
<1>18. NoFileNoChain'
  BY <1>14 DEF NoFileNoChain
<1> QED
  BY <1>11, <1>12, <1>13, <1>16, <1>17, <1>18

-----------------------------------------------------------------------------
(* The theorem *)

\* Every step of the provider keeps the invariant.
LEMMA NextIndInv ==
  ASSUME CaptureAssumption, IndInv, [CaptureNext]_captureVars PROVE IndInv'
<1>1. CASE AppendFile
  BY <1>1, AppendFileStep
<1>2. ASSUME NEW r \in Requests, Post(r) PROVE IndInv'
  BY <1>2, PostStep
<1>3. ASSUME NEW r \in Requests, BadBody(r) PROVE IndInv'
  <2>1. OnlyPhaseOf(r, "failed") /\ phase[r] = "body" /\ "failed" \in Phases
    BY <1>3 DEF BadBody, OnlyPhaseOf, Phases
  <2> QED
    BY <2>1, PhaseStep
<1>4. ASSUME NEW r \in Requests, Record(r) PROVE IndInv'
  BY <1>4, RecordStep
<1>5. ASSUME NEW r \in Requests, Respond(r) PROVE IndInv'
  <2> DEFINE p == IF r \in Streaming THEN "failed" ELSE "answered"
  <2>1. /\ OnlyPhaseOf(r, p) /\ phase[r] = "answer"
        /\ p \in Phases /\ p \in {"failed", "answered"}
    BY <1>5 DEF Respond, OnlyPhaseOf, Phases
  <2> QED
    BY <2>1, PhaseStep
<1>6. CASE UNCHANGED captureVars
  <2>1. /\ UNCHANGED <<phase, arrival, semanticRequests, captures, chain>>
        /\ UNCHANGED <<stuck, file>>
    BY <1>6 DEF captureVars
  <2>2. CaptureTypeOK' /\ IsFiniteSet(Counted)'
    BY <2>1 DEF IndInv, CaptureTypeOK, Counted
  <2>3. /\ ChainIsWaiting' /\ PastIsRecorded' /\ FileIsBeginning'
        /\ ChainIsRest' /\ NoFileNoChain'
    BY <2>1 DEF IndInv, ChainIsWaiting, PastIsRecorded, FileIsBeginning,
       ChainIsRest, NoFileNoChain
  <2>4. /\ NumbersAreCounts' /\ CapturedIsPast' /\ LetInIsExpected'
        /\ SequencesGrow' /\ NoMoreThanExpected'
    BY <2>1 DEF IndInv, NumbersAreCounts, CapturedIsPast, LetInIsExpected,
       SequencesGrow, NoMoreThanExpected
  <2> QED
    BY <2>2, <2>3, <2>4 DEF IndInv
<1> QED
  BY <1>1, <1>2, <1>3, <1>4, <1>5, <1>6 DEF CaptureNext

\* The file is a prefix of the captures, element by element.
LEMMA BeginningIsPrefix ==
  ASSUME CaptureTypeOK, FileIsBeginning
  PROVE  FileFollowsCaptures
<1>1. /\ file \in Seq(Entry) /\ captures \in Seq(Entry)
      /\ Len(file) \in Nat /\ Len(captures) \in Nat
      /\ Len(file) =< Len(captures)
  BY EntrySeq DEF CaptureTypeOK, FileIsBeginning
<1>2. /\ 1 \in 1..(Len(captures) + 1) /\ Len(file) \in 0..Len(captures)
      /\ 1 \in 1..(Len(file) + 1) /\ Len(file) \in 0..Len(file)
  BY <1>1
<1>3. /\ SubSeq(captures, 1, Len(file)) \in Seq(Entry)
      /\ Len(SubSeq(captures, 1, Len(file))) = Len(file)
      /\ \A i \in 1..Len(file) :
           SubSeq(captures, 1, Len(file))[i] = captures[i]
  BY <1>1, <1>2, SubSeqProperties
<1>4. SubSeq(captures, 1, Len(file)) = file
  BY <1>1, <1>3, SeqEqual DEF FileIsBeginning
<1>5. SubSeq(file, 1, Len(file)) = file
  BY <1>1, SubSeqFull
<1> QED
  BY <1>1, <1>4, <1>5 DEF FileFollowsCaptures, IsPrefix

(***************************************************************************)
(* In whatever order bodies come, end badly and are appended, the file is  *)
(* the beginning of the captures, an answered request is in it, the        *)
(* numbers of the captures never fall behind a request's place, and none   *)
(* beyond the expected number is recorded (provider.mjs:112-161).          *)
(***************************************************************************)
THEOREM RecordingTheorem ==
  ASSUME CaptureAssumption PROVE CaptureSpec => []RecordingInvariant
<1>1. CaptureInit => IndInv
  BY InitIndInv
<1>2. IndInv /\ [CaptureNext]_captureVars => IndInv'
  BY NextIndInv
<1>3. IndInv => RecordingInvariant
  <2> SUFFICES ASSUME IndInv PROVE RecordingInvariant
    OBVIOUS
  <2>1. FileFollowsCaptures
    BY BeginningIsPrefix DEF IndInv
  <2>2. AnsweredIsRecorded
    BY DEF IndInv, AnsweredIsRecorded, PastIsRecorded
  <2> QED
    BY <2>1, <2>2 DEF IndInv, RecordingInvariant
<1> QED
  BY <1>1, <1>2, <1>3, PTL DEF CaptureSpec
=============================================================================
