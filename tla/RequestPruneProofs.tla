-------------------------- MODULE RequestPruneProofs --------------------------
(***************************************************************************)
(* Lemmas about the rewriting of a request, for any transcript, any files  *)
(* and any calls.  The theorems about the two adapters rest on them.       *)
(***************************************************************************)
EXTENDS RequestPrune, FiniteSetTheorems, FunctionTheorems, SequenceTheorems,
        TLAPS

-----------------------------------------------------------------------------
(* What stands at some places of a sequence *)

\* How many of the places there are up to one of them.
Rank(places, i) == Cardinality({j \in places : j =< i})

\* Later places have higher ranks, and none is beyond the number of places.
LEMMA RankGrows ==
  ASSUME NEW n \in Nat, NEW places \in SUBSET (1..n)
  PROVE  /\ IsFiniteSet(places) /\ Cardinality(places) \in Nat
         /\ \A i \in places : Rank(places, i) \in 1..Cardinality(places)
         /\ \A i, j \in places : i < j => Rank(places, i) < Rank(places, j)
<1>1. IsFiniteSet(places)
  <2>1. IsFiniteSet(1..n)
    BY FS_Interval
  <2> QED
    BY <2>1, FS_Subset
<1>2. Cardinality(places) \in Nat
  BY <1>1, FS_CardinalityType
<1>3. ASSUME NEW i \in places
      PROVE  /\ IsFiniteSet({j \in places : j =< i})
             /\ Rank(places, i) \in 1..Cardinality(places)
  <2> DEFINE below == {j \in places : j =< i}
  <2>1. below \in SUBSET places /\ i \in below
    OBVIOUS
  <2>2. /\ IsFiniteSet(below) /\ Cardinality(below) =< Cardinality(places)
    BY <1>1, <2>1, FS_Subset
  <2>3. Cardinality(below) \in Nat /\ Cardinality(below) # 0
    BY <2>1, <2>2, FS_CardinalityType, FS_EmptySet
  <2> QED
    BY <1>2, <2>2, <2>3 DEF Rank
<1>4. ASSUME NEW i \in places, NEW j \in places, i < j
      PROVE  Rank(places, i) < Rank(places, j)
  <2> DEFINE low == {k \in places : k =< i}
             high == {k \in places : k =< j}
  <2>1. low \in SUBSET high /\ j \in high /\ j \notin low
    <3>1. i \in Int /\ j \in Int /\ \A k \in places : k \in Int
      OBVIOUS
    <3>2. \A k \in places : k =< i => k =< j
      BY <1>4, <3>1
    <3>3. j =< j /\ ~(j =< i)
      BY <1>4, <3>1
    <3> QED
      BY <3>2, <3>3
  <2>2. IsFiniteSet(high)
    BY <1>3
  <2>3. Cardinality(low) =< Cardinality(high) /\ Cardinality(low) # Cardinality(high)
    BY <2>1, <2>2, FS_Subset
  <2>4. /\ Rank(places, i) \in 1..Cardinality(places)
        /\ Rank(places, j) \in 1..Cardinality(places)
    BY <1>3
  <2> QED
    BY <1>2, <2>3, <2>4 DEF Rank
<1> QED
  BY <1>1, <1>2, <1>3, <1>4

\* Nth goes through all places, upwards.
LEMMA NthPlace ==
  ASSUME NEW n \in Nat, NEW places \in SUBSET (1..n)
  PROVE  /\ Cardinality(places) \in Nat
         /\ \A k \in 1..Cardinality(places) : Nth(places, k) \in places
         /\ \A i \in places : \E k \in 1..Cardinality(places) :
              Nth(places, k) = i
         /\ \A j, k \in 1..Cardinality(places) :
              Nth(places, j) < Nth(places, k) => j < k
<1> DEFINE size == Cardinality(places)
           rank == [i \in places |-> Rank(places, i)]
<1>1. /\ IsFiniteSet(places) /\ size \in Nat
      /\ \A i \in places : Rank(places, i) \in 1..size
      /\ \A i, j \in places : i < j => Rank(places, i) < Rank(places, j)
  BY RankGrows
<1>2. \A i, j \in places : Rank(places, i) = Rank(places, j) => i = j
  BY <1>1
<1>3. rank \in Injection(places, 1..size)
  BY <1>1, <1>2 DEF Injection, IsInjective
<1>4. IsFiniteSet(1..size) /\ Cardinality(1..size) = size
  BY <1>1, FS_Interval
<1>5. rank \in Surjection(places, 1..size)
  BY <1>3, <1>4, FS_Injection
<1>6. \A k \in 1..size : \E i \in places : Rank(places, i) = k
  BY <1>5 DEF Surjection
<1>7. \A k \in 1..size : Nth(places, k) \in places
                         /\ Rank(places, Nth(places, k)) = k
  BY <1>6 DEF Nth, Rank
<1>8. ASSUME NEW i \in places
      PROVE  \E k \in 1..size : Nth(places, k) = i
  <2>1. Rank(places, i) \in 1..size
    BY <1>1
  <2>2. Nth(places, Rank(places, i)) = i
    BY <1>2, <1>7, <2>1
  <2> QED
    BY <2>1, <2>2
<1>9. \A j, k \in 1..size : Nth(places, j) < Nth(places, k) => j < k
  BY <1>1, <1>7
<1> QED
  BY <1>1, <1>7, <1>8, <1>9

-----------------------------------------------------------------------------
(* Transcripts *)

\* A projection, and what a host has in its transcript.  The result of a call
\* shows the file it reads at some time, or the output of another command.
Frame == [kind : {"text"}, path : Paths, at : Versions]
ProjectionText ==
  [kind : {"projection"}, frames : Seq(Frame), unresolved : Nat, budget : Nat]

UserMessage == [role : {"user"}, body : {Words} \cup ProjectionText]
AssistantMessage == [role : {"assistant"}, says : BOOLEAN, calls : SUBSET Calls]
Shown(c) ==
  {Output(c)} \cup (IF ReadOf[c] = NoPath THEN {}
                   ELSE {Text(ReadOf[c], v) : v \in Content})
ToolMessage ==
  UNION {{Result(c, b) : b \in Shown(c)} : c \in Calls}

Message == UserMessage \cup AssistantMessage \cup ToolMessage

CalledBefore(messages, i) ==
  \E j \in 1..(i - 1) : /\ messages[j].role = "assistant"
                        /\ messages[i].call \in messages[j].calls

\* Results follow their calls.
Transcript(messages) ==
  /\ messages \in Seq(Message)
  /\ \A i \in DOMAIN messages :
       messages[i].role = "tool" => CalledBefore(messages, i)

\* What each message of a transcript is.
LEMMA MessageCases ==
  ASSUME NEW m \in Message
  PROVE  /\ m.role \in {"user", "assistant", "tool"}
         /\ m.role = "user" => m.body = Words \/ m.body \in ProjectionText
         /\ m.role = "assistant" => m.says \in BOOLEAN /\ m.calls \subseteq Calls
         /\ m.role = "tool" =>
              /\ m.call \in Calls
              /\ \/ m.body = Output(m.call)
                 \/ /\ ReadOf[m.call] # NoPath
                    /\ \E v \in Content : m.body = Text(ReadOf[m.call], v)
<1>1. CASE m \in UserMessage
  BY <1>1 DEF UserMessage
<1>2. CASE m \in AssistantMessage
  BY <1>2 DEF AssistantMessage
<1>3. CASE m \in ToolMessage
  <2>1. PICK c \in Calls : \E b \in Shown(c) : m = Result(c, b)
    BY <1>3 DEF ToolMessage
  <2>2. PICK b \in Shown(c) : m = Result(c, b)
    BY <2>1
  <2>3. m.role = "tool" /\ m.call = c /\ m.body = b
    BY <2>2 DEF Result
  <2> QED
    BY <2>2, <2>3 DEF Shown
<1> QED
  BY <1>1, <1>2, <1>3 DEF Message

\* Whatever is indexed from one on is a sequence.
LEMMA Indexed ==
  ASSUME NEW n \in Nat, NEW S, NEW f \in [1..n -> S]
  PROVE  f \in Seq(S) /\ Len(f) = n /\ DOMAIN f = 1..n
<1>1. f \in Seq(S)
  BY SeqDef
<1> QED
  BY <1>1, LenProperties

\* The places of a transcript.
LEMMA Places ==
  ASSUME NEW S, NEW s \in Seq(S)
  PROVE  /\ Len(s) \in Nat /\ DOMAIN s = 1..Len(s)
         /\ \A i \in 1..Len(s) : s[i] \in S
BY LenProperties, ElementOfSeq

-----------------------------------------------------------------------------
(* The projection *)

\* The elements of a sequence that are in a set, in their order.
LEMMA AmongElements ==
  ASSUME NEW S, NEW s \in Seq(S), NEW set
  PROVE  /\ Among(s, set) \in Seq(S)
         /\ \A k \in DOMAIN Among(s, set) : Among(s, set)[k] \in set
         /\ \A i \in DOMAIN s : s[i] \in set =>
              \E k \in DOMAIN Among(s, set) : Among(s, set)[k] = s[i]
<1> DEFINE places == {i \in DOMAIN s : s[i] \in set}
           among == Among(s, set)
<1>1. /\ Len(s) \in Nat /\ DOMAIN s = 1..Len(s)
      /\ \A i \in 1..Len(s) : s[i] \in S
  BY Places
<1>2. places \in SUBSET (1..Len(s))
  BY <1>1
<1>3. \A i \in places : i \in DOMAIN s /\ s[i] \in set
  OBVIOUS
<1>4. \A i \in DOMAIN s : s[i] \in set => i \in places
  OBVIOUS
<1>5. among = [k \in 1..Cardinality(places) |-> s[Nth(places, k)]]
  BY DEF Among, At
<1> HIDE DEF places, among
<1>6. /\ Cardinality(places) \in Nat
      /\ \A k \in 1..Cardinality(places) : Nth(places, k) \in places
      /\ \A i \in places : \E k \in 1..Cardinality(places) : Nth(places, k) = i
  BY <1>1, <1>2, NthPlace
<1>7. /\ among \in [1..Cardinality(places) -> S]
      /\ \A k \in 1..Cardinality(places) : among[k] = s[Nth(places, k)]
  BY <1>1, <1>3, <1>5, <1>6
<1>8. among \in Seq(S) /\ DOMAIN among = 1..Cardinality(places)
  BY <1>6, <1>7, Indexed
<1>9. \A k \in DOMAIN among : among[k] \in set
  BY <1>3, <1>6, <1>7, <1>8
<1>10. \A i \in DOMAIN s : s[i] \in set =>
         \E k \in DOMAIN among : among[k] = s[i]
  BY <1>4, <1>6, <1>7, <1>8
<1> QED
  BY <1>8, <1>9, <1>10 DEF among

\* The projection shows the selected files, each as it is now.
LEMMA RenderedFrames ==
  ASSUME RequestPruneAssumption, NEW P \in Projections
  PROVE  Frames(Rendered(P)) = {Current(p, P) : p \in P.selected}
<1> DEFINE stills == P.selected \ P.changed
           moves == P.selected \cap P.changed
           still == Among(UnitOrder, stills)
           moved == Among(UnitOrder, moves)
           order == still \o moved
           frames == [i \in DOMAIN order |->
                        Text(order[i], P.content[order[i]])]
<1>1. UnitOrder \in Seq(Paths)
      /\ \A p \in Paths : \E i \in DOMAIN UnitOrder : UnitOrder[i] = p
  BY DEF RequestPruneAssumption
<1>2. /\ still \in Seq(Paths)
      /\ \A k \in DOMAIN still : still[k] \in stills
      /\ \A i \in DOMAIN UnitOrder : UnitOrder[i] \in stills =>
           \E k \in DOMAIN still : still[k] = UnitOrder[i]
  <2> HIDE DEF stills
  <2> QED
    BY <1>1, AmongElements
<1>3. /\ moved \in Seq(Paths)
      /\ \A k \in DOMAIN moved : moved[k] \in moves
      /\ \A i \in DOMAIN UnitOrder : UnitOrder[i] \in moves =>
           \E k \in DOMAIN moved : moved[k] = UnitOrder[i]
  <2> HIDE DEF moves
  <2> QED
    BY <1>1, AmongElements
<1>4. P.selected \subseteq Paths
  BY DEF Projections
<1>5. Rendered(P).kind = "projection" /\ Rendered(P).frames = frames
  BY DEF Rendered
<1>6. Frames(Rendered(P)) = {frames[i] : i \in DOMAIN frames}
  <2> HIDE DEF frames
  <2> QED
    BY <1>5 DEF Frames
<1>7. /\ Len(still) \in Nat /\ DOMAIN still = 1..Len(still)
      /\ Len(moved) \in Nat /\ DOMAIN moved = 1..Len(moved)
  BY <1>2, <1>3, LenProperties
<1>8. /\ order \in Seq(Paths) /\ DOMAIN order = 1..(Len(still) + Len(moved))
      /\ \A i \in 1..Len(still) : order[i] = still[i]
      /\ \A i \in 1..Len(moved) : order[Len(still) + i] = moved[i]
  <2> HIDE DEF still, moved
  <2>1. /\ order \in Seq(Paths) /\ Len(order) = Len(still) + Len(moved)
        /\ \A i \in 1..(Len(still) + Len(moved)) : order[i] =
              IF i <= Len(still) THEN still[i] ELSE moved[i - Len(still)]
    BY <1>2, <1>3, ConcatProperties
  <2>2. DOMAIN order = 1..Len(order)
    BY <2>1, LenProperties
  <2> QED
    BY <1>7, <2>1, <2>2
<1>9. \A i \in DOMAIN order : order[i] \in P.selected
  <2> SUFFICES ASSUME NEW i \in 1..(Len(still) + Len(moved))
               PROVE  order[i] \in P.selected
    BY <1>8
  <2>1. CASE i =< Len(still)
    <3>1. i \in 1..Len(still)
      BY <1>7, <2>1
    <3> HIDE DEF still, order
    <3>2. order[i] = still[i]
      BY <1>8, <3>1
    <3> QED
      BY <1>2, <1>7, <3>1, <3>2
  <2>2. CASE ~(i =< Len(still))
    <3>1. i - Len(still) \in 1..Len(moved) /\ i = Len(still) + (i - Len(still))
      BY <1>7, <2>2
    <3> HIDE DEF still, moved, order
    <3>2. order[i] = moved[i - Len(still)]
      BY <1>8, <3>1
    <3> QED
      BY <1>3, <1>7, <3>1, <3>2
  <2> QED
    BY <2>1, <2>2
<1>10. \A p \in P.selected : \E i \in DOMAIN order : order[i] = p
  <2> TAKE p \in P.selected
  <2>1. PICK at \in DOMAIN UnitOrder : UnitOrder[at] = p
    BY <1>1, <1>4
  <2>2. CASE p \in stills
    <3>1. PICK k \in DOMAIN still : still[k] = p
      BY <1>2, <2>1, <2>2
    <3> HIDE DEF still, moved, order
    <3>2. k \in DOMAIN order /\ order[k] = p
      BY <1>7, <1>8, <3>1
    <3> QED
      BY <3>2
  <2>3. CASE p \in moves
    <3>1. PICK k \in DOMAIN moved : moved[k] = p
      BY <1>3, <2>1, <2>3
    <3> HIDE DEF still, moved, order
    <3>2. Len(still) + k \in DOMAIN order /\ order[Len(still) + k] = p
      BY <1>7, <1>8, <3>1
    <3> QED
      BY <3>2
  <2> QED
    BY <2>2, <2>3
<1>11. /\ DOMAIN frames = DOMAIN order
       /\ \A i \in DOMAIN order : frames[i] = Current(order[i], P)
  BY DEF Current
<1> HIDE DEF frames, order
<1> QED
  BY <1>6, <1>9, <1>10, <1>11

\* There are finitely many files: they stand in an order.
LEMMA FinitelyManyFiles == ASSUME RequestPruneAssumption PROVE IsFiniteSet(Paths)
<1>1. /\ UnitOrder \in Seq(Paths)
      /\ \A p \in Paths : \E i \in DOMAIN UnitOrder : UnitOrder[i] = p
  BY DEF RequestPruneAssumption
<1>2. /\ Len(UnitOrder) \in Nat /\ DOMAIN UnitOrder = 1..Len(UnitOrder)
      /\ UnitOrder \in [1..Len(UnitOrder) -> Paths]
  BY <1>1, LenProperties
<1>3. UnitOrder \in Surjection(1..Len(UnitOrder), Paths)
  BY <1>1, <1>2 DEF Surjection
<1> QED
  BY <1>2, <1>3, FS_NatSurjection DEF ExistsSurjection

\* A projection of files that are there is one a host may keep.
LEMMA RenderedType ==
  ASSUME RequestPruneAssumption, NEW P \in Projections,
         \A p \in P.selected : P.content[p] \in Versions
  PROVE  /\ Rendered(P) \in ProjectionText
         /\ Rendered(P) # EmptyText
<1> DEFINE stills == P.selected \ P.changed
           moves == P.selected \cap P.changed
           still == Among(UnitOrder, stills)
           moved == Among(UnitOrder, moves)
           order == still \o moved
           frames == [i \in DOMAIN order |->
                        Text(order[i], P.content[order[i]])]
<1>1. frames = Rendered(P).frames
  BY DEF Rendered
<1>2. UnitOrder \in Seq(Paths) /\ P.selected \subseteq Paths
  BY DEF RequestPruneAssumption, Projections
<1>3. order \in Seq(Paths)
  <2> HIDE DEF stills, moves
  <2>1. still \in Seq(Paths) /\ moved \in Seq(Paths)
    BY <1>2, AmongElements
  <2> HIDE DEF still, moved
  <2> QED
    BY <2>1, ConcatProperties
<1>4. {frames[i] : i \in DOMAIN frames} = {Current(p, P) : p \in P.selected}
  <2>1. Rendered(P).kind = "projection"
    BY DEF Rendered
  <2>2. Frames(Rendered(P)) = {frames[i] : i \in DOMAIN frames}
    <3> HIDE DEF frames
    <3> QED
      BY <1>1, <2>1 DEF Frames
  <2> HIDE DEF frames
  <2> QED
    BY <2>2, RenderedFrames
<1>5. Len(order) \in Nat /\ DOMAIN order = 1..Len(order)
  <2> HIDE DEF order
  <2> QED
    BY <1>3, LenProperties
<1>6. DOMAIN frames = 1..Len(order)
  BY <1>5
<1>7. \A i \in DOMAIN frames : frames[i] \in Frame
  <2>1. \A p \in P.selected : Current(p, P) \in Frame
    BY <1>2 DEF Current, Text, Frame
  <2> HIDE DEF frames
  <2>2. \A i \in DOMAIN frames : frames[i] \in {frames[j] : j \in DOMAIN frames}
    OBVIOUS
  <2>3. \A i \in DOMAIN frames : \E p \in P.selected : frames[i] = Current(p, P)
    BY <1>4, <2>2
  <2> QED
    BY <2>1, <2>3
<1>8. frames \in [1..Len(order) -> Frame]
  <2>1. frames = [i \in 1..Len(order) |-> frames[i]]
    BY <1>5
  <2> HIDE DEF frames
  <2> QED
    BY <1>6, <1>7, <2>1
<1>9. frames \in Seq(Frame)
  <2> HIDE DEF frames, order
  <2> QED
    BY <1>5, <1>8, Indexed
<1>10. Cardinality(P.unresolved) \in Nat /\ Cardinality(P.budget) \in Nat
  <2>1. P.unresolved \in SUBSET Paths /\ P.budget \in SUBSET Paths
    BY DEF Projections
  <2>2. IsFiniteSet(P.unresolved) /\ IsFiniteSet(P.budget)
    BY <2>1, FinitelyManyFiles, FS_Subset
  <2> QED
    BY <2>2, FS_CardinalityType
<1>11. Rendered(P) = [kind |-> "projection", frames |-> frames,
                      unresolved |-> Cardinality(P.unresolved),
                      budget |-> Cardinality(P.budget)]
  BY DEF Rendered
<1>12. Rendered(P) \in ProjectionText
  <2> HIDE DEF frames
  <2> QED
    BY <1>9, <1>10, <1>11 DEF ProjectionText
<1>13. Rendered(P).kind # EmptyText.kind
  BY <1>11 DEF EmptyText
<1> QED
  BY <1>12, <1>13

-----------------------------------------------------------------------------
(* What becomes of the messages *)

\* The messages of a transcript, with the results of tracked calls and the
\* older projections replaced.
Rewrites(R, messages, unitOf, P) ==
  /\ DOMAIN R = DOMAIN messages
  /\ \A i \in DOMAIN messages :
       /\ R[i].role = messages[i].role
       /\ messages[i].role = "assistant" => R[i] = messages[i]
       /\ messages[i].role = "user" =>
            R[i].body.kind \in {"words", "served"}
       /\ messages[i].role = "tool" =>
            /\ R[i].call = messages[i].call
            /\ IF messages[i].call \in DOMAIN unitOf
               THEN R[i].body \in {Current(unitOf[messages[i].call], P),
                                   StableMarker(unitOf[messages[i].call])}
               ELSE R[i].body = messages[i].body

\* That is what the two replacements make (request-prune.mjs).
LEMMA Rewriting ==
  ASSUME NEW messages \in Seq(Message), NEW unitOf, NEW P, NEW text,
         NEW injected
  PROVE  Rewrites(ReplaceHistorical(ReplaceTracked(messages, unitOf, P, text,
                                                   injected)),
                  messages, unitOf, P)
<1> DEFINE T == ReplaceTracked(messages, unitOf, P, text, injected)
           R == ReplaceHistorical(T)
<1>1. DOMAIN T = DOMAIN messages
  BY DEF ReplaceTracked
<1>2. ASSUME NEW i \in DOMAIN messages
      PROVE  IF messages[i].role = "tool" /\ messages[i].call \in DOMAIN unitOf
             THEN \E b \in {Current(unitOf[messages[i].call], P),
                            StableMarker(unitOf[messages[i].call])} :
                    T[i] = Result(messages[i].call, b)
             ELSE T[i] = messages[i]
  BY DEF ReplaceTracked
<1> HIDE DEF T
<1>3. /\ DOMAIN R = DOMAIN messages
      /\ \A i \in DOMAIN messages :
           R[i] = IF IsProjection(T[i])
                  THEN User([kind |-> "served", units |-> Len(T[i].body.frames)])
                  ELSE T[i]
  BY <1>1 DEF ReplaceHistorical
<1> HIDE DEF R
<1>4. ASSUME NEW i \in DOMAIN messages
      PROVE  /\ R[i].role = messages[i].role
             /\ messages[i].role = "assistant" => R[i] = messages[i]
             /\ messages[i].role = "user" =>
                  R[i].body.kind \in {"words", "served"}
             /\ messages[i].role = "tool" =>
                  /\ R[i].call = messages[i].call
                  /\ IF messages[i].call \in DOMAIN unitOf
                     THEN R[i].body \in {Current(unitOf[messages[i].call], P),
                                         StableMarker(unitOf[messages[i].call])}
                     ELSE R[i].body = messages[i].body
  <2> DEFINE m == messages[i]
  <2>1. m \in Message
    BY Places
  <2> HIDE DEF m
  <2>2. /\ m.role \in {"user", "assistant", "tool"}
        /\ m.role = "user" => m.body = Words \/ m.body \in ProjectionText
    BY <2>1, MessageCases
  <2>3. CASE m.role = "assistant"
    <3>1. T[i] = m
      BY <1>2, <2>3 DEF m
    <3>2. R[i] = m
      BY <1>3, <2>3, <3>1 DEF IsProjection
    <3> QED
      BY <2>3, <3>2 DEF m
  <2>4. CASE m.role = "user"
    <3>1. T[i] = m
      BY <1>2, <2>4 DEF m
    <3>2. CASE m.body = Words
      <4>1. m.body.kind = "words"
        BY <3>2 DEF Words
      <4>2. ~IsProjection(T[i])
        BY <3>1, <4>1 DEF IsProjection
      <4>3. R[i] = m
        BY <1>3, <3>1, <4>2
      <4> QED
        BY <2>4, <4>1, <4>3 DEF m
    <3>3. CASE m.body \in ProjectionText
      <4>1. R[i] = User([kind |-> "served", units |-> Len(m.body.frames)])
        BY <1>3, <2>4, <3>1, <3>3 DEF IsProjection, ProjectionText
      <4>2. R[i].role = "user" /\ R[i].body.kind = "served"
        BY <4>1 DEF User
      <4> QED
        BY <2>4, <4>2 DEF m
    <3> QED
      BY <2>2, <2>4, <3>2, <3>3
  <2>5. CASE m.role = "tool"
    <3>1. T[i].role = "tool" /\ T[i].call = m.call
          /\ IF m.call \in DOMAIN unitOf
             THEN T[i].body \in {Current(unitOf[m.call], P),
                                 StableMarker(unitOf[m.call])}
             ELSE T[i].body = m.body
      <4>1. CASE m.call \in DOMAIN unitOf
        <5>1. PICK b \in {Current(unitOf[m.call], P), StableMarker(unitOf[m.call])} :
                T[i] = Result(m.call, b)
          BY <1>2, <2>5, <4>1 DEF m
        <5> QED
          BY <4>1, <5>1 DEF Result
      <4>2. CASE m.call \notin DOMAIN unitOf
        BY <1>2, <2>5, <4>2 DEF m
      <4> QED
        BY <4>1, <4>2
    <3>2. R[i] = T[i]
      BY <1>3, <3>1 DEF IsProjection
    <3> QED
      BY <2>5, <3>1, <3>2 DEF m
  <2> QED
    BY <2>2, <2>3, <2>4, <2>5 DEF m
<1> QED
  BY <1>3, <1>4 DEF Rewrites, R, T

\* Whether a message is left when some calls leave.
Stays(m, gone) ==
  /\ m.role = "tool" => m.call \notin gone
  /\ m.role = "assistant" => m.says \/ m.calls \ gone # {}

\* Q has of every message of R that stays its rest, in their order.
Prunes(Q, R, gone, rest) ==
  \E size \in Nat : \E at \in [1..size -> DOMAIN R] :
    /\ DOMAIN Q = 1..size
    /\ \A j, k \in 1..size : at[j] < at[k] => j < k
    /\ \A i \in DOMAIN R : Stays(R[i], gone) => \E k \in 1..size : at[k] = i
    /\ \A k \in 1..size : Stays(R[at[k]], gone) /\ Q[k] = rest[at[k]]

Rests(R, gone, unitOf, P, history) ==
  [i \in DOMAIN R |-> WithoutCalls(R[i], gone, R, unitOf, P, history)]

\* Whole messages stay or leave, and the order is kept.
LEMMA Pruning ==
  ASSUME NEW n \in Nat, NEW R, DOMAIN R = 1..n,
         NEW unitOf, NEW P, NEW history,
         NEW gone, gone = Dropped(R, unitOf, P, history)
  PROVE  Prunes(DropPairs(R, unitOf, P, history), R, gone,
                Rests(R, gone, unitOf, P, history))
<1> DEFINE places == {i \in DOMAIN R : Stays(R[i], gone)}
           size == Cardinality(places)
           at == [k \in 1..size |-> Nth(places, k)]
           Q == DropPairs(R, unitOf, P, history)
<1>1. places \in SUBSET (1..n)
  OBVIOUS
<1>2. \A i \in DOMAIN R : Stays(R[i], gone) <=> i \in places
  OBVIOUS
<1>3. /\ DOMAIN Q = 1..size
      /\ \A k \in 1..size :
           Q[k] = WithoutCalls(R[Nth(places, k)], gone, R, unitOf, P, history)
  BY DEF DropPairs, At, Stays
<1> HIDE DEF places, Q
<1>4. /\ size \in Nat
      /\ \A k \in 1..size : Nth(places, k) \in places
      /\ \A i \in places : \E k \in 1..size : Nth(places, k) = i
      /\ \A j, k \in 1..size : Nth(places, j) < Nth(places, k) => j < k
  BY <1>1, NthPlace
<1> HIDE DEF size
<1>5. at \in [1..size -> DOMAIN R] /\ \A k \in 1..size : at[k] = Nth(places, k)
  BY <1>1, <1>4
<1> HIDE DEF at
<1>6. \A k \in 1..size : /\ Stays(R[at[k]], gone)
                         /\ Q[k] = Rests(R, gone, unitOf, P, history)[at[k]]
  BY <1>1, <1>2, <1>3, <1>4, <1>5 DEF Rests
<1>7. /\ \A j, k \in 1..size : at[j] < at[k] => j < k
      /\ \A i \in DOMAIN R : Stays(R[i], gone) => \E k \in 1..size : at[k] = i
  BY <1>2, <1>4, <1>5
<1> QED
  BY <1>3, <1>4, <1>5, <1>6, <1>7 DEF Prunes, Q

\* What pruning leaves of a message: its calls, or its result.
LEMMA RestOfMessage ==
  ASSUME NEW R, NEW gone, NEW unitOf, NEW P, NEW history, NEW i \in DOMAIN R,
         R[i].role \in {"user", "assistant", "tool"}
  PROVE  LET m == Rests(R, gone, unitOf, P, history)[i]
         IN  /\ m.role = R[i].role
             /\ R[i].role = "user" => m = R[i]
             /\ R[i].role = "assistant" => m.calls = R[i].calls \ gone
             /\ R[i].role = "tool" =>
                  /\ m.call = R[i].call
                  /\ m.body = KeptBody(R[i], R, unitOf, P, history)
BY DEF Rests, WithoutCalls, Assistant, Result

(***************************************************************************)
(* Pairs leave together: of a transcript in which results follow their     *)
(* calls, what is left has every result after its call, and no call lost   *)
(* the result it had (request-prune.mjs:662-752).                          *)
(***************************************************************************)
LEMMA PrunedIsPaired ==
  ASSUME NEW messages, Transcript(messages), NEW unitOf, NEW P, NEW R,
         Rewrites(R, messages, unitOf, P), NEW history
  PROVE  Paired(DropPairs(R, unitOf, P, history), messages)
<1> DEFINE gone == Dropped(R, unitOf, P, history)
           rest == Rests(R, gone, unitOf, P, history)
           Q == DropPairs(R, unitOf, P, history)
           n == Len(messages)
<1>1. /\ n \in Nat /\ DOMAIN messages = 1..n /\ DOMAIN R = 1..n
      /\ \A i \in 1..n : messages[i] \in Message
  BY Places DEF Transcript, Rewrites
<1>2. \A i \in 1..n : /\ R[i].role \in {"user", "assistant", "tool"}
                      /\ R[i].role = messages[i].role
                      /\ R[i].role = "assistant" => R[i].calls = messages[i].calls
                      /\ R[i].role = "tool" => R[i].call = messages[i].call
  BY <1>1, MessageCases DEF Rewrites
<1> HIDE DEF n
<1>3. Prunes(Q, R, gone, rest)
  BY <1>1, Pruning
<1> HIDE DEF gone, rest, Q
<1> PICK size \in Nat : \E at \in [1..size -> DOMAIN R] :
       /\ DOMAIN Q = 1..size
       /\ \A j, k \in 1..size : at[j] < at[k] => j < k
       /\ \A i \in DOMAIN R : Stays(R[i], gone) => \E k \in 1..size : at[k] = i
       /\ \A k \in 1..size : Stays(R[at[k]], gone) /\ Q[k] = rest[at[k]]
  BY ONLY <1>3 DEF Prunes
<1>4. PICK at \in [1..size -> DOMAIN R] :
        /\ DOMAIN Q = 1..size
        /\ \A j, k \in 1..size : at[j] < at[k] => j < k
        /\ \A i \in DOMAIN R : Stays(R[i], gone) => \E k \in 1..size : at[k] = i
        /\ \A k \in 1..size : Stays(R[at[k]], gone) /\ Q[k] = rest[at[k]]
  OBVIOUS
<1>5. ASSUME NEW k \in 1..size
      PROVE  /\ at[k] \in 1..n
             /\ Q[k].role = messages[at[k]].role
             /\ Q[k].role = "assistant" =>
                  Q[k].calls = messages[at[k]].calls \ gone
             /\ Q[k].role = "tool" => /\ Q[k].call = messages[at[k]].call
                                      /\ Q[k].call \notin gone
  <2>1. at[k] \in 1..n /\ Q[k] = rest[at[k]] /\ Stays(R[at[k]], gone)
    BY <1>1, <1>4
  <2>2. R[at[k]].role \in {"user", "assistant", "tool"}
    BY <1>2, <2>1
  <2>3. /\ Q[k].role = R[at[k]].role
        /\ R[at[k]].role = "assistant" => Q[k].calls = R[at[k]].calls \ gone
        /\ R[at[k]].role = "tool" => Q[k].call = R[at[k]].call
    <3>1. at[k] \in DOMAIN R
      BY <1>1, <2>1
    <3>2. Q[k] = Rests(R, gone, unitOf, P, history)[at[k]]
      BY <2>1 DEF rest
    <3> QED
      BY <2>2, <3>1, <3>2, RestOfMessage
  <2> QED
    BY <1>2, <2>1, <2>3 DEF Stays
<1>6. ASSUME NEW k \in DOMAIN Q, Q[k].role = "tool"
      PROVE  \E j \in 1..(k - 1) : /\ Q[j].role = "assistant"
                                   /\ Q[k].call \in Q[j].calls
  <2>1. k \in 1..size /\ at[k] \in 1..n /\ messages[at[k]].role = "tool"
        /\ Q[k].call = messages[at[k]].call /\ Q[k].call \notin gone
    BY <1>4, <1>5, <1>6
  <2>2. PICK i \in 1..(at[k] - 1) : /\ messages[i].role = "assistant"
                                   /\ Q[k].call \in messages[i].calls
    BY <1>1, <2>1 DEF Transcript, CalledBefore
  <2>3. i \in 1..n /\ i < at[k]
    BY <1>1, <2>1, <2>2
  <2>4. Stays(R[i], gone)
    BY <1>2, <2>1, <2>2, <2>3 DEF Stays
  <2>5. PICK j \in 1..size : at[j] = i
    BY <1>1, <1>4, <2>3, <2>4
  <2>6. j \in 1..(k - 1)
    BY <1>4, <2>1, <2>3, <2>5
  <2>7. Q[j].role = "assistant" /\ Q[j].calls = messages[i].calls \ gone
    BY <1>5, <2>2, <2>5
  <2> QED
    BY <2>1, <2>2, <2>6, <2>7
<1>7. ASSUME NEW c \in CallsIn(Q) \cap ResultsIn(messages)
      PROVE  c \in ResultsIn(Q)
  <2>1. PICK j \in DOMAIN Q : Q[j].role = "assistant" /\ c \in Q[j].calls
    BY DEF CallsIn
  <2>2. c \notin gone
    BY <1>4, <1>5, <2>1
  <2>3. PICK i \in DOMAIN messages : /\ messages[i].role = "tool"
                                    /\ messages[i].call = c
    BY DEF ResultsIn
  <2>4. Stays(R[i], gone)
    BY <1>1, <1>2, <2>2, <2>3 DEF Stays
  <2>5. PICK k \in 1..size : at[k] = i
    BY <1>1, <1>4, <2>3, <2>4
  <2>6. k \in DOMAIN Q /\ Q[k].role = "tool" /\ Q[k].call = c
    BY <1>4, <1>5, <2>3, <2>5
  <2> QED
    BY <2>6 DEF ResultsIn
<1> QED
  BY <1>6, <1>7 DEF Paired, Q

-----------------------------------------------------------------------------
(* What a request shows of the files *)

\* A body that a host or an adapter may send: it shows no file, or one of
\* these files as it is now.
ShowsNow(body, P, files) ==
  /\ body.kind # "projection"
  /\ body.kind = "text" =>
       \E p \in files : body = Current(p, P)

AllShowNow(Q, P, files) ==
  \A k \in DOMAIN Q : Q[k].role # "assistant" => ShowsNow(Q[k].body, P, files)

(***************************************************************************)
(* No old read is left: a result that shows a file is of a tracked call    *)
(* and current, or it left with its call, or a marker stands in its place  *)
(* (request-prune.mjs:529-752).                                            *)
(***************************************************************************)
LEMMA PrunedShowsNow ==
  ASSUME RequestPruneAssumption, OnlyReadersRead,
         NEW messages, Transcript(messages),
         NEW files, NEW unitOf, \A c \in DOMAIN unitOf : unitOf[c] \in files,
         NEW P, NEW R, Rewrites(R, messages, unitOf, P), NEW history
  PROVE  AllShowNow(DropPairs(R, unitOf, P, history), P, files)
<1> DEFINE gone == Dropped(R, unitOf, P, history)
           rest == Rests(R, gone, unitOf, P, history)
           Q == DropPairs(R, unitOf, P, history)
           n == Len(messages)
<1>1. /\ n \in Nat /\ DOMAIN messages = 1..n /\ DOMAIN R = 1..n
      /\ \A i \in 1..n : messages[i] \in Message
  BY Places DEF Transcript, Rewrites
<1>2. \A i \in 1..n : /\ R[i].role \in {"user", "assistant", "tool"}
                      /\ R[i].role = messages[i].role
                      /\ R[i].role = "assistant" => R[i].calls = messages[i].calls
  BY <1>1, MessageCases DEF Rewrites
<1> HIDE DEF n
<1>3. Prunes(Q, R, gone, rest)
  BY <1>1, Pruning
<1> HIDE DEF gone, rest, Q
<1>4. ASSUME NEW k \in DOMAIN Q
      PROVE  \E i \in DOMAIN R : Stays(R[i], gone) /\ Q[k] = rest[i]
  BY <1>3 DEF Prunes
<1>5. ASSUME NEW i \in DOMAIN R, R[i].role = "tool", Stays(R[i], gone)
      PROVE  ShowsNow(KeptBody(R[i], R, unitOf, P, history), P, files)
  <2> DEFINE c == R[i].call
             body == KeptBody(R[i], R, unitOf, P, history)
  <2>1. /\ messages[i] \in Message /\ messages[i].role = "tool"
        /\ c = messages[i].call /\ c \notin gone
        /\ IF c \in DOMAIN unitOf
           THEN R[i].body \in {Current(unitOf[c], P), StableMarker(unitOf[c])}
           ELSE R[i].body = messages[i].body
    BY <1>1, <1>2, <1>5 DEF Rewrites, Stays
  <2> HIDE DEF c
  <2>2. \/ body = DumpMarker(c, P) /\ c \in StaleDumps(R, unitOf, P)
        \/ body = OmittedMarker(unitOf[c], "budget")
        \/ body = OmittedMarker(ReadOf[c], history[c])
        \/ /\ body = R[i].body /\ history[c] \notin Omissions
           /\ c \notin StaleDumps(R, unitOf, P)
           /\ ~(c \in DOMAIN unitOf /\ unitOf[c] \in P.budget)
    BY DEF KeptBody, c
  <2> HIDE DEF body
  <2>3. CASE \/ body = DumpMarker(c, P)
             \/ body = OmittedMarker(unitOf[c], "budget")
             \/ body = OmittedMarker(ReadOf[c], history[c])
    <3>1. body.kind \in {"dump", "omitted"}
      BY <2>3 DEF DumpMarker, OmittedMarker
    <3> QED
      BY <3>1 DEF ShowsNow, body
  <2>4. CASE /\ body = R[i].body /\ history[c] \notin Omissions
             /\ c \notin StaleDumps(R, unitOf, P)
             /\ ~(c \in DOMAIN unitOf /\ unitOf[c] \in P.budget)
    <3>1. CASE c \in DOMAIN unitOf
      <4>1. body = Current(unitOf[c], P) \/ body = StableMarker(unitOf[c])
        BY <2>1, <2>4, <3>1
      <4>2. body.kind = "text" \/ body.kind = "stable"
        BY <4>1 DEF Current, Text, StableMarker
      <4>3. body.kind = "text" => body = Current(unitOf[c], P)
        BY <4>1 DEF StableMarker
      <4> QED
        BY <3>1, <4>2, <4>3 DEF ShowsNow, body
    <3>2. CASE c \notin DOMAIN unitOf
      <4>1. c \in Calls /\ body = messages[i].body
            /\ \/ messages[i].body = Output(c)
               \/ ReadOf[c] # NoPath
        BY <2>1, <2>4, <3>2, MessageCases
      <4>2. CASE messages[i].body = Output(c)
        <5>1. body.kind = "output"
          BY <4>1, <4>2 DEF Output
        <5> QED
          BY <5>1 DEF ShowsNow, body
      <4>3. CASE ReadOf[c] # NoPath
        <5>1. Tool[c] # "other"
          BY <4>1, <4>3 DEF OnlyReadersRead
        <5>2. c \in CallsIn(R)
          <6>1. PICK j \in 1..(i - 1) : /\ messages[j].role = "assistant"
                                       /\ c \in messages[j].calls
            BY <1>1, <2>1 DEF Transcript, CalledBefore
          <6>2. j \in DOMAIN R /\ R[j].role = "assistant" /\ c \in R[j].calls
            BY <1>1, <1>2, <6>1
          <6> QED
            BY <6>2 DEF CallsIn
        <5>3. c \in ReadCalls(R) \ Served(unitOf, P)
          BY <3>2, <5>1, <5>2 DEF ReadCalls, Served
        <5>4. c \in gone
          BY <2>4, <3>2, <5>3 DEF gone, Dropped
        <5> QED
          BY <2>1, <5>4
      <4> QED
        BY <4>1, <4>2, <4>3
    <3> QED
      BY <3>1, <3>2
  <2> QED
    BY <2>2, <2>3, <2>4
<1>6. ASSUME NEW k \in DOMAIN Q, Q[k].role # "assistant"
      PROVE  ShowsNow(Q[k].body, P, files)
  <2>1. PICK i \in DOMAIN R : Stays(R[i], gone) /\ Q[k] = rest[i]
    BY <1>4
  <2>2. /\ Q[k].role = R[i].role
        /\ R[i].role = "user" => Q[k] = R[i]
        /\ R[i].role = "tool" => Q[k].body = KeptBody(R[i], R, unitOf, P, history)
    <3>1. Q[k] = Rests(R, gone, unitOf, P, history)[i]
      BY <2>1 DEF rest
    <3>2. R[i].role \in {"user", "assistant", "tool"}
      BY <1>1, <1>2
    <3> QED
      BY <3>1, <3>2, RestOfMessage
  <2>3. CASE R[i].role = "user"
    <3>1. messages[i].role = "user" /\ i \in DOMAIN messages
      BY <1>1, <1>2, <2>3
    <3>2. Q[k].body.kind \notin {"text", "projection"}
      BY <2>2, <2>3, <3>1 DEF Rewrites
    <3> QED
      BY <3>2 DEF ShowsNow
  <2>4. CASE R[i].role = "tool"
    BY <1>5, <2>1, <2>2, <2>4
  <2> QED
    BY <1>1, <1>2, <1>6, <2>2, <2>3, <2>4
<1> QED
  BY <1>6 DEF AllShowNow, Q

-----------------------------------------------------------------------------
(* What is sent *)

IsList(Q) == \E n \in Nat : Q \in [1..n -> {Q[k] : k \in 1..n}]

\* What pruning leaves is a list, and no user's message leaves.
LEMMA PrunedIsList ==
  ASSUME NEW n \in Nat, NEW R, DOMAIN R = 1..n,
         NEW unitOf, NEW P, NEW history
  PROVE  /\ IsList(DropPairs(R, unitOf, P, history))
         /\ (\E i \in 1..n : R[i].role = "user") =>
              DOMAIN DropPairs(R, unitOf, P, history) # {}
<1> DEFINE gone == Dropped(R, unitOf, P, history)
           Q == DropPairs(R, unitOf, P, history)
           rest == Rests(R, gone, unitOf, P, history)
<1>1. Q = [k \in DOMAIN Q |-> Q[k]]
  BY DEF DropPairs
<1>2. Prunes(Q, R, gone, rest)
  BY Pruning
<1> HIDE DEF gone, Q, rest
<1>3. PICK size \in Nat : \E at \in [1..size -> DOMAIN R] :
        /\ DOMAIN Q = 1..size
        /\ \A i \in DOMAIN R : Stays(R[i], gone) => \E k \in 1..size : at[k] = i
  BY <1>2 DEF Prunes
<1>4. IsList(Q)
  BY <1>1, <1>3 DEF IsList
<1>5. ASSUME NEW i \in 1..n, R[i].role = "user" PROVE DOMAIN Q # {}
  BY <1>3, <1>5 DEF Stays
<1> QED
  BY <1>4, <1>5 DEF Q

\* A list is a sequence, and so is a list with one more element.
LEMMA ListLengths ==
  ASSUME NEW Q, IsList(Q), NEW m
  PROVE  /\ Len(Q) \in Nat /\ DOMAIN Q = 1..Len(Q)
         /\ DOMAIN Append(Q, m) = 1..(Len(Q) + 1)
         /\ Len(Append(Q, m)) = Len(Q) + 1
         /\ \A k \in 1..Len(Q) : Append(Q, m)[k] = Q[k]
         /\ Append(Q, m)[Len(Q) + 1] = m
<1>1. PICK n \in Nat : Q \in [1..n -> {Q[k] : k \in 1..n}]
  BY DEF IsList
<1> DEFINE S == {Q[k] : k \in 1..n} \cup {m}
<1>2. Q \in [1..n -> S] /\ m \in S
  BY <1>1
<1> HIDE DEF S
<1>3. Q \in Seq(S) /\ Len(Q) = n /\ DOMAIN Q = 1..n
  BY <1>2, Indexed
<1>4. /\ Append(Q, m) \in Seq(S) /\ Len(Append(Q, m)) = Len(Q) + 1
      /\ \A k \in 1..Len(Q) : Append(Q, m)[k] = Q[k]
      /\ Append(Q, m)[Len(Q) + 1] = m
  BY <1>2, <1>3, AppendProperties
<1>5. DOMAIN Append(Q, m) = 1..Len(Append(Q, m))
  BY <1>4, LenProperties
<1> QED
  BY <1>3, <1>4, <1>5

\* Those of some files that are there, each as it is now.
NowShown(P, files) ==
  {Current(p, P) : p \in {q \in files : P.content[q] \in Versions}}

\* What is in a request is in one of its messages.
LEMMA InMessages ==
  ASSUME NEW Q
  PROVE  /\ \A c : c \in CallsIn(Q) <=>
              \E i \in DOMAIN Q : Q[i].role = "assistant" /\ c \in Q[i].calls
         /\ \A c : c \in ResultsIn(Q) <=>
              \E i \in DOMAIN Q : Q[i].role = "tool" /\ c = Q[i].call
         /\ \A b : b \in Bodies(Q) <=>
              \E i \in DOMAIN Q : Q[i].role # "assistant" /\ b = Q[i].body
BY DEF CallsIn, ResultsIn, Bodies

\* Reads that are quoted again disturb no pair and show files as they are now.
LEMMA Quoting ==
  ASSUME NEW native, NEW P, NEW files,
         NEW Q, IsList(Q), Paired(Q, native), AllShowNow(Q, P, files),
         NEW unitOf, \A c \in DOMAIN unitOf : unitOf[c] \in files,
         NEW messages, NEW text, NEW history, NEW latest
  PROVE  LET A == QuoteOmitted(Q, messages, unitOf, P, text, history, latest)
         IN  IsList(A) /\ Paired(A, native) /\ AllShowNow(A, P, files)
<1> DEFINE A == QuoteOmitted(Q, messages, unitOf, P, text, history, latest)
           quoted(m) ==
             /\ m.role = "tool"
             /\ m.call \in latest \cap DOMAIN unitOf
             /\ history[m.call] = "budget"
             /\ UserCount(messages) > 1
             /\ unitOf[m.call] \notin P.unresolved
             /\ Quotes(Current(unitOf[m.call], P))
             /\ ~CarriesQuoteable(text)
<1>1. /\ DOMAIN A = DOMAIN Q
      /\ A = [i \in DOMAIN Q |-> A[i]]
      /\ \A i \in DOMAIN Q :
           A[i] = IF quoted(Q[i])
                  THEN Result(Q[i].call, Current(unitOf[Q[i].call], P))
                  ELSE Q[i]
  BY DEF QuoteOmitted
<1>2. ASSUME NEW i \in DOMAIN Q
      PROVE  \/ A[i] = Q[i]
             \/ /\ Q[i].role = "tool" /\ Q[i].call \in DOMAIN unitOf
                /\ A[i] = Result(Q[i].call, Current(unitOf[Q[i].call], P))
  BY <1>1
<1> HIDE DEF A, quoted
<1>3. ASSUME NEW i \in DOMAIN Q
      PROVE  /\ A[i].role = Q[i].role
             /\ Q[i].role = "tool" => A[i].call = Q[i].call
             /\ Q[i].role = "assistant" => A[i].calls = Q[i].calls
             /\ A[i].role # "assistant" => ShowsNow(A[i].body, P, files)
  <2>1. CASE A[i] = Q[i]
    BY <2>1 DEF AllShowNow
  <2>2. CASE /\ Q[i].role = "tool" /\ Q[i].call \in DOMAIN unitOf
             /\ A[i] = Result(Q[i].call, Current(unitOf[Q[i].call], P))
    <3>1. /\ A[i].role = "tool" /\ A[i].call = Q[i].call
          /\ A[i].body = Current(unitOf[Q[i].call], P)
      BY <2>2 DEF Result
    <3>2. A[i].body.kind = "text"
      BY <3>1 DEF Current, Text
    <3> QED
      BY <2>2, <3>1, <3>2 DEF ShowsNow
  <2> QED
    BY <1>2, <2>1, <2>2
<1>4. IsList(A)
  <2>1. PICK n \in Nat : Q \in [1..n -> {Q[k] : k \in 1..n}]
    BY DEF IsList
  <2>2. DOMAIN A = 1..n
    BY <1>1, <2>1
  <2>3. A \in [1..n -> {A[k] : k \in 1..n}]
    BY <1>1, <2>2
  <2> QED
    BY <2>3 DEF IsList
<1>5. Paired(A, native)
  <2>1. \A c : c \in CallsIn(A) <=> c \in CallsIn(Q)
    <3>1. \A c : (\E k \in DOMAIN A : A[k].role = "assistant" /\ c \in A[k].calls)
            <=> (\E k \in DOMAIN Q : Q[k].role = "assistant" /\ c \in Q[k].calls)
      BY <1>1, <1>3
    <3> QED
      BY <3>1, InMessages
  <2>2. \A c : c \in ResultsIn(A) <=> c \in ResultsIn(Q)
    <3>1. \A c : (\E k \in DOMAIN A : A[k].role = "tool" /\ c = A[k].call)
            <=> (\E k \in DOMAIN Q : Q[k].role = "tool" /\ c = Q[k].call)
      BY <1>1, <1>3
    <3> QED
      BY <3>1, InMessages
  <2>3. PICK n \in Nat : DOMAIN Q = 1..n
    BY DEF IsList
  <2>4. ASSUME NEW i \in DOMAIN A, A[i].role = "tool"
        PROVE  \E j \in 1..(i - 1) : /\ A[j].role = "assistant"
                                     /\ A[i].call \in A[j].calls
    <3>1. i \in DOMAIN Q /\ Q[i].role = "tool" /\ A[i].call = Q[i].call
      BY <1>1, <1>3, <2>4
    <3>2. PICK j \in 1..(i - 1) : /\ Q[j].role = "assistant"
                                 /\ Q[i].call \in Q[j].calls
      BY <3>1 DEF Paired
    <3>3. j \in DOMAIN Q
      BY <2>3, <3>1
    <3> QED
      BY <1>3, <3>1, <3>2, <3>3
  <2> QED
    BY <2>1, <2>2, <2>4 DEF Paired
<1>6. AllShowNow(A, P, files)
  BY <1>1, <1>3 DEF AllShowNow
<1> QED
  BY <1>4, <1>5, <1>6 DEF A

(***************************************************************************)
(* The projection at the end disturbs no pair, and the whole request shows *)
(* files as they are now only (request-prune.mjs, bridge.mjs:804-822,      *)
(* extension.ts:338-411).                                                  *)
(***************************************************************************)
LEMMA TailedRequest ==
  ASSUME RequestPruneAssumption, NEW P \in Projections,
         \A p \in P.selected : P.content[p] \in Versions,
         NEW files \in SUBSET Paths, P.selected \subseteq files,
         NEW messages, NEW Q, IsList(Q), Paired(Q, messages),
         AllShowNow(Q, P, files),
         NEW text \in {EmptyText, Rendered(P)},
         NEW W, W = WithTail(Q, text)
  PROVE  /\ Paired(W, messages)
         /\ Carried(W) \subseteq NowShown(P, files)
         /\ Frames(text) \subseteq Carried(W)
<1>1. /\ Len(Q) \in Nat /\ DOMAIN Q = 1..Len(Q)
      /\ LET A == Append(Q, User(text))
         IN  /\ DOMAIN A = 1..(Len(Q) + 1) /\ Len(A) = Len(Q) + 1
             /\ \A k \in 1..Len(Q) : A[k] = Q[k]
             /\ A[Len(Q) + 1] = User(text)
  BY ListLengths
<1>2. Frames(text) \subseteq NowShown(P, files)
  <2>1. Frames(EmptyText) = {}
    BY DEF Frames, EmptyText
  <2>2. Frames(Rendered(P)) = {Current(p, P) : p \in P.selected}
    BY RenderedFrames
  <2>4. {Current(p, P) : p \in P.selected} \subseteq NowShown(P, files)
    BY DEF NowShown
  <2> QED
    BY <2>1, <2>2, <2>4
<1>3. ASSUME NEW b, ShowsNow(b, P, files), b.kind = "text", b.at # Gone
      PROVE  b \in NowShown(P, files)
  <2>1. PICK p \in files : b = Text(p, P.content[p])
    BY <1>3 DEF ShowsNow, Current
  <2>2. b.at = P.content[p] /\ P.content[p] \in Content
    BY <2>1 DEF Text, Projections
  <2>3. P.content[p] \in Versions
    BY <1>3, <2>2 DEF Content
  <2> QED
    BY <2>1, <2>3 DEF NowShown, Current
<1>4. CASE text = EmptyText
  <2>1. W = Q
    BY <1>4 DEF WithTail
  <2>2. Carried(Q) \subseteq NowShown(P, files)
    <3>1. ASSUME NEW b \in Bodies(Q)
          PROVE  ShowsNow(b, P, files) /\ Frames(b) = {}
      <4>1. ShowsNow(b, P, files)
        BY DEF Bodies, AllShowNow
      <4> QED
        BY <4>1 DEF ShowsNow, Frames
    <3> QED
      BY <1>3, <3>1 DEF Carried
  <2>3. Frames(text) = {}
    BY <1>4 DEF Frames, EmptyText
  <2> QED
    BY <2>1, <2>2, <2>3
<1>5. CASE text # EmptyText
  <2> DEFINE n == Len(Q)
  <2>1. /\ n \in Nat /\ DOMAIN Q = 1..n
        /\ DOMAIN W = 1..(n + 1) /\ Len(W) = n + 1
        /\ \A k \in 1..n : W[k] = Q[k]
        /\ W[n + 1] = User(text)
    BY <1>1, <1>5 DEF WithTail
  <2> HIDE DEF n
  <2>2. n + 1 \in DOMAIN W /\ W[n + 1].role = "user" /\ W[n + 1].body = text
    BY <2>1 DEF User
  <2>3. \A k \in DOMAIN W : k = n + 1 \/ (k \in DOMAIN Q /\ W[k] = Q[k])
    BY <2>1
  <2>4. \A k \in DOMAIN Q : k \in DOMAIN W /\ W[k] = Q[k]
    BY <2>1
  <2>5. Paired(W, messages)
    <3>1. \A c : c \in CallsIn(W) <=> c \in CallsIn(Q)
      <4>1. \A k \in DOMAIN W :
              W[k].role = "assistant" => k \in DOMAIN Q /\ W[k] = Q[k]
        BY <2>2, <2>3
      <4>2. \A c : (\E k \in DOMAIN W : W[k].role = "assistant" /\ c \in W[k].calls)
              <=> (\E k \in DOMAIN Q : Q[k].role = "assistant" /\ c \in Q[k].calls)
        BY <2>4, <4>1
      <4>3. \A c : c \in CallsIn(Q) <=>
               \E k \in DOMAIN Q : Q[k].role = "assistant" /\ c \in Q[k].calls
        BY ONLY InMessages
      <4>4. \A c : c \in CallsIn(W) <=>
               \E k \in DOMAIN W : W[k].role = "assistant" /\ c \in W[k].calls
        BY ONLY InMessages
      <4> QED
        BY ONLY <4>2, <4>3, <4>4
    <3>2. \A c : c \in ResultsIn(W) <=> c \in ResultsIn(Q)
      <4>1. \A k \in DOMAIN W :
              W[k].role = "tool" => k \in DOMAIN Q /\ W[k] = Q[k]
        BY <2>2, <2>3
      <4>2. \A c : (\E k \in DOMAIN W : W[k].role = "tool" /\ c = W[k].call)
              <=> (\E k \in DOMAIN Q : Q[k].role = "tool" /\ c = Q[k].call)
        BY <2>4, <4>1
      <4>3. \A c : c \in ResultsIn(Q) <=>
                     \E k \in DOMAIN Q : Q[k].role = "tool" /\ c = Q[k].call
        BY ONLY InMessages
      <4>4. \A c : c \in ResultsIn(W) <=>
                     \E k \in DOMAIN W : W[k].role = "tool" /\ c = W[k].call
        BY ONLY InMessages
      <4> QED
        BY ONLY <4>2, <4>3, <4>4
    <3>3. ASSUME NEW i \in DOMAIN W, W[i].role = "tool"
          PROVE  \E j \in 1..(i - 1) : /\ W[j].role = "assistant"
                                       /\ W[i].call \in W[j].calls
      <4>1. i \in DOMAIN Q /\ W[i] = Q[i] /\ i \in 1..n
        BY <2>1, <2>2, <2>3, <3>3
      <4>2. PICK j \in 1..(i - 1) : /\ Q[j].role = "assistant"
                                   /\ Q[i].call \in Q[j].calls
        BY <3>3, <4>1 DEF Paired
      <4>3. j \in 1..n
        BY <2>1, <4>1, <4>2
      <4> QED
        BY <2>1, <4>1, <4>2, <4>3
    <3> QED
      BY <3>1, <3>2, <3>3 DEF Paired
  <2>6. \A b : b \in Bodies(W) <=> b \in Bodies(Q) \/ b = text
    BY <2>2, <2>3, <2>4, InMessages
  <2>7. text.kind # "text"
    BY <1>5 DEF Rendered, EmptyText
  <2>8. Carried(W) \subseteq NowShown(P, files)
    <3>1. ASSUME NEW b \in Bodies(Q)
          PROVE  ShowsNow(b, P, files) /\ Frames(b) = {}
      <4>1. ShowsNow(b, P, files)
        BY DEF Bodies, AllShowNow
      <4> QED
        BY <4>1 DEF ShowsNow, Frames
    <3>2. ASSUME NEW b \in Bodies(W), b.kind = "text", b.at # Gone
          PROVE  b \in NowShown(P, files)
      <4>1. b \in Bodies(Q)
        BY <2>6, <2>7, <3>2
      <4> QED
        BY <1>3, <3>1, <3>2, <4>1
    <3>3. ASSUME NEW b \in Bodies(W)
          PROVE  Frames(b) \subseteq NowShown(P, files)
      <4>1. CASE b = text
        BY <1>2, <4>1
      <4>2. CASE b \in Bodies(Q)
        BY <3>1, <4>2
      <4> QED
        BY <2>6, <4>1, <4>2
    <3> QED
      BY ONLY <3>2, <3>3 DEF Carried
  <2>9. Frames(text) \subseteq Carried(W)
    BY <2>6 DEF Carried
  <2> QED
    BY <2>5, <2>8, <2>9
<1> QED
  BY <1>4, <1>5

-----------------------------------------------------------------------------
(* How a transcript grows *)

\* Words and a reply are messages, and so is the result of a call.
LEMMA MessagesOfTheHost ==
  /\ User(Words) \in Message
  /\ \A text \in ProjectionText : User(text) \in Message
  /\ \A says \in BOOLEAN : \A calls \in SUBSET Calls :
       Assistant(says, calls) \in Message
  /\ \A c \in Calls : \A b \in Shown(c) : Result(c, b) \in Message
<1>1. User(Words) \in Message /\ \A text \in ProjectionText : User(text) \in Message
  BY DEF User, UserMessage, Message
<1>2. \A says \in BOOLEAN : \A calls \in SUBSET Calls :
        Assistant(says, calls) \in Message
  BY DEF Assistant, AssistantMessage, Message
<1>3. \A c \in Calls : \A b \in Shown(c) : Result(c, b) \in Message
  BY DEF ToolMessage, Message
<1> QED
  BY <1>1, <1>2, <1>3

\* A list with one more message than the old one.
Adds(longer, old, m) ==
  /\ Len(old) \in Nat /\ Len(longer) = Len(old) + 1
  /\ longer # <<>>
  /\ \A i \in 1..Len(old) : longer[i] = old[i]
  /\ longer[Len(old) + 1] = m
  /\ \A c : c \in CallsIn(longer) <=>
       c \in CallsIn(old) \/ (m.role = "assistant" /\ c \in m.calls)
  /\ \A c : c \in ResultsIn(longer) <=>
       c \in ResultsIn(old) \/ (m.role = "tool" /\ c = m.call)

\* A message may follow a transcript unless it is the result of a call that
\* was not made.
LEMMA TranscriptGrows ==
  ASSUME NEW messages, Transcript(messages), NEW m \in Message,
         m.role = "tool" => m.call \in CallsIn(messages)
  PROVE  Transcript(Append(messages, m)) /\ Adds(Append(messages, m), messages, m)
<1> DEFINE longer == Append(messages, m)
<1> HIDE DEF longer
<1>0. longer = Append(messages, m)
  BY DEF longer
<1> DEFINE n == Len(messages)
<1>1. /\ n \in Nat /\ DOMAIN messages = 1..n
      /\ longer \in Seq(Message) /\ Len(longer) = n + 1
      /\ \A i \in 1..n : longer[i] = messages[i]
      /\ longer[n + 1] = m
  BY <1>0, AppendProperties, LenProperties DEF Transcript
<1>2. DOMAIN longer = 1..(n + 1) /\ longer # <<>>
  BY <1>1, LenProperties, EmptySeq
<1> HIDE DEF n
<1>3. /\ \A i \in DOMAIN longer :
           i = n + 1 \/ (i \in DOMAIN messages /\ longer[i] = messages[i])
      /\ \A i \in DOMAIN messages : i \in DOMAIN longer /\ longer[i] = messages[i]
      /\ n + 1 \in DOMAIN longer
  BY <1>1, <1>2
<1>4. ASSUME NEW c
      PROVE  c \in CallsIn(longer) <=>
               c \in CallsIn(messages) \/ (m.role = "assistant" /\ c \in m.calls)
  <2>1. (\E i \in DOMAIN longer : longer[i].role = "assistant" /\ c \in longer[i].calls)
        <=> \/ \E i \in DOMAIN messages : /\ messages[i].role = "assistant"
                                         /\ c \in messages[i].calls
            \/ m.role = "assistant" /\ c \in m.calls
    BY <1>1, <1>3
  <2> QED
    BY <2>1, InMessages
<1>5. ASSUME NEW c
      PROVE  c \in ResultsIn(longer) <=>
               c \in ResultsIn(messages) \/ (m.role = "tool" /\ c = m.call)
  <2>1. (\E i \in DOMAIN longer : longer[i].role = "tool" /\ c = longer[i].call)
        <=> \/ \E i \in DOMAIN messages : /\ messages[i].role = "tool"
                                         /\ c = messages[i].call
            \/ m.role = "tool" /\ c = m.call
    BY <1>1, <1>3
  <2>2. c \in ResultsIn(longer) <=>
          \E i \in DOMAIN longer : longer[i].role = "tool" /\ c = longer[i].call
    BY DEF ResultsIn
  <2>3. c \in ResultsIn(messages) <=>
          \E i \in DOMAIN messages :
            messages[i].role = "tool" /\ c = messages[i].call
    BY DEF ResultsIn
  <2> QED
    BY <2>1, <2>2, <2>3
<1>6. ASSUME NEW i \in DOMAIN longer, longer[i].role = "tool"
      PROVE  CalledBefore(longer, i)
  <2>1. CASE i = n + 1
    <3>1. m.call \in CallsIn(messages) /\ longer[i].call = m.call
      BY <1>1, <1>6, <2>1
    <3>2. PICK j \in DOMAIN messages : /\ messages[j].role = "assistant"
                                      /\ m.call \in messages[j].calls
      BY <3>1, InMessages
    <3>3. j \in 1..(i - 1) /\ longer[j] = messages[j]
      BY <1>1, <1>3, <2>1
    <3> QED
      BY <3>1, <3>2, <3>3 DEF CalledBefore
  <2>2. CASE i \in DOMAIN messages /\ longer[i] = messages[i]
    <3>1. PICK j \in 1..(i - 1) : /\ messages[j].role = "assistant"
                                 /\ messages[i].call \in messages[j].calls
      BY <1>6, <2>2 DEF Transcript, CalledBefore
    <3>2. longer[j] = messages[j]
      BY <1>1, <2>2
    <3> QED
      BY <2>2, <3>1, <3>2 DEF CalledBefore
  <2> QED
    BY <1>3, <2>1, <2>2
<1> QED
  BY <1>0, <1>1, <1>2, <1>4, <1>5, <1>6 DEF Transcript, Adds, n

\* The calls that wait for their results.
Unanswered(m) == CallsIn(m) \ ResultsIn(m)

\* The calls of a transcript are calls, and their results follow them.
LEMMA CallsOfTranscript ==
  ASSUME RequestPruneAssumption, NEW m, Transcript(m)
  PROVE  /\ CallsIn(m) \subseteq Calls /\ ResultsIn(m) \subseteq CallsIn(m)
         /\ Len(m) \in Nat /\ DOMAIN m = 1..Len(m)
         /\ IsFiniteSet(Unanswered(m)) /\ Cardinality(Unanswered(m)) \in Nat
<1>1. /\ Len(m) \in Nat /\ DOMAIN m = 1..Len(m)
      /\ \A i \in 1..Len(m) : m[i] \in Message
  BY Places DEF Transcript
<1>2. CallsIn(m) \subseteq Calls
  BY <1>1, InMessages, MessageCases
<1>3. ResultsIn(m) \subseteq CallsIn(m)
  <2>1. SUFFICES ASSUME NEW i \in 1..Len(m), m[i].role = "tool"
                 PROVE  m[i].call \in CallsIn(m)
    BY <1>1, InMessages
  <2>2. PICK j \in 1..(i - 1) :
          m[j].role = "assistant" /\ m[i].call \in m[j].calls
    BY <1>1, <2>1 DEF Transcript, CalledBefore
  <2>3. j \in DOMAIN m
    BY <1>1
  <2> QED
    BY <2>2, <2>3, InMessages
<1>4. IsFiniteSet(Calls)
  BY DEF RequestPruneAssumption
<1>5. Unanswered(m) \subseteq Calls
  BY <1>2 DEF Unanswered
<1>6. IsFiniteSet(Unanswered(m))
  BY <1>4, <1>5, FS_Subset
<1> QED
  BY <1>1, <1>2, <1>3, <1>6, FS_CardinalityType

\* What a transcript carries are contents of files.
LEMMA CarriedByTranscript ==
  ASSUME RequestPruneAssumption, NEW messages, Transcript(messages)
  PROVE  \A b \in Carried(messages) : b.path \in Paths /\ b.at \in Versions
<1>1. ASSUME NEW b \in Bodies(messages)
      PROVE  /\ b.kind = "text" /\ b.at # Gone => b.path \in Paths /\ b.at \in Versions
             /\ \A f \in Frames(b) : f.path \in Paths /\ f.at \in Versions
  <2>1. PICK i \in DOMAIN messages :
          messages[i].role # "assistant" /\ b = messages[i].body
    BY InMessages
  <2> DEFINE m == messages[i]
  <2>2. m \in Message
    BY Places DEF Transcript
  <2> HIDE DEF m
  <2>3. \/ b = Words
        \/ b \in ProjectionText
        \/ \E c \in Calls : b = Output(c)
        \/ \E c \in Calls, v \in Content :
             ReadOf[c] # NoPath /\ b = Text(ReadOf[c], v)
    BY <2>1, <2>2, MessageCases DEF m
  <2>4. CASE b = Words \/ \E c \in Calls : b = Output(c)
    <3>1. b.kind \in {"words", "output"}
      BY <2>4 DEF Words, Output
    <3> QED
      BY <3>1 DEF Frames
  <2>5. CASE b \in ProjectionText
    <3>1. b.kind = "projection" /\ b.frames \in Seq(Frame)
      BY <2>5 DEF ProjectionText
    <3>2. \A k \in DOMAIN b.frames : b.frames[k] \in Frame
      BY <3>1, Places
    <3>3. \A f \in Frames(b) : f \in Frame
      BY <3>1, <3>2 DEF Frames
    <3> QED
      BY <3>1, <3>3 DEF Frame
  <2>6. CASE \E c \in Calls, v \in Content :
               ReadOf[c] # NoPath /\ b = Text(ReadOf[c], v)
    <3>1. PICK c \in Calls, v \in Content :
            ReadOf[c] # NoPath /\ b = Text(ReadOf[c], v)
      BY <2>6
    <3>2. b.kind = "text" /\ b.path = ReadOf[c] /\ b.at = v
      BY <3>1 DEF Text
    <3>3. ReadOf[c] \in Paths
      BY <3>1 DEF RequestPruneAssumption
    <3> QED
      BY <3>1, <3>2, <3>3 DEF Frames, Content
  <2> QED
    BY <2>3, <2>4, <2>5, <2>6
<1> QED
  BY <1>1 DEF Carried

-----------------------------------------------------------------------------
(* When the projection collapses *)

\* Nothing can be quoted from a projection without frames.
LEMMA NothingToQuote ==
  ASSUME NEW text, Frames(text) = {}, NEW messages, NEW P, NEW injected
  PROVE  /\ SecondTurnGate(messages, P, text, injected) = FALSE
         /\ \A p, body : Inlines(p, body, P, text, FALSE) <=>
              p \in P.selected /\ Quotes(Current(p, P))
BY DEF SecondTurnGate, Inlines, CarriesQuoteable

\* Then the result of a tracked call shows its file if it was selected and can
\* be quoted, and else the marker that says it is supplied.
LEMMA InlinedAtTheRead ==
  ASSUME NEW messages, NEW unitOf, NEW P, NEW text, Frames(text) = {}, NEW injected,
         NEW R, R = ReplaceHistorical(ReplaceTracked(messages, unitOf, P, text,
                                                     injected)),
         NEW i \in DOMAIN messages, messages[i].role = "tool",
         messages[i].call \in DOMAIN unitOf,
         NEW file, file = unitOf[messages[i].call]
  PROVE  /\ R[i].role = "tool" /\ R[i].call = messages[i].call
         /\ file \in P.selected /\ Quotes(Current(file, P)) =>
              R[i].body = Current(file, P)
         /\ ~(file \in P.selected /\ Quotes(Current(file, P))) =>
              R[i].body = StableMarker(file)
<1> DEFINE T == ReplaceTracked(messages, unitOf, P, text, injected)
           gate == SecondTurnGate(messages, P, text, injected)
           c == messages[i].call
           p == unitOf[c]
           body == IF Inlines(p, messages[i].body, P, text, gate)
                   THEN Current(p, P) ELSE StableMarker(p)
<1>0. R = ReplaceHistorical(T)
  OBVIOUS
<1>1. DOMAIN T = DOMAIN messages /\ T[i] = Result(c, body)
  BY DEF ReplaceTracked
<1>2. body = IF p \in P.selected /\ Quotes(Current(p, P))
             THEN Current(p, P) ELSE StableMarker(p)
  <2>1. gate = FALSE
    BY NothingToQuote
  <2>2. Inlines(p, messages[i].body, P, text, FALSE) <=>
          p \in P.selected /\ Quotes(Current(p, P))
    BY NothingToQuote
  <2> HIDE DEF gate
  <2> QED
    BY <2>1, <2>2
<1> HIDE DEF T, body
<1>3. R[i] = T[i]
  <2>1. i \in DOMAIN T /\ T[i].role = "tool"
    BY <1>1 DEF Result
  <2>2. ~IsProjection(T[i])
    BY <2>1 DEF IsProjection
  <2>3. R = [j \in DOMAIN T |->
               IF IsProjection(T[j])
               THEN User([kind |-> "served", units |-> Len(T[j].body.frames)])
               ELSE T[j]]
    BY <1>0 DEF ReplaceHistorical
  <2> QED
    BY <2>1, <2>2, <2>3
<1> QED
  BY <1>1, <1>2, <1>3 DEF Result

\* R is a list, of whatever it may be.
Listed(R) == \E n \in Nat : DOMAIN R = 1..n

\* The result of a served read is left in the request, with its body or a
\* marker.
LEMMA ServedResult ==
  ASSUME NEW R, Listed(R),
         NEW unitOf, NEW P, NEW history,
         NEW i \in DOMAIN R, R[i].role = "tool",
         R[i].call \in DOMAIN unitOf, unitOf[R[i].call] \in P.selected,
         NEW Q, Q = DropPairs(R, unitOf, P, history)
  PROVE  \E k \in DOMAIN Q :
           /\ Q[k].role = "tool" /\ Q[k].call = R[i].call
           /\ Q[k].body = KeptBody(R[i], R, unitOf, P, history)
<1> DEFINE gone == Dropped(R, unitOf, P, history)
           rest == Rests(R, gone, unitOf, P, history)
           c == R[i].call
<1> PICK n \in Nat : DOMAIN R = 1..n
  BY DEF Listed
<1>1. Prunes(Q, R, gone, rest)
  BY Pruning
<1>2. c \notin gone
  BY DEF Dropped, Served
<1>3. Stays(R[i], gone)
  BY <1>2 DEF Stays
<1>4. /\ rest[i].role = "tool" /\ rest[i].call = c
      /\ rest[i].body = KeptBody(R[i], R, unitOf, P, history)
  BY ONLY i \in 1..n, DOMAIN R = 1..n, R[i].role = "tool", RestOfMessage
<1> HIDE DEF gone, rest
<1>5. PICK k \in DOMAIN Q : Q[k] = rest[i]
  <2>1. PICK size \in Nat : \E at \in [1..size -> DOMAIN R] :
          /\ DOMAIN Q = 1..size
          /\ \A j, l \in 1..size : at[j] < at[l] => j < l
          /\ \A j \in DOMAIN R : Stays(R[j], gone) => \E l \in 1..size : at[l] = j
          /\ \A l \in 1..size : Stays(R[at[l]], gone) /\ Q[l] = rest[at[l]]
    BY ONLY <1>1 DEF Prunes
  <2>2. PICK at \in [1..size -> DOMAIN R] :
          /\ DOMAIN Q = 1..size
          /\ \A j \in DOMAIN R : Stays(R[j], gone) => \E l \in 1..size : at[l] = j
          /\ \A l \in 1..size : Q[l] = rest[at[l]]
    BY ONLY <2>1
  <2>3. PICK l \in 1..size : at[l] = i
    BY <1>3, <2>2
  <2> QED
    BY <2>2, <2>3
<1>6. /\ k \in DOMAIN Q /\ Q[k].role = "tool" /\ Q[k].call = c
      /\ Q[k].body = KeptBody(R[i], R, unitOf, P, history)
  BY <1>4, <1>5
<1> QED
  BY ONLY <1>6

(***************************************************************************)
(* A result that shows a served file is left in the request, unless the    *)
(* call was sent before as one of an omitted file, or a marker stands for  *)
(* the dump it is taken for (request-prune.mjs:662-752).                   *)
(***************************************************************************)
LEMMA ServedStays ==
  ASSUME NEW n \in Nat, NEW R, DOMAIN R = 1..n,
         NEW unitOf, NEW P, NEW history,
         NEW i \in 1..n, R[i].role = "tool",
         R[i].call \in DOMAIN unitOf,
         unitOf[R[i].call] \in P.selected, unitOf[R[i].call] \notin P.budget
  PROVE  LET c == R[i].call
             Q == DropPairs(R, unitOf, P, history)
         IN  \/ R[i].body \in Bodies(Q)
             \/ /\ history[c] \in Omissions
                /\ OmittedMarker(ReadOf[c], history[c]) \in Bodies(Q)
             \/ /\ c \in StaleDumps(R, unitOf, P)
                /\ DumpMarker(c, P) \in Bodies(Q)
<1> DEFINE Q == DropPairs(R, unitOf, P, history)
<1>1. Q = DropPairs(R, unitOf, P, history)
  OBVIOUS
<1> HIDE DEF Q
<1>2. PICK k \in DOMAIN Q :
        /\ Q[k].role = "tool" /\ Q[k].call = R[i].call
        /\ Q[k].body = KeptBody(R[i], R, unitOf, P, history)
  <2>1. Listed(R) /\ i \in DOMAIN R
    BY DEF Listed
  <2>2. /\ R[i].role = "tool"
        /\ R[i].call \in DOMAIN unitOf /\ unitOf[R[i].call] \in P.selected
    OBVIOUS
  <2> QED
    BY ONLY <1>1, <2>1, <2>2, ServedResult
<1>3. KeptBody(R[i], R, unitOf, P, history) \in Bodies(Q)
  BY <1>2, InMessages
<1> QED
  BY <1>3 DEF KeptBody, Q

(***************************************************************************)
(* A marker that says the current content is supplied stands only for a    *)
(* tracked call whose file was not left out for the budget                 *)
(* (request-prune.mjs:388-437, 720-744).                                   *)
(***************************************************************************)
LEMMA StableStandsForServed ==
  ASSUME RequestPruneAssumption, NEW messages, Transcript(messages),
         NEW unitOf, NEW P, NEW R, Rewrites(R, messages, unitOf, P),
         NEW history, NEW p,
         StableMarker(p) \in Bodies(DropPairs(R, unitOf, P, history))
  PROVE  \E i \in DOMAIN messages :
           /\ messages[i].role = "tool"
           /\ messages[i].call \in DOMAIN unitOf
           /\ unitOf[messages[i].call] = p /\ p \notin P.budget
           /\ R[i].body = StableMarker(p)
<1> DEFINE gone == Dropped(R, unitOf, P, history)
           rest == Rests(R, gone, unitOf, P, history)
           Q == DropPairs(R, unitOf, P, history)
           n == Len(messages)
<1>1. /\ n \in Nat /\ DOMAIN messages = 1..n /\ DOMAIN R = 1..n
      /\ \A i \in 1..n : messages[i] \in Message
  BY Places DEF Transcript, Rewrites
<1> HIDE DEF n
<1>2. Prunes(Q, R, gone, rest)
  BY <1>1, Pruning
<1>3. rest = Rests(R, gone, unitOf, P, history)
  OBVIOUS
<1> HIDE DEF gone, rest, Q
<1>4. PICK k \in DOMAIN Q : Q[k].role # "assistant" /\ Q[k].body = StableMarker(p)
  BY InMessages DEF Q
<1>5. PICK i \in 1..n : Q[k] = rest[i]
  BY <1>1, <1>2, <1>4 DEF Prunes
<1> DEFINE m == messages[i]
<1>6. /\ m \in Message /\ R[i].role = m.role
      /\ R[i].role \in {"user", "assistant", "tool"}
  <2>1. m \in Message
    BY ONLY <1>1, i \in 1..n
  <2>2. m.role \in {"user", "assistant", "tool"}
    BY ONLY <2>1, MessageCases
  <2>3. R[i].role = m.role
    BY ONLY <1>1, i \in 1..n, Rewrites(R, messages, unitOf, P) DEF Rewrites
  <2> QED
    BY ONLY <2>1, <2>2, <2>3
<1>7. /\ rest[i].role = R[i].role
      /\ R[i].role = "user" => rest[i] = R[i]
      /\ R[i].role = "tool" => rest[i].body = KeptBody(R[i], R, unitOf, P, history)
  <2>1. i \in DOMAIN R
    BY ONLY <1>1, i \in 1..n
  <2>2. LET r == Rests(R, gone, unitOf, P, history)[i]
        IN  /\ r.role = R[i].role
            /\ R[i].role = "user" => r = R[i]
            /\ R[i].role = "tool" => r.body = KeptBody(R[i], R, unitOf, P, history)
    BY ONLY <1>6, <2>1, RestOfMessage
  <2> QED
    BY ONLY <1>3, <2>2
<1>8. StableMarker(p).kind = "stable" /\ StableMarker(p).path = p
  BY DEF StableMarker
<1>9. R[i].role # "user"
  <2>1. SUFFICES ASSUME R[i].role = "user" PROVE FALSE
    OBVIOUS
  <2>2. R[i].body.kind \in {"words", "served"}
    BY <1>1, <1>6, <2>1 DEF Rewrites
  <2> QED
    BY <1>4, <1>5, <1>7, <1>8, <2>1, <2>2
<1>10. R[i].role = "tool" /\ m.role = "tool"
  BY <1>4, <1>5, <1>6, <1>7, <1>9
<1> DEFINE c == m.call
           body == KeptBody(R[i], R, unitOf, P, history)
<1>11. /\ R[i].call = c /\ body = StableMarker(p)
       /\ IF c \in DOMAIN unitOf
          THEN R[i].body \in {Current(unitOf[c], P), StableMarker(unitOf[c])}
          ELSE R[i].body = m.body
  BY <1>1, <1>4, <1>5, <1>7, <1>10 DEF Rewrites
<1>12. \/ body = DumpMarker(c, P)
       \/ body = OmittedMarker(unitOf[c], "budget")
       \/ body = OmittedMarker(ReadOf[c], history[c])
       \/ body = R[i].body /\ ~(c \in DOMAIN unitOf /\ unitOf[c] \in P.budget)
  BY <1>11 DEF KeptBody
<1> HIDE DEF body
<1>13. body = R[i].body /\ ~(c \in DOMAIN unitOf /\ unitOf[c] \in P.budget)
  <2>1. /\ DumpMarker(c, P).kind = "dump"
        /\ OmittedMarker(unitOf[c], "budget").kind = "omitted"
        /\ OmittedMarker(ReadOf[c], history[c]).kind = "omitted"
    BY DEF DumpMarker, OmittedMarker
  <2> QED
    BY <1>8, <1>11, <1>12, <2>1
<1>14. c \in DOMAIN unitOf
  <2>1. SUFFICES ASSUME c \notin DOMAIN unitOf PROVE FALSE
    OBVIOUS
  <2>2. m.body.kind = "stable"
    BY <1>8, <1>11, <1>13, <2>1
  <2>3. \/ m.body = Output(c)
        \/ \E v \in Content : m.body = Text(ReadOf[c], v)
    BY <1>6, <1>10, MessageCases
  <2>4. /\ Output(c).kind = "output"
        /\ \A v : Text(ReadOf[c], v).kind = "text"
    BY DEF Output, Text
  <2> HIDE DEF m, c
  <2>5. CASE m.body = Output(c)
    BY <2>2, <2>4, <2>5
  <2>6. CASE \E v \in Content : m.body = Text(ReadOf[c], v)
    <3>1. PICK v \in Content : m.body = Text(ReadOf[c], v)
      BY <2>6
    <3> QED
      BY <2>2, <2>4, <3>1
  <2> QED
    BY <2>3, <2>5, <2>6
<1>15. unitOf[c] = p
  <2>1. R[i].body.kind = "stable" /\ R[i].body.path = p
    BY <1>8, <1>11, <1>13
  <2>2. R[i].body = StableMarker(unitOf[c])
    BY <1>11, <1>14, <2>1 DEF Current, Text
  <2> QED
    BY <2>1, <2>2 DEF StableMarker
<1> QED
  BY <1>1, <1>10, <1>11, <1>13, <1>14, <1>15

=============================================================================
