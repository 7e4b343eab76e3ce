-------------------------- MODULE HermesBridgeProofs --------------------------
(***************************************************************************)
(* Proofs about HermesBridge, for any files and calls, any budget, and     *)
(* whatever is killed, interrupted, deleted or kept by the host.           *)
(***************************************************************************)
EXTENDS HermesBridge, RequestPruneProofs

\* The plugin, with calls and state of its own.
CONSTANTS Sessions, PluginCalls, SessionOf
VARIABLES store, executed, stateFile, operation, payload, renamed, taken

Plugin == INSTANCE ExecutedReads WITH Calls <- PluginCalls, saved <- renamed

-----------------------------------------------------------------------------
(* The inductive invariant *)

\* The host's transcript begins with its user, and has one when a request is
\* made.
Conversation ==
  /\ Transcript(messages)
  /\ messages # <<>> => messages[1].role = "user"
  /\ stage # "user" => messages # <<>>

\* There is room for the results of the calls that run, and only then are
\* there any.
Waiting == Unanswered(messages)
RoomForResults ==
  /\ Len(messages) + Cardinality(Waiting) =< MaxMessages
  /\ stage # "tools" => Waiting = {}

\* What a request says of the files that were selected.
Accounted(P, W) ==
  \A p \in P.selected :
    Quotes(Current(p, P)) =>
      \/ Current(p, P) \in Carried(W)
      \/ \E why \in Omissions : OmittedMarker(p, why) \in Bodies(W)
      \/ \E c \in Calls : ReadOf[c] = p /\ DumpMarker(c, P) \in Bodies(W)

\* A file that a marker calls supplied is, if it was selected; and the file of
\* no other marker was left out for the budget.
Supplied(P, W) ==
  \A p \in Paths :
    StableMarker(p) \in Bodies(W) =>
      /\ p \in P.selected \cup P.unresolved
      /\ p \in P.selected =>
           Current(p, P) \in Carried(W) \/ ~Quotes(Current(p, P))

\* A projection at the end of a request is one the host may keep, and its
\* frames are among what the request carries.
TailIsShown(W) ==
  IsProjection(W[Len(W)]) =>
    /\ W[Len(W)] \in UserMessage
    /\ Frames(W[Len(W)].body) \subseteq Carried(W)

\* A request is the host's own, or one that RequestPrune made.
Outgoing ==
  stage = "send" =>
    IF applied
    THEN /\ Paired(request, messages)
         /\ Carried(request) \subseteq NowShown(working, Paths)
         /\ TailIsShown(request)
         /\ Accounted(working, request)
         /\ Supplied(working, request)
    ELSE request = messages

IndInv == TypeOK /\ Conversation /\ RoomForResults /\ Outgoing

-----------------------------------------------------------------------------
(* The delivery state *)

\* A loaded state is a state, its deliveries the saved ones or none.
LEMMA Promoting ==
  ASSUME NEW s \in State, MaxMessages \in Nat
  PROVE  /\ Loaded(s) \in State
         /\ Loaded(s).last \in {s.last, None}
         /\ Loaded(s).pending \in {s.pending, None}
         /\ ~s.versioned => Loaded(s).last = None
         /\ Cleared(s) \in State
         /\ Cleared(s).last = s.last /\ Cleared(s).pending = None
         /\ Committed(s).last \in {s.last, s.pending}
         /\ \A transcript :
              LET t == Promoted(Loaded(s), transcript)
              IN  /\ t \in State
                  /\ t.pending = None
                  /\ t.last \in {Loaded(s).last, Loaded(s).pending}
<1>1. None \in [Paths -> Content] /\ NoHistory \in [Calls -> {"none"} \cup Omissions]
  BY DEF None, NoHistory, Content
<1>2. FreshState \in State
  BY <1>1 DEF FreshState, State
<1>3. ASSUME NEW t \in State
      PROVE  /\ Cleared(t) \in State
             /\ Cleared(t).last = t.last /\ Cleared(t).pending = None
  <2> DEFINE b == Holds(t.last)
  <2>1. b \in BOOLEAN
    BY DEF Holds
  <2>2. Cleared(t) = [t EXCEPT !.pending = None, !.text = EmptyText, !.ackAfter = 0,
                               !.pendingHistory = NoHistory, !.versioned = b]
    BY DEF Cleared
  <2> HIDE DEF b
  <2>3. 0 \in 0..MaxMessages
    OBVIOUS
  <2> QED
    BY <1>1, <2>1, <2>2, <2>3 DEF State
<1>4. /\ Loaded(s) \in State
      /\ Loaded(s).last \in {s.last, None}
      /\ Loaded(s).pending \in {s.pending, None}
      /\ ~s.versioned => Loaded(s).last = None /\ Loaded(s).pending = None
      /\ ~Loaded(s).versioned => Loaded(s).pending = None
  BY <1>2 DEF Loaded, FreshState, State
<1>5. ASSUME NEW t \in State
      PROVE  /\ Committed(t) \in State
             /\ Committed(t).pending = None
             /\ Committed(t).last \in {t.last, t.pending}
  <2> DEFINE last == IF Holds(t.pending) THEN t.pending ELSE t.last
             u == [t EXCEPT !.last = last]
             history == [c \in Calls |->
               IF t.pendingHistory[c] # "none" THEN t.pendingHistory[c]
               ELSE t.history[c]]
  <2>1. last \in [Paths -> Content] /\ last \in {t.last, t.pending}
    BY DEF State
  <2>2. history \in [Calls -> {"none"} \cup Omissions]
    BY DEF State
  <2>3. u \in State /\ u.last = last
    <3> HIDE DEF last
    <3> QED
      BY <2>1 DEF State
  <2>4. /\ Cleared(u) \in State
        /\ Cleared(u).last = last /\ Cleared(u).pending = None
    BY <1>3, <2>3
  <2>5. Committed(t) = [Cleared(u) EXCEPT !.history = history]
    BY DEF Committed
  <2> HIDE DEF last, u, history
  <2>6. [Cleared(u) EXCEPT !.history = history] \in State
        /\ [Cleared(u) EXCEPT !.history = history].last = Cleared(u).last
        /\ [Cleared(u) EXCEPT !.history = history].pending = Cleared(u).pending
    BY <2>2, <2>4 DEF State
  <2> QED
    BY <2>1, <2>4, <2>5, <2>6
<1>6. ASSUME NEW transcript
      PROVE  LET t == Promoted(Loaded(s), transcript)
             IN  /\ t \in State
                 /\ t.pending = None
                 /\ t.last \in {Loaded(s).last, Loaded(s).pending}
  <2> DEFINE t == Loaded(s)
  <2>1. CASE Promoted(t, transcript) = t /\ ~t.versioned
    BY <1>4, <2>1
  <2>2. CASE Promoted(t, transcript) = Committed(t)
    BY <1>4, <1>5, <2>2
  <2>3. CASE Promoted(t, transcript) = Cleared(t)
    BY <1>3, <1>4, <2>3
  <2>4. CASE Promoted(t, transcript) = t /\ ~Holds(t.pending)
    <3>1. t \in State
      BY <1>4
    <3>2. t.pending = None
      BY <2>4, <3>1 DEF State, Holds, None
    <3> QED
      BY <2>4, <3>1, <3>2
  <2> HIDE DEF t
  <2>5. \/ Promoted(t, transcript) = t /\ ~t.versioned
        \/ Promoted(t, transcript) = Committed(t)
        \/ Promoted(t, transcript) = Cleared(t)
        \/ Promoted(t, transcript) = t /\ ~Holds(t.pending)
    BY DEF Promoted
  <2> QED
    BY <2>1, <2>2, <2>3, <2>4, <2>5 DEF t
<1> QED
  BY <1>3, <1>4, <1>5, <1>6

-----------------------------------------------------------------------------
(* What select makes *)

\* The last of the user's messages is one of the transcript's.
LEMMA LastUserIsThere ==
  ASSUME Conversation, messages # <<>>
  PROVE  LastUser \in 1..Len(messages)
<1> DEFINE n == Len(messages)
           places == {i \in 1..n : messages[i].role = "user"}
           size == Cardinality(places)
<1>1. n \in Nat /\ DOMAIN messages = 1..n
  BY Places DEF Conversation, Transcript
<1>2. messages \in Seq(Message)
  BY DEF Conversation, Transcript
<1>3. 1 \in places
  <2>1. n # 0
    BY <1>2, EmptySeq
  <2> QED
    BY <1>1, <2>1 DEF Conversation
<1>4. places \in SUBSET (1..n) /\ places \subseteq Nat
  BY <1>1
<1> HIDE DEF n, places
<1>5. /\ size \in Nat
      /\ \A k \in 1..size : Nth(places, k) \in places
      /\ \A i \in places : \E k \in 1..size : Nth(places, k) = i
      /\ \A j, k \in 1..size : Nth(places, j) < Nth(places, k) => j < k
  BY <1>1, <1>4, NthPlace
<1> HIDE DEF size
<1>6. size \in 1..size
  BY <1>3, <1>5
<1>7. \A j \in places : j =< Nth(places, size)
  <2>1. TAKE j \in places
  <2>2. PICK k \in 1..size : Nth(places, k) = j
    BY <1>5
  <2>3. Nth(places, size) \in Nat /\ j \in Nat
    BY <1>1, <1>4, <1>5, <1>6
  <2>4. ~(size < k)
    BY <1>5, <2>2
  <2>5. ~(Nth(places, size) < Nth(places, k))
    BY <1>5, <1>6, <2>4
  <2> QED
    BY <2>2, <2>3, <2>5
<1>8. Nth(places, size) \in places
  BY <1>5, <1>6
<1>9. \E i \in DOMAIN messages :
        /\ messages[i].role = "user"
        /\ \A j \in DOMAIN messages : messages[j].role = "user" => j =< i
  BY <1>1, <1>7, <1>8 DEF places, n
<1> QED
  BY <1>1, <1>9 DEF LastUser, n

\* Only files are tracked, and only by calls that read them.
LEMMA TrackedFiles ==
  ASSUME RequestPruneAssumption, Transcript(messages)
  PROVE  /\ \A c \in DOMAIN UnitOf : UnitOf[c] \in Paths
         /\ Units \subseteq Paths
<1> DEFINE readable == {c \in Completed : ReadOf[c] # NoPath}
           tracked == LatestReads(messages, readable) \cup
                        {c \in readable : Tool[c] = "shell"
                                          /\ disk[ReadOf[c]] # Gone}
<1>1. Completed \subseteq Calls
  BY CallsOfTranscript DEF Completed
<1>2. \A c \in readable : ReadOf[c] \in Paths
  BY <1>1 DEF RequestPruneAssumption
<1>3. tracked \subseteq readable
  BY DEF LatestReads, OfficialReads
<1>4. UnitOf = [c \in tracked |-> ReadOf[c]]
  BY DEF UnitOf
<1> HIDE DEF readable, tracked
<1>5. \A c \in DOMAIN UnitOf : UnitOf[c] \in Paths
  BY <1>2, <1>3, <1>4
<1> QED
  BY <1>5 DEF Units

\* Only files that are there are selected.
LEMMA WhatIsSelected ==
  ASSUME RequestPruneAssumption, Transcript(messages),
         disk \in [Paths -> Content],
         NEW overlap, NEW chosen \in SUBSET Units,
         IsWorkingSet(chosen, Hand, 0, overlap)
  PROVE  /\ ProjectionOf(chosen) \in Projections
         /\ ProjectionOf(chosen).selected = chosen
         /\ \A p \in chosen : ProjectionOf(chosen).content[p] \in Versions
<1>1. Units \subseteq Paths
  BY TrackedFiles
<1>2. DOMAIN Hand = Units
  BY DEF Hand
<1>3. \A p \in chosen : Resolved(Hand[p])
  BY <1>2 DEF IsWorkingSet
<1>4. \A p \in chosen : disk[p] # Gone
  <2>1. TAKE p \in chosen
  <2>2. Hand[p].state = IF disk[p] = Gone THEN "unresolved" ELSE "resolved"
    BY DEF Hand
  <2> QED
    BY <1>3, <2>2 DEF Resolved
<1>5. [p \in Paths |-> IF p \in Units THEN disk[p] ELSE Gone] \in [Paths -> Content]
  BY DEF Content
<1>6. ProjectionOf(chosen) \in Projections
  BY <1>1, <1>5 DEF ProjectionOf, Projections
<1>7. \A p \in chosen : ProjectionOf(chosen).content[p] = disk[p]
  BY <1>1 DEF ProjectionOf
<1>8. ProjectionOf(chosen).selected = chosen
  BY DEF ProjectionOf
<1> QED
  BY <1>1, <1>4, <1>6, <1>7, <1>8 DEF Content

(***************************************************************************)
(* What select sends: pairs are whole, files are shown as they are now,    *)
(* and the text it will remember is in it (bridge.mjs:804-822).            *)
(***************************************************************************)
LEMMA Assembling ==
  ASSUME RequestPruneAssumption, OnlyReadersRead, Conversation,
         messages # <<>>, disk \in [Paths -> Content],
         NEW overlap, NEW chosen \in SUBSET Units,
         IsWorkingSet(chosen, Hand, 0, overlap),
         NEW s, NEW P, P = ProjectionOf(chosen),
         NEW text, text = ResolveProjectionText(messages, P, s.last),
         NEW W, W = Assembled(s, P, text)
  PROVE  /\ P \in Projections
         /\ \A p \in P.selected : P.content[p] \in Versions
         /\ text # EmptyText => text = Rendered(P)
         /\ text \in {EmptyText} \cup ProjectionText
         /\ Paired(W, messages)
         /\ Carried(W) \subseteq NowShown(P, Paths)
         /\ TailIsShown(W)
         /\ text # EmptyText =>
              \A p \in P.selected : Current(p, P) \in Carried(W)
<1> DEFINE T == ReplaceTracked(messages, UnitOf, P, text, s.last)
           R == ReplaceHistorical(T)
           Q == DropPairs(R, UnitOf, P, s.history)
           n == Len(messages)
<1>1. Transcript(messages)
  BY DEF Conversation
<1>2. /\ n \in Nat /\ DOMAIN messages = 1..n
      /\ messages \in Seq(Message)
  BY <1>1, Places DEF Transcript
<1>3. 1 \in 1..n
  <2>1. n # 0
    BY <1>2, EmptySeq
  <2> QED
    BY <1>2, <2>1
<1>4. /\ P \in Projections
      /\ \A p \in P.selected : P.content[p] \in Versions
  BY <1>1, WhatIsSelected
<1>5. text \in {EmptyText, Rendered(P)}
  BY DEF ResolveProjectionText
<1>6. \A c \in DOMAIN UnitOf : UnitOf[c] \in Paths
  BY <1>1, TrackedFiles
<1>7. Rewrites(R, messages, UnitOf, P)
  BY <1>2, Rewriting
<1>8. W = WithTail(Q, text)
  BY DEF Assembled
<1>9. DOMAIN R = 1..n
  BY <1>2, <1>7 DEF Rewrites
<1>10. R[1].role = "user"
  BY <1>2, <1>3, <1>7 DEF Rewrites, Conversation
<1> HIDE DEF T, R, n
<1>11. Paired(Q, messages)
  BY <1>1, <1>7, PrunedIsPaired
<1>12. AllShowNow(Q, P, Paths)
  BY <1>1, <1>6, <1>7, PrunedShowsNow
<1>13. IsList(Q) /\ DOMAIN Q # {}
  <2>1. n \in Nat
    BY <1>2
  <2>2. /\ IsList(Q)
        /\ (\E i \in 1..n : R[i].role = "user") => DOMAIN Q # {}
    BY ONLY <1>9, <2>1, PrunedIsList
  <2>3. 1 \in 1..n
    BY <1>3, <2>1
  <2> QED
    BY ONLY <1>10, <2>2, <2>3
<1> HIDE DEF Q
<1>14. /\ Paired(W, messages)
       /\ Carried(W) \subseteq NowShown(P, Paths)
       /\ Frames(text) \subseteq Carried(W)
       /\ IsProjection(W[Len(W)]) => W[Len(W)] = User(text)
  <2>1. P \in Projections /\ \A p \in P.selected : P.content[p] \in Versions
    BY <1>4
  <2>2. IsList(Q) /\ Paired(Q, messages) /\ AllShowNow(Q, P, Paths)
    BY <1>11, <1>12, <1>13
  <2>3. /\ Paired(WithTail(Q, text), messages)
        /\ Carried(WithTail(Q, text)) \subseteq NowShown(P, Paths)
        /\ Frames(text) \subseteq Carried(WithTail(Q, text))
    <3>1. Paths \in SUBSET Paths /\ P.selected \subseteq Paths
      BY <2>1 DEF Projections
    <3> QED
      BY ONLY RequestPruneAssumption, <1>5, <2>1, <2>2, <3>1, TailedRequest
  <2>4. ASSUME IsProjection(W[Len(W)]) PROVE W[Len(W)] = User(text)
    <3>1. CASE text = EmptyText
      <4>1. W = Q
        BY <1>8, <3>1 DEF WithTail
      <4>2. Len(Q) \in DOMAIN Q
        BY <1>13, ListLengths
      <4> QED
        BY <2>2, <2>4, <4>1, <4>2 DEF IsProjection, AllShowNow, ShowsNow
    <3>2. CASE text # EmptyText
      <4>1. W = Append(Q, User(text))
        BY <1>8, <3>2 DEF WithTail
      <4> QED
        BY <1>13, <4>1, ListLengths
    <3> QED
      BY <3>1, <3>2
  <2> QED
    BY ONLY <1>8, <2>3, <2>4
<1>15. Rendered(P) \in ProjectionText
  BY <1>4, RenderedType
<1>16. TailIsShown(W)
  <2>1. SUFFICES ASSUME IsProjection(W[Len(W)])
                 PROVE  /\ W[Len(W)] \in UserMessage
                        /\ Frames(W[Len(W)].body) \subseteq Carried(W)
    BY DEF TailIsShown
  <2>2. W[Len(W)] = User(text)
    BY <1>14, <2>1
  <2>3. text.kind = "projection"
    BY <2>1, <2>2 DEF IsProjection, User
  <2>4. text = Rendered(P)
    BY <1>5, <2>3 DEF EmptyText
  <2>5. W[Len(W)] \in UserMessage
    BY <1>15, <2>2, <2>4 DEF User, UserMessage
  <2>6. Frames(W[Len(W)].body) \subseteq Carried(W)
    BY <1>14, <2>2 DEF User
  <2> QED
    BY <2>5, <2>6
<1>17. ASSUME text # EmptyText, NEW p \in P.selected
       PROVE  Current(p, P) \in Carried(W)
  <2>1. Frames(text) = {Current(q, P) : q \in P.selected}
    BY <1>4, <1>5, <1>17, RenderedFrames
  <2> QED
    BY <1>14, <1>17, <2>1
<1> QED
  BY <1>4, <1>5, <1>14, <1>15, <1>16, <1>17

\* A served shell read whose result gets the marker of a dump.
TakenForDump(c, P) ==
  /\ Tool[c] = "shell"
  /\ DumpedFiles(c, P) # {}
  /\ ~ /\ Named[c] \subseteq DumpedFiles(c, P)
       /\ Cardinality(DumpedFiles(c, P)) = 1
       /\ DumpedFiles(c, P) \cap P.unresolved = {}

\* Tracked calls read the files they are tracked for, and have results.
LEMMA TrackedCalls ==
  ASSUME RequestPruneAssumption, Transcript(messages)
  PROVE  \A c \in DOMAIN UnitOf :
           /\ c \in Calls /\ UnitOf[c] = ReadOf[c]
           /\ \E i \in DOMAIN messages :
                messages[i].role = "tool" /\ messages[i].call = c
<1> DEFINE readable == {c \in Completed : ReadOf[c] # NoPath}
           tracked == LatestReads(messages, readable) \cup
                        {c \in readable : Tool[c] = "shell"
                                          /\ disk[ReadOf[c]] # Gone}
<1>1. \A c \in readable : c \in Calls /\ c \in ResultsIn(messages)
  BY CallsOfTranscript DEF Completed
<1>2. tracked \subseteq readable
  BY DEF LatestReads, OfficialReads
<1>3. UnitOf = [c \in tracked |-> ReadOf[c]]
  BY DEF UnitOf
<1> HIDE DEF readable, tracked
<1>4. ASSUME NEW c \in DOMAIN UnitOf
      PROVE  /\ c \in Calls /\ UnitOf[c] = ReadOf[c]
             /\ c \in ResultsIn(messages)
  BY <1>1, <1>2, <1>3
<1> QED
  BY <1>4, InMessages

\* What the tail adds to a request.
LEMMA TailAddsText ==
  ASSUME NEW Q, IsList(Q), NEW text, text # EmptyText
  PROVE  \A b : b \in Bodies(WithTail(Q, text)) <=> b \in Bodies(Q) \/ b = text
<1> DEFINE W == Append(Q, User(text))
           n == Len(Q)
<1>1. /\ n \in Nat /\ DOMAIN Q = 1..n /\ DOMAIN W = 1..(n + 1)
      /\ \A k \in 1..n : W[k] = Q[k]
      /\ W[n + 1] = User(text)
  BY ListLengths
<1>2. WithTail(Q, text) = W
  BY DEF WithTail
<1> HIDE DEF W, n
<1>3. n + 1 \in DOMAIN W /\ W[n + 1].role = "user" /\ W[n + 1].body = text
  BY <1>1 DEF User
<1>4. \A k \in DOMAIN W : k = n + 1 \/ (k \in DOMAIN Q /\ W[k] = Q[k])
  BY <1>1
<1>5. \A k \in DOMAIN Q : k \in DOMAIN W /\ W[k] = Q[k]
  BY <1>1
<1>6. \A b : b \in Bodies(W) <=> b \in Bodies(Q) \/ b = text
  BY <1>3, <1>4, <1>5, InMessages
<1> QED
  BY <1>2, <1>6

(***************************************************************************)
(* What select sends of the selected files: each is there with its bytes,  *)
(* or its read was left out before, or is taken for a stale dump.  Where a *)
(* marker says that a file is supplied, it is (bridge.mjs:804-822).        *)
(***************************************************************************)
LEMMA Telling ==
  ASSUME RequestPruneAssumption, OnlyReadersRead, Conversation,
         messages # <<>>, disk \in [Paths -> Content],
         NEW overlap, NEW chosen \in SUBSET Units,
         IsWorkingSet(chosen, Hand, 0, overlap),
         NEW s, NEW P, P = ProjectionOf(chosen),
         NEW text, text = ResolveProjectionText(messages, P, s.last),
         NEW W, W = Assembled(s, P, text)
  PROVE  /\ \A p \in P.selected :
              Quotes(Current(p, P)) =>
                \/ Current(p, P) \in Carried(W)
                \/ \E c \in DOMAIN UnitOf :
                     /\ c \in Calls /\ UnitOf[c] = p /\ ReadOf[c] = p
                     /\ \/ /\ s.history[c] \in Omissions
                           /\ OmittedMarker(p, s.history[c]) \in Bodies(W)
                        \/ /\ TakenForDump(c, P)
                           /\ DumpMarker(c, P) \in Bodies(W)
         /\ Supplied(P, W)
<1> DEFINE T == ReplaceTracked(messages, UnitOf, P, text, s.last)
           R == ReplaceHistorical(T)
           Q == DropPairs(R, UnitOf, P, s.history)
           n == Len(messages)
<1>1. Transcript(messages) /\ messages \in Seq(Message)
  BY DEF Conversation, Transcript
<1>2. n \in Nat /\ DOMAIN messages = 1..n
  BY <1>1, Places
<1>3. /\ \A p \in P.selected : P.content[p] \in Versions
      /\ text # EmptyText => text = Rendered(P)
      /\ text # EmptyText => \A p \in P.selected : Current(p, P) \in Carried(W)
  BY Assembling
<1>4. /\ P.selected = chosen
      /\ Units \subseteq P.selected \cup P.unresolved \cup P.budget
      /\ P.selected \cap P.budget = {}
  BY DEF ProjectionOf
<1>5. Rewrites(R, messages, UnitOf, P)
  BY <1>1, Rewriting
<1>6. DOMAIN R = 1..n
  BY <1>2, <1>5 DEF Rewrites
<1>7. W = WithTail(Q, text)
  BY DEF Assembled
<1>8. text = EmptyText => Frames(text) = {}
  BY DEF EmptyText, Frames
<1>9. ASSUME NEW i \in DOMAIN messages, text = EmptyText,
             messages[i].role = "tool", messages[i].call \in DOMAIN UnitOf,
             NEW p, p = UnitOf[messages[i].call]
      PROVE  /\ R[i].role = "tool" /\ R[i].call = messages[i].call
             /\ p \in P.selected /\ Quotes(Current(p, P)) =>
                  R[i].body = Current(p, P)
             /\ ~(p \in P.selected /\ Quotes(Current(p, P))) =>
                  R[i].body = StableMarker(p)
  <2>1. R = ReplaceHistorical(ReplaceTracked(messages, UnitOf, P, text, s.last))
    OBVIOUS
  <2> HIDE DEF T, R
  <2>2. Frames(text) = {}
    BY <1>8, <1>9
  <2> QED
    BY ONLY <1>9, <2>1, <2>2, InlinedAtTheRead
<1>10. IsList(Q)
  <2>1. n \in Nat
    BY <1>2
  <2> HIDE DEF R, n
  <2> QED
    BY <1>6, <2>1, PrunedIsList
<1> HIDE DEF T, R, n
<1>11. ASSUME NEW p \in P.selected, Quotes(Current(p, P)), text = EmptyText
       PROVE  \/ Current(p, P) \in Carried(W)
              \/ \E c \in DOMAIN UnitOf :
                   /\ c \in Calls /\ UnitOf[c] = p /\ ReadOf[c] = p
                   /\ \/ /\ s.history[c] \in Omissions
                         /\ OmittedMarker(p, s.history[c]) \in Bodies(W)
                      \/ /\ TakenForDump(c, P)
                         /\ DumpMarker(c, P) \in Bodies(W)
  <2>1. W = Q
    BY <1>7, <1>11 DEF WithTail
  <2>2. PICK c \in DOMAIN UnitOf : UnitOf[c] = p
    BY <1>4 DEF Units
  <2>3. c \in Calls /\ ReadOf[c] = p
    BY <1>1, <2>2, TrackedCalls
  <2>4. PICK i \in DOMAIN messages :
          messages[i].role = "tool" /\ messages[i].call = c
    BY <1>1, TrackedCalls
  <2>5. i \in 1..n /\ R[i].role = "tool" /\ R[i].call = c
        /\ R[i].body = Current(p, P)
    BY <1>2, <1>9, <1>11, <2>2, <2>4
  <2>6. p \notin P.budget
    BY <1>4
  <2>7. \/ R[i].body \in Bodies(Q)
        \/ /\ s.history[c] \in Omissions
           /\ OmittedMarker(ReadOf[c], s.history[c]) \in Bodies(Q)
        \/ /\ c \in StaleDumps(R, UnitOf, P)
           /\ DumpMarker(c, P) \in Bodies(Q)
    BY <1>2, <1>6, <2>2, <2>5, <2>6, ServedStays
  <2> HIDE DEF Q
  <2>8. Current(p, P) \in Bodies(Q) => Current(p, P) \in Carried(Q)
    <3>1. P.content[p] \in Versions
      BY <1>3
    <3>2. Current(p, P).kind = "text" /\ Current(p, P).at # Gone
      BY <3>1 DEF Current, Text, RequestPruneAssumption
    <3> QED
      BY <3>2 DEF Carried
  <2>9. c \in StaleDumps(R, UnitOf, P) => TakenForDump(c, P)
    <3>1. c \in Served(UnitOf, P)
      BY <2>2 DEF Served
    <3> QED
      BY <3>1 DEF StaleDumps, TakenForDump
  <2> QED
    BY <2>1, <2>2, <2>3, <2>5, <2>7, <2>8, <2>9
<1>12. ASSUME NEW p \in Paths, StableMarker(p) \in Bodies(W)
       PROVE  /\ p \in P.selected \cup P.unresolved
              /\ p \in P.selected =>
                   Current(p, P) \in Carried(W) \/ ~Quotes(Current(p, P))
  <2>1. StableMarker(p) \in Bodies(Q)
    <3>1. CASE text = EmptyText
      BY <1>7, <1>12, <3>1 DEF WithTail
    <3>2. CASE text # EmptyText
      <4>1. StableMarker(p).kind = "stable" /\ text.kind = "projection"
        BY <1>3, <3>2 DEF StableMarker, Rendered
      <4>2. StableMarker(p) # text
        BY <4>1
      <4> HIDE DEF Q
      <4> QED
        BY <1>7, <1>10, <1>12, <3>2, <4>2, TailAddsText
    <3> QED
      BY <3>1, <3>2
  <2>2. PICK i \in DOMAIN messages :
          /\ messages[i].role = "tool"
          /\ messages[i].call \in DOMAIN UnitOf
          /\ UnitOf[messages[i].call] = p /\ p \notin P.budget
          /\ R[i].body = StableMarker(p)
    <3>1. StableMarker(p) \in Bodies(DropPairs(R, UnitOf, P, s.history))
      BY ONLY <2>1
    <3> HIDE DEF Q
    <3>2. \E i \in DOMAIN messages :
            /\ messages[i].role = "tool"
            /\ messages[i].call \in DOMAIN UnitOf
            /\ UnitOf[messages[i].call] = p /\ p \notin P.budget
            /\ R[i].body = StableMarker(p)
      BY ONLY RequestPruneAssumption, <1>1, <1>5, <3>1, StableStandsForServed,
              SMTT(60)
    <3> QED
      BY ONLY <3>2
  <2> HIDE DEF Q
  <2>3. p \in P.selected \cup P.unresolved
    BY <1>4, <2>2 DEF Units
  <2>4. ASSUME p \in P.selected, Quotes(Current(p, P))
        PROVE  Current(p, P) \in Carried(W)
    <3>1. CASE text = EmptyText
      <4>1. R[i].body = Current(p, P)
        BY <1>9, <2>2, <2>4, <3>1
      <4>2. Current(p, P).kind = "text" /\ StableMarker(p).kind = "stable"
        BY DEF Current, Text, StableMarker
      <4> QED
        BY <2>2, <4>1, <4>2
    <3>2. CASE text # EmptyText
      BY <1>3, <2>4, <3>2
    <3> QED
      BY <3>1, <3>2
  <2> QED
    BY <2>3, <2>4
<1>13. ASSUME NEW p \in P.selected, Quotes(Current(p, P))
       PROVE  \/ Current(p, P) \in Carried(W)
              \/ \E c \in DOMAIN UnitOf :
                   /\ c \in Calls /\ UnitOf[c] = p /\ ReadOf[c] = p
                   /\ \/ /\ s.history[c] \in Omissions
                         /\ OmittedMarker(p, s.history[c]) \in Bodies(W)
                      \/ /\ TakenForDump(c, P)
                         /\ DumpMarker(c, P) \in Bodies(W)
  <2>1. CASE text = EmptyText
    BY <1>11, <1>13, <2>1
  <2>2. CASE text # EmptyText
    BY <1>3, <1>13, <2>2
  <2> QED
    BY <2>1, <2>2
<1> QED
  BY <1>12, <1>13 DEF Supplied

\* What select saves.
LEMMA Saving ==
  ASSUME HermesAssumption, RequestPruneAssumption, Conversation,
         messages # <<>>, Len(messages) =< MaxMessages,
         NEW s \in State, s.pending = None,
         NEW P \in Projections,
         \A p \in P.selected : P.content[p] \in Versions,
         Units \subseteq Tracked(P),
         NEW text \in {EmptyText} \cup ProjectionText
  PROVE  /\ Pending(s, P, text) \in State
         /\ Pending(s, P, text).last = s.last
         /\ \A p \in Paths : Pending(s, P, text).pending[p] # Gone =>
              /\ p \in P.selected /\ text # EmptyText
              /\ Pending(s, P, text).pending[p] = P.content[p]
              /\ Pending(s, P, text).text = text
              /\ Pending(s, P, text).ackAfter = LastUser
<1> DEFINE revisions ==
             [p \in Paths |-> IF p \in P.selected THEN P.content[p] ELSE Gone]
           omissions ==
             [c \in Calls |->
                IF c \in DOMAIN UnitOf /\ UnitOf[c] \notin P.selected
                THEN Disposition(UnitOf[c], P) ELSE "none"]
<1>1. MaxMessages \in Nat
  BY DEF HermesAssumption
<1>2. revisions \in [Paths -> Content]
  BY DEF Content
<1>3. omissions \in [Calls -> {"none"} \cup Omissions]
  <2>1. SUFFICES ASSUME NEW c \in DOMAIN UnitOf, UnitOf[c] \notin P.selected
                 PROVE  Disposition(UnitOf[c], P) \in Omissions
    OBVIOUS
  <2>2. UnitOf[c] \in Tracked(P)
    BY DEF Units
  <2> QED
    BY <2>1, <2>2 DEF Disposition, Omissions, Tracked
<1>4. LastUser \in 0..MaxMessages
  <2>1. LastUser \in 1..Len(messages)
    BY LastUserIsThere
  <2>2. Len(messages) \in Nat
    BY Places DEF Conversation, Transcript
  <2> QED
    BY <1>1, <2>1, <2>2
<1>5. text \in {EmptyText} \cup
        [kind : {"projection"}, frames : Seq([kind : {"text"}, path : Paths,
                                              at : Versions]),
         unresolved : Nat, budget : Nat]
  BY DEF ProjectionText, Frame
<1>6. /\ Cleared(s) \in State
      /\ Cleared(s).last = s.last /\ Cleared(s).pending = None
  BY <1>1, Promoting
<1>7. CASE /\ text # EmptyText
           /\ Pending(s, P, text) =
                [s EXCEPT !.versioned = TRUE, !.pending = revisions,
                          !.text = text, !.ackAfter = LastUser,
                          !.pendingHistory = omissions]
  <2> HIDE DEF revisions, omissions
  <2>1. /\ Pending(s, P, text) \in State
        /\ Pending(s, P, text).last = s.last
        /\ Pending(s, P, text).pending = revisions
        /\ Pending(s, P, text).text = text
        /\ Pending(s, P, text).ackAfter = LastUser
    BY ONLY s \in State, <1>2, <1>3, <1>4, <1>5, <1>7, ZenonT(60) DEF State
  <2>2. \A p \in Paths : revisions[p] # Gone =>
          p \in P.selected /\ revisions[p] = P.content[p]
    BY DEF revisions
  <2> QED
    BY <1>7, <2>1, <2>2
<1>8. CASE Pending(s, P, text) = Cleared(s)
  BY <1>6, <1>8 DEF None
<1> QED
  BY <1>7, <1>8 DEF Pending

-----------------------------------------------------------------------------
(* Every step keeps the invariant *)

Typed ==
  /\ disk \in [Paths -> Content]
  /\ edits \in 0..MaxEdits
  /\ stage \in {"user", "select", "send", "tools", "observe"}
  /\ saved \in State
  /\ working \in Projections
  /\ applied \in BOOLEAN
  /\ \A b \in received : b.path \in Paths /\ b.at \in Versions
  /\ \A l \in lost : l.body.path \in Paths /\ l.body.at \in Versions

\* What was received and what was lost are contents of files.
LEMMA TypedHistory ==
  (\A b \in received \cup {l.body : l \in lost} :
     b.path \in Paths /\ b.at \in Versions)
  <=> /\ \A b \in received : b.path \in Paths /\ b.at \in Versions
      /\ \A l \in lost : l.body.path \in Paths /\ l.body.at \in Versions
OBVIOUS

\* There is room for the messages, as there is for them and the results.
LEMMA RoomIsRoom ==
  ASSUME RequestPruneAssumption, HermesAssumption
  PROVE  Typed /\ Conversation /\ RoomForResults => TypeOK
<1>1. SUFFICES ASSUME Typed, Conversation, RoomForResults
               PROVE  Len(messages) =< MaxMessages
  BY TypedHistory DEF Typed, TypeOK
<1>2. Len(messages) \in Nat /\ Cardinality(Waiting) \in Nat
  BY <1>1, CallsOfTranscript DEF Conversation, Waiting
<1>3. MaxMessages \in Nat
  BY DEF HermesAssumption
<1> QED
  BY <1>1, <1>2, <1>3 DEF RoomForResults

\* A projection of a session that has read nothing.
LEMMA NothingIsTracked == NothingTracked \in Projections
BY DEF NothingTracked, Projections, None, Content

\* The invariant holds of a host that was just started.
LEMMA InitIndInv ==
  RequestPruneAssumption /\ HermesAssumption /\ Init => IndInv
<1>1. SUFFICES ASSUME RequestPruneAssumption, HermesAssumption, Init
               PROVE  IndInv
  OBVIOUS
<1>2. Typed
  <2>1. FreshState \in State /\ [FreshState EXCEPT !.last = OldState] \in State
    <3>1. /\ None \in [Paths -> Content]
          /\ NoHistory \in [Calls -> {"none"} \cup Omissions]
          /\ OldState \in [Paths -> Content]
      BY <1>1 DEF None, NoHistory, Content, HermesAssumption
    <3>2. 0 \in 0..MaxMessages
      BY <1>1 DEF HermesAssumption
    <3> QED
      BY <3>1, <3>2 DEF FreshState, State
  <2>2. disk \in [Paths -> Content]
    BY <1>1 DEF Init, Content
  <2>3. edits \in 0..MaxEdits
    BY <1>1 DEF Init, HermesAssumption
  <2>4. saved \in State /\ working \in Projections
    BY <1>1, <2>1, NothingIsTracked DEF Init
  <2>5. /\ stage \in {"user", "select", "send", "tools", "observe"}
        /\ applied \in BOOLEAN
        /\ \A b \in received : b.path \in Paths /\ b.at \in Versions
        /\ \A l \in lost : l.body.path \in Paths /\ l.body.at \in Versions
    BY <1>1 DEF Init
  <2> QED
    BY <2>2, <2>3, <2>4, <2>5 DEF Typed
<1>3. Conversation
  <2>1. Transcript(<<>>)
    BY DEF Transcript
  <2> QED
    BY <1>1, <2>1 DEF Init, Conversation
<1>4. RoomForResults
  <2>1. Len(<<>>) = 0
    OBVIOUS
  <2>2. CallsIn(<<>>) = {}
    <3>1. \A c : c \notin CallsIn(<<>>)
      BY InMessages
    <3> QED
      BY <3>1
  <2>3. Waiting = {}
    BY <1>1, <2>2 DEF Init, Waiting, Unanswered
  <2>4. Cardinality({}) = 0
    BY FS_EmptySet
  <2> QED
    BY <1>1, <2>1, <2>3, <2>4 DEF Init, RoomForResults, HermesAssumption
<1>5. Outgoing
  BY <1>1 DEF Init, Outgoing
<1> QED
  BY <1>1, <1>2, <1>3, <1>4, <1>5, RoomIsRoom DEF IndInv

\* What is shown as it is now are contents of files.
LEMMA ShownFiles ==
  ASSUME NEW P, NEW shown \in SUBSET NowShown(P, Paths)
  PROVE  \A b \in shown : b.path \in Paths /\ b.at \in Versions
<1>1. TAKE b \in shown
<1>2. PICK p \in Paths : P.content[p] \in Versions /\ b = Current(p, P)
  BY DEF NowShown
<1>3. b.path = p /\ b.at = P.content[p]
  BY <1>2 DEF Current, Text
<1> QED
  BY <1>2, <1>3

\* So is what a request carries that is ready to be sent.
LEMMA RequestShowsFiles ==
  ASSUME RequestPruneAssumption, Conversation, Outgoing, stage = "send"
  PROVE  \A b \in Carried(request) : b.path \in Paths /\ b.at \in Versions
<1>1. CASE applied
  <2>1. Carried(request) \in SUBSET NowShown(working, Paths)
    BY <1>1 DEF Outgoing
  <2> QED
    BY <2>1, ShownFiles
<1>2. CASE ~applied
  <2>1. request = messages /\ Transcript(messages)
    BY <1>2 DEF Outgoing, Conversation
  <2> QED
    BY <2>1, CarriedByTranscript
<1> QED
  BY <1>1, <1>2

\* A process that selects keeps it, and what it remembers as pending is in the
\* request, or in one that was lost with it.
LEMMA SelectStep ==
  ASSUME RequestPruneAssumption, HermesAssumption, IndInv, Select
  PROVE  /\ saved' \in State /\ working' \in Projections /\ applied' \in BOOLEAN
         /\ Outgoing'
         /\ saved'.last = Promoted(Loaded(saved), messages).last
         /\ lost \subseteq lost'
         /\ \A l \in lost' :
              l.body.path \in Paths /\ l.body.at \in Versions
         /\ \A p \in Paths : saved'.pending[p] # Gone =>
              LET body == Text(p, saved'.pending[p])
              IN  /\ body \in Frames(saved'.text)
                  /\ saved'.ackAfter = LastUser
                  /\ \/ applied' /\ body \in Carried(request')
                     \/ [body |-> body, user |-> LastUser] \in lost'
<1>1. PICK overlap \in [Units -> Overlaps] :
        \E chosen \in SUBSET Units :
          /\ IsWorkingSet(chosen, Hand, 0, overlap)
          /\ LET s == Promoted(Loaded(saved), messages)
                 P == ProjectionOf(chosen)
                 text == ResolveProjectionText(messages, P, s.last)
             IN  /\ saved' = Pending(s, P, text)
                 /\ \/ /\ request' = Assembled(s, P, text)
                       /\ applied' = TRUE
                       /\ working' = P
                       /\ lost' = lost
                    \/ /\ Kills
                       /\ FallOpen
                       /\ lost' = lost \cup Losses(Assembled(s, P, text))
  BY DEF Select
<1>2. PICK chosen \in SUBSET Units :
          /\ IsWorkingSet(chosen, Hand, 0, overlap)
          /\ LET s == Promoted(Loaded(saved), messages)
                 P == ProjectionOf(chosen)
                 text == ResolveProjectionText(messages, P, s.last)
             IN  /\ saved' = Pending(s, P, text)
                 /\ \/ /\ request' = Assembled(s, P, text)
                       /\ applied' = TRUE
                       /\ working' = P
                       /\ lost' = lost
                    \/ /\ Kills
                       /\ FallOpen
                       /\ lost' = lost \cup Losses(Assembled(s, P, text))
  BY <1>1
<1> DEFINE s == Promoted(Loaded(saved), messages)
           P == ProjectionOf(chosen)
           text == ResolveProjectionText(messages, P, s.last)
           W == Assembled(s, P, text)
<1>3. /\ stage = "select" /\ messages' = messages
      /\ MaxMessages \in Nat /\ OnlyReadersRead
  BY DEF Select, Keep, HermesAssumption
<1>4. /\ saved \in State /\ disk \in [Paths -> Content]
      /\ Len(messages) =< MaxMessages
      /\ Conversation /\ messages # <<>> /\ Transcript(messages)
  BY <1>3 DEF IndInv, TypeOK, Conversation
<1>5. s \in State /\ s.pending = None
  <2>1. s = Promoted(Loaded(saved), messages)
    OBVIOUS
  <2> HIDE DEF s
  <2>2. \A transcript :
          LET t == Promoted(Loaded(saved), transcript)
          IN  t \in State /\ t.pending = None
    BY ONLY <1>3, <1>4, Promoting
  <2> QED
    BY ONLY <2>1, <2>2
<1>6. /\ P \in Projections
      /\ \A p \in P.selected : P.content[p] \in Versions
      /\ text # EmptyText => text = Rendered(P)
      /\ text \in {EmptyText} \cup ProjectionText
      /\ Paired(W, messages)
      /\ Carried(W) \subseteq NowShown(P, Paths)
      /\ TailIsShown(W)
      /\ text # EmptyText =>
           \A p \in P.selected : Current(p, P) \in Carried(W)
  <2> HIDE DEF s, P, text, W
  <2>1. P = ProjectionOf(chosen) /\ W = Assembled(s, P, text)
        /\ text = ResolveProjectionText(messages, P, s.last)
    BY DEF P, W, text
  <2>2. /\ RequestPruneAssumption /\ OnlyReadersRead /\ Conversation
        /\ messages # <<>> /\ disk \in [Paths -> Content]
        /\ chosen \in SUBSET Units /\ IsWorkingSet(chosen, Hand, 0, overlap)
    BY <1>2, <1>3, <1>4
  <2> QED
    BY ONLY <2>1, <2>2, Assembling
<1>61. Accounted(P, W) /\ Supplied(P, W)
  <2> HIDE DEF s, P, text, W
  <2>1. P = ProjectionOf(chosen) /\ W = Assembled(s, P, text)
        /\ text = ResolveProjectionText(messages, P, s.last)
    BY DEF P, W, text
  <2>2. /\ RequestPruneAssumption /\ OnlyReadersRead /\ Conversation
        /\ messages # <<>> /\ disk \in [Paths -> Content]
        /\ chosen \in SUBSET Units /\ IsWorkingSet(chosen, Hand, 0, overlap)
    BY <1>2, <1>3, <1>4
  <2>3. /\ \A p \in P.selected :
              Quotes(Current(p, P)) =>
                \/ Current(p, P) \in Carried(W)
                \/ \E c \in DOMAIN UnitOf :
                     /\ c \in Calls /\ UnitOf[c] = p /\ ReadOf[c] = p
                     /\ \/ /\ s.history[c] \in Omissions
                           /\ OmittedMarker(p, s.history[c]) \in Bodies(W)
                        \/ /\ TakenForDump(c, P)
                           /\ DumpMarker(c, P) \in Bodies(W)
        /\ Supplied(P, W)
    BY ONLY <2>1, <2>2, Telling
  <2> QED
    BY ONLY <2>3 DEF Accounted
<1>7. Units \subseteq Tracked(P)
  BY DEF ProjectionOf, Tracked
<1>8. /\ saved' = Pending(s, P, text)
      /\ \/ request' = W /\ applied' = TRUE /\ working' = P /\ lost' = lost
         \/ Kills /\ FallOpen /\ lost' = lost \cup Losses(W)
  BY <1>2
<1>81. s = Promoted(Loaded(saved), messages)
  OBVIOUS
<1> HIDE DEF s, P, text, W
<1>82. /\ \A b \in Carried(W) : b.path \in Paths /\ b.at \in Versions
       /\ \A l \in lost : l.body.path \in Paths /\ l.body.at \in Versions
  BY <1>6, ShownFiles, TypedHistory DEF IndInv, TypeOK
<1>9. /\ saved' \in State
      /\ saved'.last = s.last
      /\ \A p \in Paths : saved'.pending[p] # Gone =>
           /\ p \in P.selected /\ text # EmptyText
           /\ saved'.pending[p] = P.content[p]
           /\ saved'.text = text /\ saved'.ackAfter = LastUser
  <2>1. P \in Projections /\ \A p \in P.selected : P.content[p] \in Versions
    BY <1>6
  <2>2. text \in {EmptyText} \cup ProjectionText
    BY <1>6
  <2>3. s \in State /\ s.pending = None
    BY <1>5
  <2>4. Conversation /\ messages # <<>> /\ Len(messages) =< MaxMessages
    BY <1>4
  <2>5. /\ Pending(s, P, text) \in State
        /\ Pending(s, P, text).last = s.last
        /\ \A p \in Paths : Pending(s, P, text).pending[p] # Gone =>
             /\ p \in P.selected /\ text # EmptyText
             /\ Pending(s, P, text).pending[p] = P.content[p]
             /\ Pending(s, P, text).text = text
             /\ Pending(s, P, text).ackAfter = LastUser
    BY ONLY RequestPruneAssumption, HermesAssumption, <1>7, <2>1, <2>2, <2>3,
            <2>4, Saving, SMTT(60)
  <2>6. saved' = Pending(s, P, text)
    BY <1>8
  <2> QED
    BY ONLY <2>5, <2>6
<1>91. ASSUME NEW p \in Paths, saved'.pending[p] # Gone
       PROVE  /\ Text(p, saved'.pending[p]) \in Frames(saved'.text)
              /\ saved'.ackAfter = LastUser
              /\ Text(p, saved'.pending[p]) \in Carried(W)
  <2>1. /\ p \in P.selected /\ text # EmptyText
        /\ saved'.pending[p] = P.content[p]
        /\ saved'.text = text /\ saved'.ackAfter = LastUser
    BY <1>9, <1>91
  <2>2. P \in Projections /\ text = Rendered(P)
    BY <1>6, <2>1
  <2>3. Frames(text) = {Current(q, P) : q \in P.selected}
    BY <2>2, RenderedFrames
  <2>4. Current(p, P) \in Frames(text) /\ Current(p, P) \in Carried(W)
    BY <1>6, <2>1, <2>3
  <2>5. Text(p, saved'.pending[p]) = Current(p, P)
    BY <2>1 DEF Current
  <2> QED
    BY <2>1, <2>4, <2>5
<1>10. CASE request' = W /\ applied' = TRUE /\ working' = P /\ lost' = lost
  <2>1. Outgoing'
    <3>1. /\ Paired(request', messages') /\ Accounted(working', request')
          /\ Carried(request') \subseteq NowShown(working', Paths)
          /\ Supplied(working', request') /\ TailIsShown(request')
      BY <1>3, <1>6, <1>61, <1>10
    <3> QED
      BY <1>10, <3>1 DEF Outgoing, Accounted, Supplied, TailIsShown
  <2> QED
    BY <1>6, <1>81, <1>82, <1>9, <1>91, <1>10, <2>1
<1>11. CASE Kills /\ FallOpen /\ lost' = lost \cup Losses(W)
  <2>1. Outgoing' /\ working' \in Projections /\ applied' \in BOOLEAN
    BY <1>3, <1>11, NothingIsTracked DEF Outgoing, FallOpen
  <2>2. \A b : b \in Carried(W) => [body |-> b, user |-> LastUser] \in lost'
    BY <1>11 DEF Losses
  <2>3. \A l \in lost' : l \in lost \/ l.body \in Carried(W)
    BY <1>11 DEF Losses
  <2> QED
    BY <1>81, <1>82, <1>9, <1>91, <1>11, <2>1, <2>2, <2>3
<1> QED
  BY <1>8, <1>10, <1>11

\* The host's transcript begins with the user.
Begins(m) == m # <<>> /\ m[1].role = "user"

\* A list that begins with another.
Extends(longer, old) ==
  /\ Len(old) \in Nat /\ Len(longer) \in Nat /\ Len(old) =< Len(longer)
  /\ DOMAIN old = 1..Len(old) /\ DOMAIN longer = 1..Len(longer)
  /\ \A i \in 1..Len(old) : longer[i] = old[i]

\* The transcript only grows, and where a user's message is added the provider
\* was sent what it shows.
Grows ==
  /\ Extends(messages', messages)
  /\ \A i \in DOMAIN messages' :
       \/ i \in DOMAIN messages
       \/ /\ messages'[i].role = "user"
          /\ Frames(messages'[i].body) \subseteq received'
       \/ messages'[i].role # "user"

\* One message that is added to a transcript extends it.
LEMMA OneMoreExtends ==
  ASSUME NEW old, Transcript(old), NEW longer, Transcript(longer), NEW m,
         Adds(longer, old, m)
  PROVE  /\ Extends(longer, old)
         /\ \A i \in DOMAIN longer :
              i \in DOMAIN old \/ (i \notin DOMAIN old /\ longer[i] = m)
<1>1. /\ Len(old) \in Nat /\ DOMAIN old = 1..Len(old)
      /\ Len(longer) \in Nat /\ DOMAIN longer = 1..Len(longer)
  BY Places DEF Transcript
<1>2. /\ Len(longer) = Len(old) + 1
      /\ \A i \in 1..Len(old) : longer[i] = old[i]
      /\ longer[Len(old) + 1] = m
  BY DEF Adds
<1> QED
  BY <1>1, <1>2 DEF Extends

\* A transcript that begins with the user's message, and the host's
\* next message of it, are again such a transcript.
LEMMA OneMore ==
  ASSUME NEW old, Transcript(old), NEW m \in Message,
         m.role = "tool" => m.call \in CallsIn(old),
         Begins(old) \/ (old = <<>> /\ m.role = "user")
  PROVE  /\ Transcript(Append(old, m)) /\ Begins(Append(old, m))
         /\ Adds(Append(old, m), old, m)
<1> DEFINE longer == Append(old, m)
<1> HIDE DEF longer
<1>1. Transcript(longer) /\ Adds(longer, old, m)
  BY TranscriptGrows DEF longer
<1>2. longer[1].role = "user"
  <2>1. CASE Begins(old)
    <3>1. old \in Seq(Message) /\ old # <<>>
      BY <2>1 DEF Transcript, Begins
    <3>2. Len(old) # 0
      BY <3>1, EmptySeq
    <3> QED
      BY <1>1, <2>1, <3>2 DEF Begins, Adds
  <2>2. CASE old = <<>> /\ m.role = "user"
    <3>1. Len(old) = 0
      BY <2>2
    <3> QED
      BY <1>1, <2>2, <3>1 DEF Adds
  <2> QED
    BY <2>1, <2>2
<1> QED
  BY <1>1, <1>2 DEF Begins, Adds, longer

\* What the user says leaves nothing to run.
LEMMA UserSpeaksStep ==
  ASSUME RequestPruneAssumption, HermesAssumption, IndInv, UserSpeaks
  PROVE  Conversation' /\ RoomForResults' /\ Grows
<1>1. /\ Transcript(messages) /\ (Begins(messages) \/ messages = <<>>)
      /\ Waiting = {} /\ Len(messages) < MaxMessages /\ MaxMessages \in Nat
      /\ messages' = Append(messages, User(Words)) /\ stage' = "select"
  BY DEF IndInv, Conversation, RoomForResults, UserSpeaks, Begins,
         HermesAssumption
<1>2. User(Words) \in Message /\ User(Words).role = "user"
  BY MessagesOfTheHost DEF User
<1>3. /\ Transcript(messages') /\ Begins(messages')
      /\ Len(messages) \in Nat /\ Len(messages') = Len(messages) + 1
      /\ \A c : c \in CallsIn(messages') <=> c \in CallsIn(messages)
      /\ \A c : c \in ResultsIn(messages') <=> c \in ResultsIn(messages)
      /\ Adds(messages', messages, User(Words))
  BY <1>1, <1>2, OneMore DEF Adds
<1>4. Waiting' = {}
  BY <1>1, <1>3 DEF Waiting, Unanswered
<1>5. Cardinality({}) = 0
  BY FS_EmptySet
<1>6. RoomForResults'
  BY <1>1, <1>3, <1>4, <1>5 DEF RoomForResults
<1>7. Grows
  <2>1. /\ Extends(messages', messages)
        /\ \A i \in DOMAIN messages' :
             i \in DOMAIN messages \/ messages'[i] = User(Words)
    BY <1>1, <1>3, OneMoreExtends
  <2>2. User(Words).role = "user" /\ Frames(User(Words).body) = {}
    BY DEF User, Words, Frames
  <2> QED
    BY <2>1, <2>2 DEF Grows
<1> QED
  BY <1>3, <1>6, <1>7 DEF Conversation, Begins

\* A reply leaves its own calls to run.
LEMMA AnswerStep ==
  ASSUME RequestPruneAssumption, HermesAssumption, IndInv, Answer
  PROVE  /\ Conversation' /\ RoomForResults' /\ stage' \in {"observe", "tools"}
         /\ Grows
<1> DEFINE tail == request[Len(request)]
           keeps == Persists /\ applied /\ IsProjection(tail)
           shown == IF keeps THEN Append(messages, tail) ELSE messages
<1>1. PICK calls \in Questions \cup {{}} :
        /\ calls \cap CallsIn(messages) = {}
        /\ messages' = Append(shown, Assistant(calls = {}, calls))
        /\ Len(messages') + Cardinality(calls) =< MaxMessages
        /\ stage' = IF calls = {} THEN "observe" ELSE "tools"
  BY DEF Answer
<1>2. /\ Transcript(messages) /\ Begins(messages) /\ Waiting = {}
      /\ MaxMessages \in Nat /\ IsFiniteSet(Calls) /\ calls \subseteq Calls
  BY DEF IndInv, Conversation, RoomForResults, Answer, Begins,
         HermesAssumption, RequestPruneAssumption
<1>3. keeps => tail \in UserMessage /\ Frames(tail.body) \subseteq received'
  BY DEF IndInv, Outgoing, TailIsShown, Answer
<1> HIDE DEF tail, keeps
<1>4. /\ Transcript(shown) /\ Begins(shown)
      /\ \A c : c \in CallsIn(shown) <=> c \in CallsIn(messages)
      /\ \A c : c \in ResultsIn(shown) <=> c \in ResultsIn(messages)
      /\ Extends(shown, messages)
      /\ \A i \in DOMAIN shown :
           \/ i \in DOMAIN messages
           \/ /\ shown[i].role = "user"
              /\ Frames(shown[i].body) \subseteq received'
  <2>1. CASE ~keeps
    <3>1. Extends(messages, messages)
      BY <1>2, Places DEF Transcript, Extends
    <3> QED
      BY <1>2, <2>1, <3>1
  <2>2. CASE keeps
    <3>1. tail \in Message /\ tail.role = "user"
      BY <1>3, <2>2 DEF Message, UserMessage
    <3>2. shown = Append(messages, tail)
      BY <2>2
    <3> HIDE DEF shown
    <3>3. /\ Transcript(shown) /\ Begins(shown) /\ Adds(shown, messages, tail)
      BY <1>2, <3>1, <3>2, OneMore
    <3>4. /\ Extends(shown, messages)
          /\ \A i \in DOMAIN shown : i \in DOMAIN messages \/ shown[i] = tail
      BY <1>2, <3>3, OneMoreExtends
    <3> QED
      BY <1>3, <2>2, <3>1, <3>3, <3>4 DEF Adds
  <2> QED
    BY <2>1, <2>2
<1> HIDE DEF shown
<1>5. /\ Assistant(calls = {}, calls) \in Message
      /\ Assistant(calls = {}, calls).role = "assistant"
      /\ Assistant(calls = {}, calls).calls = calls
  <2>1. (calls = {}) \in BOOLEAN
    OBVIOUS
  <2> QED
    BY <1>2, <2>1, MessagesOfTheHost DEF Assistant
<1>6. /\ Transcript(messages') /\ Begins(messages') /\ Len(messages') \in Nat
      /\ \A c : c \in CallsIn(messages') <=> c \in CallsIn(messages) \cup calls
      /\ \A c : c \in ResultsIn(messages') <=> c \in ResultsIn(messages)
      /\ Grows
  <2> DEFINE m == Assistant(calls = {}, calls)
  <2>1. m \in Message /\ m.role = "assistant" /\ m.calls = calls
    BY <1>5
  <2>2. messages' = Append(shown, m)
    BY <1>1
  <2> HIDE DEF m
  <2>3. /\ Transcript(messages') /\ Begins(messages')
        /\ Len(shown) \in Nat /\ Len(messages') = Len(shown) + 1
        /\ \A c : c \in CallsIn(messages') <=> c \in CallsIn(shown) \/ c \in m.calls
        /\ \A c : c \in ResultsIn(messages') <=> c \in ResultsIn(shown)
        /\ Adds(messages', shown, m)
    BY <1>4, <2>1, <2>2, OneMore DEF Adds
  <2>4. /\ Extends(messages', shown)
        /\ \A i \in DOMAIN messages' : i \in DOMAIN shown \/ messages'[i] = m
    BY <1>4, <2>3, OneMoreExtends
  <2>5. Extends(messages', messages)
    BY ONLY <1>4, <2>4 DEF Extends
  <2>6. Grows
    <3>1. \A i \in DOMAIN shown : messages'[i] = shown[i]
      BY ONLY <2>4 DEF Extends
    <3>2. m.role # "user"
      BY <2>1
    <3> QED
      BY ONLY <1>4, <2>4, <2>5, <3>1, <3>2 DEF Grows
  <2> QED
    BY <1>4, <2>1, <2>3, <2>6
<1>7. Waiting' \subseteq calls
  BY <1>2, <1>6 DEF Waiting, Unanswered
<1>8. IsFiniteSet(calls)
  BY <1>2, FS_Subset
<1>9. /\ Cardinality(Waiting') \in Nat /\ Cardinality(calls) \in Nat
      /\ Cardinality(Waiting') =< Cardinality(calls)
  BY <1>7, <1>8, FS_Subset, FS_CardinalityType
<1>10. RoomForResults'
  <2>1. Len(messages') + Cardinality(Waiting') =< MaxMessages
    BY <1>1, <1>2, <1>6, <1>9
  <2>2. stage' # "tools" => Waiting' = {}
    BY <1>1, <1>7
  <2> QED
    BY <2>1, <2>2 DEF RoomForResults
<1>11. Conversation'
  BY <1>6 DEF Conversation, Begins
<1> QED
  BY <1>1, <1>6, <1>10, <1>11

\* One call less waits, and the request is made when none does.
LEMMA RunToolsStep ==
  ASSUME RequestPruneAssumption, HermesAssumption, IndInv, RunTools
  PROVE  /\ Conversation' /\ RoomForResults' /\ stage' \in {"select", "tools"}
         /\ Grows
<1>1. PICK c \in CallsIn(messages) \ ResultsIn(messages) :
        /\ messages' = Append(messages, Result(c, ShownBy(c)))
        /\ stage' = IF CallsIn(messages) \subseteq ResultsIn(messages) \cup {c}
                    THEN "select" ELSE "tools"
  BY DEF RunTools
<1>2. /\ Transcript(messages) /\ Begins(messages)
      /\ Len(messages) + Cardinality(Waiting) =< MaxMessages
      /\ MaxMessages \in Nat /\ disk \in [Paths -> Content]
  BY DEF IndInv, TypeOK, Conversation, RoomForResults, RunTools, Begins,
         HermesAssumption
<1>3. /\ CallsIn(messages) \subseteq Calls
      /\ IsFiniteSet(Waiting) /\ Cardinality(Waiting) \in Nat
  BY <1>2, CallsOfTranscript DEF Waiting
<1>4. ShownBy(c) \in Shown(c)
  <2>1. c \in Calls
    BY <1>3
  <2>2. ReadOf[c] # NoPath => disk[ReadOf[c]] \in Content
    BY <1>2, <2>1 DEF RequestPruneAssumption
  <2> QED
    BY <2>2 DEF ShownBy, Shown
<1> DEFINE m == Result(c, ShownBy(c))
<1>5. m \in Message /\ m.role = "tool" /\ m.call = c
  BY <1>3, <1>4, MessagesOfTheHost DEF Result
<1>6. messages' = Append(messages, m)
  BY <1>1
<1> HIDE DEF m
<1>7. /\ Transcript(messages') /\ Begins(messages')
      /\ Len(messages) \in Nat /\ Len(messages') = Len(messages) + 1
      /\ \A d : d \in CallsIn(messages') <=> d \in CallsIn(messages)
      /\ \A d : d \in ResultsIn(messages') <=> d \in ResultsIn(messages) \/ d = c
      /\ Adds(messages', messages, m)
  BY <1>1, <1>2, <1>5, <1>6, OneMore DEF Adds
<1>8. Waiting' = Waiting \ {c} /\ c \in Waiting
  BY <1>1, <1>7 DEF Waiting, Unanswered
<1>9. Cardinality(Waiting') = Cardinality(Waiting) - 1
  BY <1>3, <1>8, FS_RemoveElement
<1>10. stage' # "tools" => Waiting' = {}
  BY <1>1, <1>8 DEF Waiting, Unanswered
<1>11. RoomForResults'
  BY <1>2, <1>3, <1>7, <1>9, <1>10 DEF RoomForResults
<1>12. Grows
  <2>1. /\ Extends(messages', messages)
        /\ \A i \in DOMAIN messages' : i \in DOMAIN messages \/ messages'[i] = m
    BY <1>2, <1>7, OneMoreExtends
  <2>2. m.role # "user"
    BY <1>5
  <2> QED
    BY <2>1, <2>2 DEF Grows
<1> QED
  BY <1>1, <1>7, <1>11, <1>12 DEF Conversation, Begins

\* Every step of the host, of the bridge and of the plugin keeps it.
LEMMA NextIndInv ==
  ASSUME RequestPruneAssumption, HermesAssumption
  PROVE  IndInv /\ [Next]_vars => IndInv'
<1>1. SUFFICES ASSUME IndInv, [Next]_vars PROVE IndInv'
  OBVIOUS
<1>2. Typed /\ Conversation /\ RoomForResults /\ Outgoing
  BY <1>1, TypedHistory DEF IndInv, TypeOK, Typed
<1>3. /\ Transcript(messages)
      /\ MaxMessages \in Nat /\ MaxEdits \in Nat
  BY <1>2 DEF Conversation, HermesAssumption
<1>4. SUFFICES Typed' /\ Conversation' /\ RoomForResults' /\ Outgoing'
  <2>1. Typed' /\ Conversation' /\ RoomForResults' => TypeOK'
    <3>1. SUFFICES ASSUME Typed', Conversation', RoomForResults'
                   PROVE  Len(messages') =< MaxMessages
      <4>1. (\A b \in received' \cup {l.body : l \in lost'} :
               b.path \in Paths /\ b.at \in Versions)
            <=> /\ \A b \in received' : b.path \in Paths /\ b.at \in Versions
                /\ \A l \in lost' : l.body.path \in Paths /\ l.body.at \in Versions
        OBVIOUS
      <4> QED
        BY <4>1 DEF Typed, TypeOK
    <3>2. Len(messages') \in Nat /\ Cardinality(Waiting') \in Nat
      BY <3>1, CallsOfTranscript DEF Conversation, Waiting
    <3> QED
      BY <1>3, <3>1, <3>2 DEF RoomForResults
  <2> QED
    BY <2>1 DEF IndInv
<1>5. CASE SelectNothing
  <2>1. /\ stage = "select" /\ stage' = "send" /\ messages' = messages
        /\ disk' = disk /\ edits' = edits /\ received' = received /\ FallOpen
        /\ lost' = lost
    BY <1>5 DEF SelectNothing, Keep
  <2>2. saved' \in State
    <3> DEFINE s == Promoted(Loaded(saved), messages)
    <3>1. saved' \in {s, Cleared(s)}
      BY <1>5 DEF SelectNothing
    <3> HIDE DEF s
    <3>2. s \in State
      BY <1>2, <1>3, Promoting DEF Typed, s
    <3>3. Cleared(s) \in State
      BY <1>3, <3>2, Promoting
    <3> QED
      BY <3>1, <3>2, <3>3
  <2>3. Typed'
    BY <1>2, <2>1, <2>2, NothingIsTracked DEF Typed, FallOpen
  <2>4. Conversation' /\ RoomForResults'
    BY <1>2, <2>1 DEF Conversation, RoomForResults, Waiting
  <2>5. Outgoing'
    BY <2>1 DEF Outgoing, FallOpen
  <2> QED
    BY <2>3, <2>4, <2>5
<1>6. CASE Select
  <2>1. /\ stage = "select" /\ stage' = "send" /\ messages' = messages
        /\ disk' = disk /\ edits' = edits /\ received' = received
    BY <1>6 DEF Select, Keep
  <2>2. /\ saved' \in State /\ working' \in Projections /\ applied' \in BOOLEAN
        /\ Outgoing'
        /\ \A l \in lost' : l.body.path \in Paths /\ l.body.at \in Versions
    BY <1>1, <1>6, SelectStep
  <2>3. Typed'
    BY <1>2, <2>1, <2>2 DEF Typed
  <2>4. Conversation' /\ RoomForResults'
    BY <1>2, <2>1 DEF Conversation, RoomForResults, Waiting
  <2> QED
    BY <2>2, <2>3, <2>4
<1>7. CASE SelectKilled
  <2>1. /\ stage = "select" /\ stage' = "send" /\ messages' = messages
        /\ disk' = disk /\ edits' = edits /\ received' = received
        /\ saved' = saved /\ FallOpen /\ lost' = lost
    BY <1>7 DEF SelectKilled, Keep
  <2>2. Typed'
    BY <1>2, <2>1, NothingIsTracked DEF Typed, FallOpen
  <2>3. Conversation' /\ RoomForResults'
    BY <1>2, <2>1 DEF Conversation, RoomForResults, Waiting
  <2>4. Outgoing'
    BY <2>1 DEF Outgoing, FallOpen
  <2> QED
    BY <2>2, <2>3, <2>4
<1>8. CASE Observe
  <2>1. /\ stage = "observe" /\ stage' = "user" /\ messages' = messages
        /\ disk' = disk /\ edits' = edits /\ received' = received
        /\ working' = working /\ applied' = applied /\ lost' = lost
    BY <1>8 DEF Observe, Keep
  <2>2. saved' \in State
    BY <1>2, <1>3, <1>8, Promoting DEF Observe, Typed
  <2>3. Typed'
    BY <1>2, <2>1, <2>2 DEF Typed
  <2>4. Conversation' /\ RoomForResults' /\ Outgoing'
    BY <1>2, <2>1 DEF Conversation, RoomForResults, Waiting, Outgoing
  <2> QED
    BY <2>3, <2>4
<1>9. CASE UserSpeaks
  <2>1. Conversation' /\ RoomForResults'
    BY <1>1, <1>9, UserSpeaksStep
  <2>2. Typed' /\ Outgoing'
    BY <1>2, <1>9 DEF UserSpeaks, Typed, Outgoing
  <2> QED
    BY <2>1, <2>2
<1>10. CASE Answer
  <2>1. Conversation' /\ RoomForResults' /\ stage' \in {"observe", "tools"}
    BY <1>1, <1>10, AnswerStep
  <2>2. /\ disk' = disk /\ edits' = edits /\ saved' = saved
        /\ working' = working /\ applied' = applied /\ stage = "send"
        /\ received' = received \cup Carried(request) /\ lost' = lost
    BY <1>10 DEF Answer
  <2>3. \A b \in Carried(request) : b.path \in Paths /\ b.at \in Versions
    BY <1>2, <2>2, RequestShowsFiles
  <2>4. Typed'
    BY <1>2, <2>1, <2>2, <2>3 DEF Typed
  <2>5. Outgoing'
    BY <2>1 DEF Outgoing
  <2> QED
    BY <2>1, <2>4, <2>5
<1>11. CASE Interrupted
  <2>1. /\ stage = "send" /\ stage' \in {"user", "observe"}
        /\ messages' = messages /\ disk' = disk /\ edits' = edits
        /\ received' = received /\ saved' = saved /\ working' = working
        /\ applied' = applied
    BY <1>11 DEF Interrupted, Keep
  <2>2. \A l \in lost' : l.body.path \in Paths /\ l.body.at \in Versions
    <3>1. \A b \in Carried(request) : b.path \in Paths /\ b.at \in Versions
      BY <1>2, <2>1, RequestShowsFiles
    <3>2. \A l \in lost' : l \in lost \/ l.body \in Carried(request)
      BY <1>11 DEF Interrupted, Losses
    <3> QED
      BY <1>2, <3>1, <3>2 DEF Typed
  <2>3. Typed'
    BY <1>2, <2>1, <2>2 DEF Typed
  <2>4. Conversation' /\ RoomForResults' /\ Outgoing'
    BY <1>2, <2>1 DEF Conversation, RoomForResults, Waiting, Outgoing
  <2> QED
    BY <2>3, <2>4
<1>12. CASE RunTools
  <2>1. Conversation' /\ RoomForResults' /\ stage' \in {"select", "tools"}
    BY <1>1, <1>12, RunToolsStep
  <2>2. Typed' /\ Outgoing'
    BY <1>2, <1>12, <2>1 DEF RunTools, Typed, Outgoing
  <2> QED
    BY <2>1, <2>2
<1>13. CASE Edit
  <2>1. /\ stage \in {"user", "select"} /\ edits < MaxEdits /\ edits' = edits + 1
        /\ UNCHANGED <<messages, stage, saved, working, request, applied,
                       received, lost>>
    BY <1>13 DEF Edit
  <2>2. disk' \in [Paths -> Content]
    BY <1>2, <1>13 DEF Edit, Typed
  <2>3. edits' \in 0..MaxEdits
    BY <1>2, <1>3, <2>1 DEF Typed
  <2>4. Typed'
    BY <1>2, <2>1, <2>2, <2>3 DEF Typed
  <2>5. Conversation' /\ RoomForResults' /\ Outgoing'
    BY <1>2, <2>1 DEF Conversation, RoomForResults, Waiting, Outgoing
  <2> QED
    BY <2>4, <2>5
<1>14. CASE UNCHANGED vars
  BY <1>2, <1>14 DEF vars, Typed, Conversation, RoomForResults, Waiting, Outgoing
<1> QED
  BY <1>1, <1>5, <1>6, <1>7, <1>8, <1>9, <1>10, <1>11, <1>12, <1>13, <1>14
     DEF Next

\* Every reachable state satisfies the invariant.
LEMMA SpecIndInv ==
  ASSUME RequestPruneAssumption, HermesAssumption
  PROVE  Spec => []IndInv
<1>1. Init => IndInv
  BY InitIndInv
<1>2. IndInv /\ [Next]_vars => IndInv'
  BY NextIndInv
<1> QED
  BY <1>1, <1>2, PTL DEF Spec

(***************************************************************************)
(* Whatever is killed or interrupted and whatever leaves, a request that   *)
(* goes out keeps calls and results together and shows every file as it    *)
(* was when the request was made (request-prune.mjs:662-752,               *)
(* bridge.mjs:804-822).                                                    *)
(***************************************************************************)
THEOREM RequestTheorem ==
  ASSUME RequestPruneAssumption, HermesAssumption
  PROVE  Spec => []RequestIsSound
<1>1. IndInv => RequestIsSound
  <2>1. SUFFICES ASSUME IndInv PROVE RequestIsSound
    OBVIOUS
  <2>2. TypeOK
    BY <2>1 DEF IndInv
  <2>3. PairsStay
    BY <2>1 DEF IndInv, Outgoing, PairsStay, Ready
  <2>4. NoStaleBody
    <3>1. SUFFICES ASSUME Ready, NEW b \in Carried(request)
                   PROVE  b.at = working.content[b.path]
      BY DEF NoStaleBody
    <3>2. b \in NowShown(working, Paths)
      BY <2>1, <3>1 DEF IndInv, Outgoing, Ready
    <3> QED
      BY <3>2 DEF NowShown, Current, Text
  <2>5. NothingVanishes
    BY <2>1 DEF IndInv, Outgoing, NothingVanishes, Ready, Accounted
  <2> QED
    BY <2>2, <2>3, <2>4, <2>5 DEF RequestIsSound
<1> QED
  BY <1>1, SpecIndInv, PTL

-----------------------------------------------------------------------------
(* What the state file says was injected *)

\* Some request carried a content: one the provider was sent, or one that was
\* lost in a turn that has a reply.
Evident(b) ==
  \/ b \in received
  \/ \E l \in lost : l.body = b /\ Replied(messages, l.user)

\* What is noted as injected has evidence.
Injected == \A p \in Paths : Loaded(saved).last[p] # Gone =>
              Evident(Text(p, Loaded(saved).last[p]))

\* What is pending stands in the projection that is noted with it, and was sent,
\* was lost in the turn that is noted, or waits in the request of this turn.
Outstanding(b) ==
  /\ b \in Frames(Loaded(saved).text)
  /\ \/ b \in received
     \/ [body |-> b, user |-> Loaded(saved).ackAfter] \in lost
     \/ /\ stage = "send" /\ applied /\ b \in Carried(request)
        /\ Loaded(saved).ackAfter = LastUser

Promised == \A p \in Paths : Loaded(saved).pending[p] # Gone =>
              Outstanding(Text(p, Loaded(saved).pending[p]))

\* The host keeps only projections it has sent.
SentIsKept == \A i \in DOMAIN messages : messages[i].role = "user" =>
                Frames(messages[i].body) \subseteq received

Delivery == Injected /\ Promised /\ SentIsKept

\* A reply stays the reply when the transcript grows.
LEMMA RepliedStays ==
  ASSUME NEW longer, NEW old, Extends(longer, old)
  PROVE  \A user : Replied(old, user) => Replied(longer, user)
<1>1. SUFFICES ASSUME NEW user, Replied(old, user)
               PROVE  Replied(longer, user)
  OBVIOUS
<1>2. /\ Len(old) \in Nat /\ Len(longer) \in Nat /\ Len(old) =< Len(longer)
      /\ DOMAIN old = 1..Len(old) /\ DOMAIN longer = 1..Len(longer)
      /\ \A i \in 1..Len(old) : longer[i] = old[i]
  BY DEF Extends
<1>3. PICK i \in DOMAIN old :
        /\ i > user
        /\ old[i].role = "assistant"
        /\ \A j \in user + 1..i : old[j].role # "user"
  BY <1>1 DEF Replied
<1>4. user \in DOMAIN old /\ old[user].role = "user"
  BY <1>1 DEF Replied
<1>5. \A j \in user + 1..i : j \in 1..Len(old)
  BY <1>2, <1>3, <1>4
<1>6. \A j \in user + 1..i : longer[j].role # "user"
  BY <1>2, <1>3, <1>5
<1>7. /\ user \in DOMAIN longer /\ longer[user].role = "user"
      /\ i \in DOMAIN longer /\ longer[i].role = "assistant"
  BY <1>2, <1>3, <1>4
<1> QED
  BY <1>3, <1>6, <1>7 DEF Replied

\* Evidence is not lost again.
LEMMA EvidenceStays ==
  ASSUME received \subseteq received', lost \subseteq lost',
         Extends(messages', messages)
  PROVE  \A b : Evident(b) => Evident(b)'
<1>1. \A user : Replied(messages, user) => Replied(messages', user)
  BY RepliedStays
<1>2. SUFFICES ASSUME NEW b, Evident(b) PROVE Evident(b)'
  OBVIOUS
<1>3. CASE b \in received
  BY <1>3 DEF Evident
<1>4. CASE \E l \in lost : l.body = b /\ Replied(messages, l.user)
  <2>1. PICK l \in lost : l.body = b /\ Replied(messages, l.user)
    BY <1>4
  <2>2. l \in lost' /\ Replied(messages', l.user)
    BY <1>1, <2>1
  <2>3. Replied(messages, l.user)' <=> Replied(messages', l.user)
    BY DEF Replied
  <2> QED
    BY <2>1, <2>2 DEF Evident
<1> QED
  BY <1>2, <1>3, <1>4 DEF Evident

\* What a new transcript keeps was sent, if it only adds what was.
LEMMA KeptStays ==
  ASSUME SentIsKept, Grows, received \subseteq received'
  PROVE  SentIsKept'
<1>1. SUFFICES ASSUME NEW i \in DOMAIN messages', messages'[i].role = "user"
               PROVE  Frames(messages'[i].body) \subseteq received'
  BY DEF SentIsKept
<1>2. CASE i \in DOMAIN messages
  <2>1. messages'[i] = messages[i]
    BY <1>2 DEF Grows, Extends
  <2> QED
    BY <1>1, <1>2, <2>1 DEF SentIsKept
<1>3. CASE i \notin DOMAIN messages
  BY <1>1, <1>3 DEF Grows
<1> QED
  BY <1>2, <1>3

(***************************************************************************)
(* What is promoted has evidence: its projection stands in the host's      *)
(* transcript, or the turn it was pending in has a reply                   *)
(* (bridge.mjs:201-245).                                                   *)
(***************************************************************************)
LEMMA PromotedHasEvidence ==
  ASSUME HermesAssumption, saved \in State, Delivery, stage # "send",
         NEW t, t = Promoted(Loaded(saved), messages),
         NEW p \in Paths, t.last[p] # Gone
  PROVE  Evident(Text(p, t.last[p]))
<1> DEFINE s == Loaded(saved)
           b == Text(p, t.last[p])
<1>1. s \in State /\ t = Promoted(s, messages)
  BY Promoting DEF HermesAssumption
<1>2. /\ Injected /\ Promised /\ SentIsKept
      /\ s.last[p] # Gone => Evident(Text(p, s.last[p]))
      /\ s.pending[p] # Gone => Outstanding(Text(p, s.pending[p]))
  BY DEF Delivery, Injected, Promised
<1>3. Cleared(s).last = s.last /\ Committed(s).last \in {s.last, s.pending}
  BY <1>1, Promoting DEF HermesAssumption
<1>4. \/ t.last = s.last
      \/ /\ t.last = s.pending
         /\ Applied(s, messages) \/ Answered(s, messages)
  <2> HIDE DEF s
  <2>1. \/ t = s \/ t = Cleared(s)
        \/ t = Committed(s) /\ (Applied(s, messages) \/ Answered(s, messages))
    BY <1>1 DEF Promoted
  <2> QED
    BY <1>3, <2>1
<1>5. CASE t.last = s.last
  BY <1>2, <1>5
<1>6. CASE t.last = s.pending /\ Applied(s, messages)
  <2>1. PICK i \in DOMAIN messages : messages[i] = User(s.text)
    BY <1>6 DEF Applied
  <2>2. messages[i].role = "user" /\ messages[i].body = s.text
    BY <2>1 DEF User
  <2>3. Frames(s.text) \subseteq received
    BY <1>2, <2>2 DEF SentIsKept
  <2>4. b \in Frames(s.text)
    BY <1>2, <1>6 DEF Outstanding
  <2> QED
    BY <2>3, <2>4 DEF Evident
<1>7. CASE t.last = s.pending /\ Answered(s, messages)
  <2>1. Replied(messages, s.ackAfter)
    BY <1>7 DEF Answered
  <2>2. b \in received \/ [body |-> b, user |-> s.ackAfter] \in lost
    BY <1>2, <1>7 DEF Outstanding
  <2> QED
    BY <2>1, <2>2 DEF Evident
<1> QED
  BY <1>4, <1>5, <1>6, <1>7

\* Nothing was delivered to a session that was just opened.
LEMMA InitDelivery ==
  ASSUME HermesAssumption, Init
  PROVE  Delivery
<1>1. Loaded(saved) = [FreshState EXCEPT !.history = saved.history]
  BY DEF Init, FreshState, Loaded
<1>2. Loaded(saved).last = None /\ Loaded(saved).pending = None
  BY <1>1 DEF FreshState
<1>3. Injected /\ Promised
  BY <1>2 DEF Injected, Promised, None
<1>4. SentIsKept
  BY DEF Init, SentIsKept
<1> QED
  BY <1>3, <1>4 DEF Delivery

\* A state that is saved with nothing pending, and whose revisions are those
\* that were promoted, is honest.
LEMMA PromotedIsHonest ==
  ASSUME HermesAssumption, saved \in State, Delivery, stage # "send",
         received' = received, lost \subseteq lost', messages' = messages,
         Transcript(messages),
         saved' \in State, saved'.last = Promoted(Loaded(saved), messages).last
  PROVE  /\ Injected' /\ SentIsKept'
         /\ saved'.pending = None => Promised'
<1>1. MaxMessages \in Nat
  BY DEF HermesAssumption
<1>2. /\ Loaded(saved').last \in {saved'.last, None}
      /\ Loaded(saved').pending \in {saved'.pending, None}
  BY <1>1, Promoting
<1>3. Loaded(saved)' = Loaded(saved')
  BY DEF Loaded
<1>4. Extends(messages', messages)
  BY Places DEF Extends, Transcript
<1>5. \A b : Evident(b) => Evident(b)'
  BY <1>4, EvidenceStays
<1>6. ASSUME NEW p \in Paths, Loaded(saved').last[p] # Gone,
             NEW b, b = Text(p, Loaded(saved').last[p])
      PROVE  Evident(b)'
  <2>1. Loaded(saved').last[p] = saved'.last[p]
    BY <1>2, <1>6 DEF None
  <2>2. Evident(b)
    BY <1>6, <2>1, PromotedHasEvidence
  <2> QED
    BY <1>5, <2>1, <2>2
<1>7. Injected'
  BY <1>3, <1>6 DEF Injected, Evident
<1>8. saved'.pending = None => Promised'
  BY <1>2, <1>3 DEF Promised, None
<1>9. SentIsKept'
  BY DEF Delivery, SentIsKept
<1> QED
  BY <1>7, <1>8, <1>9

\* A step of the host, or a process that dies before it saved anything, keeps
\* it: a request that was pending is received, lost or forgotten.
LEMMA HostKeepsDelivery ==
  ASSUME Delivery, saved' = saved, received \subseteq received',
         lost \subseteq lost', Extends(messages', messages), SentIsKept',
         \A b : /\ stage = "send" /\ applied /\ b \in Carried(request)
                /\ Loaded(saved).ackAfter = LastUser
                => \/ b \in received'
                   \/ [body |-> b, user |-> Loaded(saved).ackAfter] \in lost'
  PROVE  Delivery'
<1>1. \A b : Evident(b) => Evident(b)'
  BY EvidenceStays
<1>2. Loaded(saved)' = Loaded(saved)
  BY DEF Loaded
<1>3. Injected'
  BY <1>1, <1>2 DEF Delivery, Injected
<1>4. ASSUME NEW b, Outstanding(b) PROVE Outstanding(b)'
  <2>1. \/ b \in received'
        \/ [body |-> b, user |-> Loaded(saved).ackAfter] \in lost'
    BY <1>4 DEF Outstanding
  <2> QED
    BY <1>2, <1>4, <2>1 DEF Outstanding
<1>5. Promised'
  BY <1>2, <1>4 DEF Delivery, Promised
<1> QED
  BY <1>3, <1>5 DEF Delivery

\* What a process notes as pending when it selects stands in the request of the
\* turn, or is lost.
LEMMA SelectPromises ==
  ASSUME RequestPruneAssumption, HermesAssumption, IndInv, Select
  PROVE  Promised'
<1>1. /\ saved' \in State /\ MaxMessages \in Nat
      /\ \A p \in Paths : saved'.pending[p] # Gone =>
           LET body == Text(p, saved'.pending[p])
           IN  /\ body \in Frames(saved'.text)
               /\ saved'.ackAfter = LastUser
               /\ \/ applied' /\ body \in Carried(request')
                  \/ [body |-> body, user |-> LastUser] \in lost'
  BY SelectStep DEF HermesAssumption
<1>2. stage' = "send" /\ messages' = messages
  BY DEF Select, Keep
<1>3. LastUser' = LastUser /\ Loaded(saved)' = Loaded(saved')
  BY <1>2 DEF LastUser, Loaded
<1>4. Loaded(saved') = saved' \/ Loaded(saved').pending = None
  BY DEF Loaded, FreshState
<1>5. ASSUME NEW p \in Paths, Loaded(saved').pending[p] # Gone,
             NEW b, b = Text(p, Loaded(saved').pending[p])
      PROVE  Outstanding(b)'
  <2>1. Loaded(saved') = saved'
    BY <1>4, <1>5 DEF None
  <2>2. /\ b \in Frames(saved'.text)
        /\ saved'.ackAfter = LastUser
        /\ \/ applied' /\ b \in Carried(request')
           \/ [body |-> b, user |-> LastUser] \in lost'
    BY <1>1, <1>5, <2>1
  <2> QED
    BY <1>2, <1>3, <2>1, <2>2 DEF Outstanding
<1> QED
  BY <1>3, <1>5 DEF Promised, Outstanding

\* Every step keeps the delivery state honest, whatever is killed and
\* interrupted.
LEMMA NextDelivery ==
  ASSUME RequestPruneAssumption, HermesAssumption,
         IndInv, Delivery, [Next]_vars
  PROVE  Delivery'
<1>1. /\ saved \in State /\ MaxMessages \in Nat /\ Transcript(messages)
      /\ Extends(messages, messages)
  BY Places DEF IndInv, TypeOK, HermesAssumption, Conversation, Transcript,
                Extends
<1>2. CASE SelectNothing
  <2> DEFINE s == Promoted(Loaded(saved), messages)
  <2>1. /\ stage = "select" /\ received' = received /\ lost' = lost
        /\ messages' = messages /\ saved' \in {s, Cleared(s)}
    BY <1>2 DEF SelectNothing, Keep
  <2>2. s \in State /\ s.pending = None
    BY <1>1, Promoting
  <2>3. s = Promoted(Loaded(saved), messages)
    OBVIOUS
  <2> HIDE DEF s
  <2>4. /\ Cleared(s) \in State /\ Cleared(s).pending = None
        /\ Cleared(s).last = s.last
    BY <1>1, <2>2, Promoting
  <2>5. /\ saved' \in State /\ saved'.pending = None
        /\ saved'.last = Promoted(Loaded(saved), messages).last
    BY <2>1, <2>2, <2>3, <2>4
  <2> QED
    BY <1>1, <2>1, <2>5, PromotedIsHonest DEF Delivery
<1>3. CASE Select
  <2>1. stage = "select" /\ received' = received /\ messages' = messages
    BY <1>3 DEF Select, Keep
  <2>2. /\ saved' \in State /\ lost \subseteq lost'
        /\ saved'.last = Promoted(Loaded(saved), messages).last
    BY <1>3, SelectStep
  <2>3. Injected' /\ SentIsKept'
    BY <1>1, <2>1, <2>2, PromotedIsHonest
  <2>4. Promised'
    BY <1>3, SelectPromises
  <2> QED
    BY <2>3, <2>4 DEF Delivery
<1>4. CASE Observe
  <2>1. /\ stage = "observe" /\ stage' = "user" /\ received' = received
        /\ lost' = lost /\ messages' = messages
    BY <1>4 DEF Observe, Keep
  <2>2. CASE saved' = Promoted(Loaded(saved), messages)
    <3>1. saved' \in State /\ saved'.pending = None
      BY <1>1, <2>2, Promoting
    <3> QED
      BY <1>1, <2>1, <2>2, <3>1, PromotedIsHonest DEF Delivery
  <2>3. CASE saved' = saved
    <3>1. SentIsKept'
      BY <2>1 DEF Delivery, SentIsKept
    <3> QED
      BY <1>1, <2>1, <2>3, <3>1, HostKeepsDelivery
  <2> QED
    BY <1>4, <2>2, <2>3 DEF Observe
<1>5. CASE Answer
  <2>1. /\ saved' = saved /\ lost' = lost
        /\ received' = received \cup Carried(request)
    BY <1>5 DEF Answer
  <2>2. Grows
    BY <1>5, AnswerStep
  <2>3. SentIsKept' /\ Extends(messages', messages)
    BY <2>1, <2>2, KeptStays DEF Delivery, Grows
  <2> QED
    BY <2>1, <2>3, HostKeepsDelivery
<1>6. CASE UserSpeaks \/ RunTools
  <2>1. /\ saved' = saved /\ lost' = lost /\ received' = received
        /\ stage # "send"
    BY <1>6 DEF UserSpeaks, RunTools
  <2>2. Grows
    BY <1>6, UserSpeaksStep, RunToolsStep
  <2>3. SentIsKept' /\ Extends(messages', messages)
    BY <2>1, <2>2, KeptStays DEF Delivery, Grows
  <2> QED
    BY <2>1, <2>3, HostKeepsDelivery
<1>7. CASE SelectKilled \/ Edit
  <2>1. /\ saved' = saved /\ lost' = lost /\ received' = received
        /\ messages' = messages /\ stage # "send"
    BY <1>7 DEF SelectKilled, Edit, Keep
  <2>2. SentIsKept'
    BY <2>1 DEF Delivery, SentIsKept
  <2> QED
    BY <1>1, <2>1, <2>2, HostKeepsDelivery
<1>8. CASE Interrupted
  <2>1. /\ saved' = saved /\ received' = received /\ messages' = messages
        /\ lost' = IF applied THEN lost \cup Losses(request) ELSE lost
    BY <1>8 DEF Interrupted, Keep
  <2>2. SentIsKept' /\ lost \subseteq lost'
    BY <2>1 DEF Delivery, SentIsKept
  <2>3. \A b : applied /\ b \in Carried(request) =>
                 [body |-> b, user |-> LastUser] \in lost'
    BY <2>1 DEF Losses
  <2> QED
    BY <1>1, <2>1, <2>2, <2>3, HostKeepsDelivery
<1>9. CASE UNCHANGED vars
  <2>1. /\ Loaded(saved)' = Loaded(saved) /\ received' = received
        /\ lost' = lost /\ messages' = messages /\ stage' = stage
        /\ request' = request /\ applied' = applied /\ LastUser' = LastUser
    BY <1>9 DEF vars, Loaded, LastUser
  <2>2. Injected'
    BY <2>1 DEF Delivery, Injected, Evident
  <2>3. Promised'
    BY <2>1 DEF Delivery, Promised, Outstanding
  <2> QED
    BY <2>1, <2>2, <2>3 DEF Delivery, SentIsKept
<1> QED
  BY <1>2, <1>3, <1>4, <1>5, <1>6, <1>7, <1>8, <1>9 DEF Next

(***************************************************************************)
(* Whatever is killed and interrupted, what the state file says was        *)
(* injected was in a request that the provider was sent, or in one that    *)
(* was lost in a turn that has a reply (bridge.mjs:201-245).               *)
(***************************************************************************)
THEOREM InjectedTheorem ==
  ASSUME RequestPruneAssumption, HermesAssumption
  PROVE  Spec => []InjectedHasEvidence
<1>1. Init => Delivery
  BY InitDelivery
<1>2. IndInv /\ Delivery /\ [Next]_vars => Delivery'
  BY NextDelivery
<1>3. Delivery => InjectedHasEvidence
  BY DEF Delivery, Injected, Evident, InjectedHasEvidence
<1> QED
  BY <1>1, <1>2, <1>3, SpecIndInv, PTL DEF Spec

-----------------------------------------------------------------------------
(* What the model may believe, where no file goes missing *)

\* Every file is there, and none was missing when the request was made.
Present ==
  /\ disk \in [Paths -> Versions]
  /\ working.unresolved = {}

\* No step takes a file away where files are not deleted.
LEMMA NextPresent ==
  ASSUME RequestPruneAssumption, HermesAssumption, ~Deletes,
         IndInv, Present, [Next]_vars
  PROVE  Present'
<1>1. CASE Select
  <2>1. disk' = disk
    BY <1>1 DEF Select, Keep
  <2>2. PICK chosen \in SUBSET Units :
          working' = ProjectionOf(chosen) \/ working' = NothingTracked
    BY <1>1 DEF Select, FallOpen
  <2>3. Units \subseteq Paths
    BY TrackedFiles DEF IndInv, Conversation
  <2>4. {p \in Units : disk[p] = Gone} = {}
    <3>1. \A p \in Units : disk[p] \in Versions
      BY <2>3 DEF Present
    <3>2. Gone \notin Versions
      BY DEF RequestPruneAssumption
    <3> QED
      BY <3>1, <3>2
  <2>5. ProjectionOf(chosen).unresolved = {} /\ NothingTracked.unresolved = {}
    BY <2>4 DEF ProjectionOf, NothingTracked
  <2> QED
    BY <2>1, <2>2, <2>5 DEF Present
<1>2. CASE SelectNothing \/ SelectKilled
  <2>1. disk' = disk /\ working' = NothingTracked
    BY <1>2 DEF SelectNothing, SelectKilled, FallOpen, Keep
  <2> QED
    BY <2>1 DEF Present, NothingTracked
<1>3. CASE Edit
  <2>1. working' = working
    BY <1>3 DEF Edit
  <2>2. PICK p \in Paths, v \in Content :
          (v = Gone => Deletes) /\ disk' = [disk EXCEPT ![p] = v]
    BY <1>3 DEF Edit
  <2>3. v \in Versions
    BY <2>2 DEF Content
  <2> QED
    BY <2>1, <2>2, <2>3 DEF Present
<1>4. CASE UNCHANGED <<disk, working>>
  BY <1>4 DEF Present
<1>5. Observe \/ UserSpeaks \/ Answer \/ Interrupted \/ RunTools
        \/ UNCHANGED vars => UNCHANGED <<disk, working>>
  BY DEF Observe, UserSpeaks, Answer, Interrupted, RunTools, Keep, vars
<1> QED
  BY <1>1, <1>2, <1>3, <1>4, <1>5 DEF Next

\* Files are never missing where they are not deleted.
LEMMA SpecPresent ==
  ASSUME RequestPruneAssumption, HermesAssumption, ~Deletes
  PROVE  Spec => []Present
<1>1. Init => Present
  BY DEF Init, Present, NothingTracked
<1>2. IndInv /\ Present /\ [Next]_vars => Present'
  BY NextPresent
<1> QED
  BY <1>1, <1>2, SpecIndInv, PTL DEF Spec

(***************************************************************************)
(* Where no file is deleted, the marker that says a file's current content *)
(* is supplied stands only in requests that supply it, whatever the budget *)
(* omits and whatever is killed or interrupted (transcript.mjs:2,          *)
(* bridge.mjs:804-822).                                                    *)
(***************************************************************************)
THEOREM MarkerTheorem ==
  ASSUME RequestPruneAssumption, HermesAssumption, ~Deletes
  PROVE  Spec => []MarkersAreTrue
<1>1. IndInv /\ Present => MarkersAreTrue
  <2>1. SUFFICES ASSUME IndInv, Present, Ready, NEW p \in Paths,
                        StableMarker(p) \in Bodies(request)
                 PROVE  /\ p \in working.selected
                        /\ \/ Current(p, working) \in Carried(request)
                           \/ ~Quotes(Current(p, working))
    BY DEF MarkersAreTrue
  <2>2. Supplied(working, request)
    BY <2>1 DEF IndInv, Outgoing, Ready
  <2> QED
    BY <2>1, <2>2 DEF Supplied, Present
<1> QED
  BY <1>1, SpecIndInv, SpecPresent, PTL

-----------------------------------------------------------------------------
(* What a request carries, where all files fit the budget as well *)

\* Whatever the files contain, any of them fits beside any others.
FilesFit ==
  \A files \in SUBSET Paths : \A hand \in [files -> Card] :
    (\A p \in files : \E v \in Versions : hand[p].size = Length[v]) =>
      \A S \in SUBSET files : \A p \in files \ S :
        Weight(S, hand) + hand[p].size =< Budget

\* A command that is taken for the read of one file names no second one: one
\* parser wants exactly one argument, the other at least two
\* (shell-read.mjs:104-137, 205-268).
ReadersNameOneFile == \A c \in Calls : ReadOf[c] # NoPath => Named[c] = {}

\* No file goes before itself, as its score is a number.
LEMMA NotBeforeItself ==
  ASSUME NEW hand, NEW overlap, NEW u \in DOMAIN hand,
         u \in Nat, hand[u] \in Card, overlap[u] \in Nat
  PROVE  ~Before(u, u, hand, 0, overlap)
<1> DEFINE card == hand[u]
           scale == AtLeast(1, Budget)
           recency == AtLeast(0, 12 - AtLeast(0, 0 - card.lastUsedAt))
<1>1. scale \in Int
  BY BudgetAssumption DEF AtLeast
<1>2. recency \in Int /\ card.size \in Int
  BY DEF AtLeast, Card
<1>3. 2 * scale * recency \in Int /\ 48 * scale * overlap[u] \in Int
  BY <1>1, <1>2
<1>4. (IF card.changedAt = 0 THEN 12 * scale ELSE 0) \in Int
  BY <1>1
<1>5. (IF card.pinned THEN 600 * scale ELSE 0) \in Int
  BY <1>1
<1>6. 9 * card.size \in Int
  BY <1>2
<1>7. Score(card, 0, overlap[u]) \in Int
  BY <1>3, <1>4, <1>5, <1>6 DEF Score
<1> HIDE DEF card
<1>8. ~Outscores(card, overlap[u], card, overlap[u], 0)
  BY <1>7 DEF Outscores
<1> QED
  BY <1>8 DEF Before, card

\* Where every file is there and fits, the policy selects all that is tracked.
LEMMA EverythingIsSelected ==
  ASSUME RequestPruneAssumption, HermesAssumption, FilesFit,
         Transcript(messages), disk \in [Paths -> Versions],
         NEW overlap \in [Units -> Overlaps], NEW chosen \in SUBSET Units,
         IsWorkingSet(chosen, Hand, 0, overlap)
  PROVE  chosen = Units
<1>1. /\ Units \subseteq Paths /\ Paths \subseteq Nat
      /\ Overlaps \subseteq Nat /\ Gone \notin Versions
      /\ Length \in [Versions -> Nat]
  BY TrackedFiles DEF RequestPruneAssumption, HermesAssumption
<1>2. ASSUME NEW p \in Units
      PROVE  /\ disk[p] \in Versions /\ Hand[p].state = "resolved"
             /\ Hand[p].size = Length[disk[p]] /\ Hand[p] \in Card
  <2>0. disk[p] \in Versions
    BY <1>1
  <2>1. disk[p] \in Versions /\ disk[p] # Gone /\ Length[disk[p]] \in Nat
    BY <1>1, <2>0
  <2> DEFINE count == IF Changed(p) THEN 1 ELSE 0
  <2>2. Hand[p] = [state |-> "resolved", pinned |-> FALSE, lastUsedAt |-> 0,
                   changedAt |-> 0, changeCount |-> count,
                   size |-> Length[disk[p]]]
    BY <2>1 DEF Hand
  <2>3. count \in Nat
    OBVIOUS
  <2> HIDE DEF count
  <2> QED
    BY <2>1, <2>2, <2>3 DEF Card
<1>3. DOMAIN Hand = Units /\ Hand \in [Units -> Card]
  <2>1. DOMAIN Hand = Units /\ Hand = [p \in Units |-> Hand[p]]
    BY DEF Hand
  <2> QED
    BY <1>2, <2>1
<1>4. ASSUME NEW u \in Units PROVE u \in chosen
  <2> DEFINE forced == {v \in DOMAIN Hand : RefreshedThisTurn(Hand[v], 0)}
             ahead == {v \in chosen \ forced : Before(v, u, Hand, 0, overlap)}
  <2>1. u \in chosen <=>
          /\ Resolved(Hand[u])
          /\ \/ u \in forced
             \/ Hand[u].size = 0
             \/ Weight(forced \cup ahead, Hand) + Hand[u].size =< Budget
    BY <1>3 DEF IsWorkingSet
  <2>2. Resolved(Hand[u])
    BY <1>2 DEF Resolved
  <2>3. CASE u \notin forced
    <3>1. ~Before(u, u, Hand, 0, overlap)
      BY <1>1, <1>2, <1>3, NotBeforeItself
    <3>2. forced \cup ahead \in SUBSET Units /\ u \in Units \ (forced \cup ahead)
      BY <1>3, <2>3, <3>1
    <3>3. \A p \in Units : \E v \in Versions : Hand[p].size = Length[v]
      BY <1>2
    <3> HIDE DEF forced, ahead
    <3>4. Weight(forced \cup ahead, Hand) + Hand[u].size =< Budget
      BY <1>1, <1>3, <3>2, <3>3 DEF FilesFit
    <3> QED
      BY <2>1, <2>2, <3>4
  <2> QED
    BY <2>1, <2>2, <2>3
<1> QED
  BY <1>4

\* No read was ever sent as one of an omitted file.
NoneOmitted(s) ==
  \A c \in Calls : s.history[c] = "none" /\ s.pendingHistory[c] = "none"

\* Evidence of a request that omitted nothing adds no omission.
LEMMA PromotedOmitsNone ==
  ASSUME NEW s \in State, MaxMessages \in Nat, NoneOmitted(s)
  PROVE  /\ NoneOmitted(Cleared(s))
         /\ \A transcript : NoneOmitted(Promoted(Loaded(s), transcript))
<1>1. FreshState \in State
  <2>1. None \in [Paths -> Content] /\ NoHistory \in [Calls -> {"none"} \cup Omissions]
    BY DEF None, NoHistory, Content
  <2> QED
    BY <2>1 DEF FreshState, State
<1>2. ASSUME NEW t \in State, NoneOmitted(t) PROVE NoneOmitted(Cleared(t))
  <2>1. /\ Cleared(t).history = t.history
        /\ Cleared(t).pendingHistory = NoHistory
    BY DEF Cleared, State
  <2> QED
    BY <1>2, <2>1 DEF NoneOmitted, NoHistory
<1>3. Loaded(s) \in State /\ NoneOmitted(Loaded(s))
  <2>1. Loaded(s) \in State
    BY Promoting
  <2>2. [FreshState EXCEPT !.history = s.history].history = s.history
        /\ [FreshState EXCEPT !.history = s.history].pendingHistory = NoHistory
    BY DEF FreshState
  <2> QED
    BY <2>1, <2>2 DEF Loaded, NoneOmitted, NoHistory
<1>4. ASSUME NEW t \in State, NoneOmitted(t) PROVE NoneOmitted(Committed(t))
  <2> DEFINE last == IF Holds(t.pending) THEN t.pending ELSE t.last
             u == [t EXCEPT !.last = last]
             history == [c \in Calls |->
               IF t.pendingHistory[c] # "none" THEN t.pendingHistory[c]
               ELSE t.history[c]]
  <2>1. last \in [Paths -> Content]
    BY DEF State
  <2>2. u \in State
    <3> HIDE DEF last
    <3> QED
      BY <2>1 DEF State
  <2>3. Cleared(u) \in State /\ Cleared(u).pendingHistory = NoHistory
    <3> HIDE DEF u
    <3>1. Cleared(u) \in State
      BY <2>2, Promoting
    <3> QED
      BY <2>2, <3>1 DEF Cleared, State
  <2>4. Committed(t) = [Cleared(u) EXCEPT !.history = history]
    BY DEF Committed
  <2>5. \A c \in Calls : history[c] = "none"
    BY <1>4 DEF NoneOmitted
  <2> HIDE DEF u, history
  <2>6. /\ Committed(t).history = history
        /\ Committed(t).pendingHistory = NoHistory
    BY <2>3, <2>4 DEF State
  <2> QED
    BY <2>5, <2>6 DEF NoneOmitted, NoHistory
<1>5. ASSUME NEW transcript PROVE NoneOmitted(Promoted(Loaded(s), transcript))
  BY <1>2, <1>3, <1>4 DEF Promoted
<1> QED
  BY <1>2, <1>5

\* Every selected file is in the request that goes out.
Told ==
  stage = "send" /\ applied =>
    \A p \in working.selected :
      Quotes(Current(p, working)) => Current(p, working) \in Carried(request)

\* A request for files that are there and fit omits none of them, and leaves
\* no trace of an omission in the state file.
LEMMA SelectTells ==
  ASSUME RequestPruneAssumption, HermesAssumption, FilesFit,
         ReadersNameOneFile, IndInv, Present, NoneOmitted(saved), Select
  PROVE  NoneOmitted(saved') /\ Told'
<1> DEFINE s == Promoted(Loaded(saved), messages)
<1>1. PICK overlap \in [Units -> Overlaps] :
        \E chosen \in SUBSET Units :
          /\ IsWorkingSet(chosen, Hand, 0, overlap)
          /\ LET P == ProjectionOf(chosen)
                 text == ResolveProjectionText(messages, P, s.last)
             IN  /\ saved' = Pending(s, P, text)
                 /\ \/ /\ request' = Assembled(s, P, text)
                       /\ applied' = TRUE
                       /\ working' = P
                    \/ FallOpen
  BY DEF Select
<1>2. PICK chosen \in SUBSET Units :
          /\ IsWorkingSet(chosen, Hand, 0, overlap)
          /\ LET P == ProjectionOf(chosen)
                 text == ResolveProjectionText(messages, P, s.last)
             IN  /\ saved' = Pending(s, P, text)
                 /\ \/ /\ request' = Assembled(s, P, text)
                       /\ applied' = TRUE
                       /\ working' = P
                    \/ FallOpen
  BY <1>1
<1> DEFINE P == ProjectionOf(chosen)
           text == ResolveProjectionText(messages, P, s.last)
           W == Assembled(s, P, text)
<1>3. /\ messages # <<>> /\ Conversation /\ Transcript(messages)
      /\ saved \in State /\ MaxMessages \in Nat /\ OnlyReadersRead
      /\ disk \in [Paths -> Versions] /\ disk \in [Paths -> Content]
  BY DEF Select, IndInv, TypeOK, Conversation, Present, HermesAssumption
<1>4. chosen = Units
  BY ONLY RequestPruneAssumption, HermesAssumption, FilesFit, <1>1, <1>2, <1>3,
          EverythingIsSelected
<1>5. s \in State /\ NoneOmitted(s)
  BY <1>3, Promoting, PromotedOmitsNone
<1>6. Units \subseteq Paths /\ Gone \notin Versions /\ NoPath \notin Paths
  BY <1>3, TrackedFiles DEF RequestPruneAssumption
<1>7. P.selected = Units /\ P.unresolved = {}
  <2>1. \A p \in Units : disk[p] \in Versions
    BY <1>3, <1>6
  <2>2. \A p \in Units : disk[p] # Gone
    BY <1>6, <2>1
  <2> QED
    BY <1>4, <2>2 DEF ProjectionOf
<1>8. /\ saved' = Pending(s, P, text)
      /\ \/ request' = W /\ applied' = TRUE /\ working' = P
         \/ FallOpen
  BY <1>2
<1>9. /\ \A p \in P.selected :
            Quotes(Current(p, P)) =>
              \/ Current(p, P) \in Carried(W)
              \/ \E c \in DOMAIN UnitOf :
                   /\ c \in Calls /\ UnitOf[c] = p /\ ReadOf[c] = p
                   /\ \/ /\ s.history[c] \in Omissions
                         /\ OmittedMarker(p, s.history[c]) \in Bodies(W)
                      \/ /\ TakenForDump(c, P)
                         /\ DumpMarker(c, P) \in Bodies(W)
      /\ Supplied(P, W)
  <2> HIDE DEF s, P, text, W
  <2>1. P = ProjectionOf(chosen) /\ W = Assembled(s, P, text)
        /\ text = ResolveProjectionText(messages, P, s.last)
    BY DEF P, W, text
  <2>2. /\ RequestPruneAssumption /\ OnlyReadersRead /\ Conversation
        /\ messages # <<>> /\ disk \in [Paths -> Content]
        /\ chosen \in SUBSET Units /\ IsWorkingSet(chosen, Hand, 0, overlap)
    BY <1>2, <1>3
  <2> QED
    BY ONLY <2>1, <2>2, Telling
<1> HIDE DEF s, P, text, W
<1>10. ASSUME NEW c \in Calls, ReadOf[c] \in Paths PROVE ~TakenForDump(c, P)
  <2>1. Named[c] = {}
    BY <1>6, <1>10 DEF ReadersNameOneFile
  <2>2. DumpedFiles(c, P) # {} => Cardinality(DumpedFiles(c, P)) = 1
    BY <2>1 DEF DumpedFiles
  <2>3. DumpedFiles(c, P) \cap P.unresolved = {}
    BY <1>7
  <2> QED
    BY <2>1, <2>2, <2>3 DEF TakenForDump
<1>11. ASSUME NEW p \in P.selected, Quotes(Current(p, P))
       PROVE  Current(p, P) \in Carried(W)
  <2>1. SUFFICES ASSUME NEW c \in DOMAIN UnitOf, c \in Calls, ReadOf[c] = p,
                        s.history[c] \in Omissions \/ TakenForDump(c, P)
                 PROVE  FALSE
    BY <1>9, <1>11
  <2>2. s.history[c] \notin Omissions
    BY <1>5, <2>1 DEF NoneOmitted, Omissions
  <2>3. p \in Paths
    BY <1>6, <1>7
  <2> QED
    BY <1>10, <2>1, <2>2, <2>3
<1>12. Told'
  <2>1. CASE request' = W /\ working' = P
    BY <1>11, <2>1 DEF Told
  <2>2. CASE FallOpen
    BY <2>2 DEF FallOpen, Told
  <2> QED
    BY <1>8, <2>1, <2>2
<1>13. NoneOmitted(Pending(s, P, text))
  <2> DEFINE revisions ==
               [p \in Paths |-> IF p \in P.selected THEN P.content[p] ELSE Gone]
             omissions ==
               [c \in Calls |->
                  IF c \in DOMAIN UnitOf /\ UnitOf[c] \notin P.selected
                  THEN Disposition(UnitOf[c], P) ELSE "none"]
  <2>1. \A c \in Calls : omissions[c] = "none"
    BY <1>7 DEF Units
  <2>2. NoneOmitted(Cleared(s))
    BY <1>3, <1>5, PromotedOmitsNone
  <2>3. \/ Pending(s, P, text) = Cleared(s)
        \/ Pending(s, P, text) =
             [s EXCEPT !.versioned = TRUE, !.pending = revisions,
                       !.text = text, !.ackAfter = LastUser,
                       !.pendingHistory = omissions]
    BY DEF Pending
  <2> HIDE DEF revisions, omissions
  <2>4. LET t == [s EXCEPT !.versioned = TRUE, !.pending = revisions,
                           !.text = text, !.ackAfter = LastUser,
                           !.pendingHistory = omissions]
        IN  t.history = s.history /\ t.pendingHistory = omissions
    BY <1>5 DEF State
  <2>5. CASE Pending(s, P, text) = Cleared(s)
    BY <2>2, <2>5
  <2>6. CASE /\ Pending(s, P, text).history = s.history
             /\ Pending(s, P, text).pendingHistory = omissions
    BY <1>5, <2>1, <2>6 DEF NoneOmitted
  <2> QED
    BY <2>3, <2>4, <2>5, <2>6
<1> QED
  BY <1>8, <1>12, <1>13

\* Every step keeps the state file free of omissions and the requests whole.
LEMMA NextTold ==
  ASSUME RequestPruneAssumption, HermesAssumption, FilesFit,
         ReadersNameOneFile, IndInv, Present, NoneOmitted(saved), Told,
         [Next]_vars
  PROVE  NoneOmitted(saved)' /\ Told'
<1>1. saved \in State /\ MaxMessages \in Nat
  BY DEF IndInv, TypeOK, HermesAssumption
<1>2. CASE Select
  BY <1>2, SelectTells
<1>3. CASE SelectNothing
  <2> DEFINE s == Promoted(Loaded(saved), messages)
  <2>1. saved' \in {s, Cleared(s)} /\ applied' = FALSE
    BY <1>3 DEF SelectNothing, FallOpen
  <2>2. s \in State /\ NoneOmitted(s)
    BY <1>1, Promoting, PromotedOmitsNone
  <2>3. NoneOmitted(Cleared(s))
    BY <1>1, <2>2, PromotedOmitsNone
  <2> HIDE DEF s
  <2>4. NoneOmitted(saved')
    BY <2>1, <2>2, <2>3
  <2> QED
    BY <2>1, <2>4 DEF Told
<1>4. CASE SelectKilled
  BY <1>4 DEF SelectKilled, FallOpen, Told
<1>5. CASE Observe
  <2>1. NoneOmitted(saved')
    BY <1>1, <1>5, PromotedOmitsNone DEF Observe
  <2> QED
    BY <1>5, <2>1 DEF Observe, Told
<1>6. CASE UserSpeaks \/ Answer \/ Interrupted \/ RunTools \/ Edit
  <2>1. \/ saved' = saved /\ stage' # "send"
        \/ UNCHANGED <<saved, stage, applied, working, request>>
    BY <1>6 DEF UserSpeaks, Answer, Interrupted, RunTools, Edit
  <2> QED
    BY <2>1 DEF Told, NoneOmitted
<1>7. CASE UNCHANGED vars
  BY <1>7 DEF vars, Told, NoneOmitted
<1> QED
  BY <1>2, <1>3, <1>4, <1>5, <1>6, <1>7 DEF Next

(***************************************************************************)
(* Where no file is deleted and all fit the budget, every selected file    *)
(* that is not empty stands in the request with its bytes, whatever was    *)
(* killed or interrupted before: also where the projection is left out     *)
(* because the state file says the file was injected, and the provider     *)
(* never got it (adapters/hermes/README.md:66, bridge.mjs:804-822).        *)
(***************************************************************************)
THEOREM CarriedTheorem ==
  ASSUME RequestPruneAssumption, HermesAssumption, ~Deletes,
         FilesFit, ReadersNameOneFile
  PROVE  Spec => []SelectedIsCarried
<1>1. Init => NoneOmitted(saved) /\ Told
  <2>1. SUFFICES ASSUME Init PROVE NoneOmitted(saved) /\ Told
    OBVIOUS
  <2>2. saved.history = NoHistory /\ saved.pendingHistory = NoHistory
    BY <2>1 DEF Init, FreshState
  <2> QED
    BY <2>1, <2>2 DEF Init, NoneOmitted, NoHistory, Told
<1>2. IndInv /\ Present /\ NoneOmitted(saved) /\ Told /\ [Next]_vars
        => NoneOmitted(saved)' /\ Told'
  BY NextTold
<1>3. Told => SelectedIsCarried
  BY DEF Told, SelectedIsCarried, Ready
<1> QED
  BY <1>1, <1>2, <1>3, SpecIndInv, SpecPresent, PTL DEF Spec

-----------------------------------------------------------------------------
(* The plugin's store of executed reads *)

\* A read that ran is in the store or in the state file of its session, or was
\* taken by another session; so it is in what a call of its session carries or
\* finds, and what was saved has arrived.
Kept ==
  /\ \A c \in executed :
       \/ c \in store \cup stateFile[SessionOf[c]]
       \/ Plugin!TakenByAnother(c)
  /\ \A c \in executed :
       operation[SessionOf[c]] # "none" =>
         \/ c \in payload[SessionOf[c]] \cup stateFile[SessionOf[c]]
         \/ Plugin!TakenByAnother(c)
  /\ \A s \in Sessions : renamed[s] => payload[s] \subseteq stateFile[s]

PluginInv == Plugin!TypeOK /\ Kept

\* What is taken stays taken.
LEMMA TakenStays ==
  ASSUME taken \subseteq taken', NEW c, Plugin!TakenByAnother(c)
  PROVE  Plugin!TakenByAnother(c)'
  BY DEF Plugin!TakenByAnother

\* A read runs in a session that waits for no call: it goes to the store.
LEMMA PluginRecords ==
  ASSUME Plugin!ExecutedReadsAssumption, PluginInv,
         NEW c \in PluginCalls, Plugin!RecordExecutedReadArgs(c)
  PROVE  PluginInv'
<1>1. /\ operation[SessionOf[c]] = "none" /\ SessionOf[c] \in Sessions
      /\ store' = store \cup {c} /\ executed' = executed \cup {c}
      /\ UNCHANGED <<stateFile, operation, payload, renamed, taken>>
  BY DEF Plugin!RecordExecutedReadArgs, Plugin!ExecutedReadsAssumption
<1>2. Plugin!TypeOK'
  BY <1>1 DEF PluginInv, Plugin!TypeOK
<1>3. \A d : Plugin!TakenByAnother(d) => Plugin!TakenByAnother(d)'
  BY <1>1, TakenStays
<1>4. Kept'
  BY <1>1, <1>3 DEF PluginInv, Kept
<1> QED
  BY <1>2, <1>4 DEF PluginInv

\* A call carries the store, and with the state file all reads of its session
\* that were not taken.
LEMMA PluginCallsBridge ==
  ASSUME Plugin!ExecutedReadsAssumption, PluginInv, NEW s \in Sessions,
         NEW op \in {"select", "observe"}, Plugin!CallBridge(s, op)
  PROVE  PluginInv'
<1>1. /\ operation[s] = "none"
      /\ operation' = [operation EXCEPT ![s] = op]
      /\ payload' = [payload EXCEPT ![s] = store]
      /\ UNCHANGED <<store, executed, stateFile, renamed, taken>>
  BY DEF Plugin!CallBridge
<1>2. /\ operation \in [Sessions -> {"none", "select", "observe"}]
      /\ payload \in [Sessions -> SUBSET executed] /\ ~renamed[s]
  BY <1>1 DEF PluginInv, Plugin!TypeOK
<1>3. Plugin!TypeOK'
  BY <1>1, <1>2 DEF PluginInv, Plugin!TypeOK
<1>4. \A d : Plugin!TakenByAnother(d) => Plugin!TakenByAnother(d)'
  BY <1>1, TakenStays
<1>5. payload'[s] = store /\ \A t \in Sessions \ {s} : payload'[t] = payload[t]
      /\ operation'[t] = operation[t]
  BY <1>1, <1>2
<1>6. \A c \in executed : SessionOf[c] \in Sessions
  BY DEF PluginInv, Plugin!TypeOK, Plugin!ExecutedReadsAssumption
<1>7. Kept'
  BY <1>1, <1>2, <1>4, <1>5, <1>6 DEF PluginInv, Kept
<1> QED
  BY <1>3, <1>7 DEF PluginInv

\* What a call carries goes to the state file of its session.
LEMMA PluginSaves ==
  ASSUME Plugin!ExecutedReadsAssumption, PluginInv, NEW s \in Sessions,
         Plugin!Save(s)
  PROVE  PluginInv'
<1>1. /\ operation[s] # "none"
      /\ stateFile' = [stateFile EXCEPT ![s] = @ \cup payload[s]]
      /\ renamed' = [renamed EXCEPT ![s] = TRUE]
      /\ UNCHANGED <<store, executed, operation, payload, taken>>
  BY DEF Plugin!Save
<1>2. /\ stateFile \in [Sessions -> SUBSET executed]
      /\ renamed \in [Sessions -> BOOLEAN]
  BY DEF PluginInv, Plugin!TypeOK
<1>3. Plugin!TypeOK'
  BY <1>1, <1>2 DEF PluginInv, Plugin!TypeOK
<1>4. \A d : Plugin!TakenByAnother(d) => Plugin!TakenByAnother(d)'
  BY <1>1, TakenStays
<1>5. /\ payload[s] \subseteq stateFile'[s]
      /\ \A t \in Sessions : stateFile[t] \subseteq stateFile'[t]
      /\ \A t \in Sessions \ {s} : renamed'[t] = renamed[t]
  BY <1>1, <1>2
<1>6. \A c \in executed : SessionOf[c] \in Sessions
  BY DEF PluginInv, Plugin!TypeOK, Plugin!ExecutedReadsAssumption
<1>7. Kept'
  BY <1>1, <1>4, <1>5, <1>6 DEF PluginInv, Kept
<1> QED
  BY <1>3, <1>7 DEF PluginInv

\* The end of a call leaves its session without one.
LEMMA PluginOver ==
  ASSUME Plugin!TypeOK, NEW s \in Sessions, Plugin!Over(s)
  PROVE  /\ operation' \in [Sessions -> {"none", "select", "observe"}]
         /\ payload' \in [Sessions -> SUBSET executed]
         /\ renamed' \in [Sessions -> BOOLEAN]
         /\ operation'[s] = "none" /\ payload'[s] = {} /\ ~renamed'[s]
         /\ \A t \in Sessions \ {s} :
              /\ operation'[t] = operation[t] /\ payload'[t] = payload[t]
              /\ renamed'[t] = renamed[t]
  BY DEF Plugin!TypeOK, Plugin!Over

\* A turn that was observed takes from other sessions only: what its own has
\* read has been saved.
LEMMA PluginResults ==
  ASSUME Plugin!ExecutedReadsAssumption, PluginInv, NEW s \in Sessions,
         Plugin!Result(s)
  PROVE  PluginInv'
<1>1. /\ operation[s] # "none" /\ renamed[s] /\ Plugin!Over(s)
      /\ executed' = executed /\ stateFile' = stateFile
      /\ \/ store' = {} /\ taken' = taken \cup {<<c, s>> : c \in Plugin!Unsaved}
         \/ store' = store /\ taken' = taken
  BY DEF Plugin!Result
<1>2. Plugin!TypeOK /\ Kept /\ Plugin!Over(s)
  BY <1>1 DEF PluginInv
<1>3. /\ operation' \in [Sessions -> {"none", "select", "observe"}]
      /\ payload' \in [Sessions -> SUBSET executed]
      /\ renamed' \in [Sessions -> BOOLEAN]
      /\ operation'[s] = "none" /\ payload'[s] = {} /\ ~renamed'[s]
      /\ \A t \in Sessions \ {s} :
           /\ operation'[t] = operation[t] /\ payload'[t] = payload[t]
           /\ renamed'[t] = renamed[t]
  BY ONLY <1>2, s \in Sessions, PluginOver
<1>4. \A c \in executed : SessionOf[c] \in Sessions /\ c \in PluginCalls
  BY DEF PluginInv, Plugin!TypeOK, Plugin!ExecutedReadsAssumption
<1>5. Plugin!TypeOK'
  <2>1. Plugin!Unsaved \subseteq executed
    BY <1>2 DEF Plugin!Unsaved, Plugin!TypeOK
  <2>2. taken' \subseteq executed \X Sessions /\ store' \subseteq executed
    BY <1>1, <1>2, <2>1 DEF Plugin!TypeOK
  <2> QED
    BY <1>1, <1>2, <1>3, <2>2 DEF Plugin!TypeOK
<1>6. \A d : Plugin!TakenByAnother(d) => Plugin!TakenByAnother(d)'
  <2>1. taken \subseteq taken'
    BY <1>1
  <2> QED
    BY <2>1, TakenStays
<1>7. ASSUME NEW c \in executed
      PROVE  \/ c \in store' \cup stateFile[SessionOf[c]]
             \/ Plugin!TakenByAnother(c)'
  <2>1. CASE SessionOf[c] = s
    <3>1. c \in payload[s] \cup stateFile[s] \/ Plugin!TakenByAnother(c)
      BY <1>1, <1>2, <2>1 DEF Kept
    <3>2. payload[s] \subseteq stateFile[s]
      BY <1>1, <1>2 DEF Kept
    <3> QED
      BY <1>6, <2>1, <3>1, <3>2
  <2>2. CASE c \notin store
    BY <1>2, <1>6, <2>2 DEF Kept
  <2>3. CASE c \in store /\ c \notin stateFile[SessionOf[c]] /\ SessionOf[c] # s
    <3>1. CASE store' = store
      BY <2>3, <3>1
    <3>2. CASE taken' = taken \cup {<<d, s>> : d \in Plugin!Unsaved}
      <4>1. <<c, s>> \in taken'
        BY <2>3, <3>2 DEF Plugin!Unsaved
      <4> QED
        BY <2>3, <4>1 DEF Plugin!TakenByAnother
    <3> QED
      BY <1>1, <3>1, <3>2
  <2>4. CASE c \in stateFile[SessionOf[c]]
    BY <2>4
  <2> QED
    BY <2>1, <2>2, <2>3, <2>4
<1>8. ASSUME NEW c \in executed, operation'[SessionOf[c]] # "none"
      PROVE  \/ c \in payload'[SessionOf[c]] \cup stateFile[SessionOf[c]]
             \/ Plugin!TakenByAnother(c)'
  <2>1. SessionOf[c] \in Sessions \ {s}
    BY <1>3, <1>4, <1>8
  <2> QED
    BY <1>2, <1>3, <1>6, <1>8, <2>1 DEF Kept
<1>9. \A t \in Sessions : renamed'[t] => payload'[t] \subseteq stateFile[t]
  BY <1>2, <1>3 DEF Kept
<1>10. Kept'
  BY <1>1, <1>7, <1>8, <1>9 DEF Kept
<1> QED
  BY <1>5, <1>10 DEF PluginInv

\* A call without a result leaves the store.
LEMMA PluginFails ==
  ASSUME Plugin!ExecutedReadsAssumption, PluginInv, NEW s \in Sessions,
         Plugin!NoResult(s)
  PROVE  PluginInv'
<1>1. /\ Plugin!Over(s)
      /\ UNCHANGED <<store, executed, stateFile, taken>>
  BY DEF Plugin!NoResult
<1>2. Plugin!TypeOK /\ Kept /\ Plugin!Over(s)
  BY <1>1 DEF PluginInv
<1>3. /\ operation' \in [Sessions -> {"none", "select", "observe"}]
      /\ payload' \in [Sessions -> SUBSET executed]
      /\ renamed' \in [Sessions -> BOOLEAN]
      /\ operation'[s] = "none" /\ payload'[s] = {} /\ ~renamed'[s]
      /\ \A t \in Sessions \ {s} :
           /\ operation'[t] = operation[t] /\ payload'[t] = payload[t]
           /\ renamed'[t] = renamed[t]
  BY ONLY <1>2, s \in Sessions, PluginOver
<1>4. \A c \in executed : SessionOf[c] \in Sessions
  BY DEF PluginInv, Plugin!TypeOK, Plugin!ExecutedReadsAssumption
<1>5. \A d : Plugin!TakenByAnother(d) => Plugin!TakenByAnother(d)'
  BY <1>1, TakenStays
<1>6. Plugin!TypeOK'
  BY <1>1, <1>2, <1>3 DEF Plugin!TypeOK
<1>7. ASSUME NEW c \in executed, operation'[SessionOf[c]] # "none"
      PROVE  \/ c \in payload'[SessionOf[c]] \cup stateFile[SessionOf[c]]
             \/ Plugin!TakenByAnother(c)'
  <2>1. SessionOf[c] \in Sessions \ {s}
    BY <1>3, <1>4, <1>7
  <2> QED
    BY <1>2, <1>3, <1>5, <1>7, <2>1 DEF Kept
<1>8. \A t \in Sessions : renamed'[t] => payload'[t] \subseteq stateFile[t]
  BY <1>2, <1>3 DEF Kept
<1>9. \A c \in executed :
        c \in store \cup stateFile[SessionOf[c]] \/ Plugin!TakenByAnother(c)'
  BY <1>2, <1>5 DEF Kept
<1>10. Kept'
  BY <1>1, <1>7, <1>8, <1>9 DEF Kept
<1> QED
  BY <1>6, <1>10 DEF PluginInv

\* Every step of any session keeps it.
LEMMA PluginNext ==
  ASSUME Plugin!ExecutedReadsAssumption,
         PluginInv, [Plugin!Next]_(Plugin!vars)
  PROVE  PluginInv'
<1>1. CASE UNCHANGED Plugin!vars
  BY <1>1 DEF PluginInv, Plugin!TypeOK, Kept, Plugin!vars, Plugin!TakenByAnother
<1>2. CASE Plugin!Next
  <2>1. CASE \E c \in PluginCalls : Plugin!RecordExecutedReadArgs(c)
    BY <2>1, PluginRecords
  <2>2. ASSUME NEW s \in Sessions,
               \/ Plugin!CallBridge(s, "select") \/ Plugin!CallBridge(s, "observe")
               \/ Plugin!Save(s) \/ Plugin!Result(s) \/ Plugin!NoResult(s)
        PROVE  PluginInv'
    BY <2>2, PluginCallsBridge, PluginSaves, PluginResults, PluginFails
  <2> QED
    BY <1>2, <2>1, <2>2 DEF Plugin!Next
<1> QED
  BY <1>1, <1>2

(***************************************************************************)
(* However many sessions a process has and whatever becomes of their       *)
(* calls, the bridge is told the executed arguments of every read of its   *)
(* session, but for those a turn of another session cleared before they    *)
(* were saved (adapters/hermes/README.md:87-98, __init__.py:196-205).      *)
(***************************************************************************)
THEOREM PluginTheorem ==
  ASSUME Plugin!ExecutedReadsAssumption
  PROVE  Plugin!Spec => []Plugin!PluginInvariant
<1>1. Plugin!Init => PluginInv
  BY DEF Plugin!Init, PluginInv, Plugin!TypeOK, Kept
<1>2. PluginInv /\ [Plugin!Next]_(Plugin!vars) => PluginInv'
  BY PluginNext
<1>3. PluginInv => Plugin!PluginInvariant
  BY DEF PluginInv, Kept, Plugin!PluginInvariant, Plugin!BridgeKnows, Plugin!Own
<1> QED
  BY <1>1, <1>2, <1>3, PTL DEF Plugin!Spec
=============================================================================
