-------------------------- MODULE PiExtensionProofs --------------------------
(***************************************************************************)
(* Proofs about PiExtension, for any files and calls and any budget, with  *)
(* deletions, races, restarts and branches.                                *)
(***************************************************************************)
EXTENDS PiExtension, RequestPruneProofs

-----------------------------------------------------------------------------
(* The inductive invariant *)

\* What TypeOK says of the extension's variables, and what its calls are.
Typed ==
  /\ disk \in [Paths -> Content]
  /\ edits \in 0..MaxEdits
  /\ stage \in {"user", "context", "payload", "tools", "event"}
  /\ turn \in 0..MaxTurn
  /\ \A p \in DOMAIN units : p \in Paths /\ units[p] \in Unit
  /\ \A c \in callToUnit : c \in Calls /\ ReadOf[c] \in DOMAIN units
  /\ \A c \in callMeta : Tool[c] = "read" /\ ReadOf[c] # NoPath
  /\ last \in [Paths -> Content] /\ pending \in [Paths -> Content]
  /\ history \in [Calls -> {"none"} \cup Omissions]
  /\ pendingHistory \in [Calls -> {"none"} \cup Omissions]
  /\ working \in Projections
  /\ applied \in BOOLEAN

\* When the user speaks, every call has its result.
AnsweredInTime(m) ==
  \A i \in DOMAIN m : m[i].role = "user" =>
    \A j \in 1..(i - 1) : m[j].role = "assistant" =>
      \A c \in m[j].calls :
        \E k \in 1..(i - 1) : m[k].role = "tool" /\ m[k].call = c

\* A branch that may be returned to.
Resting(m) ==
  /\ Transcript(m) /\ AnsweredInTime(m)
  /\ Unanswered(m) = {}
  /\ Len(m) =< MaxMessages

\* The active branch has room for the results of the calls that run.
Branches ==
  /\ Resting(aside)
  /\ Transcript(messages) /\ AnsweredInTime(messages)
  /\ Len(messages) + Cardinality(Unanswered(messages)) =< MaxMessages
  /\ stage \notin {"tools", "event"} => Unanswered(messages) = {}
  /\ stage = "event" => messages # <<>> /\ messages[Len(messages)].role = "tool"

\* What is pending is in the text that a payload is looked up for.
Lookup ==
  text # EmptyText =>
    \A p \in Paths : pending[p] # Gone => Text(p, pending[p]) \in Frames(text)

IndInv ==
  /\ Typed /\ Branches
  /\ PairsStay /\ NoStaleBody /\ OnlyThisBranch
  /\ Lookup /\ InjectedWasSent

-----------------------------------------------------------------------------
(* Branches *)

\* A branch stays one that can be returned to when a message follows: a
\* user's only when no call waits.
LEMMA BranchGrows ==
  ASSUME NEW old, Transcript(old), AnsweredInTime(old), NEW m \in Message,
         m.role = "tool" => m.call \in CallsIn(old),
         m.role = "user" => Unanswered(old) = {}
  PROVE  /\ Transcript(Append(old, m)) /\ AnsweredInTime(Append(old, m))
         /\ Adds(Append(old, m), old, m)
<1> DEFINE longer == Append(old, m)
           n == Len(old)
<1> HIDE DEF longer
<1>1. Transcript(longer) /\ Adds(longer, old, m)
  BY TranscriptGrows DEF longer
<1>2. n \in Nat /\ DOMAIN old = 1..n /\ DOMAIN longer = 1..(n + 1)
  <2>1. Len(longer) = n + 1
    BY <1>1 DEF Adds
  <2> QED
    BY <1>1, <2>1, Places DEF Transcript
<1>3. longer[n + 1] = m /\ \A i \in 1..n : longer[i] = old[i]
  BY <1>1 DEF Adds
<1> HIDE DEF n
<1>4. ASSUME NEW i \in DOMAIN longer, longer[i].role = "user",
             NEW j \in 1..(i - 1), longer[j].role = "assistant",
             NEW c \in longer[j].calls
      PROVE  \E k \in 1..(i - 1) : longer[k].role = "tool" /\ longer[k].call = c
  <2>1. j \in 1..n /\ longer[j] = old[j]
    BY <1>2, <1>3, <1>4
  <2>2. CASE i \in 1..n
    <3>1. i \in DOMAIN old /\ old[i].role = "user"
      BY <1>2, <1>3, <1>4, <2>2
    <3>2. PICK k \in 1..(i - 1) : old[k].role = "tool" /\ old[k].call = c
      BY <1>4, <2>1, <3>1 DEF AnsweredInTime
    <3>3. longer[k] = old[k]
      BY <1>2, <1>3, <2>2, <3>2
    <3> QED
      BY <3>2, <3>3
  <2>3. CASE i = n + 1
    <3>1. c \in CallsIn(old)
      BY <1>2, <1>4, <2>1, InMessages
    <3>2. c \in ResultsIn(old)
      BY <1>3, <1>4, <2>3, <3>1 DEF Unanswered
    <3>3. PICK k \in DOMAIN old : old[k].role = "tool" /\ c = old[k].call
      BY <3>2, InMessages
    <3>4. k \in 1..(i - 1) /\ longer[k] = old[k]
      BY <1>2, <1>3, <2>3, <3>3
    <3> QED
      BY <3>3, <3>4
  <2> QED
    BY <1>2, <1>4, <2>2, <2>3
<1>5. AnsweredInTime(longer)
  BY <1>4 DEF AnsweredInTime
<1> QED
  BY <1>1, <1>5 DEF longer

\* What stands before one of the user's messages is a branch at rest.
LEMMA BranchLeft ==
  ASSUME NEW m, Transcript(m), AnsweredInTime(m), Len(m) =< MaxMessages,
         MaxMessages \in Nat, NEW i \in DOMAIN m, m[i].role = "user"
  PROVE  Resting(SubSeq(m, 1, i - 1))
<1> DEFINE s == SubSeq(m, 1, i - 1)
           n == Len(m)
<1>1. n \in Nat /\ DOMAIN m = 1..n /\ m \in Seq(Message) /\ i \in 1..n
  BY Places DEF Transcript
<1>2. /\ s \in Seq(Message) /\ Len(s) = i - 1
      /\ \A k \in 1..(i - 1) : s[k] = m[k]
  <2>1. \A k \in 1..(i - 1) : m[k] \in Message
    BY <1>1, Places
  <2> QED
    BY <1>1, <2>1, SubSeqProperties
<1>3. DOMAIN s = 1..(i - 1)
  BY <1>1, <1>2, Places
<1> HIDE DEF s, n
<1>4. Transcript(s)
  <2>1. SUFFICES ASSUME NEW k \in DOMAIN s, s[k].role = "tool"
                 PROVE  CalledBefore(s, k)
    BY <1>2 DEF Transcript
  <2>2. k \in DOMAIN m /\ s[k] = m[k]
    BY <1>1, <1>2, <1>3
  <2>3. PICK j \in 1..(k - 1) : m[j].role = "assistant" /\ m[k].call \in m[j].calls
    BY <2>1, <2>2 DEF Transcript, CalledBefore
  <2>4. s[j] = m[j]
    BY <1>1, <1>2, <1>3
  <2> QED
    BY <2>2, <2>3, <2>4 DEF CalledBefore
<1>5. AnsweredInTime(s)
  <2>1. SUFFICES ASSUME NEW k \in DOMAIN s, s[k].role = "user",
                        NEW j \in 1..(k - 1), s[j].role = "assistant",
                        NEW c \in s[j].calls
                 PROVE  \E l \in 1..(k - 1) : s[l].role = "tool" /\ s[l].call = c
    BY DEF AnsweredInTime
  <2>2. k \in DOMAIN m /\ s[k] = m[k] /\ s[j] = m[j]
    BY <1>1, <1>2, <1>3
  <2>3. PICK l \in 1..(k - 1) : m[l].role = "tool" /\ m[l].call = c
    BY <2>1, <2>2 DEF AnsweredInTime
  <2>4. s[l] = m[l]
    BY <1>1, <1>2, <1>3
  <2> QED
    BY <2>3, <2>4
<1>6. Unanswered(s) = {}
  <2>1. SUFFICES ASSUME NEW c \in CallsIn(s) PROVE c \in ResultsIn(s)
    BY DEF Unanswered
  <2>2. PICK j \in DOMAIN s : s[j].role = "assistant" /\ c \in s[j].calls
    BY InMessages
  <2>3. j \in 1..(i - 1) /\ s[j] = m[j]
    BY <1>2, <1>3
  <2>4. PICK k \in 1..(i - 1) : m[k].role = "tool" /\ m[k].call = c
    BY <2>2, <2>3 DEF AnsweredInTime
  <2>5. k \in DOMAIN s /\ s[k] = m[k]
    BY <1>2, <1>3
  <2> QED
    BY <2>4, <2>5, InMessages
<1>7. Len(s) =< MaxMessages
  BY <1>1, <1>2 DEF n
<1> QED
  BY <1>4, <1>5, <1>6, <1>7 DEF Resting, s

-----------------------------------------------------------------------------
(* What is tracked *)

\* An active call reads a tracked file; it is of the branch, or a shell's.
LEMMA ActiveCalls ==
  ASSUME RequestPruneAssumption, Typed, NEW c \in Active
  PROVE  /\ c \in callToUnit /\ c \in Calls
         /\ ReadOf[c] \in DOMAIN units /\ ReadOf[c] \in Paths
         /\ c \in CallsIn(messages) \/ Tool[c] = "shell"
<1>1. /\ c \in callToUnit
      /\ c \in LatestReads(messages, callMeta) \/ Tool[c] = "shell"
  BY DEF Active
<1>2. LatestReads(messages, callMeta) \subseteq CallsIn(messages)
  BY DEF LatestReads, OfficialReads
<1> QED
  BY <1>1, <1>2 DEF Typed

\* What is observed and what is refreshed is a unit.
LEMMA ObservedUnit ==
  ASSUME PiAssumption, Typed, NEW p, NEW v \in Versions
  PROVE  Observed(p, v) \in Unit
<1>1. /\ turn \in 0..MaxTurn /\ \A q \in DOMAIN units : units[q] \in Unit
      /\ 0 \in 0..1 /\ 1 \in 0..1
  BY DEF Typed
<1>2. CASE p \in DOMAIN units
  <2> DEFINE u == units[p]
             changedAt == IF v = u.content THEN u.changedAt ELSE turn
             changeCount == IF v = u.content THEN u.changeCount ELSE 1
             versions == u.versions \cup {v}
  <2>1. u \in Unit
    BY <1>1, <1>2
  <2>2. Observed(p, v) =
          [u EXCEPT !.content = v, !.state = "resolved",
                    !.lastUsedAt = turn, !.changedAt = changedAt,
                    !.changeCount = changeCount, !.versions = versions]
    BY <1>2 DEF Observed
  <2> HIDE DEF u
  <2>3. /\ changedAt \in 0..MaxTurn /\ changeCount \in 0..1
        /\ versions \in SUBSET Versions /\ u.lastUsedAt \in 0..MaxTurn
    BY <1>1, <2>1 DEF Unit
  <2> HIDE DEF changedAt, changeCount, versions
  <2> QED
    BY ONLY v \in Versions, <1>1, <2>1, <2>2, <2>3, ZenonT(60) DEF Unit
<1>3. CASE p \notin DOMAIN units
  BY <1>1, <1>3 DEF Observed, Unit
<1> QED
  BY <1>2, <1>3

\* A refreshed unit is a unit, and is resolved only if its file is there.
LEMMA RefreshedUnit ==
  ASSUME Typed, NEW u \in Unit, NEW p \in Paths
  PROVE  /\ Refreshed(u, p) \in Unit
         /\ Refreshed(u, p).state = "resolved" => disk[p] # Gone
<1>1. turn \in 0..MaxTurn /\ disk[p] \in Content /\ 1 \in 0..1
  BY DEF Typed
<1>2. CASE disk[p] = Gone
  BY <1>2 DEF Refreshed, Unit
<1>3. CASE disk[p] # Gone
  <2> DEFINE v == disk[p]
             changedAt == IF v = u.content THEN u.changedAt ELSE turn
             changeCount == IF v = u.content THEN u.changeCount ELSE 1
             versions == u.versions \cup {v}
  <2>1. v \in Versions
    BY <1>1, <1>3 DEF Content
  <2>2. Refreshed(u, p) =
          [u EXCEPT !.content = v, !.state = "resolved",
                    !.changedAt = changedAt, !.changeCount = changeCount,
                    !.versions = versions]
    BY <1>3 DEF Refreshed
  <2> HIDE DEF v
  <2>3. /\ changedAt \in 0..MaxTurn /\ changeCount \in 0..1
        /\ versions \in SUBSET Versions /\ u.lastUsedAt \in 0..MaxTurn
    BY <1>1, <2>1 DEF Unit
  <2> HIDE DEF changedAt, changeCount, versions
  <2>4. Refreshed(u, p) \in Unit
    BY <1>1, <2>1, <2>2, <2>3 DEF Unit
  <2> QED
    BY <1>3, <2>4
<1> QED
  BY <1>2, <1>3

\* The registry after synchronisation: one unit for every file that a
\* call of the branch read.
LEMMA SynchronisedUnits ==
  ASSUME RequestPruneAssumption, Typed
  PROVE  /\ DOMAIN Synchronised = {ReadOf[c] : c \in Active}
         /\ \A p \in DOMAIN Synchronised :
              p \in Paths /\ Synchronised[p] \in Unit
<1>1. DOMAIN Synchronised = {ReadOf[c] : c \in Active}
  BY DEF Synchronised
<1>2. SUFFICES ASSUME NEW p \in DOMAIN Synchronised
               PROVE  p \in Paths /\ Synchronised[p] \in Unit
  BY <1>1
<1>3. PICK c \in Active : p = ReadOf[c]
  BY <1>1
<1>4. p \in Paths /\ units[p] \in Unit
  BY <1>3, ActiveCalls DEF Typed
<1>5. Synchronised[p] = Refreshed(units[p], p)
  BY <1>1, <1>2 DEF Synchronised
<1>6. Refreshed(units[p], p) \in Unit
  BY <1>4, RefreshedUnit
<1> QED
  BY <1>4, <1>5, <1>6

\* Only files that are there are selected, and what is tracked is selected or
\* left out for a reason.
LEMMA WhatIsSelected ==
  ASSUME RequestPruneAssumption, Typed,
         NEW overlap, NEW chosen \in SUBSET DOMAIN Synchronised,
         IsWorkingSet(chosen, HandOf(Synchronised), turn, overlap)
  PROVE  LET P == ProjectionOf(Synchronised, chosen)
         IN  /\ P \in Projections
             /\ P.selected = chosen
             /\ \A p \in chosen : P.content[p] \in Versions
             /\ DOMAIN Synchronised \subseteq Tracked(P)
<1> DEFINE known == Synchronised
           hand == HandOf(known)
           P == ProjectionOf(known, chosen)
           unresolved == {p \in DOMAIN known : known[p].state = "unresolved"}
<1>1. /\ DOMAIN known \subseteq Paths
      /\ \A p \in DOMAIN known : known[p] \in Unit
  BY SynchronisedUnits
<1> HIDE DEF known
<1>2. P.selected = chosen /\ P.unresolved = unresolved
      /\ P.budget = DOMAIN known \ (chosen \cup unresolved)
      /\ P.content = [p \in Paths |-> IF p \in DOMAIN known \ unresolved
                                      THEN known[p].content ELSE Gone]
      /\ P.changed \subseteq DOMAIN known
      /\ P = [selected |-> P.selected, unresolved |-> P.unresolved,
              budget |-> P.budget, content |-> P.content,
              changed |-> P.changed]
  BY DEF ProjectionOf
<1>3. DOMAIN hand = DOMAIN known /\ \A p \in DOMAIN known : hand[p].state = known[p].state
  BY DEF HandOf
<1>4. \A p \in chosen : p \in DOMAIN known /\ Resolved(hand[p])
  <2>1. IsWorkingSet(chosen, hand, turn, overlap)
    BY DEF known
  <2> HIDE DEF hand
  <2> QED
    BY <1>3, <2>1 DEF IsWorkingSet
<1> HIDE DEF P, hand
<1>5. \A p \in chosen : p \in DOMAIN known \ unresolved
  BY <1>3, <1>4 DEF Resolved
<1>6. P.content \in [Paths -> Content]
  BY <1>1, <1>2 DEF Unit, Content
<1>7. P \in Projections
  <2>1. chosen \subseteq Paths /\ unresolved \subseteq Paths
        /\ P.budget \subseteq Paths /\ P.changed \subseteq Paths
    BY <1>1, <1>2, <1>5
  <2> HIDE DEF unresolved
  <2> QED
    BY <1>2, <1>6, <2>1 DEF Projections
<1>8. \A p \in chosen : P.content[p] \in Versions
  <2>1. TAKE p \in chosen
  <2>2. p \in Paths /\ known[p] \in Unit /\ P.content[p] = known[p].content
    BY <1>1, <1>2, <1>5
  <2> QED
    BY <2>2 DEF Unit
<1>9. DOMAIN known \subseteq Tracked(P)
  BY <1>2 DEF Tracked
<1> QED
  BY <1>2, <1>7, <1>8, <1>9 DEF P, known

(***************************************************************************)
(* What the context event makes: pairs are whole, and of tracked files     *)
(* only, each is shown as it is now (extension.ts:338-411).                *)
(***************************************************************************)
LEMMA Assembling ==
  ASSUME RequestPruneAssumption, OnlyReadersRead, Typed, Transcript(messages),
         NEW P \in Projections,
         \A p \in P.selected : P.content[p] \in Versions,
         P.selected \subseteq DOMAIN Synchronised,
         NEW tail \in {EmptyText, Rendered(P)}
  PROVE  /\ Paired(Assembled(P, tail), messages)
         /\ Carried(Assembled(P, tail)) \subseteq NowShown(P, DOMAIN Synchronised)
         /\ Frames(tail) \subseteq Carried(Assembled(P, tail))
<1> DEFINE R == ReplaceHistorical(ReplaceTracked(messages, UnitOf, P, tail, last))
           Q == DropPairs(R, UnitOf, P, history)
           A == QuoteOmitted(Q, messages, UnitOf, P, tail, history,
                             LatestReads(messages, callMeta))
           files == DOMAIN Synchronised
           n == Len(messages)
<1>1. n \in Nat /\ DOMAIN messages = 1..n /\ messages \in Seq(Message)
  BY Places DEF Transcript
<1>2. Rewrites(R, messages, UnitOf, P)
  BY <1>1, Rewriting
<1>3. Assembled(P, tail) = WithTail(A, tail)
  BY DEF Assembled
<1>4. DOMAIN R = 1..n
  BY <1>1, <1>2 DEF Rewrites
<1>5. /\ files \in SUBSET Paths /\ P.selected \subseteq files
      /\ \A c \in DOMAIN UnitOf : UnitOf[c] \in files
  <2>1. DOMAIN UnitOf = Active /\ \A c \in Active : UnitOf[c] = ReadOf[c]
    BY DEF UnitOf
  <2> QED
    BY <2>1, SynchronisedUnits
<1> HIDE DEF R, files, n
<1>6. Paired(Q, messages)
  BY <1>2, PrunedIsPaired
<1>7. AllShowNow(Q, P, files)
  BY <1>2, <1>5, PrunedShowsNow
<1>8. IsList(Q)
  <2>1. n \in Nat
    BY <1>1
  <2> QED
    BY <1>4, <2>1, PrunedIsList
<1> HIDE DEF Q
<1>9. IsList(A) /\ Paired(A, messages) /\ AllShowNow(A, P, files)
  BY <1>5, <1>6, <1>7, <1>8, Quoting
<1> HIDE DEF A
<1>10. /\ Paired(WithTail(A, tail), messages)
       /\ Carried(WithTail(A, tail)) \subseteq NowShown(P, files)
       /\ Frames(tail) \subseteq Carried(WithTail(A, tail))
  BY <1>5, <1>9, TailedRequest
<1> QED
  BY <1>3, <1>10 DEF files

-----------------------------------------------------------------------------
(* Every step keeps the invariant *)

\* The invariant holds of a session that was just opened.
LEMMA InitIndInv ==
  ASSUME RequestPruneAssumption, PiAssumption, Init
  PROVE  IndInv
<1>1. /\ None \in [Paths -> Content]
      /\ NoHistory \in [Calls -> {"none"} \cup Omissions]
      /\ NothingTracked \in Projections
  BY DEF None, NoHistory, NothingTracked, Projections, Content
<1>2. Typed
  <2>1. /\ disk \in [Paths -> Content] /\ edits \in 0..MaxEdits
        /\ turn \in 0..MaxTurn
    BY DEF Init, PiAssumption, Content
  <2>2. DOMAIN units = {}
    BY DEF Init
  <2> QED
    BY <1>1, <2>1, <2>2 DEF Init, Typed
<1>3. /\ Transcript(<<>>) /\ AnsweredInTime(<<>>) /\ Len(<<>>) = 0
      /\ DOMAIN <<>> = {}
  BY DEF Transcript, AnsweredInTime
<1>4. Unanswered(<<>>) = {}
  <2>1. \A c : c \notin CallsIn(<<>>)
    BY <1>3, InMessages
  <2> QED
    BY <2>1 DEF Unanswered
<1>5. Cardinality({}) = 0 /\ MaxMessages \in Nat
  BY FS_EmptySet DEF PiAssumption
<1>6. Branches
  <2>1. messages = <<>> /\ aside = <<>> /\ stage = "user"
    BY DEF Init
  <2>2. /\ Resting(<<>>)
        /\ Len(<<>>) + Cardinality(Unanswered(<<>>)) =< MaxMessages
    <3>1. Cardinality(Unanswered(<<>>)) = 0
      BY <1>4, <1>5
    <3>2. 0 =< MaxMessages /\ 0 + 0 =< MaxMessages
      BY <1>5
    <3> QED
      BY <1>3, <1>4, <3>1, <3>2 DEF Resting
  <2> QED
    BY <1>3, <1>4, <2>1, <2>2 DEF Branches
<1>7. Lookup /\ InjectedWasSent
  BY DEF Init, Lookup, InjectedWasSent, None
<1>8. PairsStay /\ NoStaleBody /\ OnlyThisBranch
  BY DEF Init, PairsStay, NoStaleBody, OnlyThisBranch, Ready
<1> QED
  BY <1>2, <1>6, <1>7, <1>8 DEF IndInv

\* The context event sends what is now, and remembers only what it sends.
LEMMA ContextStep ==
  ASSUME RequestPruneAssumption, PiAssumption, IndInv, Context
  PROVE  /\ Typed'
         /\ PairsStay' /\ NoStaleBody' /\ OnlyThisBranch'
         /\ Lookup'
<1>1. PICK overlap \in [DOMAIN Synchronised -> Overlaps] :
        \E chosen \in SUBSET DOMAIN Synchronised :
          /\ IsWorkingSet(chosen, HandOf(Synchronised), turn, overlap)
          /\ LET P == ProjectionOf(Synchronised, chosen)
                 tail == ResolveProjectionText(messages, P, last)
             IN  /\ units' = [p \in DOMAIN Synchronised |->
                                IF p \in chosen
                                THEN [Synchronised[p] EXCEPT !.lastUsedAt = turn]
                                ELSE Synchronised[p]]
                 /\ pending' = Revisions(P)
                 /\ pendingHistory' = OmittedNow(P)
                 /\ text' = tail
                 /\ working' = P
                 /\ request' = Assembled(P, tail)
  BY DEF Context
<1>2. PICK chosen \in SUBSET DOMAIN Synchronised :
          /\ IsWorkingSet(chosen, HandOf(Synchronised), turn, overlap)
          /\ LET P == ProjectionOf(Synchronised, chosen)
                 tail == ResolveProjectionText(messages, P, last)
             IN  /\ units' = [p \in DOMAIN Synchronised |->
                                IF p \in chosen
                                THEN [Synchronised[p] EXCEPT !.lastUsedAt = turn]
                                ELSE Synchronised[p]]
                 /\ pending' = Revisions(P)
                 /\ pendingHistory' = OmittedNow(P)
                 /\ text' = tail
                 /\ working' = P
                 /\ request' = Assembled(P, tail)
  BY <1>1
<1> DEFINE P == ProjectionOf(Synchronised, chosen)
           tail == ResolveProjectionText(messages, P, last)
<1>3. /\ stage' = "payload" /\ applied' = TRUE /\ callToUnit' = Active
      /\ UNCHANGED <<disk, edits, messages, aside, turn, callMeta, last,
                     history, sent>>
  BY DEF Context, host
<1>4. /\ Typed /\ Transcript(messages) /\ OnlyReadersRead
  BY DEF IndInv, Branches, PiAssumption
<1>5. /\ P \in Projections /\ P.selected = chosen
      /\ \A p \in chosen : P.content[p] \in Versions
      /\ DOMAIN Synchronised \subseteq Tracked(P)
  BY <1>2, <1>4, WhatIsSelected
<1>6. tail = EmptyText \/ tail = Rendered(P)
  BY DEF ResolveProjectionText
<1>7. /\ pending' = Revisions(P) /\ pendingHistory' = OmittedNow(P)
      /\ text' = tail /\ working' = P /\ request' = Assembled(P, tail)
      /\ units' = [p \in DOMAIN Synchronised |->
                     IF p \in chosen
                     THEN [Synchronised[p] EXCEPT !.lastUsedAt = turn]
                     ELSE Synchronised[p]]
  BY <1>2
<1> HIDE DEF P, tail
<1>8. /\ Paired(Assembled(P, tail), messages)
      /\ Carried(Assembled(P, tail)) \subseteq NowShown(P, DOMAIN Synchronised)
  <2>1. /\ P \in Projections /\ \A p \in P.selected : P.content[p] \in Versions
        /\ P.selected \subseteq DOMAIN Synchronised
        /\ tail \in {EmptyText, Rendered(P)}
    BY <1>5, <1>6
  <2> QED
    BY <1>4, <2>1, Assembling
<1>9. /\ DOMAIN Synchronised = {ReadOf[c] : c \in Active}
      /\ \A p \in DOMAIN Synchronised : p \in Paths /\ Synchronised[p] \in Unit
  BY <1>4, SynchronisedUnits
<1>10. Typed'
  <2>1. \A p \in DOMAIN units' : p \in Paths /\ units'[p] \in Unit
    <3>1. turn \in 0..MaxTurn
      BY <1>4 DEF Typed
    <3>2. ASSUME NEW p \in DOMAIN Synchronised PROVE units'[p] \in Unit
      <4>1. Synchronised[p] \in Unit
        BY <1>9
      <4>2. [Synchronised[p] EXCEPT !.lastUsedAt = turn] \in Unit
        BY <3>1, <4>1 DEF Unit
      <4> QED
        BY <1>7, <4>1, <4>2
    <3> QED
      BY <1>7, <1>9, <3>2
  <2>2. \A c \in callToUnit' : c \in Calls /\ ReadOf[c] \in DOMAIN units'
    BY <1>3, <1>4, <1>7, <1>9, ActiveCalls
  <2>3. pending' \in [Paths -> Content]
    BY <1>5, <1>7 DEF Revisions, Content
  <2>4. pendingHistory' \in [Calls -> {"none"} \cup Omissions]
    <3>1. SUFFICES ASSUME NEW c \in Active, ReadOf[c] \notin P.selected
                   PROVE  Disposition(ReadOf[c], P) \in Omissions
      BY <1>7 DEF OmittedNow
    <3>2. ReadOf[c] \in Tracked(P)
      BY <1>5, <1>9
    <3> QED
      BY <3>1, <3>2 DEF Disposition, Omissions, Tracked
  <2>5. working' \in Projections
    BY <1>5, <1>7
  <2> QED
    BY <1>3, <1>4, <2>1, <2>2, <2>3, <2>4, <2>5 DEF Typed
<1>11. PairsStay'
  BY <1>3, <1>7, <1>8 DEF PairsStay
<1>12. ASSUME NEW b \in Carried(request')
       PROVE  /\ b.at = working'.content[b.path]
              /\ \E c \in Active : ReadOf[c] = b.path
  <2>1. PICK p \in DOMAIN Synchronised : b = Current(p, P)
    BY <1>7, <1>8 DEF NowShown
  <2>2. b.path = p /\ b.at = P.content[p]
    BY <2>1 DEF Current, Text
  <2> QED
    BY <1>7, <1>9, <2>1, <2>2
<1>13. NoStaleBody'
  BY <1>12 DEF NoStaleBody
<1>14. OnlyThisBranch'
  <2>1. \A c \in Active : /\ c \in Calls
                          /\ \/ c \in CallsIn(messages')
                             \/ Tool[c] = "shell" /\ c \in callToUnit'
    BY <1>3, <1>4, ActiveCalls
  <2> QED
    BY <1>12, <2>1 DEF OnlyThisBranch
<1>15. Lookup'
  <2>1. SUFFICES ASSUME text' # EmptyText, NEW p \in Paths, pending'[p] # Gone
                 PROVE  Text(p, pending'[p]) \in Frames(text')
    BY DEF Lookup
  <2>2. p \in P.selected /\ pending'[p] = P.content[p]
    BY <1>7, <2>1 DEF Revisions
  <2>3. Frames(Rendered(P)) = {Current(q, P) : q \in P.selected}
    BY <1>5, RenderedFrames
  <2> QED
    BY <1>6, <1>7, <2>1, <2>2, <2>3 DEF Current
<1> QED
  BY <1>10, <1>11, <1>13, <1>14, <1>15

\* What the user says leaves nothing to run.
LEMMA UserSpeaksStep ==
  ASSUME RequestPruneAssumption, PiAssumption, IndInv, UserSpeaks
  PROVE  Branches'
<1>1. /\ Resting(aside)
      /\ Transcript(messages) /\ AnsweredInTime(messages)
      /\ Unanswered(messages) = {}
      /\ Len(messages) < MaxMessages /\ MaxMessages \in Nat
      /\ messages' = Append(messages, User(Words)) /\ stage' = "context"
      /\ aside' = aside
  BY DEF IndInv, Branches, UserSpeaks, PiAssumption
<1>2. User(Words) \in Message /\ User(Words).role = "user"
  BY MessagesOfTheHost DEF User
<1>3. /\ Transcript(messages') /\ AnsweredInTime(messages')
      /\ Len(messages) \in Nat /\ Len(messages') = Len(messages) + 1
      /\ \A c : c \in CallsIn(messages') <=> c \in CallsIn(messages)
      /\ \A c : c \in ResultsIn(messages') <=> c \in ResultsIn(messages)
  BY <1>1, <1>2, BranchGrows DEF Adds
<1>4. Unanswered(messages') = {}
  BY <1>1, <1>3 DEF Unanswered
<1>5. Cardinality({}) = 0
  BY FS_EmptySet
<1>6. Len(messages') + Cardinality(Unanswered(messages')) =< MaxMessages
  BY <1>1, <1>3, <1>4, <1>5
<1> QED
  BY <1>1, <1>3, <1>4, <1>6 DEF Branches

\* A reply leaves its own calls to run.
LEMMA AnswerStep ==
  ASSUME RequestPruneAssumption, PiAssumption, IndInv, BeforeProviderRequest
  PROVE  Branches' /\ stage' \in {"user", "tools"}
<1>1. PICK calls \in Questions \cup {{}} :
        /\ Len(messages) + 1 + Cardinality(calls) =< MaxMessages
        /\ messages' = Append(messages, Assistant(calls = {}, calls))
        /\ stage' = IF calls = {} THEN "user" ELSE "tools"
  BY DEF BeforeProviderRequest
<1>2. /\ Resting(aside) /\ aside' = aside
      /\ Transcript(messages) /\ AnsweredInTime(messages)
      /\ Unanswered(messages) = {}
      /\ MaxMessages \in Nat /\ IsFiniteSet(Calls) /\ calls \subseteq Calls
  BY DEF IndInv, Branches, BeforeProviderRequest, PiAssumption,
         RequestPruneAssumption
<1> DEFINE m == Assistant(calls = {}, calls)
<1>3. m \in Message /\ m.role = "assistant" /\ m.calls = calls
  <2>1. (calls = {}) \in BOOLEAN
    OBVIOUS
  <2> QED
    BY <1>2, <2>1, MessagesOfTheHost DEF Assistant
<1>4. messages' = Append(messages, m)
  BY <1>1
<1> HIDE DEF m
<1>5. /\ Transcript(messages') /\ AnsweredInTime(messages')
      /\ Len(messages) \in Nat /\ Len(messages') = Len(messages) + 1
      /\ \A c : c \in CallsIn(messages') <=> c \in CallsIn(messages) \/ c \in calls
      /\ \A c : c \in ResultsIn(messages') <=> c \in ResultsIn(messages)
  BY <1>2, <1>3, <1>4, BranchGrows DEF Adds
<1>6. Unanswered(messages') \subseteq calls
  BY <1>2, <1>5 DEF Unanswered
<1>7. IsFiniteSet(calls)
  BY <1>2, FS_Subset
<1>8. /\ Cardinality(Unanswered(messages')) \in Nat /\ Cardinality(calls) \in Nat
      /\ Cardinality(Unanswered(messages')) =< Cardinality(calls)
  BY <1>6, <1>7, FS_Subset, FS_CardinalityType
<1>9. Len(messages') + Cardinality(Unanswered(messages')) =< MaxMessages
  BY <1>1, <1>2, <1>5, <1>8
<1>10. stage' = "user" => Unanswered(messages') = {}
  BY <1>1, <1>6
<1> QED
  BY <1>1, <1>2, <1>5, <1>9, <1>10 DEF Branches

\* One call less waits.
LEMMA RunToolStep ==
  ASSUME RequestPruneAssumption, PiAssumption, IndInv, RunTool
  PROVE  Branches'
<1>1. PICK c \in Pending : messages' = Append(messages, Result(c, ShownBy(c)))
  BY DEF RunTool
<1>2. /\ Resting(aside) /\ aside' = aside /\ stage' = "event"
      /\ Transcript(messages) /\ AnsweredInTime(messages)
      /\ Len(messages) + Cardinality(Unanswered(messages)) =< MaxMessages
      /\ MaxMessages \in Nat /\ disk \in [Paths -> Content]
  BY DEF IndInv, Typed, Branches, RunTool, PiAssumption
<1>3. /\ CallsIn(messages) \subseteq Calls
      /\ IsFiniteSet(Unanswered(messages))
      /\ Cardinality(Unanswered(messages)) \in Nat
  BY <1>2, CallsOfTranscript
<1>4. /\ c \in CallsIn(messages) /\ c \in Unanswered(messages) /\ c \in Calls
  BY <1>1, <1>3 DEF Pending, Unanswered
<1>5. ShownBy(c) \in Shown(c)
  <2>1. ReadOf[c] # NoPath => disk[ReadOf[c]] \in Content
    BY <1>2, <1>4 DEF RequestPruneAssumption
  <2> QED
    BY <2>1 DEF ShownBy, Shown
<1> DEFINE m == Result(c, ShownBy(c))
<1>6. m \in Message /\ m.role = "tool" /\ m.call = c
  BY <1>4, <1>5, MessagesOfTheHost DEF Result
<1>7. messages' = Append(messages, m)
  BY <1>1
<1> HIDE DEF m
<1>8. /\ Transcript(messages') /\ AnsweredInTime(messages')
      /\ Len(messages) \in Nat /\ Len(messages') = Len(messages) + 1
      /\ messages' # <<>> /\ messages'[Len(messages')] = m
      /\ \A d : d \in CallsIn(messages') <=> d \in CallsIn(messages)
      /\ \A d : d \in ResultsIn(messages') <=> d \in ResultsIn(messages) \/ d = c
  BY <1>2, <1>4, <1>6, <1>7, BranchGrows DEF Adds
<1>9. Unanswered(messages') = Unanswered(messages) \ {c}
  BY <1>8 DEF Unanswered
<1>10. Cardinality(Unanswered(messages')) = Cardinality(Unanswered(messages)) - 1
  <2>1. Cardinality(Unanswered(messages) \ {c})
          = Cardinality(Unanswered(messages)) - 1
    BY ONLY <1>3, <1>4, FS_RemoveElement
  <2> QED
    BY ONLY <1>9, <2>1
<1>11. Len(messages') + Cardinality(Unanswered(messages')) =< MaxMessages
  BY <1>2, <1>3, <1>8, <1>10
<1> QED
  BY <1>2, <1>6, <1>8, <1>11 DEF Branches

\* The event tracks a file that is there.
LEMMA ToolResultStep ==
  ASSUME RequestPruneAssumption, PiAssumption, IndInv, ToolResult
  PROVE  Typed' /\ Branches'
<1> DEFINE m == messages[Len(messages)]
           p == ReadOf[m.call]
           tracks == /\ Tool[m.call] # "other" /\ p # NoPath
                     /\ m.body.at # Gone /\ disk[p] # Gone
<1>1. /\ Typed /\ Branches /\ stage = "event"
      /\ stage' = IF Pending = {} THEN "context" ELSE "tools"
      /\ UNCHANGED <<disk, edits, messages, aside, turn, last, history,
                     pending, pendingHistory, working, applied>>
  BY DEF IndInv, ToolResult, host, delivery, outgoing
<1>2. m.call \in Calls
  <2>1. messages # <<>> /\ m.role = "tool" /\ Transcript(messages)
    BY <1>1 DEF Branches
  <2>2. Len(messages) \in Nat /\ Len(messages) # 0
    BY <2>1, Places, EmptySeq DEF Transcript
  <2>3. m \in Message
    BY <2>1, <2>2, Places DEF Transcript
  <2> QED
    BY <2>1, <2>3, MessageCases
<1>3. \/ /\ tracks
         /\ units' = [q \in DOMAIN units \cup {p} |->
                        IF q = p THEN Observed(p, disk[p]) ELSE units[q]]
         /\ callToUnit' = callToUnit \cup {m.call}
         /\ callMeta' = IF Tool[m.call] = "read" THEN callMeta \cup {m.call}
                        ELSE callMeta
      \/ UNCHANGED <<units, callToUnit, callMeta>>
  BY DEF ToolResult
<1>4. /\ \A q \in DOMAIN units' : q \in Paths /\ units'[q] \in Unit
      /\ \A c \in callToUnit' : c \in Calls /\ ReadOf[c] \in DOMAIN units'
      /\ \A c \in callMeta' : Tool[c] = "read" /\ ReadOf[c] # NoPath
  <2>1. CASE UNCHANGED <<units, callToUnit, callMeta>>
    BY <1>1, <2>1 DEF Typed
  <2>2. CASE /\ tracks
             /\ units' = [q \in DOMAIN units \cup {p} |->
                            IF q = p THEN Observed(p, disk[p]) ELSE units[q]]
             /\ callToUnit' = callToUnit \cup {m.call}
             /\ callMeta' = IF Tool[m.call] = "read" THEN callMeta \cup {m.call}
                            ELSE callMeta
    <3>1. p \in Paths /\ disk[p] \in Versions /\ ReadOf[m.call] = p
          /\ p # NoPath
      <4> HIDE DEF m
      <4>1. p \in Paths \cup {NoPath}
        BY <1>2 DEF RequestPruneAssumption
      <4>2. p # NoPath /\ disk[p] # Gone
        BY <2>2
      <4>3. disk \in [Paths -> Content]
        BY <1>1 DEF Typed
      <4> QED
        BY <4>1, <4>2, <4>3 DEF Content
    <3>2. Observed(p, disk[p]) \in Unit
      BY <1>1, <3>1, ObservedUnit
    <3> HIDE DEF tracks, p, m
    <3> QED
      BY <1>1, <1>2, <2>2, <3>1, <3>2 DEF Typed
  <2> QED
    BY <1>3, <2>1, <2>2
<1> HIDE DEF m, p, tracks
<1>5. Typed'
  BY <1>1, <1>4 DEF Typed
<1>6. Branches'
  <2>1. Pending = Unanswered(messages)
    BY DEF Pending, Unanswered
  <2> QED
    BY <1>1, <2>1 DEF Branches
<1> QED
  BY <1>5, <1>6

\* Found in a payload, the text and all it shows is in it.
LEMMA FoundIsCarried ==
  ASSUME NEW payload, Found(payload)
  PROVE  Frames(text) \subseteq Carried(payload)
<1>1. PICK i \in DOMAIN payload : payload[i] = User(text)
  BY DEF Found
<1>2. payload[i].role # "assistant" /\ payload[i].body = text
  BY <1>1 DEF User
<1>3. text \in Bodies(payload)
  BY <1>2, InMessages
<1> QED
  BY <1>3 DEF Carried

\* While the user may speak, the active branch is at rest, and a branch at
\* rest has room for itself.
LEMMA RestingBranch ==
  ASSUME RequestPruneAssumption, PiAssumption, Branches, stage = "user"
  PROVE  Resting(messages)
<1>1. /\ Len(messages) \in Nat
      /\ Cardinality(Unanswered(messages)) \in Nat
  BY CallsOfTranscript DEF Branches
<1>2. MaxMessages \in Nat
  BY DEF PiAssumption
<1> QED
  BY <1>1, <1>2 DEF Branches, Resting

\* A branch on which no call waits fits into the bound.
LEMMA RestingIsRoom ==
  ASSUME NEW m, Resting(m)
  PROVE  Len(m) + Cardinality(Unanswered(m)) =< MaxMessages
<1>1. Cardinality({}) = 0
  BY FS_EmptySet
<1>2. Len(m) \in Nat
  BY Places DEF Resting, Transcript
<1> QED
  BY <1>1, <1>2 DEF Resting

\* Every step of the host and of the extension keeps the invariant.
LEMMA NextIndInv ==
  ASSUME RequestPruneAssumption, PiAssumption, IndInv, [Next]_vars
  PROVE  IndInv'
<1>1. /\ Typed /\ Branches /\ PairsStay /\ NoStaleBody /\ OnlyThisBranch
      /\ Lookup /\ InjectedWasSent
      /\ MaxMessages \in Nat /\ MaxTurn \in Nat /\ MaxEdits \in Nat
  BY DEF IndInv, PiAssumption
<1>2. None \in [Paths -> Content]
      /\ NoHistory \in [Calls -> {"none"} \cup Omissions]
      /\ NothingTracked \in Projections
  BY DEF None, NoHistory, NothingTracked, Projections, Content
<1>3. stage' # "payload" \/ ~applied' =>
        PairsStay' /\ NoStaleBody' /\ OnlyThisBranch'
  BY DEF PairsStay, NoStaleBody, OnlyThisBranch, Ready
<1>4. UNCHANGED delivery /\ UNCHANGED sent => Lookup' /\ InjectedWasSent'
  BY <1>1 DEF delivery, Lookup, InjectedWasSent
<1>5. CASE RunTool
  <2>1. Branches'
    BY <1>5, RunToolStep
  <2>2. Typed' /\ stage' = "event"
    BY <1>1, <1>5 DEF RunTool, Typed, tracking, delivery, outgoing
  <2>3. UNCHANGED delivery /\ UNCHANGED sent
    BY <1>5 DEF RunTool, outgoing
  <2> QED
    BY <1>3, <1>4, <2>1, <2>2, <2>3 DEF IndInv
<1>6. CASE ToolResult
  <2>1. Typed' /\ Branches'
    BY <1>6, ToolResultStep
  <2>2. UNCHANGED delivery /\ UNCHANGED sent /\ stage' # "payload"
    BY <1>6 DEF ToolResult, outgoing
  <2> QED
    BY <1>3, <1>4, <2>1, <2>2 DEF IndInv
<1>7. CASE Context
  <2>1. Typed' /\ PairsStay' /\ NoStaleBody' /\ OnlyThisBranch' /\ Lookup'
    BY <1>7, ContextStep
  <2>2. /\ messages' = messages /\ aside' = aside /\ last' = last /\ sent' = sent
        /\ stage = "context" /\ stage' = "payload"
    BY <1>7 DEF Context, host
  <2>3. Branches' /\ InjectedWasSent'
    BY <1>1, <2>2 DEF Branches, InjectedWasSent
  <2> QED
    BY <2>1, <2>3 DEF IndInv
<1>8. CASE ContextOfNothing
  <2>1. /\ stage = "context" /\ stage' = "payload" /\ ~applied'
        /\ applied' \in BOOLEAN
        /\ working' = NothingTracked /\ UNCHANGED delivery /\ UNCHANGED sent
        /\ UNCHANGED <<host, tracking>>
    BY <1>8 DEF ContextOfNothing
  <2>2. Typed' /\ Branches'
    BY <1>1, <1>2, <2>1 DEF Typed, Branches, host, tracking, delivery
  <2> QED
    BY <1>3, <1>4, <2>1, <2>2 DEF IndInv
<1>9. CASE BeforeProviderRequest
  <2>1. Branches' /\ stage' \in {"user", "tools"}
    BY <1>9, AnswerStep
  <2>2. PICK payload \in {request, messages} :
          /\ IF Found(payload)
             THEN /\ last' = pending
                  /\ history' = Overlaid(pendingHistory, history)
             ELSE UNCHANGED <<last, history>>
          /\ sent' = sent \cup Carried(payload)
    BY <1>9 DEF BeforeProviderRequest
  <2>3. /\ pending' = None /\ pendingHistory' = NoHistory /\ text' = EmptyText
        /\ working' = NothingTracked /\ applied' = FALSE
        /\ UNCHANGED <<disk, edits, aside, tracking>>
    BY <1>9 DEF BeforeProviderRequest
  <2>4. Lookup'
    BY <2>3 DEF Lookup
  <2>5. /\ last' \in [Paths -> Content]
        /\ history' \in [Calls -> {"none"} \cup Omissions]
        /\ InjectedWasSent'
    <3>1. CASE Found(payload)
      <4>1. last' = pending /\ history' = Overlaid(pendingHistory, history)
        BY <2>2, <3>1
      <4>2. Frames(text) \subseteq sent' /\ text # EmptyText
        BY <2>2, <3>1, FoundIsCarried DEF Found
      <4>3. InjectedWasSent'
        BY <1>1, <4>1, <4>2 DEF Lookup, InjectedWasSent
      <4>4. history' \in [Calls -> {"none"} \cup Omissions]
        BY <1>1, <4>1 DEF Typed, Overlaid
      <4> QED
        BY <1>1, <4>1, <4>3, <4>4 DEF Typed
    <3>2. CASE ~Found(payload)
      <4>1. last' = last /\ history' = history /\ sent \subseteq sent'
        BY <2>2, <3>2
      <4> QED
        BY <1>1, <4>1 DEF Typed, InjectedWasSent
    <3> QED
      BY <3>1, <3>2
  <2>6. Typed'
    BY <1>1, <1>2, <2>1, <2>3, <2>5 DEF Typed, tracking
  <2> QED
    BY <1>3, <2>1, <2>3, <2>4, <2>5, <2>6 DEF IndInv
<1>10. CASE UserSpeaks
  <2>1. Branches'
    BY <1>10, UserSpeaksStep
  <2>2. Typed' /\ stage' # "payload" /\ UNCHANGED delivery /\ UNCHANGED sent
    BY <1>1, <1>10 DEF UserSpeaks, Typed, tracking, delivery, outgoing
  <2> QED
    BY <1>3, <1>4, <2>1, <2>2 DEF IndInv
<1>11. CASE TurnStart
  <2>1. /\ turn' \in 0..MaxTurn
        /\ stage = "context" /\ stage' = "context"
        /\ UNCHANGED delivery /\ UNCHANGED sent
        /\ UNCHANGED <<host, units, callToUnit, callMeta, working, applied>>
    BY <1>1, <1>11 DEF TurnStart, Typed, outgoing
  <2>2. Typed' /\ Branches'
    BY <1>1, <2>1 DEF Typed, Branches, host, delivery
  <2> QED
    BY <1>3, <1>4, <2>1, <2>2 DEF IndInv
<1>12. CASE Edit
  <2>1. /\ stage # "payload" /\ stage' = stage
        /\ edits < MaxEdits /\ edits' = edits + 1
        /\ UNCHANGED delivery /\ UNCHANGED sent
        /\ UNCHANGED <<messages, aside, tracking, working, applied>>
    BY <1>12 DEF Edit, outgoing
  <2>2. disk' \in [Paths -> Content]
    BY <1>1, <1>12 DEF Edit, Typed
  <2>3. edits' \in 0..MaxEdits
    BY <1>1, <2>1 DEF Typed
  <2>4. Typed' /\ Branches'
    BY <1>1, <2>1, <2>2, <2>3 DEF Typed, Branches, tracking, delivery
  <2> QED
    BY <1>3, <1>4, <2>1, <2>4 DEF IndInv
<1>13. CASE Fork
  <2>1. PICK i \in DOMAIN messages :
          messages[i].role = "user" /\ messages' = SubSeq(messages, 1, i - 1)
    BY <1>13 DEF Fork
  <2>2. /\ stage = "user" /\ stage' = "user" /\ aside' = messages
        /\ UNCHANGED delivery /\ UNCHANGED sent
        /\ UNCHANGED <<disk, edits, tracking, working, applied>>
    BY <1>13 DEF Fork, outgoing
  <2>3. Resting(messages)
    BY <1>1, <2>2, RestingBranch
  <2>4. Resting(messages')
    BY <1>1, <2>1, <2>3, BranchLeft DEF Resting
  <2>5. Branches'
    BY <1>1, <2>2, <2>3, <2>4, RestingIsRoom DEF Branches, Resting
  <2>6. Typed'
    BY <1>1, <2>2 DEF Typed, tracking, delivery
  <2> QED
    BY <1>3, <1>4, <2>2, <2>5, <2>6 DEF IndInv
<1>14. CASE Return
  <2>1. /\ stage = "user" /\ stage' = "user"
        /\ messages' = aside /\ aside' = messages
        /\ UNCHANGED delivery /\ UNCHANGED sent
        /\ UNCHANGED <<disk, edits, tracking, working, applied>>
    BY <1>14 DEF Return, outgoing
  <2>2. Resting(messages) /\ Resting(aside)
    BY <1>1, <2>1, RestingBranch DEF Branches
  <2>3. Branches'
    BY <1>1, <2>1, <2>2, RestingIsRoom DEF Branches, Resting
  <2>4. Typed'
    BY <1>1, <2>1 DEF Typed, tracking, delivery
  <2> QED
    BY <1>3, <1>4, <2>1, <2>3, <2>4 DEF IndInv
<1>15. CASE Restart
  <2>1. /\ stage = "user" /\ stage' = "user"
        /\ turn' = 0 /\ units' = <<>> /\ callToUnit' = {} /\ callMeta' = {}
        /\ last' = None /\ history' = NoHistory
        /\ pending' = None /\ pendingHistory' = NoHistory /\ text' = EmptyText
        /\ UNCHANGED <<host, working, applied>>
    BY <1>15 DEF Restart, outgoing
  <2>2. DOMAIN units' = {} /\ 0 \in 0..MaxTurn
    BY <1>1, <2>1
  <2>3. Typed' /\ Branches'
    BY <1>1, <1>2, <2>1, <2>2 DEF Typed, Branches, host
  <2>4. Lookup' /\ InjectedWasSent'
    BY <2>1 DEF Lookup, InjectedWasSent, None
  <2> QED
    BY <1>3, <2>1, <2>3, <2>4 DEF IndInv
<1>16. CASE UNCHANGED vars
  <2>1. UNCHANGED <<disk, edits, messages, aside, stage, turn, units,
                    callToUnit, callMeta, last, history, pending,
                    pendingHistory, text, working, request, applied, sent>>
    BY <1>16 DEF vars, host, tracking, delivery, outgoing
  <2>2. Typed' /\ Branches' /\ Lookup' /\ InjectedWasSent'
    BY <1>1, <2>1 DEF Typed, Branches, Lookup, InjectedWasSent
  <2>3. PairsStay' /\ NoStaleBody' /\ OnlyThisBranch'
    BY <1>1, <2>1 DEF PairsStay, NoStaleBody, OnlyThisBranch, Ready
  <2> QED
    BY <2>2, <2>3 DEF IndInv
<1> QED
  BY <1>5, <1>6, <1>7, <1>8, <1>9, <1>10, <1>11, <1>12, <1>13, <1>14, <1>15,
     <1>16 DEF Next

\* Every reachable state satisfies the invariant.
LEMMA SpecIndInv ==
  ASSUME RequestPruneAssumption, PiAssumption
  PROVE  Spec => []IndInv
<1>1. Init => IndInv
  BY InitIndInv
<1>2. IndInv /\ [Next]_vars => IndInv'
  BY NextIndInv
<1> QED
  BY <1>1, <1>2, PTL DEF Spec

(***************************************************************************)
(* On whichever branch and after whatever restart a request is made, calls *)
(* and results stay together and every file is shown as it was when the    *)
(* request was made (request-prune.mjs:662-752, extension.ts:338-411).     *)
(***************************************************************************)
THEOREM RequestTheorem ==
  ASSUME RequestPruneAssumption, PiAssumption
  PROVE  Spec => []RequestIsSound
<1>1. IndInv => RequestIsSound
  <2>1. SUFFICES ASSUME Typed, Branches PROVE Len(messages) =< MaxMessages
    BY DEF IndInv, Typed, RequestIsSound, TypeOK
  <2>2. /\ Len(messages) \in Nat
        /\ Cardinality(Unanswered(messages)) \in Nat
    BY <2>1, CallsOfTranscript DEF Branches
  <2>3. MaxMessages \in Nat
    BY DEF PiAssumption
  <2> QED
    BY <2>1, <2>2, <2>3 DEF Branches
<1> QED
  BY <1>1, SpecIndInv, PTL

(***************************************************************************)
(* What counts as injected was in a payload, whatever shape the provider's *)
(* payloads have (extension.ts:202-213).                                   *)
(***************************************************************************)
THEOREM InjectedTheorem ==
  ASSUME RequestPruneAssumption, PiAssumption
  PROVE  Spec => []InjectedWasSent
<1>1. IndInv => InjectedWasSent
  BY DEF IndInv
<1> QED
  BY <1>1, SpecIndInv, PTL

(***************************************************************************)
(* A request carries a file that no call of its branch read only when a    *)
(* shell command read it, however the user moves (extension.ts:74-92,      *)
(* 316-325).                                                               *)
(***************************************************************************)
THEOREM BranchTheorem ==
  ASSUME RequestPruneAssumption, PiAssumption
  PROVE  Spec => []OnlyThisBranch
<1>1. IndInv => OnlyThisBranch
  BY DEF IndInv
<1> QED
  BY <1>1, SpecIndInv, PTL

-----------------------------------------------------------------------------
(* What a request carries, where only read tools read *)

\* No reply asks a shell command to read a file. (What such a command read is
\* not quoted when it was left out before, request-prune.mjs:204-213.)
OfficialOnly ==
  \A calls \in Questions : \A c \in calls : Tool[c] = "shell" => ReadOf[c] = NoPath

\* No call of a branch, and none that has a unit, is such a command.
NoShellRead ==
  \A c \in CallsIn(messages) \cup CallsIn(aside) \cup callToUnit :
    Tool[c] = "shell" => ReadOf[c] = NoPath

\* A message adds its own calls to a branch, and a branch cut short has none
\* but those of the whole.
LEMMA CallsOfBranch ==
  ASSUME NEW S, NEW s \in Seq(S)
  PROVE  /\ \A m, c : c \in CallsIn(Append(s, m)) =>
                c \in CallsIn(s) \/ (m.role = "assistant" /\ c \in m.calls)
         /\ \A i \in DOMAIN s : CallsIn(SubSeq(s, 1, i - 1)) \subseteq CallsIn(s)
<1>1. DOMAIN s = 1..Len(s) /\ Len(s) \in Nat /\ \A i \in 1..Len(s) : s[i] \in S
  BY Places
<1>2. ASSUME NEW m, NEW c \in CallsIn(Append(s, m))
      PROVE  c \in CallsIn(s) \/ (m.role = "assistant" /\ c \in m.calls)
  <2> DEFINE T == S \cup {m}
             longer == Append(s, m)
  <2>1. s \in Seq(T) /\ m \in T
    BY SeqMonotonic
  <2>2. /\ longer \in Seq(T) /\ Len(longer) = Len(s) + 1
        /\ \A i \in 1..Len(s) : longer[i] = s[i]
        /\ longer[Len(s) + 1] = m
    BY <2>1, AppendProperties
  <2>3. DOMAIN longer = 1..(Len(s) + 1)
    BY <2>2, Places
  <2>4. PICK i \in DOMAIN longer : longer[i].role = "assistant" /\ c \in longer[i].calls
    BY <1>2, InMessages
  <2> HIDE DEF longer, T
  <2>5. CASE i = Len(s) + 1
    BY <2>2, <2>4, <2>5
  <2>6. CASE i # Len(s) + 1
    <3>1. i \in DOMAIN s /\ longer[i] = s[i]
      BY <1>1, <2>2, <2>3, <2>6
    <3> QED
      BY <2>4, <3>1, InMessages
  <2> QED
    BY <2>5, <2>6
<1>3. ASSUME NEW i \in DOMAIN s, NEW c \in CallsIn(SubSeq(s, 1, i - 1))
      PROVE  c \in CallsIn(s)
  <2> DEFINE shorter == SubSeq(s, 1, i - 1)
  <2>1. i \in Int /\ i - 1 \in Nat /\ \A k \in 1..(i - 1) : k \in DOMAIN s /\ s[k] \in S
    BY <1>1
  <2>2. /\ shorter \in Seq(S) /\ Len(shorter) = i - 1
        /\ \A k \in 1..(i - 1) : shorter[k] = s[k]
    BY <2>1, SubSeqProperties
  <2>3. DOMAIN shorter = 1..(i - 1)
    BY <2>2, Places
  <2>4. PICK k \in DOMAIN shorter :
          shorter[k].role = "assistant" /\ c \in shorter[k].calls
    BY <1>3, InMessages
  <2> HIDE DEF shorter
  <2>5. k \in DOMAIN s /\ shorter[k] = s[k]
    BY <2>1, <2>2, <2>3
  <2> QED
    BY <2>4, <2>5, InMessages
<1> QED
  BY <1>2, <1>3

\* No step asks for one.
LEMMA NextNoShellRead ==
  ASSUME RequestPruneAssumption, IndInv, OfficialOnly, NoShellRead, [Next]_vars
  PROVE  NoShellRead'
<1>1. Transcript(messages) /\ Transcript(aside) /\ Typed
  BY DEF IndInv, Branches, Resting
<1>2. SUFFICES \A c \in CallsIn(messages') \cup CallsIn(aside') \cup callToUnit' :
                 \/ c \in CallsIn(messages) \cup CallsIn(aside) \cup callToUnit
                 \/ \E calls \in Questions : c \in calls
  BY DEF NoShellRead, OfficialOnly
<1>3. CASE BeforeProviderRequest
  <2>1. PICK calls \in Questions \cup {{}} :
          messages' = Append(messages, Assistant(calls = {}, calls))
    BY <1>3 DEF BeforeProviderRequest
  <2>2. aside' = aside /\ callToUnit' = callToUnit
    BY <1>3 DEF BeforeProviderRequest, tracking
  <2>3. Assistant(calls = {}, calls).calls = calls
    BY DEF Assistant
  <2>4. messages \in Seq(Message)
    BY <1>1 DEF Transcript
  <2>5. \A c \in CallsIn(messages') : c \in CallsIn(messages) \/ c \in calls
    BY <2>1, <2>3, <2>4, CallsOfBranch
  <2> QED
    BY <2>1, <2>2, <2>5
<1>4. CASE RunTool \/ UserSpeaks
  <2>1. PICK m : messages' = Append(messages, m) /\ m.role # "assistant"
    <3>1. CASE RunTool
      <4>1. PICK c \in Pending : messages' = Append(messages, Result(c, ShownBy(c)))
        BY <3>1 DEF RunTool
      <4>2. Result(c, ShownBy(c)).role # "assistant"
        BY DEF Result
      <4> QED
        BY <4>1, <4>2
    <3>2. CASE UserSpeaks
      <4>1. messages' = Append(messages, User(Words)) /\ User(Words).role # "assistant"
        BY <3>2 DEF UserSpeaks, User
      <4> QED
        BY <4>1
    <3> QED
      BY <1>4, <3>1, <3>2
  <2>2. aside' = aside /\ callToUnit' = callToUnit
    BY <1>4 DEF RunTool, UserSpeaks, tracking
  <2>3. messages \in Seq(Message)
    BY <1>1 DEF Transcript
  <2> QED
    BY <2>1, <2>2, <2>3, CallsOfBranch
<1>5. CASE ToolResult
  <2>1. /\ callToUnit' \subseteq callToUnit \cup {messages[Len(messages)].call}
        /\ messages' = messages /\ aside' = aside
    BY <1>5 DEF ToolResult, host
  <2>2. messages # <<>> /\ messages[Len(messages)].role = "tool"
    BY <1>5 DEF IndInv, Branches, ToolResult
  <2>3. Len(messages) \in DOMAIN messages
    BY <1>1, <2>2, Places, EmptySeq DEF Transcript
  <2>4. messages[Len(messages)].call \in ResultsIn(messages)
    BY <2>2, <2>3, InMessages
  <2>5. messages[Len(messages)].call \in CallsIn(messages)
    BY <1>1, <2>4, CallsOfTranscript
  <2> QED
    BY <2>1, <2>5
<1>6. CASE Context
  <2>1. callToUnit' = Active /\ messages' = messages /\ aside' = aside
    BY <1>6 DEF Context, host
  <2> QED
    BY <2>1 DEF Active
<1>7. CASE Fork
  <2>1. /\ \E i \in DOMAIN messages : messages' = SubSeq(messages, 1, i - 1)
        /\ aside' = messages /\ callToUnit' = callToUnit
    BY <1>7 DEF Fork, tracking
  <2>2. messages \in Seq(Message)
    BY <1>1 DEF Transcript
  <2>3. CallsIn(messages') \subseteq CallsIn(messages)
    BY <2>1, <2>2, CallsOfBranch
  <2> QED
    BY <2>1, <2>3
<1>8. CASE Restart
  BY <1>8 DEF Restart, host
<1>9. CASE Return
  BY <1>9 DEF Return, tracking
<1>10. CASE ContextOfNothing \/ TurnStart \/ Edit \/ UNCHANGED vars
  <2>1. UNCHANGED <<messages, aside, callToUnit>>
    BY <1>10 DEF ContextOfNothing, TurnStart, Edit, vars, host, tracking
  <2> QED
    BY <2>1
<1> QED
  BY <1>3, <1>4, <1>5, <1>6, <1>7, <1>8, <1>9, <1>10 DEF Next

\* All files are there, and no call was left out for a file that was not.
AllPresent ==
  /\ \A p \in Paths : disk[p] # Gone
  /\ \A c \in Calls : history[c] # "unresolved" /\ pendingHistory[c] # "unresolved"

\* Where all files are there, a synchronised unit is resolved.
LEMMA AllResolved ==
  ASSUME RequestPruneAssumption, Typed, AllPresent, NEW chosen
  PROVE  ProjectionOf(Synchronised, chosen).unresolved = {}
<1>1. SUFFICES ASSUME NEW p \in DOMAIN Synchronised
               PROVE  Synchronised[p].state # "unresolved"
  BY DEF ProjectionOf
<1>2. PICK c \in Active : p = ReadOf[c]
  BY <1>1, SynchronisedUnits
<1>3. p \in Paths /\ units[p] \in Unit
  BY <1>2, ActiveCalls DEF Typed
<1>4. Synchronised[p] = Refreshed(units[p], p)
  BY <1>1, <1>2 DEF Synchronised
<1>5. disk[p] # Gone
  BY <1>3 DEF AllPresent
<1>6. Refreshed(units[p], p).state = "resolved"
  BY <1>3, <1>5 DEF Refreshed, Unit
<1> QED
  BY <1>4, <1>6

\* No step makes a file go missing, where none is deleted.
LEMMA NextAllPresent ==
  ASSUME RequestPruneAssumption, IndInv, AllPresent, ~Deletes, [Next]_vars
  PROVE  AllPresent'
<1>1. Typed /\ \A p \in Paths : disk[p] # Gone
  BY DEF IndInv, AllPresent
<1>2. \A c \in Calls : history[c] # "unresolved" /\ pendingHistory[c] # "unresolved"
  BY DEF AllPresent
<1>3. CASE Context
  <2>1. PICK chosen \in SUBSET DOMAIN Synchronised :
          pendingHistory' = OmittedNow(ProjectionOf(Synchronised, chosen))
    BY <1>3 DEF Context
  <2> DEFINE P == ProjectionOf(Synchronised, chosen)
  <2>2. P.unresolved = {}
    BY <1>1, AllResolved
  <2>3. pendingHistory' = OmittedNow(P)
    BY <2>1
  <2> HIDE DEF P
  <2>4. \A p : Disposition(p, P) # "unresolved"
    BY <2>2 DEF Disposition
  <2>5. \A c \in Calls : pendingHistory'[c] # "unresolved"
    BY <2>3, <2>4 DEF OmittedNow
  <2>6. disk' = disk /\ history' = history
    BY <1>3 DEF Context, host
  <2> QED
    BY <1>1, <1>2, <2>5, <2>6 DEF AllPresent
<1>4. CASE BeforeProviderRequest
  <2>1. /\ history' = Overlaid(pendingHistory, history) \/ history' = history
        /\ pendingHistory' = NoHistory /\ disk' = disk
    BY <1>4 DEF BeforeProviderRequest
  <2>2. \A c \in Calls : /\ Overlaid(pendingHistory, history)[c] # "unresolved"
                         /\ NoHistory[c] # "unresolved"
    BY <1>2 DEF Overlaid, NoHistory
  <2> QED
    BY <1>1, <1>2, <2>1, <2>2 DEF AllPresent
<1>5. CASE Edit
  <2>1. PICK p \in Paths, v \in Content : disk' = [disk EXCEPT ![p] = v] /\ v # Gone
    BY <1>5 DEF Edit
  <2>2. history' = history /\ pendingHistory' = pendingHistory
    BY <1>5 DEF Edit, delivery
  <2>3. \A q \in Paths : disk'[q] # Gone
    BY <1>1, <2>1 DEF Typed
  <2> QED
    BY <1>2, <2>2, <2>3 DEF AllPresent
<1>6. CASE Restart
  <2>1. history' = NoHistory /\ pendingHistory' = NoHistory /\ disk' = disk
    BY <1>6 DEF Restart, host
  <2> QED
    BY <1>1, <2>1 DEF AllPresent, NoHistory
<1>7. CASE RunTool \/ ToolResult \/ ContextOfNothing \/ UserSpeaks \/ TurnStart
           \/ Fork \/ Return \/ UNCHANGED vars
  <2>1. UNCHANGED <<disk, history, pendingHistory>>
    BY <1>7 DEF RunTool, ToolResult, ContextOfNothing, UserSpeaks, TurnStart,
                Fork, Return, vars, host, delivery
  <2> QED
    BY <1>1, <1>2, <2>1 DEF AllPresent
<1> QED
  BY <1>3, <1>4, <1>5, <1>6, <1>7 DEF Next

\* Where the projection is left out, the body of a selected file stands at its
\* latest read, also when that was sent before as over budget.
LEMMA QuotedAtTheRead ==
  ASSUME RequestPruneAssumption, NoShellRead, Typed, AllPresent,
         Transcript(messages), Unanswered(messages) = {}, UserCount(messages) > 1,
         NEW P, P.unresolved = {}, P.selected \cap P.budget = {},
         P.selected \subseteq DOMAIN Synchronised,
         NEW p \in P.selected, Quotes(Current(p, P))
  PROVE  Current(p, P) \in Bodies(Assembled(P, EmptyText))
<1> DEFINE latest == LatestReads(messages, callMeta)
           T == ReplaceTracked(messages, UnitOf, P, EmptyText, last)
           R == ReplaceHistorical(T)
           Q == DropPairs(R, UnitOf, P, history)
           A == QuoteOmitted(Q, messages, UnitOf, P, EmptyText, history, latest)
           n == Len(messages)
<1>1. Assembled(P, EmptyText) = A
  BY DEF Assembled, WithTail
<1>2. PICK c \in Active : ReadOf[c] = p
  <2>1. DOMAIN Synchronised = {ReadOf[c] : c \in Active}
    BY SynchronisedUnits
  <2>2. p \in DOMAIN Synchronised
    OBVIOUS
  <2> QED
    BY ONLY <2>1, <2>2
<1>3. /\ c \in DOMAIN UnitOf /\ UnitOf[c] = p /\ c \in Calls
      /\ c \in latest /\ c \in CallsIn(messages) /\ Tool[c] # "shell"
  <2>1. c \in callToUnit /\ c \in Calls /\ p \in Paths
    BY <1>2, ActiveCalls
  <2>2. Tool[c] # "shell"
    BY <1>2, <2>1 DEF NoShellRead, RequestPruneAssumption
  <2>3. c \in latest
    BY <1>2, <2>2 DEF Active
  <2> QED
    BY <1>2, <2>1, <2>2, <2>3 DEF UnitOf, LatestReads, OfficialReads
<1>4. PICK i \in DOMAIN messages : messages[i].role = "tool" /\ messages[i].call = c
  <2>1. c \in ResultsIn(messages)
    BY <1>3 DEF Unanswered
  <2> QED
    BY <2>1, InMessages
<1>5. /\ n \in Nat /\ DOMAIN messages = 1..n /\ messages \in Seq(Message)
      /\ i \in 1..n
  BY Places DEF Transcript
<1>6. R = ReplaceHistorical(ReplaceTracked(messages, UnitOf, P, EmptyText, last))
  OBVIOUS
<1>7. Frames(EmptyText) = {}
  BY DEF EmptyText, Frames
<1>8. Rewrites(R, messages, UnitOf, P)
  BY <1>5, Rewriting
<1>9. Q = DropPairs(R, UnitOf, P, history)
  OBVIOUS
<1>10. A = QuoteOmitted(Q, messages, UnitOf, P, EmptyText, history, latest)
  OBVIOUS
<1> HIDE DEF T, R, Q, A, latest, n
<1>11. DOMAIN R = 1..n
  BY <1>5, <1>8 DEF Rewrites
<1>12. R[i].role = "tool" /\ R[i].call = c /\ R[i].body = Current(p, P)
  <2>1. messages[i].call \in DOMAIN UnitOf /\ p = UnitOf[messages[i].call]
    BY ONLY <1>3, <1>4
  <2>2. /\ R[i].role = "tool" /\ R[i].call = messages[i].call
        /\ p \in P.selected /\ Quotes(Current(p, P)) => R[i].body = Current(p, P)
    <3>1. messages[i].call \in DOMAIN UnitOf
      BY <2>1
    <3>2. p = UnitOf[messages[i].call]
      BY <2>1
    <3>3. messages[i].role = "tool"
      BY <1>4
    <3> QED
      BY ONLY <1>6, <1>7, <3>1, <3>2, <3>3, InlinedAtTheRead
  <2> QED
    BY <1>4, <2>2
<1>13. PICK k \in DOMAIN Q :
         /\ Q[k].role = "tool" /\ Q[k].call = c
         /\ Q[k].body = KeptBody(R[i], R, UnitOf, P, history)
  <2>1. R[i].call \in DOMAIN UnitOf /\ UnitOf[R[i].call] \in P.selected
    BY <1>3, <1>12
  <2>2. \E k \in DOMAIN Q :
          /\ Q[k].role = "tool" /\ Q[k].call = R[i].call
          /\ Q[k].body = KeptBody(R[i], R, UnitOf, P, history)
    <3>1. Listed(R) /\ i \in DOMAIN R
      BY <1>5, <1>11 DEF Listed
    <3>2. R[i].role = "tool"
      BY <1>12
    <3> QED
      BY ONLY <1>9, <2>1, <3>1, <3>2, ServedResult
  <2> QED
    BY <1>12, <2>2
<1>14. history[c] = "budget" \/ Q[k].body = Current(p, P)
  <2>1. c \notin StaleDumps(R, UnitOf, P)
    BY <1>3 DEF StaleDumps
  <2>2. history[c] \notin Omissions \/ history[c] = "budget"
    BY <1>3 DEF AllPresent, Omissions
  <2>3. UnitOf[c] \notin P.budget
    BY <1>3
  <2> QED
    BY <1>12, <1>13, <2>1, <2>2, <2>3 DEF KeptBody
<1>15. k \in DOMAIN A /\ A[k].role = "tool" /\ A[k].body = Current(p, P)
  <2>1. ~CarriesQuoteable(EmptyText)
    BY <1>7 DEF CarriesQuoteable
  <2>2. k \in DOMAIN A
    BY <1>10, <1>13 DEF QuoteOmitted
  <2>3. CASE history[c] = "budget"
    <3>1. A[k] = Result(c, Current(p, P))
      BY <1>3, <1>10, <1>13, <2>1, <2>3 DEF QuoteOmitted
    <3> QED
      BY <2>2, <3>1 DEF Result
  <2>4. CASE history[c] # "budget"
    <3>1. A[k] = Q[k]
      BY <1>10, <1>13, <2>4 DEF QuoteOmitted
    <3> QED
      BY <1>13, <1>14, <2>2, <2>4, <3>1
  <2> QED
    BY <2>3, <2>4
<1> QED
  BY <1>1, <1>15, InMessages

\* The request that the context event makes carries what was selected.
LEMMA SelectedStands ==
  ASSUME RequestPruneAssumption, PiAssumption, IndInv, NoShellRead,
         AllPresent, Context
  PROVE  SelectedIsCarried'
<1>1. PICK overlap \in [DOMAIN Synchronised -> Overlaps],
           chosen \in SUBSET DOMAIN Synchronised :
        /\ IsWorkingSet(chosen, HandOf(Synchronised), turn, overlap)
        /\ LET P == ProjectionOf(Synchronised, chosen)
               tail == ResolveProjectionText(messages, P, last)
           IN  working' = P /\ request' = Assembled(P, tail)
  BY DEF Context
<1> DEFINE P == ProjectionOf(Synchronised, chosen)
           tail == ResolveProjectionText(messages, P, last)
<1>2. /\ Typed /\ Transcript(messages) /\ Unanswered(messages) = {}
      /\ OnlyReadersRead
  BY DEF IndInv, Branches, PiAssumption, Context
<1>3. /\ P \in Projections /\ P.selected = chosen
      /\ \A p \in chosen : P.content[p] \in Versions
  BY <1>1, <1>2, WhatIsSelected
<1>4. P.unresolved = {} /\ P.selected \cap P.budget = {}
  <2>1. P.unresolved = {}
    BY <1>2, AllResolved
  <2>2. P.selected \cap P.budget = {}
    BY DEF ProjectionOf
  <2> QED
    BY <2>1, <2>2
<1>5. \/ tail = Rendered(P)
      \/ tail = EmptyText /\ UserCount(messages) > 1
  BY DEF ResolveProjectionText, Collapses
<1>6. working' = P /\ request' = Assembled(P, tail)
  BY <1>1
<1> HIDE DEF P, tail
<1>7. ASSUME NEW p \in P.selected, Quotes(Current(p, P))
      PROVE  Current(p, P) \in Carried(Assembled(P, tail))
  <2>1. P.selected \subseteq DOMAIN Synchronised
    BY <1>3
  <2>2. CASE tail = Rendered(P)
    <3>1. /\ \A q \in P.selected : P.content[q] \in Versions
          /\ tail \in {EmptyText, Rendered(P)}
      BY <1>3, <2>2
    <3>2. Frames(tail) \subseteq Carried(Assembled(P, tail))
      BY <1>2, <1>3, <2>1, <3>1, Assembling
    <3>3. Frames(Rendered(P)) = {Current(q, P) : q \in P.selected}
      BY <1>3, RenderedFrames
    <3> QED
      BY <1>7, <2>2, <3>2, <3>3
  <2>3. CASE tail = EmptyText /\ UserCount(messages) > 1
    <3>1. Current(p, P) \in Bodies(Assembled(P, EmptyText))
      BY <1>2, <1>4, <1>7, <2>1, <2>3, QuotedAtTheRead
    <3>2. Current(p, P).kind = "text" /\ Current(p, P).at # Gone
      BY <1>3, <1>7 DEF Current, Text, RequestPruneAssumption
    <3> QED
      BY <2>3, <3>1, <3>2 DEF Carried
  <2> QED
    BY <1>5, <2>2, <2>3
<1> QED
  BY <1>6, <1>7 DEF SelectedIsCarried

(***************************************************************************)
(* Where only read tools read and no file is deleted, every selected file  *)
(* that is not empty stands in the request with its bytes: on any branch,  *)
(* after any restart, with files that change under a tool, and whatever    *)
(* was over budget before, as that is quoted again (extension.ts:338-411,  *)
(* request-prune.mjs:181-224).                                             *)
(***************************************************************************)
THEOREM CarriedTheorem ==
  ASSUME RequestPruneAssumption, PiAssumption, OfficialOnly, ~Deletes
  PROVE  Spec => []SelectedIsCarried
<1>1. Init => AllPresent /\ NoShellRead /\ SelectedIsCarried
  <2> SUFFICES ASSUME Init PROVE AllPresent /\ NoShellRead /\ SelectedIsCarried
    OBVIOUS
  <2>1. \A p \in Paths : disk[p] # Gone
    <3>1. disk \in [Paths -> Versions]
      BY DEF Init
    <3>2. Gone \notin Versions
      BY DEF RequestPruneAssumption
    <3> QED
      BY ONLY <3>1, <3>2
  <2>2. \A c \in Calls : history[c] = "none" /\ pendingHistory[c] = "none"
    BY DEF Init, NoHistory
  <2>3. stage # "payload"
    BY DEF Init
  <2>4. NoShellRead
    <3>1. /\ DOMAIN messages = {} /\ DOMAIN aside = {}
          /\ callToUnit = {}
      BY DEF Init
    <3> QED
      BY <3>1, InMessages DEF NoShellRead
  <2> QED
    BY <2>1, <2>2, <2>3, <2>4 DEF AllPresent, SelectedIsCarried, Ready
<1>2. IndInv /\ AllPresent /\ NoShellRead /\ SelectedIsCarried /\ [Next]_vars
        => AllPresent' /\ NoShellRead' /\ SelectedIsCarried'
  <2>1. SUFFICES ASSUME IndInv, AllPresent, NoShellRead, SelectedIsCarried,
                        [Next]_vars
                 PROVE  SelectedIsCarried'
    BY NextAllPresent, NextNoShellRead
  <2>2. CASE Context
    BY <2>1, <2>2, SelectedStands
  <2>3. CASE ContextOfNothing
    BY <2>3 DEF ContextOfNothing, SelectedIsCarried, Ready
  <2>4. CASE UNCHANGED vars
    BY <2>1, <2>4 DEF vars, outgoing, SelectedIsCarried, Ready
  <2>5. CASE \/ RunTool \/ ToolResult \/ BeforeProviderRequest \/ UserSpeaks
             \/ TurnStart \/ Edit \/ Fork \/ Return \/ Restart
    <3>1. stage' # "payload"
      BY <2>5 DEF RunTool, ToolResult, BeforeProviderRequest, UserSpeaks,
                  TurnStart, Edit, Fork, Return, Restart, host
    <3> QED
      BY <3>1 DEF SelectedIsCarried, Ready
  <2> QED
    BY <2>1, <2>2, <2>3, <2>4, <2>5 DEF Next
<1> QED
  BY <1>1, <1>2, SpecIndInv, PTL DEF Spec

-----------------------------------------------------------------------------
(* The archive, on one branch that nothing interrupts *)

LastCall == messages[Len(messages)].call

\* The calls whose event is still to come.
Awaited == Pending \cup (IF stage = "event" THEN {LastCall} ELSE {})

\* What a result shows is in the archive once its event was handled.
Archived ==
  \A i \in DOMAIN messages :
    LET m == messages[i]
    IN  (/\ m.role = "tool" /\ m.body.kind = "text"
         /\ stage = "event" => i < Len(messages)) =>
          m.body.path \in DOMAIN units /\ m.body.at \in units[m.body.path].versions

\* Until then the file is as it was shown.
JustShown ==
  stage = "event" =>
    LET m == messages[Len(messages)]
    IN  m.body.kind = "text" =>
          /\ ReadOf[m.call] # NoPath
          /\ m.body = Text(ReadOf[m.call], disk[ReadOf[m.call]])

\* Each unit has a call that keeps it active.
Tended == DOMAIN units \subseteq {ReadOf[c] : c \in Active}

\* Tracked reads stand before those that wait, which are of one reply.
InOrder ==
  /\ callMeta \cup Awaited \subseteq CallsIn(messages)
  /\ \A e, f \in Awaited : MadeAt(e, messages) = MadeAt(f, messages)
  /\ \A e \in Awaited : \A d \in callMeta \ {e} : CalledEarlier(d, e, messages)
  /\ stage = "event" => \A e \in Pending : LastCall < e

Steady == aside = <<>> /\ Archived /\ JustShown /\ Tended /\ InOrder

\* A message that follows moves no call: its own stand last, and the latest
\* reads of a branch stay the latest.
LEMMA CallsStayPut ==
  ASSUME NEW old, Transcript(old), NEW longer, Transcript(longer),
         NEW m, Adds(longer, old, m),
         m.role = "assistant" => m.calls \cap CallsIn(old) = {},
         NEW tracked, tracked \subseteq CallsIn(old)
  PROVE  /\ \A c \in CallsIn(old) : /\ MadeAt(c, longer) = MadeAt(c, old)
                                    /\ MadeAt(c, old) \in 1..Len(old)
         /\ m.role = "assistant" =>
              \A c \in m.calls : MadeAt(c, longer) = Len(old) + 1
         /\ LatestReads(longer, tracked) = LatestReads(old, tracked)
<1> DEFINE n == Len(old)
<1>1. /\ n \in Nat /\ DOMAIN old = 1..n /\ Len(longer) = n + 1
      /\ DOMAIN longer = 1..(n + 1)
  BY Places DEF Transcript, Adds
<1>2. /\ longer[n + 1] = m /\ \A i \in 1..n : longer[i] = old[i]
  BY DEF Adds
<1>3. \A c : c \in CallsIn(longer) <=>
               c \in CallsIn(old) \/ (m.role = "assistant" /\ c \in m.calls)
  BY DEF Adds
<1> HIDE DEF n
<1>4. ASSUME NEW c \in CallsIn(old)
      PROVE  MadeAt(c, longer) = MadeAt(c, old) /\ MadeAt(c, old) \in 1..n
  <2>1. ~(m.role = "assistant" /\ c \in m.calls)
    BY <1>4
  <2>2. Makers(c, longer) = Makers(c, old)
    BY <1>1, <1>2, <2>1 DEF Makers
  <2>3. \E i \in DOMAIN old : old[i].role = "assistant" /\ c \in old[i].calls
    BY <1>4, InMessages
  <2>4. Makers(c, old) # {} /\ Makers(c, old) \subseteq 1..n
    BY <1>1, <2>3 DEF Makers
  <2> QED
    BY <2>2, <2>4 DEF MadeAt
<1>5. ASSUME m.role = "assistant", NEW c \in m.calls
      PROVE  MadeAt(c, longer) = n + 1
  <2>1. ~\E i \in DOMAIN old : old[i].role = "assistant" /\ c \in old[i].calls
    BY <1>5, InMessages
  <2>2. Makers(c, longer) = {n + 1}
    BY <1>1, <1>2, <1>5, <2>1 DEF Makers
  <2> QED
    BY <2>2 DEF MadeAt
<1>6. LatestReads(longer, tracked) = LatestReads(old, tracked)
  <2>1. OfficialReads(longer, tracked) = OfficialReads(old, tracked)
    BY <1>3 DEF OfficialReads
  <2>2. \A c, d \in OfficialReads(old, tracked) :
          CalledEarlier(d, c, longer) <=> CalledEarlier(d, c, old)
    BY <1>4 DEF OfficialReads, CalledEarlier
  <2> QED
    BY <2>1, <2>2 DEF LatestReads
<1> QED
  BY <1>4, <1>5, <1>6 DEF n

\* A message that follows takes nothing out of the archive.
LEMMA ArchiveStands ==
  ASSUME Transcript(messages), Transcript(messages'),
         NEW m, Adds(messages', messages, m),
         m.role = "assistant" => m.calls \cap CallsIn(messages) = {},
         Steady, stage # "event", m.role = "tool" => stage' = "event",
         UNCHANGED <<units, callToUnit, callMeta>>
  PROVE  Archived' /\ Tended'
<1>1. /\ DOMAIN messages = 1..Len(messages) /\ Len(messages) \in Nat
      /\ DOMAIN messages' = 1..(Len(messages) + 1)
      /\ Len(messages') = Len(messages) + 1
  BY Places DEF Transcript, Adds
<1>2. /\ messages'[Len(messages) + 1] = m
      /\ \A i \in 1..Len(messages) : messages'[i] = messages[i]
  BY DEF Adds
<1>3. Archived'
  <2>1. SUFFICES ASSUME NEW i \in DOMAIN messages',
                        messages'[i].role = "tool",
                        messages'[i].body.kind = "text",
                        stage' = "event" => i < Len(messages')
                 PROVE  /\ messages'[i].body.path \in DOMAIN units
                        /\ messages'[i].body.at
                             \in units[messages'[i].body.path].versions
    BY DEF Archived
  <2>2. i \in 1..Len(messages)
    BY <1>1, <1>2, <2>1
  <2>3. i \in DOMAIN messages /\ messages'[i] = messages[i]
    BY <1>1, <1>2, <2>2
  <2> QED
    BY <2>1, <2>3 DEF Steady, Archived
<1>4. Tended'
  <2>1. callMeta \subseteq CallsIn(messages)
    BY DEF Steady, InOrder
  <2>2. LatestReads(messages', callMeta) = LatestReads(messages, callMeta)
    BY <2>1, CallsStayPut
  <2>3. Active' = Active
    BY <2>2 DEF Active
  <2> QED
    BY <2>3 DEF Steady, Tended
<1> QED
  BY <1>3, <1>4

\* The reply's calls come last, and nothing else waits.
LEMMA AnswerIsSteady ==
  ASSUME RequestPruneAssumption, PiAssumption, IndInv, Steady,
         BeforeProviderRequest
  PROVE  Steady'
<1>1. PICK calls \in Questions \cup {{}} :
        /\ calls \cap (CallsIn(messages) \cup CallsIn(aside)) = {}
        /\ messages' = Append(messages, Assistant(calls = {}, calls))
        /\ stage' = IF calls = {} THEN "user" ELSE "tools"
  BY DEF BeforeProviderRequest
<1>2. /\ Transcript(messages) /\ AnsweredInTime(messages)
      /\ Unanswered(messages) = {} /\ stage # "event"
      /\ calls \subseteq Calls
      /\ UNCHANGED <<aside, units, callToUnit, callMeta>>
  BY DEF IndInv, Branches, BeforeProviderRequest, tracking, PiAssumption
<1> DEFINE m == Assistant(calls = {}, calls)
<1>3. m \in Message /\ m.role = "assistant" /\ m.calls = calls
  <2>1. (calls = {}) \in BOOLEAN
    OBVIOUS
  <2> QED
    BY <1>2, <2>1, MessagesOfTheHost DEF Assistant
<1>4. messages' = Append(messages, m)
  BY <1>1
<1> HIDE DEF m
<1>5. Transcript(messages') /\ Adds(messages', messages, m)
  BY <1>2, <1>3, <1>4, BranchGrows
<1>6. callMeta \subseteq CallsIn(messages)
  BY DEF Steady, InOrder
<1>7. /\ \A c \in CallsIn(messages) : /\ MadeAt(c, messages') = MadeAt(c, messages)
                                      /\ MadeAt(c, messages) \in 1..Len(messages)
      /\ \A c \in calls : MadeAt(c, messages') = Len(messages) + 1
  <2>1. m.role = "assistant" => m.calls \cap CallsIn(messages) = {}
    BY <1>1, <1>3
  <2>2. Transcript(messages)
    BY <1>2
  <2>3. m.role = "assistant" =>
          \A c \in m.calls : MadeAt(c, messages') = Len(messages) + 1
    BY ONLY <1>5, <1>6, <2>1, <2>2, CallsStayPut
  <2>4. \A c \in CallsIn(messages) : /\ MadeAt(c, messages') = MadeAt(c, messages)
                                     /\ MadeAt(c, messages) \in 1..Len(messages)
    BY ONLY <1>5, <1>6, <2>1, <2>2, CallsStayPut
  <2> QED
    BY ONLY <1>3, <2>3, <2>4
<1>8. Archived' /\ Tended'
  BY <1>1, <1>2, <1>3, <1>5, ArchiveStands
<1>9. stage' # "event"
  BY <1>1
<1>10. Awaited' = calls
  <2>1. ResultsIn(messages) = CallsIn(messages)
    BY <1>2, CallsOfTranscript DEF Unanswered
  <2>2. /\ CallsIn(messages') = CallsIn(messages) \cup calls
        /\ ResultsIn(messages') = ResultsIn(messages)
    BY <1>3, <1>5 DEF Adds
  <2> QED
    BY <1>1, <1>9, <2>1, <2>2 DEF Awaited, Pending
<1>11. InOrder'
  <2>1. callMeta' \cup Awaited' \subseteq CallsIn(messages')
    BY <1>2, <1>3, <1>5, <1>6, <1>10 DEF Adds
  <2>2. ASSUME NEW e \in calls, NEW d \in callMeta
        PROVE  CalledEarlier(d, e, messages')
    BY <1>6, <1>7, Places, <1>2 DEF CalledEarlier, Transcript
  <2> QED
    BY <1>2, <1>7, <1>9, <1>10, <2>1, <2>2 DEF InOrder
<1> QED
  BY <1>2, <1>8, <1>9, <1>11 DEF Steady, JustShown

\* The user's message calls nothing.
LEMMA UserIsSteady ==
  ASSUME RequestPruneAssumption, PiAssumption, IndInv, Steady, UserSpeaks
  PROVE  Steady'
<1>1. /\ Transcript(messages) /\ AnsweredInTime(messages)
      /\ Unanswered(messages) = {} /\ stage # "event" /\ stage' = "context"
      /\ UNCHANGED <<aside, units, callToUnit, callMeta>>
      /\ messages' = Append(messages, User(Words))
  BY DEF IndInv, Branches, UserSpeaks, tracking
<1> DEFINE m == User(Words)
<1>2. m \in Message /\ m.role = "user"
  BY MessagesOfTheHost DEF User
<1>3. messages' = Append(messages, m)
  BY <1>1
<1> HIDE DEF m
<1>4. Transcript(messages') /\ Adds(messages', messages, m)
  BY <1>1, <1>2, <1>3, BranchGrows
<1>5. Archived' /\ Tended'
  BY <1>1, <1>2, <1>4, ArchiveStands
<1>6. /\ CallsIn(messages') = CallsIn(messages)
      /\ ResultsIn(messages') = ResultsIn(messages)
  BY <1>2, <1>4 DEF Adds
<1>7. Awaited' = {}
  BY <1>1, <1>6 DEF Awaited, Pending, Unanswered
<1>8. InOrder'
  BY <1>1, <1>6, <1>7 DEF Steady, InOrder
<1> QED
  BY <1>1, <1>5, <1>8 DEF Steady, JustShown

\* The first of the calls that wait runs, and shows the file as it is.
LEMMA ToolIsSteady ==
  ASSUME RequestPruneAssumption, PiAssumption, IndInv, Steady, RunTool
  PROVE  Steady'
<1>1. PICK c \in Pending :
        /\ \A d \in Pending : c =< d
        /\ messages' = Append(messages, Result(c, ShownBy(c)))
  BY DEF RunTool
<1>2. /\ Transcript(messages) /\ AnsweredInTime(messages)
      /\ stage = "tools" /\ stage' = "event"
      /\ UNCHANGED <<disk, aside, units, callToUnit, callMeta>>
      /\ disk \in [Paths -> Content]
  BY DEF IndInv, Typed, Branches, RunTool, tracking
<1>3. CallsIn(messages) \subseteq Calls /\ Calls \subseteq Nat
  BY <1>2, CallsOfTranscript DEF PiAssumption
<1>4. c \in CallsIn(messages) /\ c \in Calls /\ c \notin ResultsIn(messages)
  BY <1>1, <1>3 DEF Pending
<1>5. ShownBy(c) \in Shown(c)
  <2>1. ReadOf[c] # NoPath => disk[ReadOf[c]] \in Content
    BY <1>2, <1>4 DEF RequestPruneAssumption
  <2> QED
    BY <2>1 DEF ShownBy, Shown
<1> DEFINE m == Result(c, ShownBy(c))
<1>6. m \in Message /\ m.role = "tool" /\ m.call = c /\ m.body = ShownBy(c)
  BY <1>4, <1>5, MessagesOfTheHost DEF Result
<1>7. messages' = Append(messages, m)
  BY <1>1
<1> HIDE DEF m
<1>8. /\ Transcript(messages') /\ Adds(messages', messages, m)
      /\ messages'[Len(messages')] = m
  BY <1>2, <1>4, <1>6, <1>7, BranchGrows DEF Adds
<1>9. /\ CallsIn(messages') = CallsIn(messages)
      /\ ResultsIn(messages') = ResultsIn(messages) \cup {c}
  <2>1. /\ \A d : d \in CallsIn(messages') <=> d \in CallsIn(messages)
        /\ \A d : d \in ResultsIn(messages') <=> d \in ResultsIn(messages) \/ d = c
    BY <1>6, <1>8 DEF Adds
  <2> QED
    BY ONLY <2>1
<1>10. Archived' /\ Tended'
  BY <1>2, <1>6, <1>8, ArchiveStands
<1>11. JustShown'
  <2>1. ShownBy(c).kind = "text" =>
          ReadOf[c] # NoPath /\ ShownBy(c) = Text(ReadOf[c], disk[ReadOf[c]])
    BY DEF ShownBy, Output
  <2> QED
    BY <1>2, <1>6, <1>8, <2>1 DEF JustShown
<1>12. Awaited' = Pending /\ Awaited = Pending /\ LastCall' = c
       /\ Pending' = Pending \ {c}
  <2>1. LastCall' = c
    BY <1>6, <1>8 DEF LastCall
  <2>2. Pending' = Pending \ {c}
    BY <1>9 DEF Pending
  <2> QED
    BY <1>1, <1>2, <2>1, <2>2 DEF Awaited
<1>13. InOrder'
  <2>1. /\ callMeta \cup Pending \subseteq CallsIn(messages)
        /\ \A e, f \in Pending : MadeAt(e, messages) = MadeAt(f, messages)
        /\ \A e \in Pending : \A d \in callMeta \ {e} : CalledEarlier(d, e, messages)
    BY <1>12 DEF Steady, InOrder
  <2>2. \A d \in CallsIn(messages) : MadeAt(d, messages') = MadeAt(d, messages)
    BY <1>2, <1>6, <1>8, <2>1, CallsStayPut
  <2>3. \A e \in Pending : \A d \in callMeta \ {e} : CalledEarlier(d, e, messages')
    BY <2>1, <2>2 DEF CalledEarlier
  <2>4. \A e, f \in Pending : MadeAt(e, messages') = MadeAt(f, messages')
    BY <2>1, <2>2
  <2>5. \A e \in Pending \ {c} : c < e
    <3>1. Pending \subseteq Nat
      BY <1>3 DEF Pending
    <3> QED
      BY <1>1, <3>1
  <2>6. callMeta' \cup Awaited' \subseteq CallsIn(messages')
    BY <1>2, <1>9, <1>12, <2>1
  <2> QED
    BY <1>2, <1>12, <2>3, <2>4, <2>5, <2>6 DEF InOrder
<1> QED
  BY <1>2, <1>10, <1>11, <1>13 DEF Steady

\* What is observed is added to the archive.
LEMMA ObservedIsArchived ==
  ASSUME Typed, NEW p, NEW v
  PROVE  /\ v \in Observed(p, v).versions
         /\ p \in DOMAIN units => units[p].versions \subseteq Observed(p, v).versions
<1>1. CASE p \in DOMAIN units
  <2>1. units[p] \in Unit
    BY <1>1 DEF Typed
  <2>2. Observed(p, v).versions = units[p].versions \cup {v}
    BY <1>1, <2>1 DEF Observed, Unit
  <2> QED
    BY <2>2
<1>2. CASE p \notin DOMAIN units
  BY <1>2 DEF Observed
<1> QED
  BY <1>1, <1>2

\* A file is as the last tool showed it, so that its event archives that; the
\* call becomes the latest of its file, and those of other files stay.
LEMMA ResultIsSteady ==
  ASSUME RequestPruneAssumption, PiAssumption, IndInv, AllPresent, Steady,
         ToolResult
  PROVE  Steady'
<1> DEFINE m == messages[Len(messages)]
           e == m.call
           p == ReadOf[e]
           tracks == /\ Tool[e] # "other" /\ p # NoPath
                     /\ m.body.at # Gone /\ disk[p] # Gone
<1>1. /\ Typed /\ stage = "event" /\ stage' \in {"context", "tools"}
      /\ UNCHANGED <<disk, messages, aside>>
      /\ Transcript(messages) /\ messages # <<>> /\ m.role = "tool"
  BY DEF IndInv, Branches, ToolResult, host
<1>2. \/ /\ tracks
         /\ units' = [q \in DOMAIN units \cup {p} |->
                        IF q = p THEN Observed(p, disk[p]) ELSE units[q]]
         /\ callToUnit' = callToUnit \cup {e}
         /\ callMeta' = IF Tool[e] = "read" THEN callMeta \cup {e} ELSE callMeta
      \/ ~tracks /\ UNCHANGED <<units, callToUnit, callMeta>>
  BY DEF ToolResult
<1>3. e \in Calls
  <2>1. Len(messages) \in Nat /\ Len(messages) # 0
    BY <1>1, Places, EmptySeq DEF Transcript
  <2>2. m \in Message
    BY <1>1, <2>1, Places DEF Transcript
  <2> QED
    BY <1>1, <2>2, MessageCases
<1>4. /\ Tool[e] \in {"read", "shell", "other"}
      /\ p # NoPath => p \in Paths /\ disk[p] # Gone /\ Tool[e] # "other"
  BY <1>3 DEF RequestPruneAssumption, PiAssumption, OnlyReadersRead, AllPresent
<1>5. m.body.kind = "text" => tracks /\ m.body.path = p /\ m.body.at = disk[p]
  <2>1. m.body.kind = "text" => p # NoPath /\ m.body = Text(p, disk[p])
    BY <1>1 DEF Steady, JustShown
  <2> QED
    BY <1>4, <2>1 DEF Text
<1>6. /\ Awaited = Pending \cup {e} /\ Awaited' = Pending /\ Pending' = Pending
      /\ LastCall = e
  BY <1>1 DEF Awaited, LastCall, Pending
<1>7. /\ callMeta \cup Pending \cup {e} \subseteq CallsIn(messages)
      /\ \A f \in Pending : MadeAt(f, messages) = MadeAt(e, messages) /\ e < f
      /\ \A f, g \in Pending : MadeAt(f, messages) = MadeAt(g, messages)
      /\ \A f \in Pending \cup {e} : \A d \in callMeta \ {f} :
           CalledEarlier(d, f, messages)
  BY <1>1, <1>6 DEF Steady, InOrder
<1>8. callMeta' = callMeta \/ callMeta' = callMeta \cup {e}
  BY <1>2
<1>9. DOMAIN messages = 1..Len(messages) /\ Len(messages) \in Nat
  BY <1>1, Places DEF Transcript
<1>10. /\ DOMAIN units \subseteq DOMAIN units'
       /\ \A q \in DOMAIN units : units[q].versions \subseteq units'[q].versions
  <2>1. p \in DOMAIN units => units[p].versions \subseteq Observed(p, disk[p]).versions
    BY <1>1, ObservedIsArchived
  <2> HIDE DEF tracks, p, e, m
  <2> QED
    BY <1>2, <2>1
<1>11. tracks => p \in DOMAIN units' /\ disk[p] \in units'[p].versions
  <2>1. disk[p] \in Observed(p, disk[p]).versions
    BY <1>1, ObservedIsArchived
  <2> HIDE DEF tracks, p, e, m
  <2> QED
    BY <1>2, <2>1
<1>12. Archived'
  <2>1. SUFFICES ASSUME NEW i \in DOMAIN messages,
                        messages[i].role = "tool", messages[i].body.kind = "text"
                 PROVE  /\ messages[i].body.path \in DOMAIN units'
                        /\ messages[i].body.at
                             \in units'[messages[i].body.path].versions
    BY <1>1 DEF Archived
  <2>2. CASE i < Len(messages)
    <3>1. /\ messages[i].body.path \in DOMAIN units
          /\ messages[i].body.at \in units[messages[i].body.path].versions
      BY <2>1, <2>2 DEF Steady, Archived
    <3> QED
      BY <1>10, <3>1
  <2>3. CASE i = Len(messages)
    BY <1>5, <1>11, <2>1, <2>3
  <2> QED
    BY <1>9, <2>2, <2>3
<1> HIDE DEF p, e, m
<1>13. Tended'
  <2>1. ASSUME NEW c \in LatestReads(messages, callMeta),
               ReadOf[c] # p \/ callMeta' = callMeta
        PROVE  c \in LatestReads(messages, callMeta')
    BY <1>8, <2>1 DEF LatestReads, OfficialReads, p
  <2>2. ASSUME NEW q \in DOMAIN units, q # p \/ ~tracks
        PROVE  \E c \in Active' : ReadOf[c] = q
    <3>1. PICK c \in Active : q = ReadOf[c]
      BY DEF Steady, Tended
    <3>2. c \in callToUnit /\ c \in Calls
          /\ (c \in LatestReads(messages, callMeta) \/ Tool[c] = "shell")
      BY <1>1, <3>1, ActiveCalls DEF Active
    <3>3. c \in callToUnit'
      BY <1>2, <3>2
    <3>4. c \in LatestReads(messages, callMeta) => c \in LatestReads(messages, callMeta')
      BY <1>2, <2>1, <2>2, <3>1
    <3>5. c \in Active'
      BY <1>1, <3>2, <3>3, <3>4 DEF Active
    <3> QED
      BY <3>1, <3>5
  <2>3. ASSUME tracks
        PROVE  e \in Active'
    <3>1. e \in callToUnit'
      BY <1>2, <2>3
    <3>2. Tool[e] = "read" => e \in LatestReads(messages, callMeta')
      <4>1. Tool[e] = "read" => e \in callMeta'
        BY <1>2, <2>3
      <4>2. \A d \in callMeta' \ {e} : CalledEarlier(d, e, messages)
        BY <1>7, <1>8
      <4> QED
        BY <1>7, <4>1, <4>2 DEF LatestReads, OfficialReads
    <3>3. Tool[e] = "read" \/ Tool[e] = "shell"
      BY <1>4, <2>3
    <3> QED
      BY <1>1, <1>3, <3>1, <3>2, <3>3 DEF Active
  <2>4. ReadOf[e] = p
    BY DEF p
  <2>5. \/ ~tracks /\ DOMAIN units' = DOMAIN units
        \/ tracks /\ DOMAIN units' = DOMAIN units \cup {p}
    BY <1>2
  <2> QED
    BY <2>2, <2>3, <2>4, <2>5 DEF Tended
<1>14. InOrder'
  <2>1. callMeta' \cup Pending \subseteq CallsIn(messages)
    BY <1>7, <1>8
  <2>2. \A f \in Pending : \A d \in callMeta' \ {f} : CalledEarlier(d, f, messages)
    BY <1>7, <1>8 DEF CalledEarlier
  <2> QED
    BY <1>1, <1>6, <1>7, <2>1, <2>2 DEF InOrder
<1> QED
  BY <1>1, <1>12, <1>13, <1>14 DEF Steady, JustShown

\* The context event refreshes every unit, as each has a call, and adds to its
\* archive.
LEMMA ContextIsSteady ==
  ASSUME RequestPruneAssumption, PiAssumption, IndInv, Steady, Context
  PROVE  Steady'
<1>1. /\ Typed /\ stage = "context" /\ stage' = "payload"
      /\ callToUnit' = Active
      /\ UNCHANGED <<disk, messages, aside, callMeta>>
  BY DEF IndInv, Context, host
<1>2. PICK chosen \in SUBSET DOMAIN Synchronised :
        units' = [p \in DOMAIN Synchronised |->
                    IF p \in chosen
                    THEN [Synchronised[p] EXCEPT !.lastUsedAt = turn]
                    ELSE Synchronised[p]]
  BY DEF Context
<1>3. /\ DOMAIN Synchronised = {ReadOf[c] : c \in Active}
      /\ \A p \in DOMAIN Synchronised : Synchronised[p] \in Unit
  BY <1>1, SynchronisedUnits
<1>4. DOMAIN units \subseteq DOMAIN units' /\ DOMAIN units' = DOMAIN Synchronised
  BY <1>2, <1>3 DEF Steady, Tended
<1>5. ASSUME NEW p \in DOMAIN units
      PROVE  units[p].versions \subseteq units'[p].versions
  <2>1. p \in DOMAIN Synchronised /\ units[p] \in Unit
    BY <1>1, <1>4 DEF Typed
  <2>2. units'[p].versions = Synchronised[p].versions
    BY <1>2, <1>3, <2>1 DEF Unit
  <2>3. Synchronised[p] = Refreshed(units[p], p)
    BY <1>3, <2>1 DEF Synchronised
  <2>4. units[p].versions \subseteq Refreshed(units[p], p).versions
    BY <2>1 DEF Refreshed, Unit
  <2> QED
    BY <2>2, <2>3, <2>4
<1>6. Archived'
  BY <1>1, <1>4, <1>5 DEF Steady, Archived
<1>7. Tended'
  <2>1. Active' = Active
    BY <1>1 DEF Active
  <2> QED
    BY <1>3, <1>4, <2>1 DEF Tended
<1>8. InOrder'
  <2>1. Awaited' = Awaited
    BY <1>1 DEF Awaited, Pending
  <2> QED
    BY <1>1, <2>1 DEF Steady, InOrder
<1> QED
  BY <1>1, <1>6, <1>7, <1>8 DEF Steady, JustShown

(***************************************************************************)
(* On one branch that no restart interrupts, where no file is deleted or   *)
(* changes between a tool and its event, what a read showed and a request  *)
(* hides is in the archive of the file's unit, whichever tools read it:    *)
(* no unit ever loses its last active call, as the calls of one reply run  *)
(* in their order (SOUL.md:34-35, extension.ts:74-92, 296-300).            *)
(***************************************************************************)
THEOREM ArchiveTheorem ==
  ASSUME RequestPruneAssumption, PiAssumption,
         ~Deletes, ~Forks, ~Races, ~Restarts
  PROVE  Spec => []MaskedIsRecoverable
<1>1. Init => AllPresent /\ Steady
  <2> SUFFICES ASSUME Init PROVE AllPresent /\ Steady
    OBVIOUS
  <2>1. /\ messages = <<>> /\ units = <<>> /\ callMeta = {} /\ aside = <<>>
        /\ stage = "user"
    BY DEF Init
  <2>2. AllPresent
    <3>1. \A p \in Paths : disk[p] # Gone
      <4>1. disk \in [Paths -> Versions]
        BY DEF Init
      <4>2. Gone \notin Versions
        BY DEF RequestPruneAssumption
      <4> QED
        BY ONLY <4>1, <4>2
    <3>2. \A c \in Calls : history[c] = "none" /\ pendingHistory[c] = "none"
      BY DEF Init, NoHistory
    <3> QED
      BY <3>1, <3>2 DEF AllPresent
  <2>3. DOMAIN messages = {} /\ DOMAIN units = {}
    BY <2>1
  <2>4. Awaited = {}
    <3>1. CallsIn(messages) = {}
      BY <2>3, InMessages
    <3> QED
      BY <2>1, <3>1 DEF Awaited, Pending
  <2> QED
    BY <2>1, <2>2, <2>3, <2>4 DEF Steady, Archived, JustShown, Tended, InOrder
<1>2. IndInv /\ AllPresent /\ Steady /\ [Next]_vars => AllPresent' /\ Steady'
  <2>1. SUFFICES ASSUME IndInv, AllPresent, Steady, [Next]_vars
                 PROVE  Steady'
    BY NextAllPresent
  <2>2. CASE RunTool
    BY <2>1, <2>2, ToolIsSteady
  <2>3. CASE ToolResult
    BY <2>1, <2>3, ResultIsSteady
  <2>4. CASE Context
    BY <2>1, <2>4, ContextIsSteady
  <2>5. CASE BeforeProviderRequest
    BY <2>1, <2>5, AnswerIsSteady
  <2>6. CASE UserSpeaks
    BY <2>1, <2>6, UserIsSteady
  <2>7. CASE \/ ContextOfNothing \/ TurnStart \/ Edit
    <3>1. /\ UNCHANGED <<messages, aside, units, callToUnit, callMeta>>
          /\ stage # "event" /\ stage' # "event"
      BY <2>7 DEF ContextOfNothing, TurnStart, Edit, host, tracking
    <3>2. Active' = Active /\ Awaited' = Awaited
      BY <3>1 DEF Active, Awaited, Pending
    <3> QED
      BY <2>1, <3>1, <3>2 DEF Steady, Archived, JustShown, Tended, InOrder
  <2>8. CASE UNCHANGED vars
    <3>1. UNCHANGED <<disk, messages, aside, stage, units, callToUnit, callMeta>>
      BY <2>8 DEF vars, host, tracking
    <3>2. Active' = Active /\ Awaited' = Awaited /\ Pending' = Pending
          /\ LastCall' = LastCall
      BY <3>1 DEF Active, Awaited, Pending, LastCall
    <3> QED
      BY <2>1, <3>1, <3>2 DEF Steady, Archived, JustShown, Tended, InOrder
  <2>9. ~Fork /\ ~Return /\ ~Restart
    BY <2>1 DEF Steady, Fork, Return, Restart
  <2> QED
    BY <2>1, <2>2, <2>3, <2>4, <2>5, <2>6, <2>7, <2>8, <2>9 DEF Next
<1>3. Steady => MaskedIsRecoverable
  BY DEF Steady, Archived, MaskedIsRecoverable, Ready
<1> QED
  BY <1>1, <1>2, <1>3, SpecIndInv, PTL DEF Spec

=============================================================================
