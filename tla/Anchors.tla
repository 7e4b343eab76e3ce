------------------------------- MODULE Anchors -------------------------------
(***************************************************************************)
(* resolveRegion of src/anchors.mjs and resolveRegionByStructuralConsensus *)
(* of src/structural-consensus.mjs: where the region that was last seen as *)
(* `prev' is in the text `cur'.  Lines are counted from 1, as the code     *)
(* reports them.  Only the reason of an outcome is abstracted: every       *)
(* refusal is Unresolved.                                                  *)
(***************************************************************************)
EXTENDS Resolution

\* A plausible bug: a distance with a sign.
Offset(m, n) == m - n

Distance(m, n) == IF m > n THEN m - n ELSE n - m

MakeAnchors(content, startLine) ==
  LET solid == Meaningful(content)
      edge(i) == IF solid = {} THEN <<>> ELSE Normalized(content[i])
  IN  [first |-> edge(Min(solid)), last |-> edge(Max(solid)),
       lineCount |-> Len(content), startLine |-> startLine]

-----------------------------------------------------------------------------
(* Structural consensus: each line of prev that is unique in cur votes for *)
(* the start it implies.                                                   *)

Votes(prev, cur) ==
  {<<i, c>> \in (Meaningful(prev) \X DOMAIN cur) :
     /\ {k \in DOMAIN cur : SameLine(cur[k], prev[i])} = {c}
     /\ c - i + 1 >= 1
     /\ c - i + Len(prev) =< Len(cur)}

StartOf(vote)  == vote[2] - vote[1] + 1
Starts(votes)  == {StartOf(v) : v \in votes}

VotesFor(s, votes) == {v \in votes : StartOf(v) = s}
Support(s, votes)  == Cardinality(VotesFor(s, votes))

\* The starts with the most votes, the nearest to the stored one of these.
BestStarts(votes, stored) ==
  {s \in Starts(votes) : \A t \in Starts(votes) :
     \/ Support(s, votes) > Support(t, votes)
     \/ /\ Support(s, votes) = Support(t, votes)
        /\ Distance(s, stored) =< Distance(t, stored)}

InteriorVotes(votes, solid) == {v \in votes : v[1] \notin {Min(solid), Max(solid)}}

\* A plausible bug: a shift accepted on the interior lines alone.
CorroboratedByInterior(s, lastEnd, interior, pairs) ==
  Support(s, interior) >= 2

(***************************************************************************)
(* pairs are the boundary pairs a tie left open, interior the votes of the *)
(* lines between the boundaries.  A start other than the stored one needs  *)
(* exactly one of the pairs, two interior lines inside it, and no other    *)
(* start with as many interior lines.                                      *)
(***************************************************************************)
Corroborated(s, lastEnd, interior, pairs) ==
  /\ {p \in pairs : p[1] = s} = {<<s, lastEnd>>}
  /\ \A v \in VotesFor(s, interior) : s < v[2] /\ v[2] < lastEnd
  /\ Support(s, interior) >= 2
  /\ \A t \in Starts(interior) \ {s} : Support(t, interior) < Support(s, interior)

\* Another supported start at which the same lines stand.
HasTwin(found, votes, cur) ==
  \E s \in Starts(votes) \ {found.startLine} :
     /\ Support(s, votes) >= 2
     /\ LinesOf(cur, s, s + found.endLine - found.startLine) = found.content

\* A shifted region ends at its last visible line, one in place where it did.
EndFrom(start, prev, a) ==
  start - 1 + IF start # a.startLine THEN Max(Meaningful(prev)) ELSE Len(prev)

Accepted(found, votes, prev, cur, a, pairs) ==
  /\ Support(found.startLine, votes) >= 2
  /\ found.startLine # a.startLine =>
       Corroborated(found.startLine, found.endLine,
                    InteriorVotes(votes, Meaningful(prev)), pairs)
  /\ ~HasTwin(found, votes, cur)

StructuralConsensus(prev, cur, a, pairs) ==
  LET votes == Votes(prev, cur)
      Consensus(start) == At("structural", cur, start, EndFrom(start, prev, a))
      accepted == {found \in {Consensus(s) : s \in BestStarts(votes, a.startLine)} :
                     Accepted(found, votes, prev, cur, a, pairs)}
  IN  IF Cardinality(BestStarts(votes, a.startLine)) = 1 /\ accepted # {}
      THEN CHOOSE found \in accepted : TRUE
      ELSE Unresolved

-----------------------------------------------------------------------------
(* The stored place: what stands where the region was last seen.           *)

StoredEnd(a) == a.startLine + a.lineCount - 1

BoundariesMatchAtStoredStart(cur, a) ==
  /\ a.first # <<>> /\ a.last # <<>>
  /\ Normalized(cur[a.startLine]) = a.first
  /\ Normalized(cur[StoredEnd(a)]) = a.last

\* The length of the part of prev that still stands at the stored start.
PrefixAtStoredStart(prev, cur, a) ==
  Max({n \in 0..Len(prev) :
         \A j \in 1..n : /\ a.startLine + j - 1 \in DOMAIN cur
                         /\ SameLine(cur[a.startLine + j - 1], prev[j])})

\* A shorter block that ends like the region but is no prefix of it.
NonPrefixLookalike(prev, cur, a) ==
  /\ a.last # <<>>
  /\ \E end \in a.startLine..(StoredEnd(a) - 1) :
       /\ end \in DOMAIN cur
       /\ Normalized(cur[end]) = a.last
       /\ PrefixAtStoredStart(prev, cur, a) < end - a.startLine + 1

FirstMatchesAtStoredStart(cur, a) ==
  a.first # <<>> /\ Normalized(cur[a.startLine]) = a.first

\* The ends to which the region can have grown in place.
GrownEnds(prev, cur, a) ==
  IF /\ a.last # <<>>
     /\ FirstMatchesAtStoredStart(cur, a)
     /\ Normalized(cur[StoredEnd(a)]) # a.last
     /\ PrefixAtStoredStart(prev, cur, a) > 0
  THEN {end \in (StoredEnd(a) + 1)..Len(cur) :
          /\ Normalized(cur[end]) = a.last
          /\ Occurrences(Join(prev), Join(LinesOf(cur, a.startLine, end))) = {}}
  ELSE {}

ShrunkToPrefix(prev, cur, a) ==
  /\ FirstMatchesAtStoredStart(cur, a)
  /\ PrefixAtStoredStart(prev, cur, a) \in 1..(Len(prev) - 1)

-----------------------------------------------------------------------------
(* The best pair of boundary lines: nearest to the expected span, then to  *)
(* the stored start.                                                       *)

\* A plausible bug: the last boundary may come before the first.
BoundaryPairsAnyOrder(cur, a) ==
  {p \in (DOMAIN cur) \X (DOMAIN cur) :
     Normalized(cur[p[1]]) = a.first /\ Normalized(cur[p[2]]) = a.last}

BoundaryPairs(cur, a) ==
  {p \in (DOMAIN cur) \X (DOMAIN cur) :
     /\ p[1] =< p[2]
     /\ Normalized(cur[p[1]]) = a.first
     /\ Normalized(cur[p[2]]) = a.last}

ResolveBetween(prev, cur, a, start, end) ==
  LET span == end - start + 1
      sameHead(n) == \A j \in 1..n : SameLine(cur[start + j - 1], prev[j])
  IN  IF \/ span < a.lineCount /\ start # a.startLine
         \/ span < a.lineCount /\ start = a.startLine /\ ~sameHead(span)
      THEN Unresolved
      ELSE IF span > a.lineCount /\ a.lineCount > 1 /\ sameHead(a.lineCount - 1)
      THEN At("boundary-anchors", cur, start, start + a.lineCount - 1)
      ELSE At("boundary-anchors", cur, start, end)

\* The pairs whose span is nearest to the expected one, then nearest.
BestPairs(pairs, a) ==
  LET span(p) == Distance(p[2] - p[1] + 1, a.lineCount)
      away(p) == Distance(p[1], a.startLine)
  IN  {p \in pairs : \A q \in pairs :
         \/ span(p) < span(q)
         \/ span(p) = span(q) /\ away(p) =< away(q)}

FromPairs(pairs, best, prev, cur, a) ==
  IF Cardinality(best) # 1 THEN StructuralConsensus(prev, cur, a, pairs)
  ELSE LET chosen == CHOOSE p \in best : TRUE
       IN  ResolveBetween(prev, cur, a, chosen[1], chosen[2])

ByBoundaries(prev, cur, a) ==
  IF a.first = <<>> \/ a.last = <<>> THEN Unresolved
  ELSE LET pairs == BoundaryPairs(cur, a)
       IN  FromPairs(pairs, BestPairs(pairs, a), prev, cur, a)

-----------------------------------------------------------------------------
(* resolveRegion.                                                          *)

\* Something else stands where the region, found at `line', was last seen.
Replaced(prev, cur, a, line) ==
  /\ line # a.startLine
  /\ StoredEnd(a) =< Len(cur)
  /\ LinesOf(cur, a.startLine, StoredEnd(a)) # prev

\* The end of the edited region at the stored place: grown, or cut short.
EndsInPlace(prev, cur, a) ==
  IF GrownEnds(prev, cur, a) # {} THEN {Min(GrownEnds(prev, cur, a))}
  ELSE IF ShrunkToPrefix(prev, cur, a)
       THEN {a.startLine + PrefixAtStoredStart(prev, cur, a) - 1}
       ELSE {}

ExactAt(line, prev) ==
  [state |-> "resolved", method |-> "exact", content |-> prev,
   startLine |-> line, endLine |-> line + Len(prev) - 1]

(***************************************************************************)
(* A single exact occurrence wins, unless it is away from the stored start *)
(* and the stored place looks like the edited region.                      *)
(***************************************************************************)
ResolveAt(prev, cur, a, once, line) ==
  IF ~once \/ (Replaced(prev, cur, a, line) /\ BoundariesMatchAtStoredStart(cur, a))
  THEN ByBoundaries(prev, cur, a)
  ELSE IF /\ Replaced(prev, cur, a, line)
          /\ ~NonPrefixLookalike(prev, cur, a)
          /\ EndsInPlace(prev, cur, a) # {}
  THEN At("boundary-anchors", cur, a.startLine, Min(EndsInPlace(prev, cur, a)))
  ELSE ExactAt(line, prev)

ResolveRegion(prev, cur, a) ==
  LET chars == Join(cur)
  IN  ResolveAt(prev, cur, a, FoundOnce(Join(prev), chars),
                LineAt(chars, Min(Occurrences(Join(prev), chars))))
=============================================================================
