-------------------------- MODULE WorkingSetProofs --------------------------
(***************************************************************************)
(* Proofs about WorkingSet, for every hand of cards, every overlap, every  *)
(* turn and every budget.                                                  *)
(***************************************************************************)
EXTENDS WorkingSet, TLAPS, FiniteSetTheorems, SequenceTheorems

(***************************************************************************)
(* The ranking lists every unit once: policy.mjs:67-73 sorts the units, it *)
(* neither drops nor repeats one.                                          *)
(***************************************************************************)
RankedOnce ==
  /\ \A i, j \in DOMAIN ranked : ranked[i] = ranked[j] => i = j
  /\ \A u \in DOMAIN units : \E i \in DOMAIN ranked : ranked[i] = u

(***************************************************************************)
(* What is known of a unit the loops have not reached, one that the first  *)
(* loop has passed, and one that the second has passed.                    *)
(***************************************************************************)
Untouched(u) ==
  /\ u \notin selectedIds
  /\ <<u, "unresolved">> \notin omitted
  /\ <<u, "budget">> \notin omitted

Sorted(u) ==
  /\ u \in selectedIds <=> Refreshed(u)
  /\ <<u, "unresolved">> \in omitted <=> ~Resolved(units[u])
  /\ <<u, "budget">> \notin omitted

Decided(u) ==
  /\ Refreshed(u) => u \in selectedIds
  /\ <<u, "unresolved">> \in omitted <=> ~Resolved(units[u])
  /\ u \in selectedIds <=> <<u, "unresolved">> \notin omitted
                           /\ <<u, "budget">> \notin omitted

Progress ==
  /\ pass = "first" => \A i \in DOMAIN ranked :
       IF i < next THEN Sorted(ranked[i]) ELSE Untouched(ranked[i])
  /\ pass = "second" => \A i \in DOMAIN ranked :
       IF i < next THEN Decided(ranked[i]) ELSE Sorted(ranked[i])
  /\ pass = "done" => \A i \in DOMAIN ranked : Decided(ranked[i])

IndInv == TypeOK /\ RankedOnce /\ Progress

\* The facts about the arguments that no step changes.
Arguments ==
  /\ units \in Hands
  /\ IsFiniteSet(DOMAIN units)
  /\ Cardinality(DOMAIN units) \in Nat
  /\ DOMAIN ranked = 1..Cardinality(DOMAIN units)

\* A score is a number, so that no unit outscores itself.
LEMMA ScoreType ==
  ASSUME NEW card \in Card, NEW turn \in Nat, NEW m \in Nat
  PROVE  Score(card, turn, m) \in Int
<1> DEFINE scale == AtLeast(1, Budget)
<1> DEFINE recency == AtLeast(0, 12 - AtLeast(0, turn - card.lastUsedAt))
<1>1. scale \in Int
  BY BudgetAssumption DEF AtLeast
<1>2. recency \in Int /\ card.size \in Int /\ card.lastUsedAt \in Int
  BY DEF AtLeast, Card
<1>3. 2 * scale * recency \in Int /\ 48 * scale * m \in Int
  BY <1>1, <1>2
<1>4. (IF card.changedAt = turn THEN 12 * scale ELSE 0) \in Int
  BY <1>1
<1>5. (IF card.pinned THEN 600 * scale ELSE 0) \in Int
  BY <1>1
<1>6. 9 * card.size \in Int
  BY <1>2
<1> QED
  BY <1>3, <1>4, <1>5, <1>6 DEF Score

\* The comparator never places a unit before itself.
LEMMA BeforeIrreflexive ==
  ASSUME NEW hand, NEW turn \in Nat, NEW terms,
         NEW u \in DOMAIN hand, u \in Nat, hand[u] \in Card, terms[u] \in Nat
  PROVE  ~Before(u, u, hand, turn, terms)
<1>1. Score(hand[u], turn, terms[u]) \in Int
  BY ScoreType
<1>2. ~Outscores(hand[u], terms[u], hand[u], terms[u], turn)
  BY <1>1 DEF Outscores
<1> QED
  BY <1>2 DEF Before

\* The sorted list has each unit once.
LEMMA InitRankedOnce == Init => RankedOnce /\ Arguments
<1> SUFFICES ASSUME Init PROVE RankedOnce /\ Arguments
  OBVIOUS
<1>1. /\ units \in Hands /\ DOMAIN units \subseteq Nat
      /\ IsFiniteSet(DOMAIN units)
      /\ \A u \in DOMAIN units : units[u] \in Card /\ overlap[u] \in Nat
      /\ Turn \in Nat
  BY WorkingSetAssumption DEF Init
<1>2. Cardinality(DOMAIN units) \in Nat
  BY <1>1, FS_CardinalityType
<1>3. /\ DOMAIN ranked = 1..Cardinality(DOMAIN units)
      /\ ranked \in [DOMAIN ranked -> DOMAIN units]
      /\ \A u \in DOMAIN units : \E i \in DOMAIN ranked : ranked[i] = u
      /\ \A i, j \in DOMAIN ranked :
           i < j => Before(ranked[i], ranked[j], units, Turn, overlap)
  BY DEF Init, IsRanking
<1>4. ASSUME NEW i \in DOMAIN ranked, NEW j \in DOMAIN ranked,
             ranked[i] = ranked[j]
      PROVE  i = j
  <2>1. ~Before(ranked[i], ranked[i], units, Turn, overlap)
    BY <1>1, <1>3, BeforeIrreflexive
  <2>2. ~(i < j) /\ ~(j < i)
    BY <1>3, <1>4, <2>1
  <2> QED
    BY <1>2, <1>3, <2>2
<1> QED
  BY <1>1, <1>2, <1>3, <1>4 DEF RankedOnce, Arguments

\* Before the first loop nothing is decided.
LEMMA InitIndInv == Init => IndInv /\ Arguments /\ BudgetRespected
<1> SUFFICES ASSUME Init PROVE IndInv /\ Arguments /\ BudgetRespected
  OBVIOUS
<1>1. RankedOnce /\ Arguments
  BY InitRankedOnce
<1>2. TypeOK
  BY <1>1, WorkingSetAssumption DEF Init, TypeOK, Arguments
<1>3. Progress
  BY <1>1 DEF Init, Progress, Untouched, Arguments
<1>4. BudgetRespected
  BY DEF Init, BudgetRespected
<1> QED
  BY <1>1, <1>2, <1>3, <1>4 DEF IndInv

\* The loops do not touch their arguments.
LEMMA ArgumentsKept == Arguments /\ [Next]_vars => Arguments'
  BY DEF Arguments, Next, vars, OmitUnresolved, Defer, SelectRefreshed,
         StartSecondPass, SkipDecided, OmitOverBudget, SelectFitting, Return,
         Advance

(***************************************************************************)
(* Selecting or omitting the unit at `next' touches no other rank.         *)
(***************************************************************************)
LEMMA SelectStep ==
  ASSUME IndInv, Arguments, NEW n \in DOMAIN ranked, n = next,
         Select(ranked[n]), Advance
  PROVE  /\ TypeOK' /\ RankedOnce'
         /\ ranked[n] \in selectedIds'
         /\ omitted' = omitted
         /\ \A i \in DOMAIN ranked :
              i # n => (ranked[i] \in selectedIds' <=> ranked[i] \in selectedIds)
<1> USE DEF IndInv, Select, Advance
<1>1. ranked[n] \in DOMAIN units /\ units[ranked[n]].size \in Nat
  BY DEF TypeOK, Card, Arguments
<1>2. TypeOK'
  BY <1>1 DEF TypeOK, Arguments
<1>3. RankedOnce'
  BY DEF RankedOnce
<1>4. \A i \in DOMAIN ranked : i # n => ranked[i] # ranked[n]
  BY DEF RankedOnce
<1> QED
  BY <1>2, <1>3, <1>4

\* What leaving a unit out does to the verdicts (policy.mjs:77, 92).
LEMMA OmitStep ==
  ASSUME IndInv, Arguments, NEW n \in DOMAIN ranked, n = next,
         NEW reason \in {"unresolved", "budget"},
         Omit(ranked[n], reason), Advance
  PROVE  /\ TypeOK' /\ RankedOnce'
         /\ selectedIds' = selectedIds
         /\ \A r : <<ranked[n], r>> \in omitted'
                     <=> (<<ranked[n], r>> \in omitted \/ r = reason)
         /\ \A i \in DOMAIN ranked : i # n =>
              \A r : <<ranked[i], r>> \in omitted'
                       <=> <<ranked[i], r>> \in omitted
<1> USE DEF IndInv, Omit, Advance
<1>1. ranked[n] \in DOMAIN units
  BY DEF TypeOK, Arguments
<1>2. TypeOK'
  BY <1>1 DEF TypeOK, Arguments
<1>3. RankedOnce'
  BY DEF RankedOnce
<1>4. \A i \in DOMAIN ranked : i # n => ranked[i] # ranked[n]
  BY DEF RankedOnce
<1> QED
  BY <1>2, <1>3, <1>4

\* Going on to the next unit, or to the next loop (policy.mjs:80, 87-88).
LEMMA PassStep ==
  ASSUME IndInv, Arguments, next \in DOMAIN ranked, Pass, Advance
  PROVE  TypeOK' /\ RankedOnce'
  BY DEF IndInv, TypeOK, RankedOnce, Pass, Advance, Arguments

(***************************************************************************)
(* Each action moves one unit from one stage to the next, or nothing.      *)
(***************************************************************************)
LEMMA NextIndInv ==
  ASSUME IndInv, Arguments, Next
  PROVE  IndInv'
<1>0. PICK n : n = next
  OBVIOUS
<1> USE <1>0 DEF IndInv
<1>1. CASE OmitUnresolved
  <2>1. /\ n \in DOMAIN ranked /\ pass = "first" /\ pass' = "first"
        /\ ~Resolved(units[ranked[n]]) /\ next' = n + 1
        /\ Omit(ranked[n], "unresolved") /\ Advance
        /\ ranked' = ranked /\ units' = units
    BY <1>1 DEF OmitUnresolved, Visit, Advance
  <2>2. /\ TypeOK' /\ RankedOnce' /\ selectedIds' = selectedIds
        /\ \A r : <<ranked[n], r>> \in omitted'
                    <=> (<<ranked[n], r>> \in omitted \/ r = "unresolved")
        /\ \A i \in DOMAIN ranked : i # n =>
             \A r : <<ranked[i], r>> \in omitted'
                      <=> <<ranked[i], r>> \in omitted
    BY <2>1, OmitStep
  <2>3. Untouched(ranked[n])
    BY <2>1 DEF Progress, Arguments
  <2>4. Sorted(ranked[n])'
    BY <2>1, <2>2, <2>3 DEF Sorted, Untouched, Refreshed, RefreshedThisTurn
  <2>5. ASSUME NEW i \in DOMAIN ranked, i # n
        PROVE  /\ Sorted(ranked[i]) => Sorted(ranked[i])'
               /\ Untouched(ranked[i]) => Untouched(ranked[i])'
    BY <2>1, <2>2, <2>5 DEF Sorted, Untouched, Refreshed
  <2>6. Progress'
    BY <2>1, <2>4, <2>5 DEF Progress, Arguments
  <2> QED
    BY <2>2, <2>6
<1>2. CASE Defer
  <2>1. /\ n \in DOMAIN ranked /\ pass = "first" /\ pass' = "first"
        /\ Resolved(units[ranked[n]]) /\ ~Refreshed(ranked[n])
        /\ next' = n + 1 /\ Pass /\ Advance
        /\ ranked' = ranked /\ units' = units
        /\ omitted' = omitted /\ selectedIds' = selectedIds
    BY <1>2 DEF Defer, Visit, Advance, Pass
  <2>2. TypeOK' /\ RankedOnce'
    BY <2>1, PassStep
  <2>3. Untouched(ranked[n])
    BY <2>1 DEF Progress, Arguments
  <2>4. Sorted(ranked[n])'
    BY <2>1, <2>3 DEF Sorted, Untouched, Refreshed
  <2>5. ASSUME NEW i \in DOMAIN ranked
        PROVE  /\ Sorted(ranked[i]) => Sorted(ranked[i])'
               /\ Untouched(ranked[i]) => Untouched(ranked[i])'
    BY <2>1 DEF Sorted, Untouched, Refreshed
  <2>6. Progress'
    BY <2>1, <2>4, <2>5 DEF Progress, Arguments
  <2> QED
    BY <2>2, <2>6
<1>3. CASE SelectRefreshed
  <2>1. /\ n \in DOMAIN ranked /\ pass = "first" /\ pass' = "first"
        /\ Refreshed(ranked[n]) /\ next' = n + 1
        /\ Select(ranked[n]) /\ Advance
        /\ ranked' = ranked /\ units' = units
    BY <1>3 DEF SelectRefreshed, Visit, Advance
  <2>2. /\ TypeOK' /\ RankedOnce'
        /\ ranked[n] \in selectedIds' /\ omitted' = omitted
        /\ \A i \in DOMAIN ranked :
             i # n => (ranked[i] \in selectedIds' <=> ranked[i] \in selectedIds)
    BY <2>1, SelectStep
  <2>3. Untouched(ranked[n])
    BY <2>1 DEF Progress, Arguments
  <2>4. Sorted(ranked[n])'
    BY <2>1, <2>2, <2>3 DEF Sorted, Untouched, Refreshed, RefreshedThisTurn
  <2>5. ASSUME NEW i \in DOMAIN ranked, i # n
        PROVE  /\ Sorted(ranked[i]) => Sorted(ranked[i])'
               /\ Untouched(ranked[i]) => Untouched(ranked[i])'
    BY <2>1, <2>2, <2>5 DEF Sorted, Untouched, Refreshed
  <2>6. Progress'
    BY <2>1, <2>4, <2>5 DEF Progress, Arguments
  <2> QED
    BY <2>2, <2>6
<1>4. CASE StartSecondPass
  <2>1. /\ pass = "first" /\ n \notin DOMAIN ranked /\ pass' = "second"
        /\ next' = 1 /\ UNCHANGED <<units, overlap, ranked>> /\ Pass
    BY <1>4 DEF StartSecondPass
  <2>2. TypeOK' /\ RankedOnce'
    BY <2>1 DEF TypeOK, RankedOnce, Pass, Arguments
  <2>3. \A i \in DOMAIN ranked : i < n
    BY <2>1 DEF TypeOK, Arguments
  <2>4. \A i \in DOMAIN ranked : Sorted(ranked[i])'
    BY <2>1, <2>3 DEF Progress, Sorted, Refreshed, Pass
  <2>5. Progress'
    BY <2>1, <2>4 DEF Progress, Arguments
  <2> QED
    BY <2>2, <2>5
<1>5. CASE SkipDecided
  <2>1. /\ n \in DOMAIN ranked /\ pass = "second" /\ pass' = "second"
        /\ ranked[n] \in selectedIds \/ ~Resolved(units[ranked[n]])
        /\ next' = n + 1 /\ Pass /\ Advance
        /\ ranked' = ranked /\ units' = units
        /\ omitted' = omitted /\ selectedIds' = selectedIds
    BY <1>5 DEF SkipDecided, Visit, Advance, Pass
  <2>2. TypeOK' /\ RankedOnce'
    BY <2>1, PassStep
  <2>3. Sorted(ranked[n])
    BY <2>1 DEF Progress, Arguments
  <2>4. Decided(ranked[n])'
    BY <2>1, <2>3 DEF Sorted, Decided, Refreshed, RefreshedThisTurn
  <2>5. ASSUME NEW i \in DOMAIN ranked
        PROVE  /\ Sorted(ranked[i]) => Sorted(ranked[i])'
               /\ Decided(ranked[i]) => Decided(ranked[i])'
    BY <2>1 DEF Sorted, Decided, Refreshed
  <2>6. Progress'
    BY <2>1, <2>4, <2>5 DEF Progress, Arguments
  <2> QED
    BY <2>2, <2>6
<1>6. CASE OmitOverBudget
  <2>1. /\ n \in DOMAIN ranked /\ pass = "second" /\ pass' = "second"
        /\ Resolved(units[ranked[n]]) /\ ranked[n] \notin selectedIds
        /\ next' = n + 1 /\ Omit(ranked[n], "budget") /\ Advance
        /\ ranked' = ranked /\ units' = units
    BY <1>6 DEF OmitOverBudget, Visit, Advance, Open
  <2>2. /\ TypeOK' /\ RankedOnce' /\ selectedIds' = selectedIds
        /\ \A r : <<ranked[n], r>> \in omitted'
                    <=> (<<ranked[n], r>> \in omitted \/ r = "budget")
        /\ \A i \in DOMAIN ranked : i # n =>
             \A r : <<ranked[i], r>> \in omitted'
                      <=> <<ranked[i], r>> \in omitted
    BY <2>1, OmitStep
  <2>3. Sorted(ranked[n])
    BY <2>1 DEF Progress, Arguments
  <2>4. Decided(ranked[n])'
    BY <2>1, <2>2, <2>3 DEF Sorted, Decided, Refreshed
  <2>5. ASSUME NEW i \in DOMAIN ranked, i # n
        PROVE  /\ Sorted(ranked[i]) => Sorted(ranked[i])'
               /\ Decided(ranked[i]) => Decided(ranked[i])'
    BY <2>1, <2>2, <2>5 DEF Sorted, Decided, Refreshed
  <2>6. Progress'
    BY <2>1, <2>4, <2>5 DEF Progress, Arguments
  <2> QED
    BY <2>2, <2>6
<1>7. CASE SelectFitting
  <2>1. /\ n \in DOMAIN ranked /\ pass = "second" /\ pass' = "second"
        /\ Resolved(units[ranked[n]]) /\ next' = n + 1
        /\ Select(ranked[n]) /\ Advance
        /\ ranked' = ranked /\ units' = units
    BY <1>7 DEF SelectFitting, Visit, Advance, Open
  <2>2. /\ TypeOK' /\ RankedOnce'
        /\ ranked[n] \in selectedIds' /\ omitted' = omitted
        /\ \A i \in DOMAIN ranked :
             i # n => (ranked[i] \in selectedIds' <=> ranked[i] \in selectedIds)
    BY <2>1, SelectStep
  <2>3. Sorted(ranked[n])
    BY <2>1 DEF Progress, Arguments
  <2>4. Decided(ranked[n])'
    BY <2>1, <2>2, <2>3 DEF Sorted, Decided, Refreshed
  <2>5. ASSUME NEW i \in DOMAIN ranked, i # n
        PROVE  /\ Sorted(ranked[i]) => Sorted(ranked[i])'
               /\ Decided(ranked[i]) => Decided(ranked[i])'
    BY <2>1, <2>2, <2>5 DEF Sorted, Decided, Refreshed
  <2>6. Progress'
    BY <2>1, <2>4, <2>5 DEF Progress, Arguments
  <2> QED
    BY <2>2, <2>6
<1>8. CASE Return
  <2>1. /\ pass = "second" /\ n \notin DOMAIN ranked /\ pass' = "done"
        /\ UNCHANGED <<units, overlap, ranked, next>> /\ Pass
    BY <1>8 DEF Return
  <2>2. TypeOK' /\ RankedOnce'
    BY <2>1 DEF TypeOK, RankedOnce, Pass, Arguments
  <2>3. \A i \in DOMAIN ranked : i < n
    BY <2>1 DEF TypeOK, Arguments
  <2>4. \A i \in DOMAIN ranked : Decided(ranked[i])'
    BY <2>1, <2>3 DEF Progress, Decided, Refreshed, Pass
  <2>5. Progress'
    BY <2>1, <2>4 DEF Progress, Arguments
  <2> QED
    BY <2>2, <2>5
<1> QED
  BY <1>1, <1>2, <1>3, <1>4, <1>5, <1>6, <1>7, <1>8 DEF Next

\* The invariant speaks of the variables only.
LEMMA StutterIndInv ==
  ASSUME IndInv, UNCHANGED vars
  PROVE  IndInv'
  BY DEF IndInv, vars, TypeOK, RankedOnce, Progress, Sorted, Untouched,
         Decided, Refreshed

\* The invariant holds in every reachable state.
LEMMA SpecIndInv == Spec => [](IndInv /\ Arguments)
<1>1. Init => IndInv /\ Arguments
  BY InitIndInv
<1>2. IndInv /\ Arguments /\ [Next]_vars => (IndInv /\ Arguments)'
  BY NextIndInv, StutterIndInv, ArgumentsKept
<1> QED
  BY <1>1, <1>2, PTL DEF Spec

(***************************************************************************)
(* Every state of every selection is well typed.                           *)
(***************************************************************************)
THEOREM TypeCorrect == Spec => []TypeOK
<1>1. IndInv => TypeOK
  BY DEF IndInv
<1> QED
  BY <1>1, SpecIndInv, PTL

(***************************************************************************)
(* Every unit leaves selectWorkingSet with exactly one verdict: unresolved *)
(* units are reported and never carried, units refreshed in this turn are  *)
(* always carried, and the others are carried or reported as over budget.  *)
(***************************************************************************)
THEOREM VerdictTheorem == Spec => []OneVerdict
<1>1. IndInv /\ Arguments => OneVerdict
  <2> SUFFICES ASSUME IndInv, Arguments, pass = "done", NEW u \in DOMAIN units
               PROVE  Decided(u)
    BY DEF OneVerdict, Decided
  <2>1. PICK i \in DOMAIN ranked : ranked[i] = u
    BY DEF IndInv, RankedOnce
  <2> QED
    BY <2>1 DEF IndInv, Progress
<1> QED
  BY <1>1, SpecIndInv, PTL

(***************************************************************************)
(* Only units refreshed in this turn can push a request over the budget.   *)
(* The invariant needs no help beyond the types: the second loop checks    *)
(* the sum before it adds, and the first adds refreshed units only, before *)
(* any other unit is in (Progress gives the latter).                       *)
(***************************************************************************)
THEOREM BudgetTheorem == Spec => []BudgetRespected
<1>1. Init => BudgetRespected
  BY InitIndInv
<1>2. IndInv /\ Arguments /\ BudgetRespected /\ [Next]_vars => BudgetRespected'
  <2> SUFFICES ASSUME IndInv, Arguments, BudgetRespected, [Next]_vars
               PROVE  BudgetRespected'
    OBVIOUS
  <2>1. CASE SelectRefreshed
    <3>1. /\ pass = "first" /\ next \in DOMAIN ranked /\ Refreshed(ranked[next])
          /\ selectedIds' = selectedIds \cup {ranked[next]}
          /\ units' = units
      BY <2>1 DEF SelectRefreshed, Visit, Select, Advance
    <3>2. \A u \in selectedIds : Refreshed(u)
      <4> SUFFICES ASSUME NEW u \in selectedIds PROVE Refreshed(u)
        OBVIOUS
      <4>1. PICK i \in DOMAIN ranked : ranked[i] = u
        BY DEF IndInv, TypeOK, RankedOnce
      <4> QED
        BY <3>1, <4>1 DEF IndInv, Progress, Sorted, Untouched
    <3> QED
      BY <3>1, <3>2 DEF BudgetRespected, Refreshed
  <2>2. CASE SelectFitting
    <3>1. /\ next \in DOMAIN ranked /\ ~TooLarge(ranked[next])
          /\ selectedIds' = selectedIds \cup {ranked[next]}
          /\ usedChars' = usedChars + units[ranked[next]].size
          /\ units' = units
      BY <2>2 DEF SelectFitting, Visit, Select, Advance
    <3>2. units[ranked[next]].size \in Nat /\ usedChars \in Nat
      BY <3>1 DEF IndInv, TypeOK, Card
    <3>3. CASE units[ranked[next]].size = 0
      <4>1. usedChars' = usedChars
        BY <3>1, <3>2, <3>3
      <4> QED
        BY <3>1, <3>3, <4>1 DEF BudgetRespected, Refreshed
    <3>4. CASE units[ranked[next]].size > 0
      <4>1. usedChars' =< Budget
        BY <3>1, <3>2, <3>4, BudgetAssumption DEF TooLarge
      <4> QED
        BY <4>1 DEF BudgetRespected
    <3> QED
      BY <3>2, <3>3, <3>4
  <2>3. CASE UNCHANGED <<units, selectedIds, usedChars>>
    BY <2>3 DEF BudgetRespected, Refreshed
  <2>4. OmitUnresolved \/ Defer \/ StartSecondPass \/ SkipDecided
          \/ OmitOverBudget \/ Return \/ UNCHANGED vars
          => UNCHANGED <<units, selectedIds, usedChars>>
    BY DEF OmitUnresolved, Defer, StartSecondPass, SkipDecided,
           OmitOverBudget, Return, Advance, Omit, Pass, vars
  <2> QED
    BY <2>1, <2>2, <2>3, <2>4 DEF Next
<1> QED
  BY <1>1, <1>2, SpecIndInv, PTL DEF Spec
-----------------------------------------------------------------------------
(* Sums of sizes *)

(* Weight is a fold over a set: a function on the subsets of the set, which
   adds the size of an arbitrary unit to the sum of the others. *)
First(s) == CHOOSE u \in s : TRUE

SumFrom(sum, s, hand) ==
  IF s = {} THEN 0 ELSE hand[First(s)].size + sum[s \ {First(s)}]

IsSum(sum, S, hand) == sum = [s \in SUBSET S |-> SumFrom(sum, s, hand)]

AddsUp(sum, S, hand) ==
  \A s \in SUBSET S : \A u \in S \ s :
    sum[s \cup {u}] = sum[s] + hand[u].size

\* Induction without an operator as a parameter: a set of numbers, and a set
\* of finite sets, have a least element.
LEMMA LeastNumber ==
  ASSUME NEW T \in SUBSET Nat, T # {}
  PROVE  \E n \in T : \A m \in T : ~(m < n)
<1>1. PICK n \in T : \A m \in T : <<m, n>> \notin OpToRel(<, Nat)
  BY NatLessThanWellFounded, WFMin
<1> QED
  BY <1>1 DEF OpToRel

\* Of the subsets of a finite set that have a property one is least.
LEMMA LeastSubset ==
  ASSUME NEW S, IsFiniteSet(S), NEW T \in SUBSET (SUBSET S), T # {}
  PROVE  \E s \in T : \A r \in SUBSET s : r # s => r \notin T
<1>1. FiniteSubsetsOf(S) = SUBSET S
  BY FS_FiniteSubsetsOfFinite
<1>2. PICK s \in T : \A r \in T : <<r, s>> \notin StrictSubsetOrdering(S)
  BY <1>1, FS_StrictSubsetOrderingWellFounded, WFMin
<1> QED
  BY <1>2 DEF StrictSubsetOrdering

\* Taking the first unit from a set leaves a smaller one.
LEMMA WithoutFirst ==
  ASSUME NEW s, IsFiniteSet(s), s # {}
  PROVE  /\ First(s) \in s
         /\ s \ {First(s)} \subseteq s /\ s \ {First(s)} # s
         /\ IsFiniteSet(s \ {First(s)})
         /\ Cardinality(s) \in Nat
         /\ Cardinality(s \ {First(s)}) = Cardinality(s) - 1
<1>1. First(s) \in s
  BY DEF First
<1> QED
  BY <1>1, FS_RemoveElement, FS_CardinalityType

\* There is such a function on every finite set.
LEMMA SumExists ==
  ASSUME NEW S, IsFiniteSet(S), NEW hand,
         \A u \in S : hand[u].size \in Nat
  PROVE  \E sum \in [SUBSET S -> Nat] : IsSum(sum, S, hand)
<1> DEFINE upTo(n) ==
      \E sum \in [SUBSET S -> Nat] :
        \A s \in SUBSET S :
          Cardinality(s) =< n => sum[s] = SumFrom(sum, s, hand)
<1>1. ASSUME NEW s \in SUBSET S
      PROVE  IsFiniteSet(s) /\ Cardinality(s) \in Nat
                            /\ Cardinality(s) =< Cardinality(S)
  BY FS_Subset, FS_CardinalityType
<1>2. upTo(0)
  <2>1. ASSUME NEW s \in SUBSET S, Cardinality(s) =< 0 PROVE s = {}
    BY <1>1, <2>1, FS_EmptySet
  <2>2. [s \in SUBSET S |-> 0] \in [SUBSET S -> Nat]
    OBVIOUS
  <2> QED
    BY <2>1, <2>2 DEF SumFrom
<1>3. ASSUME NEW n \in Nat, upTo(n) PROVE upTo(n + 1)
  <2>1. PICK sum \in [SUBSET S -> Nat] :
          \A s \in SUBSET S :
            Cardinality(s) =< n => sum[s] = SumFrom(sum, s, hand)
    BY <1>3
  <2> DEFINE further == [s \in SUBSET S |-> SumFrom(sum, s, hand)]
  <2>2. further \in [SUBSET S -> Nat]
    <3> SUFFICES ASSUME NEW s \in SUBSET S PROVE SumFrom(sum, s, hand) \in Nat
      OBVIOUS
    <3>1. s # {} => First(s) \in S /\ s \ {First(s)} \in SUBSET S
      BY <1>1, WithoutFirst
    <3> QED
      BY <3>1 DEF SumFrom
  <2>3. ASSUME NEW s \in SUBSET S, Cardinality(s) =< n + 1
        PROVE  further[s] = SumFrom(further, s, hand)
    <3>1. further[s] = SumFrom(sum, s, hand)
      OBVIOUS
    <3>2. CASE s = {}
      BY <3>1, <3>2 DEF SumFrom
    <3>3. CASE s # {}
      <4> DEFINE r == s \ {First(s)}
      <4>1. r \in SUBSET S /\ Cardinality(r) =< n
        BY <1>1, <2>3, <3>3, WithoutFirst
      <4>2. further[r] = sum[r]
        BY <2>1, <4>1
      <4> QED
        BY <3>1, <3>3, <4>2 DEF SumFrom
    <3> QED
      BY <3>2, <3>3
  <2> QED
    BY <2>2, <2>3
<1>4. \A n \in Nat : upTo(n)
  <2> DEFINE bad == {n \in Nat : ~upTo(n)}
  <2> SUFFICES ASSUME bad # {} PROVE FALSE
    OBVIOUS
  <2>1. PICK n \in bad : \A m \in bad : ~(m < n)
    BY LeastNumber
  <2>2. n # 0 /\ n \in Nat
    BY <1>2, <2>1
  <2>3. n - 1 \in Nat /\ n - 1 < n /\ (n - 1) + 1 = n
    BY <2>2
  <2>4. upTo(n - 1)
    BY <2>1, <2>3
  <2> HIDE DEF upTo
  <2>5. upTo((n - 1) + 1)
    BY <1>3, <2>3, <2>4
  <2> QED
    BY <2>1, <2>3, <2>5
<1>5. PICK sum \in [SUBSET S -> Nat] :
        \A s \in SUBSET S :
          Cardinality(s) =< Cardinality(S) => sum[s] = SumFrom(sum, s, hand)
  BY <1>4, FS_CardinalityType
<1> QED
  BY <1>1, <1>5 DEF IsSum

\* There is only one, also between the subsets of different sets.
LEMMA SumsAgree ==
  ASSUME NEW S, IsFiniteSet(S), NEW T \in SUBSET S, NEW hand,
         NEW f, IsSum(f, S, hand), NEW g, IsSum(g, T, hand)
  PROVE  f[T] = g[T]
<1> DEFINE bad == {s \in SUBSET T : f[s] # g[s]}
<1> SUFFICES ASSUME bad # {} PROVE FALSE
  OBVIOUS
<1>1. IsFiniteSet(T)
  BY FS_Subset
<1>2. PICK s \in bad : \A r \in SUBSET s : r # s => r \notin bad
  <2>1. bad \in SUBSET (SUBSET T) /\ bad # {}
    OBVIOUS
  <2> HIDE DEF bad
  <2> QED
    BY <1>1, <2>1, LeastSubset
<1>3. f[s] = SumFrom(f, s, hand) /\ g[s] = SumFrom(g, s, hand)
  BY <1>2 DEF IsSum
<1>4. s # {}
  BY <1>2, <1>3 DEF SumFrom
<1>5. f[s \ {First(s)}] = g[s \ {First(s)}]
  BY <1>1, <1>2, <1>4, WithoutFirst, FS_Subset
<1> QED
  BY <1>2, <1>3, <1>4, <1>5 DEF SumFrom

\* In what order the units are taken makes no difference.
LEMMA SumOfOneMore ==
  ASSUME NEW S, IsFiniteSet(S), NEW hand,
         \A u \in S : hand[u].size \in Nat,
         NEW sum \in [SUBSET S -> Nat], IsSum(sum, S, hand)
  PROVE  AddsUp(sum, S, hand)
<1> USE DEF AddsUp
<1> DEFINE added(r, v) == sum[r \cup {v}] = sum[r] + hand[v].size
<1> DEFINE bad == {r \in SUBSET S : \E v \in S \ r : ~added(r, v)}
<1> SUFFICES ASSUME bad # {} PROVE FALSE
  OBVIOUS
<1>1. PICK r \in bad : \A q \in SUBSET r : q # r => q \notin bad
  <2>1. bad \in SUBSET (SUBSET S) /\ bad # {}
    OBVIOUS
  <2> HIDE DEF bad
  <2> QED
    BY <2>1, LeastSubset
<1>2. PICK v \in S \ r : ~added(r, v)
  BY <1>1
<1>3. r \in SUBSET S /\ r \cup {v} \in SUBSET S
  BY <1>1, <1>2
<1> DEFINE more == r \cup {v}
<1> DEFINE first == First(more)
<1>4. /\ first \in more /\ sum[more] = hand[first].size + sum[more \ {first}]
  <2>1. IsFiniteSet(more)
    BY <1>3, FS_Subset
  <2> QED
    BY <1>3, <2>1, WithoutFirst DEF IsSum, SumFrom
<1>5. CASE first = v
  <2>1. more \ {first} = r
    BY <1>2, <1>5
  <2>2. sum[more] = hand[v].size + sum[r]
    BY <1>4, <1>5, <2>1
  <2>3. hand[v].size \in Nat /\ sum[r] \in Nat
    BY <1>2, <1>3
  <2> QED
    BY <1>2, <2>2, <2>3
<1>6. CASE first # v
  <2> DEFINE less == r \ {first}
  <2>1. /\ first \in r /\ more \ {first} = less \cup {v}
        /\ r = less \cup {first}
        /\ less \in SUBSET r /\ less # r /\ less \in SUBSET S
        /\ first \in S \ less /\ v \in S \ less
    BY <1>2, <1>3, <1>4, <1>6
  <2>2. added(less, v) /\ added(less, first)
    BY <1>1, <2>1
  <2>3. /\ sum[less \cup {v}] = sum[less] + hand[v].size
        /\ sum[r] = sum[less] + hand[first].size
    BY <2>1, <2>2
  <2>4. sum[more] = hand[first].size + (sum[less] + hand[v].size)
    BY <1>4, <2>1, <2>3
  <2>5. hand[v].size \in Nat /\ hand[first].size \in Nat /\ sum[less] \in Nat
    BY <1>2, <2>1
  <2> QED
    BY <1>2, <2>3, <2>4, <2>5
<1> QED
  BY <1>5, <1>6

\* Weight is that function, whichever larger set it is defined on.
LEMMA WeightIsSum ==
  ASSUME NEW S, IsFiniteSet(S), NEW T \in SUBSET S, NEW hand,
         \A u \in S : hand[u].size \in Nat,
         NEW sum, IsSum(sum, S, hand)
  PROVE  Weight(T, hand) = sum[T]
<1> DEFINE own == CHOOSE f : IsSum(f, T, hand)
<1>1. Weight(T, hand) = own[T]
  BY DEF Weight, MapThenSumSet, MapThenFoldSet, IsSum, SumFrom, First
<1>2. IsFiniteSet(T) /\ \A u \in T : hand[u].size \in Nat
  BY FS_Subset
<1>3. IsSum(own, T, hand)
  BY <1>2, SumExists
<1> QED
  BY <1>1, <1>3, SumsAgree

(***************************************************************************)
(* Weight adds up: nothing weighs nothing, and a unit that was not in a    *)
(* set adds its size.                                                      *)
(***************************************************************************)
LEMMA WeightAddsUp ==
  ASSUME NEW S, IsFiniteSet(S), NEW hand,
         \A u \in S : hand[u].size \in Nat
  PROVE  /\ Weight({}, hand) = 0
         /\ \A s \in SUBSET S :
              /\ Weight(s, hand) \in Nat
              /\ \A u \in S \ s :
                   Weight(s \cup {u}, hand) = Weight(s, hand) + hand[u].size
<1>1. PICK sum \in [SUBSET S -> Nat] : IsSum(sum, S, hand)
  BY SumExists
<1>2. \A s \in SUBSET S : Weight(s, hand) = sum[s]
  BY <1>1, WeightIsSum
<1>3. sum[{}] = 0
  BY <1>1 DEF IsSum, SumFrom
<1>4. \A s \in SUBSET S : \A u \in S \ s :
        sum[s \cup {u}] = sum[s] + hand[u].size
  <2>1. AddsUp(sum, S, hand)
    BY <1>1, SumOfOneMore
  <2> QED
    BY <2>1 DEF AddsUp
<1>5. ASSUME NEW s \in SUBSET S, NEW u \in S \ s
      PROVE  s \cup {u} \in SUBSET S
  BY <1>5
<1> QED
  BY <1>1, <1>2, <1>3, <1>4, <1>5
-----------------------------------------------------------------------------
(* The bookkeeping of the loops *)

\* What is selected joins the list once, and weighs what the counter says.
LEMMA SelectBookkeeping ==
  ASSUME IndInv, Arguments, OneCopy, UsedIsWeight,
         NEW u \in DOMAIN units, u \notin selectedIds, Select(u), units' = units
  PROVE  OneCopy' /\ UsedIsWeight'
<1>1. OneCopy'
  <2>1. /\ selected \in Seq(DOMAIN units)
        /\ selected' = Append(selected, u) /\ selectedIds' = selectedIds \cup {u}
    BY DEF IndInv, TypeOK, Select
  <2>2. /\ Len(selected) \in Nat
        /\ DOMAIN selected = 1..Len(selected)
        /\ DOMAIN selected' = 1..(Len(selected) + 1)
        /\ \A i \in 1..Len(selected) : selected'[i] = selected[i]
        /\ selected'[Len(selected) + 1] = u
    BY <2>1, LenProperties, AppendProperties
  <2>3. \A i \in DOMAIN selected : selected[i] # u
    BY DEF OneCopy
  <2>4. \A i \in DOMAIN selected' :
          i \in DOMAIN selected \/ i = Len(selected) + 1
    BY <2>2
  <2>5. \A i, j \in DOMAIN selected' : selected'[i] = selected'[j] => i = j
    BY <2>2, <2>3, <2>4 DEF OneCopy
  <2>6. selectedIds' = {selected'[i] : i \in DOMAIN selected'}
    <3>1. ASSUME NEW v \in selectedIds'
          PROVE  \E i \in DOMAIN selected' : v = selected'[i]
      <4>1. CASE v = u
        BY <2>2, <4>1
      <4>2. CASE v \in selectedIds
        BY <2>2, <4>2 DEF OneCopy
      <4> QED
        BY <2>1, <4>1, <4>2
    <3>2. \A i \in DOMAIN selected' : selected'[i] \in selectedIds'
      BY <2>1, <2>2, <2>4 DEF OneCopy
    <3> QED
      BY <3>1, <3>2
  <2> QED
    BY <2>5, <2>6 DEF OneCopy
<1>2. UsedIsWeight'
  <2>1. /\ IsFiniteSet(DOMAIN units) /\ selectedIds \in SUBSET DOMAIN units
        /\ \A v \in DOMAIN units : units[v].size \in Nat
    BY DEF IndInv, TypeOK, Arguments, Card
  <2>2. Weight(selectedIds \cup {u}, units)
          = Weight(selectedIds, units) + units[u].size
    BY <2>1, WeightAddsUp
  <2> QED
    BY <2>2 DEF Select, UsedIsWeight
<1> QED
  BY <1>1, <1>2

\* Only selecting touches the list, the ids and the counter.
LEMMA NextBookkeeping ==
  ASSUME IndInv, Arguments, OneCopy, UsedIsWeight, [Next]_vars
  PROVE  OneCopy' /\ UsedIsWeight'
<1>1. CASE SelectRefreshed
  <2>1. next \in DOMAIN ranked /\ pass = "first" /\ Select(ranked[next])
        /\ units' = units
    BY <1>1 DEF SelectRefreshed, Visit, Advance
  <2>2. ranked[next] \in DOMAIN units /\ Untouched(ranked[next])
    BY <2>1 DEF IndInv, TypeOK, Progress
  <2> QED
    BY <2>1, <2>2, SelectBookkeeping DEF Untouched
<1>2. CASE SelectFitting
  <2>1. next \in DOMAIN ranked /\ Select(ranked[next]) /\ units' = units
        /\ ranked[next] \notin selectedIds
    BY <1>2 DEF SelectFitting, Visit, Advance, Open
  <2>2. ranked[next] \in DOMAIN units
    BY <2>1 DEF IndInv, TypeOK
  <2> QED
    BY <2>1, <2>2, SelectBookkeeping
<1>3. CASE UNCHANGED <<units, selected, selectedIds, usedChars>>
  BY <1>3 DEF OneCopy, UsedIsWeight
<1> QED
  BY <1>1, <1>2, <1>3 DEF Next, vars, OmitUnresolved, Defer, StartSecondPass,
     SkipDecided, OmitOverBudget, Return, Advance, Omit, Pass

\* The sums and the ids agree with the selection in every reachable
\* state.
LEMMA SpecBookkeeping ==
  Spec => [](IndInv /\ Arguments /\ OneCopy /\ UsedIsWeight)
<1>1. Init => OneCopy /\ UsedIsWeight
  <2> SUFFICES ASSUME Init PROVE OneCopy /\ UsedIsWeight
    OBVIOUS
  <2>1. OneCopy
    BY DEF Init, OneCopy
  <2>2. IsFiniteSet(DOMAIN units) /\ \A u \in DOMAIN units : units[u].size \in Nat
    BY InitIndInv DEF Arguments, IndInv, TypeOK, Card
  <2>3. Weight({}, units) = 0
    BY <2>2, WeightAddsUp
  <2> QED
    BY <2>1, <2>3 DEF Init, UsedIsWeight
<1>2. IndInv /\ Arguments /\ OneCopy /\ UsedIsWeight /\ [Next]_vars
        => (OneCopy /\ UsedIsWeight)'
  BY NextBookkeeping
<1> QED
  BY <1>1, <1>2, SpecIndInv, PTL DEF Spec

(***************************************************************************)
(* At every step of the loops the list has no unit twice, holds the units  *)
(* of the id set, and the counter is the sum of their sizes, for hands of  *)
(* any size (policy.mjs:71-99).                                            *)
(***************************************************************************)
THEOREM BookkeepingTheorem == Spec => []Bookkeeping
<1>1. IndInv /\ OneCopy /\ UsedIsWeight => Bookkeeping
  BY DEF IndInv, Bookkeeping
<1> QED
  BY <1>1, SpecBookkeeping, PTL

-----------------------------------------------------------------------------
(* The loops implement the promise *)

(***************************************************************************)
(* The place of a unit in the list is its place in the ranking.            *)
(***************************************************************************)
Ordered ==
  \A i, j \in DOMAIN ranked :
    Before(ranked[i], ranked[j], units, Turn, overlap) <=> i < j

(***************************************************************************)
(* What is carried whatever the budget, what is carried of the units ahead *)
(* of u, and the verdict on u that WorkingSetSpec asks for.                *)
(***************************************************************************)
Forced == {u \in DOMAIN units : Refreshed(u)}

Ahead(u) ==
  {v \in selectedIds : ~Refreshed(v) /\ Before(v, u, units, Turn, overlap)}

Earned(u) ==
  u \in selectedIds <=>
    /\ Resolved(units[u])
    /\ \/ Refreshed(u)
       \/ units[u].size = 0
       \/ Weight(Forced \cup Ahead(u), units) + units[u].size =< Budget

(***************************************************************************)
(* The second loop has judged every unit behind it by the units ahead of   *)
(* it, and nothing is over budget that is unresolved.                      *)
(***************************************************************************)
Judged ==
  /\ pass = "second" => \A i \in DOMAIN ranked : i < next => Earned(ranked[i])
  /\ pass = "done" => \A i \in DOMAIN ranked : Earned(ranked[i])

OverBudgetIsResolved ==
  \A u \in DOMAIN units : <<u, "budget">> \in omitted => Resolved(units[u])

\* No two units are before each other.
LEMMA BeforeAsymmetric ==
  ASSUME NEW hand, NEW turn \in Nat, NEW terms,
         NEW u \in DOMAIN hand, u \in Nat, hand[u] \in Card, terms[u] \in Nat,
         NEW v \in DOMAIN hand, v \in Nat, hand[v] \in Card, terms[v] \in Nat,
         Before(u, v, hand, turn, terms)
  PROVE  ~Before(v, u, hand, turn, terms)
<1> DEFINE a == Score(hand[u], turn, terms[u])
           b == Score(hand[v], turn, terms[v])
<1>1. a \in Int /\ b \in Int
  BY ScoreType
<1>2. ~(/\ Outscores(hand[u], terms[u], hand[v], terms[v], turn)
        /\ Outscores(hand[v], terms[v], hand[u], terms[u], turn))
  BY <1>1 DEF Outscores
<1> QED
  BY <1>2 DEF Before

\* The sorted list is in the order of the ranking (policy.mjs:61-73).
LEMMA InitOrdered == Init => Ordered
<1> SUFFICES ASSUME Init PROVE Ordered
  OBVIOUS
<1>1. /\ DOMAIN units \subseteq Nat /\ Turn \in Nat
      /\ \A u \in DOMAIN units : units[u] \in Card /\ overlap[u] \in Nat
  BY WorkingSetAssumption DEF Init
<1>2. RankedOnce /\ Arguments
  BY InitRankedOnce
<1>3. ASSUME NEW i \in DOMAIN ranked PROVE ranked[i] \in DOMAIN units
  BY <1>3 DEF Init
<1>4. \A i, j \in DOMAIN ranked :
        i < j => Before(ranked[i], ranked[j], units, Turn, overlap)
  BY DEF Init, IsRanking
<1>5. ASSUME NEW i \in DOMAIN ranked, NEW j \in DOMAIN ranked, ~(i < j)
      PROVE  ~Before(ranked[i], ranked[j], units, Turn, overlap)
  <2>1. i = j \/ j < i
    BY <1>2, <1>5 DEF Arguments
  <2>2. CASE i = j
    BY <1>1, <1>3, <2>2, BeforeIrreflexive
  <2>3. CASE j < i
    BY <1>1, <1>3, <1>4, <2>3, BeforeAsymmetric
  <2> QED
    BY <2>1, <2>2, <2>3
<1> QED
  BY <1>4, <1>5 DEF Ordered

\* No step touches what the order depends on.
LEMMA OrderedKept == Ordered /\ [Next]_vars => Ordered'
  BY DEF Ordered, Next, vars, OmitUnresolved, Defer, SelectRefreshed,
         StartSecondPass, SkipDecided, OmitOverBudget, SelectFitting, Return,
         Advance

\* What is selected when the second loop comes to a unit: the refreshed units
\* and those it took before, of which the counter is the sum.
LEMMA UsedSoFar ==
  ASSUME IndInv, Arguments, UsedIsWeight, Ordered,
         pass = "second", next \in DOMAIN ranked
  PROVE  usedChars = Weight(Forced \cup Ahead(ranked[next]), units)
<1>1. selectedIds = Forced \cup Ahead(ranked[next])
  <2>1. ASSUME NEW v \in selectedIds, ~Refreshed(v)
        PROVE  Before(v, ranked[next], units, Turn, overlap)
    <3>1. PICK j \in DOMAIN ranked : ranked[j] = v
      BY <2>1 DEF IndInv, TypeOK, RankedOnce
    <3>2. j < next
      BY <2>1, <3>1 DEF IndInv, Progress, Sorted
    <3> QED
      BY <3>1, <3>2 DEF Ordered
  <2>2. ASSUME NEW v \in Forced PROVE v \in selectedIds
    <3>1. PICK j \in DOMAIN ranked : ranked[j] = v
      BY <2>2 DEF Forced, IndInv, RankedOnce
    <3> QED
      BY <2>2, <3>1 DEF Forced, IndInv, Progress, Sorted, Decided
  <2> QED
    BY <2>1, <2>2 DEF Forced, Ahead, IndInv, TypeOK
<1> QED
  BY <1>1 DEF UsedIsWeight

\* Units that are selected later are not ahead of one that was judged.
LEMMA EarnedKept ==
  ASSUME Ordered, Arguments, NEW n \in DOMAIN ranked,
         NEW i \in DOMAIN ranked, i < n, Earned(ranked[i]),
         selectedIds' \in {selectedIds, selectedIds \cup {ranked[n]}},
         ranked[i] \in selectedIds' <=> ranked[i] \in selectedIds,
         UNCHANGED <<units, overlap, ranked>>
  PROVE  Earned(ranked[i])'
<1>1. ~Before(ranked[n], ranked[i], units, Turn, overlap)
  BY DEF Ordered, Arguments
<1>2. Ahead(ranked[i])' = Ahead(ranked[i])
  BY <1>1 DEF Ahead, Refreshed
<1>3. Forced' = Forced
  BY DEF Forced, Refreshed
<1> QED
  BY <1>2, <1>3 DEF Earned, Refreshed

\* The second loop earns its verdicts one by one (policy.mjs:87-99).
LEMMA NextJudged ==
  ASSUME IndInv, Arguments, UsedIsWeight, Ordered, Judged, [Next]_vars
  PROVE  Judged'
<1>0. PICK n : n = next
  OBVIOUS
<1> DEFINE u == ranked[n]
<1> USE <1>0
<1>1. CASE Visit("second") /\ Advance /\ Earned(u)'
            /\ selectedIds' \in {selectedIds, selectedIds \cup {u}}
  <2>1. /\ pass = "second" /\ pass' = "second" /\ next' = n + 1
        /\ n \in DOMAIN ranked /\ UNCHANGED <<units, overlap, ranked>>
    BY <1>1 DEF Visit, Advance
  <2>2. ASSUME NEW i \in DOMAIN ranked, i < n PROVE Earned(ranked[i])'
    <3>1. Earned(ranked[i])
      BY <2>1, <2>2 DEF Judged
    <3>2. ranked[i] # u
      BY <2>1, <2>2 DEF IndInv, RankedOnce, Arguments
    <3> QED
      BY <1>1, <2>1, <2>2, <3>1, <3>2, EarnedKept
  <2>3. \A i \in DOMAIN ranked : i < n + 1 => i < n \/ i = n
    BY <2>1 DEF Arguments
  <2> QED
    BY <1>1, <2>1, <2>2, <2>3 DEF Judged
<1>2. CASE SkipDecided
  <2>1. /\ Visit("second") /\ Advance /\ Pass /\ UNCHANGED <<units, overlap>>
        /\ u \in selectedIds \/ ~Resolved(units[u])
    BY <1>2 DEF SkipDecided, Advance
  <2>2. n \in DOMAIN ranked /\ Sorted(u)
    BY <2>1 DEF Visit, IndInv, Progress, Arguments
  <2>3. Earned(u)'
    BY <2>1, <2>2
       DEF Earned, Sorted, Pass, Advance, Refreshed, RefreshedThisTurn
  <2> QED
    BY <1>1, <2>1, <2>3 DEF Pass
<1>3. CASE OmitOverBudget
  <2>1. /\ Visit("second") /\ Advance /\ Omit(u, "budget")
        /\ u \notin selectedIds /\ Resolved(units[u]) /\ TooLarge(u)
    BY <1>3 DEF OmitOverBudget, Open
  <2>2. n \in DOMAIN ranked /\ Sorted(u) /\ u \in DOMAIN units
    BY <2>1 DEF Visit, IndInv, Progress, Arguments, TypeOK
  <2>3. units[u].size \in Nat /\ usedChars \in Nat /\ Budget \in Nat
    BY <2>2, BudgetAssumption DEF IndInv, TypeOK, Card
  <2>4. usedChars = Weight(Forced \cup Ahead(u), units)
    BY <2>1, UsedSoFar DEF Visit
  <2>5. ~(Weight(Forced \cup Ahead(u), units) + units[u].size =< Budget)
        /\ units[u].size # 0
    BY <2>1, <2>3, <2>4 DEF TooLarge
  <2>6. /\ UNCHANGED <<selectedIds, units, overlap, ranked>>
        /\ Forced' = Forced /\ Ahead(u)' = Ahead(u)
    BY <2>1 DEF Omit, Advance, Forced, Ahead, Refreshed
  <2>7. Earned(u)'
    BY <2>1, <2>2, <2>5, <2>6 DEF Earned, Sorted, Refreshed
  <2> QED
    BY <1>1, <2>1, <2>6, <2>7
<1>4. CASE SelectFitting
  <2>1. /\ Visit("second") /\ Advance /\ Select(u)
        /\ u \notin selectedIds /\ Resolved(units[u]) /\ ~TooLarge(u)
    BY <1>4 DEF SelectFitting, Open
  <2>2. n \in DOMAIN ranked /\ u \in DOMAIN units
    BY <2>1 DEF Visit, IndInv, Arguments, TypeOK
  <2>3. units[u].size \in Nat /\ usedChars \in Nat /\ Budget \in Nat
    BY <2>2, BudgetAssumption DEF IndInv, TypeOK, Card
  <2>4. usedChars = Weight(Forced \cup Ahead(u), units)
    BY <2>1, UsedSoFar DEF Visit
  <2>5. \/ units[u].size = 0
        \/ Weight(Forced \cup Ahead(u), units) + units[u].size =< Budget
    BY <2>1, <2>3, <2>4 DEF TooLarge
  <2>6. ~Before(u, u, units, Turn, overlap)
    BY <2>2 DEF Ordered, Arguments
  <2>7. /\ UNCHANGED <<units, overlap, ranked>>
        /\ selectedIds' = selectedIds \cup {u}
        /\ Forced' = Forced /\ Ahead(u)' = Ahead(u)
    BY <2>1, <2>6 DEF Select, Advance, Forced, Ahead, Refreshed
  <2>8. Earned(u)'
    BY <2>1, <2>5, <2>7 DEF Earned, Refreshed
  <2> QED
    BY <1>1, <2>1, <2>7, <2>8
<1>5. CASE StartSecondPass
  <2>1. pass' = "second" /\ next' = 1 /\ ranked' = ranked
    BY <1>5 DEF StartSecondPass
  <2>2. \A i \in DOMAIN ranked : ~(i < 1)
    BY DEF Arguments
  <2> QED
    BY <2>1, <2>2 DEF Judged
<1>6. CASE Return
  <2>1. /\ pass = "second" /\ n \notin DOMAIN ranked /\ pass' = "done"
        /\ UNCHANGED <<units, overlap, ranked, selectedIds>>
    BY <1>6 DEF Return, Pass
  <2>2. \A i \in DOMAIN ranked : i < n
    BY <2>1 DEF IndInv, TypeOK, Arguments
  <2>3. \A i \in DOMAIN ranked : Earned(ranked[i])'
    BY <2>1, <2>2 DEF Judged, Earned, Forced, Ahead, Refreshed
  <2> QED
    BY <2>1, <2>3 DEF Judged
<1>7. CASE OmitUnresolved \/ Defer \/ SelectRefreshed
  BY <1>7 DEF OmitUnresolved, Defer, SelectRefreshed, Visit, Advance, Judged
<1>8. CASE UNCHANGED vars
  BY <1>8 DEF vars, Judged, Earned, Forced, Ahead, Refreshed
<1> QED
  BY <1>2, <1>3, <1>4, <1>5, <1>6, <1>7, <1>8 DEF Next

\* A unit is over budget in the second loop only, which looks at resolved ones.
LEMMA NextOverBudget ==
  ASSUME IndInv, Arguments, OverBudgetIsResolved, [Next]_vars
  PROVE  OverBudgetIsResolved'
<1>1. CASE OmitUnresolved
  BY <1>1 DEF OmitUnresolved, Omit, Advance, OverBudgetIsResolved
<1>2. CASE OmitOverBudget
  BY <1>2 DEF OmitOverBudget, Omit, Open, Advance, OverBudgetIsResolved
<1>3. CASE UNCHANGED <<units, omitted>>
  BY <1>3 DEF OverBudgetIsResolved
<1> QED
  BY <1>1, <1>2, <1>3 DEF Next, vars, Defer, SelectRefreshed, StartSecondPass,
     SkipDecided, SelectFitting, Return, Advance, Select, Pass

RefinementInv ==
  /\ IndInv /\ Arguments /\ UsedIsWeight
  /\ Ordered /\ Judged /\ OverBudgetIsResolved

\* What the refinement needs holds of every reachable state.
LEMMA SpecRefinementInv == Spec => []RefinementInv
<1>1. Init => Ordered /\ Judged /\ OverBudgetIsResolved
  BY InitOrdered DEF Init, Judged, OverBudgetIsResolved
<1>2. RefinementInv /\ [Next]_vars
        => (Ordered /\ Judged /\ OverBudgetIsResolved)'
  BY OrderedKept, NextJudged, NextOverBudget DEF RefinementInv
<1> QED
  BY <1>1, <1>2, SpecBookkeeping, PTL DEF Spec, RefinementInv

(***************************************************************************)
(* The operators of WorkingSetSpec are those of WorkingSet: both have them *)
(* from Selection.                                                         *)
(***************************************************************************)
LEMMA SameSelection ==
  ASSUME NEW hand, NEW turn, NEW terms, NEW chosen
  PROVE  /\ \A c : Promise!Resolved(c) = Resolved(c)
         /\ Promise!IsWorkingSet(chosen, hand, turn, terms)
              = IsWorkingSet(chosen, hand, turn, terms)
  BY DEF Promise!IsWorkingSet, Promise!Weight, Promise!Before,
         Promise!Outscores, Promise!Score, Promise!AtLeast, Promise!Resolved,
         Promise!RefreshedThisTurn, Promise!MapThenSumSet,
         Promise!MapThenFoldSet,
         IsWorkingSet, Weight, Before, Outscores, Score, AtLeast, Resolved,
         RefreshedThisTurn, MapThenSumSet, MapThenFoldSet

\* The selection of a finished run is the one WorkingSetSpec asks for.
ReturnsWorkingSet ==
  pass = "done" => IsWorkingSet(selectedIds, units, Turn, overlap)

\* A run that returned has selected what WorkingSetSpec asks for.
LEMMA ReturnedIsWorkingSet == RefinementInv => ReturnsWorkingSet
<1> SUFFICES ASSUME RefinementInv, pass = "done"
             PROVE  IsWorkingSet(selectedIds, units, Turn, overlap)
  BY DEF ReturnsWorkingSet
<1>1. selectedIds \subseteq DOMAIN units
  BY DEF RefinementInv, IndInv, TypeOK
<1> DEFINE forced == {v \in DOMAIN units : RefreshedThisTurn(units[v], Turn)}
           ahead(u) == {v \in selectedIds \ forced :
                          Before(v, u, units, Turn, overlap)}
<1>2. forced = Forced
  BY DEF Forced, Refreshed
<1>3. ASSUME NEW u \in DOMAIN units
      PROVE  u \in selectedIds <=>
               /\ Resolved(units[u])
               /\ \/ u \in forced
                  \/ units[u].size = 0
                  \/ Weight(forced \cup ahead(u), units) + units[u].size
                       =< Budget
  <2>1. PICK i \in DOMAIN ranked : ranked[i] = u
    BY DEF RefinementInv, IndInv, RankedOnce
  <2>2. Earned(u)
    BY <2>1 DEF RefinementInv, Judged
  <2>3. ahead(u) = Ahead(u)
    BY <1>1 DEF Ahead, Refreshed
  <2> QED
    BY <1>2, <2>2, <2>3 DEF Earned, Refreshed
<1> QED
  BY <1>1, <1>3 DEF IsWorkingSet

(***************************************************************************)
(* The two loops implement the promise of one step: nothing is answered    *)
(* before Return, Return answers the working set of the hand with every    *)
(* unit in one of its three parts, and nothing is changed afterwards, for  *)
(* hands of any size (policy.mjs:61-101).                                  *)
(***************************************************************************)
THEOREM PromiseTheorem == Spec => KeepsPromise
<1>1. Init => Promise!Init
  BY DEF Init, Promise!Init, Promise!pending, answer
<1>2. RefinementInv /\ ReturnsWorkingSet' /\ [Next]_vars
        => [Promise!Answer]_<<units, overlap, answer>>
  <2> SUFFICES ASSUME RefinementInv, ReturnsWorkingSet', [Next]_vars
               PROVE  [Promise!Answer]_<<units, overlap, answer>>
    OBVIOUS
  <2>1. CASE Return
    <3>1. /\ pass = "second" /\ pass' = "done"
          /\ UNCHANGED <<units, overlap, selectedIds, omitted>>
      BY <2>1 DEF Return, Pass
    <3> DEFINE live == {u \in DOMAIN units : Resolved(units[u])}
    <3>2. IsWorkingSet(selectedIds, units, Turn, overlap)
      BY <3>1 DEF ReturnsWorkingSet
    <3>3. \A u \in DOMAIN units : Decided(u)
      <4>1. \A i \in DOMAIN ranked : i < next
        BY <2>1 DEF Return, RefinementInv, IndInv, TypeOK, Arguments
      <4>2. \A i \in DOMAIN ranked : Decided(ranked[i])
        BY <3>1, <4>1 DEF RefinementInv, IndInv, Progress
      <4> QED
        BY <4>2 DEF RefinementInv, IndInv, RankedOnce
    <3>4. {u \in DOMAIN units : <<u, "unresolved">> \in omitted}
            = DOMAIN units \ live
      BY <3>3 DEF Decided
    <3>5. {u \in DOMAIN units : <<u, "budget">> \in omitted}
            = live \ selectedIds
      BY <3>3 DEF RefinementInv, OverBudgetIsResolved, Decided
    <3>6. selectedIds \in SUBSET DOMAIN units /\ ~answer.done
      BY <3>1 DEF RefinementInv, IndInv, TypeOK, answer
    <3>7. answer' = [done |-> TRUE, selected |-> selectedIds,
                     unresolved |-> DOMAIN units \ live,
                     budget |-> live \ selectedIds]
      BY <3>1, <3>4, <3>5 DEF answer
    <3> QED
      BY <3>1, <3>2, <3>6, <3>7, SameSelection DEF Promise!Answer
  <2>2. CASE Next /\ ~Return
    <3>1. pass # "done" /\ pass' # "done" /\ UNCHANGED <<units, overlap>>
      BY <2>2 DEF Next, OmitUnresolved, Defer, SelectRefreshed,
         StartSecondPass, SkipDecided, OmitOverBudget, SelectFitting, Visit,
         Advance
    <3> QED
      BY <3>1 DEF answer
  <2>3. CASE UNCHANGED vars
    BY <2>3 DEF vars, answer
  <2> QED
    BY <2>1, <2>2, <2>3
<1> QED
  BY <1>1, <1>2, SpecRefinementInv, ReturnedIsWorkingSet, PTL
     DEF Spec, KeepsPromise, Promise!Spec
=============================================================================
