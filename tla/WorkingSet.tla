----------------------------- MODULE WorkingSet -----------------------------
(***************************************************************************)
(* selectWorkingSet of src/policy.mjs: the two passes over the ranked      *)
(* units that decide which bodies a request carries, one action for each   *)
(* branch of each loop.  `pass' and `next' are the program counter: the    *)
(* loop that runs and the rank it looks at.                                *)
(***************************************************************************)
EXTENDS Selection, Sequences

CONSTANTS
  Turn,       \* the turn the request is built in
  Hands,      \* the hands of cards a caller may pass
  Overlaps    \* for each unit, how many task terms it contains

ASSUME WorkingSetAssumption ==
  /\ Turn \in Nat
  /\ \A hand \in Hands : /\ DOMAIN hand \subseteq Nat
                         /\ IsFiniteSet(DOMAIN hand)
                         /\ \A u \in DOMAIN hand : hand[u] \in Card
  /\ \A overlap \in Overlaps, hand \in Hands :
       overlap \in [DOMAIN hand -> Nat]

VARIABLES
  units, overlap,    \* the arguments
  ranked,            \* the sorted list
  pass, next,        \* the running loop, and its position in ranked
  selected,          \* the bodies the request will carry, in order
  selectedIds,
  omitted,           \* pairs of a unit and the reason it is left out
  usedChars

vars == <<units, overlap, ranked, pass, next, selected, selectedIds, omitted,
          usedChars>>

Refreshed(u) == RefreshedThisTurn(units[u], Turn)

Init ==
  /\ units \in Hands
  /\ overlap \in Overlaps
  /\ ranked \in [1..Cardinality(DOMAIN units) -> DOMAIN units]
  /\ IsRanking(ranked, units, Turn, overlap)
  /\ pass = "first" /\ next = 1
  /\ selected = <<>> /\ selectedIds = {} /\ omitted = {} /\ usedChars = 0

\* The unit the running loop looks at.
Visit(p) == pass = p /\ next \in DOMAIN ranked

Advance == next' = next + 1 /\ UNCHANGED <<units, overlap, ranked, pass>>

\* A plausible bug: the size of a selected body is not added up.
SelectUncounted(u) ==
  /\ selected' = Append(selected, u)
  /\ selectedIds' = selectedIds \cup {u}
  /\ UNCHANGED <<omitted, usedChars>>

Select(u) ==
  /\ selected' = Append(selected, u)
  /\ selectedIds' = selectedIds \cup {u}
  /\ usedChars' = usedChars + units[u].size
  /\ UNCHANGED omitted

Omit(u, reason) ==
  /\ omitted' = omitted \cup {<<u, reason>>}
  /\ UNCHANGED <<selected, selectedIds, usedChars>>

Pass == UNCHANGED <<selected, selectedIds, omitted, usedChars>>

OmitUnresolved ==
  /\ Visit("first") /\ ~Resolved(units[ranked[next]])
  /\ Omit(ranked[next], "unresolved")
  /\ Advance

\* A plausible bug: refreshed units compete like all others.
DeferAny ==
  /\ Visit("first") /\ Resolved(units[ranked[next]])
  /\ Pass
  /\ Advance

Defer ==
  /\ Visit("first")
  /\ Resolved(units[ranked[next]]) /\ ~Refreshed(ranked[next])
  /\ Pass
  /\ Advance

SelectRefreshed ==
  /\ Visit("first") /\ Refreshed(ranked[next])
  /\ Select(ranked[next])
  /\ Advance

\* Plausible bugs: the second loop starts before the list, or at its end.
StartSecondPassAtZero ==
  /\ pass = "first" /\ next \notin DOMAIN ranked
  /\ pass' = "second" /\ next' = 0
  /\ Pass
  /\ UNCHANGED <<units, overlap, ranked>>

StartSecondPassAtEnd ==
  /\ pass = "first" /\ next \notin DOMAIN ranked
  /\ pass' = "second"
  /\ Pass
  /\ UNCHANGED <<units, overlap, ranked, next>>

StartSecondPass ==
  /\ pass = "first" /\ next \notin DOMAIN ranked
  /\ pass' = "second" /\ next' = 1
  /\ Pass
  /\ UNCHANGED <<units, overlap, ranked>>

SkipDecided ==
  /\ Visit("second")
  /\ ranked[next] \in selectedIds \/ ~Resolved(units[ranked[next]])
  /\ Pass
  /\ Advance

\* A plausible bug: the second loop forgets what the first selected.
OpenAgain(u) == Resolved(units[u])

\* Still open in the second pass.
Open(u) == u \notin selectedIds /\ Resolved(units[u])

\* A plausible bug: each body is compared with the whole budget.
TooLargeAlone(u) == units[u].size > Budget

TooLarge(u) == units[u].size > 0 /\ usedChars + units[u].size > Budget

OmitOverBudget ==
  /\ Visit("second") /\ Open(ranked[next]) /\ TooLarge(ranked[next])
  /\ Omit(ranked[next], "budget")
  /\ Advance

SelectFitting ==
  /\ Visit("second") /\ Open(ranked[next]) /\ ~TooLarge(ranked[next])
  /\ Select(ranked[next])
  /\ Advance

Return ==
  /\ pass = "second" /\ next \notin DOMAIN ranked
  /\ pass' = "done"
  /\ Pass
  /\ UNCHANGED <<units, overlap, ranked, next>>

Next ==
  \/ OmitUnresolved \/ Defer \/ SelectRefreshed \/ StartSecondPass
  \/ SkipDecided \/ OmitOverBudget \/ SelectFitting \/ Return

Spec == Init /\ [][Next]_vars

-----------------------------------------------------------------------------

\* Every variable keeps its type, and what is chosen or left out was asked for.
TypeOK ==
  /\ \A u \in DOMAIN units : units[u] \in Card
  /\ ranked \in [1..Cardinality(DOMAIN units) -> DOMAIN units]
  /\ pass \in {"first", "second", "done"}
  /\ next \in 1..(Cardinality(DOMAIN units) + 1)
  /\ selected \in Seq(DOMAIN units)
  /\ selectedIds \subseteq DOMAIN units
  /\ omitted \subseteq (DOMAIN units) \X {"unresolved", "budget"}
  /\ usedChars \in Nat

(***************************************************************************)
(* The cap can be exceeded only by units refreshed in this turn: once any  *)
(* non-empty body that was not refreshed is in, everything chosen          *)
(* together fits (policy.mjs:82-99; PCR 0080: "first-time reads still      *)
(* compete for it").                                                       *)
(***************************************************************************)
BudgetRespected ==
  (\E u \in selectedIds : ~Refreshed(u) /\ units[u].size > 0)
    => usedChars =< Budget

(***************************************************************************)
(* One current copy: no unit is listed twice although both loops may reach *)
(* it, and the list agrees with the id set the second loop consults        *)
(* (policy.mjs:75-99).                                                     *)
(***************************************************************************)
OneCopy ==
  /\ \A i, j \in DOMAIN selected : selected[i] = selected[j] => i = j
  /\ selectedIds = {selected[i] : i \in DOMAIN selected}

(***************************************************************************)
(* On return every unit has exactly one verdict, and the right one:        *)
(* unresolved units are never carried, refreshed ones are never dropped    *)
(* for the budget (policy.mjs:80-101).                                     *)
(***************************************************************************)
OneVerdict ==
  pass = "done" =>
    \A u \in DOMAIN units :
      /\ <<u, "unresolved">> \in omitted <=> ~Resolved(units[u])
      /\ Refreshed(u) => u \in selectedIds
      /\ u \in selectedIds <=> <<u, "unresolved">> \notin omitted
                               /\ <<u, "budget">> \notin omitted

\* The counter the budget test trusts is the size of what was chosen.
UsedIsWeight == usedChars = Weight(selectedIds, units)

(***************************************************************************)
(* What the two loops share agrees with itself at every step: the list,    *)
(* the set of ids and the counter are of the same units                    *)
(* (policy.mjs:71-99).                                                     *)
(***************************************************************************)
Bookkeeping == TypeOK /\ OneCopy /\ UsedIsWeight

(***************************************************************************)
(* The loops deliver the promise of WorkingSetSpec: a single, correct,     *)
(* final answer.                                                           *)
(***************************************************************************)
answer ==
  IF pass = "done"
  THEN [done |-> TRUE, selected |-> selectedIds,
        unresolved |-> {u \in DOMAIN units : <<u, "unresolved">> \in omitted},
        budget |-> {u \in DOMAIN units : <<u, "budget">> \in omitted}]
  ELSE [done |-> FALSE, selected |-> {}, unresolved |-> {}, budget |-> {}]

Promise == INSTANCE WorkingSetSpec WITH answer <- answer

KeepsPromise == Promise!Spec
=============================================================================
