----------------------------- MODULE Selection -----------------------------
(***************************************************************************)
(* The scoring and ranking rules of src/policy.mjs, and what a finished    *)
(* selection is, apart from the loops that compute it.                     *)
(*                                                                         *)
(* A card is what the policy reads of a registered unit:                   *)
(*   state ("resolved" or "unresolved"), pinned, lastUsedAt, changedAt,    *)
(*   changeCount and size (the length of its content).                     *)
(* A hand of cards is a function from unit ids to cards.  Unit ids are     *)
(* numbers, ordered as localeCompare orders the code's hashes.             *)
(***************************************************************************)
EXTENDS Integers, FiniteSetsExt

CONSTANT Budget          \* effective.budgetChars

ASSUME BudgetAssumption == Budget \in Nat

Card == [state : {"resolved", "unresolved"}, pinned : BOOLEAN,
         lastUsedAt : Nat, changedAt : Nat, changeCount : Nat, size : Nat]

AtLeast(n, m) == IF n >= m THEN n ELSE m

Resolved(card) == card.state = "resolved"

\* A unit the registry saw change in this very turn, after its first read.
RefreshedThisTurn(card, turn) ==
  Resolved(card) /\ card.changeCount >= 1 /\ card.changedAt = turn

(***************************************************************************)
(* scoreUnit, times 6 * max(1, budget), which makes every weight integral: *)
(* recency 4 over a window of 12 turns, 8 for each task term found in the  *)
(* unit (overlap), 2 for a change in this turn, 100 for a pin, and -1.5    *)
(* for a size of one budget.  Only resolved units have a score.            *)
(***************************************************************************)
Score(card, turn, overlap) ==
  LET scale   == AtLeast(1, Budget)
      age     == AtLeast(0, turn - card.lastUsedAt)
      recency == AtLeast(0, 12 - age)
  IN    2 * scale * recency
      + 48 * scale * overlap
      + (IF card.changedAt = turn THEN 12 * scale ELSE 0)
      + (IF card.pinned THEN 600 * scale ELSE 0)
      - 9 * card.size

(***************************************************************************)
(* The comparator: pins first, then the higher score (an unresolved unit   *)
(* has minus infinity), then the smaller id.                               *)
(***************************************************************************)
Outscores(a, m, b, n, turn) ==
  /\ Resolved(a)
  /\ Resolved(b) => Score(a, turn, m) > Score(b, turn, n)

Before(u, v, hand, turn, overlap) ==
  \/ hand[u].pinned /\ ~hand[v].pinned
  \/ /\ hand[u].pinned = hand[v].pinned
     /\ \/ Outscores(hand[u], overlap[u], hand[v], overlap[v], turn)
        \/ /\ ~Outscores(hand[u], overlap[u], hand[v], overlap[v], turn)
           /\ ~Outscores(hand[v], overlap[v], hand[u], overlap[u], turn)
           /\ u < v

\* A sorted list of the whole hand.
IsRanking(r, hand, turn, overlap) ==
  /\ r \in [1..Cardinality(DOMAIN hand) -> DOMAIN hand]
  /\ \A u \in DOMAIN hand : \E i \in DOMAIN r : r[i] = u
  /\ \A i, j \in DOMAIN r : i < j => Before(r[i], r[j], hand, turn, overlap)

Weight(S, hand) == MapThenSumSet(LAMBDA u : hand[u].size, S)

(***************************************************************************)
(* What a finished selection must be: nothing unresolved, everything       *)
(* refreshed in this turn whatever its size, and of the rest, in ranking   *)
(* order, each unit that is empty or still fits when its turn comes.       *)
(***************************************************************************)
IsWorkingSet(chosen, hand, turn, overlap) ==
  LET forced == {u \in DOMAIN hand : RefreshedThisTurn(hand[u], turn)}
      ahead(u) == {v \in chosen \ forced : Before(v, u, hand, turn, overlap)}
  IN  /\ chosen \subseteq DOMAIN hand
      /\ \A u \in DOMAIN hand :
           u \in chosen <=>
             /\ Resolved(hand[u])
             /\ \/ u \in forced
                \/ hand[u].size = 0
                \/ Weight(forced \cup ahead(u), hand) + hand[u].size =< Budget
=============================================================================
