--------------------------- MODULE WorkingSetSpec ---------------------------
(***************************************************************************)
(* What a caller of selectWorkingSet (src/policy.mjs) is promised: one     *)
(* answer for the hand it passed in, in a single step.  WorkingSet refines *)
(* this with the two loops of the code.                                    *)
(***************************************************************************)
EXTENDS Selection

CONSTANTS Turn, Hands, Overlaps

VARIABLES units, overlap, answer

pending == [done |-> FALSE, selected |-> {}, unresolved |-> {}, budget |-> {}]

Init == /\ units \in Hands
        /\ overlap \in Overlaps
        /\ answer = pending

Answer ==
  /\ ~answer.done
  /\ \E chosen \in SUBSET DOMAIN units :
       /\ IsWorkingSet(chosen, units, Turn, overlap)
       /\ LET live == {u \in DOMAIN units : Resolved(units[u])}
          IN answer' = [done |-> TRUE, selected |-> chosen,
                        unresolved |-> DOMAIN units \ live,
                        budget |-> live \ chosen]
  /\ UNCHANGED <<units, overlap>>

Spec == Init /\ [][Answer]_<<units, overlap, answer>>
=============================================================================
