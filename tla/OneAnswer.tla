----------------------------- MODULE OneAnswer -----------------------------
(***************************************************************************)
(* What FreshRegistry is promised of the semantic engine's runner: every   *)
(* question it asks is settled, once, by an answer or by a failure.        *)
(* EngineClient refines this with a child process, its pipes and a timer.  *)
(***************************************************************************)
VARIABLES asked, outcome

vars == <<asked, outcome>>

Init == asked = FALSE /\ outcome = "none"

Ask == /\ ~asked
       /\ asked' = TRUE
       /\ outcome' \in {"none", "failure"}

Settle == /\ asked
          /\ outcome = "none"
          /\ outcome' \in {"answer", "failure"}
          /\ UNCHANGED asked

\* No question is settled twice, or before it was asked.
Safety == Init /\ [][Ask \/ Settle]_vars

Spec == Safety /\ WF_vars(Settle)
=============================================================================
