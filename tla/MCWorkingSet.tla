---------------------------- MODULE MCWorkingSet ----------------------------
(***************************************************************************)
(* What is selected for a request, and how its text is read back.          *)
(*                                                                         *)
(* Three units in turn 13 with a budget of 4: bodies that are empty, small *)
(* or as large as the budget, units that are unresolved, pinned, first     *)
(* read in this turn, refreshed in this turn, or out of the recency window.*)
(*                                                                         *)
(* The text of up to two units, or any beginning of the text of one with   *)
(* words before it; contents that hold the frames themselves, names that   *)
(* hold entities and quotes (Projection).                                  *)
(***************************************************************************)
EXTENDS WorkingSet

MCTurn == 13

Face(state, pinned, used, changed, count, size) ==
  [state |-> state, pinned |-> pinned, lastUsedAt |-> used,
   changedAt |-> changed, changeCount |-> count, size |-> size]

Faces == { Face("unresolved", FALSE, 13, 13, 1, 2),
           Face("unresolved", TRUE, 12, 3, 0, 2),
           Face("resolved", FALSE, 13, 13, 0, 3),
           Face("resolved", FALSE, 13, 13, 1, 2),
           Face("resolved", FALSE, 13, 13, 2, 5),
           Face("resolved", FALSE, 0, 0, 0, 1),
           Face("resolved", FALSE, 5, 0, 0, 0),
           Face("resolved", TRUE, 1, 1, 1, 4),
           Face("resolved", FALSE, 12, 12, 1, 2) }

MCHands == [1..3 -> Faces]

MCOverlaps == {<<0, 0, 0>>, <<0, 1, 0>>, <<0, 1, 2>>}

-----------------------------------------------------------------------------
VARIABLES
  part,     \* what is looked at: "policy", or a text that is "whole" or "cut"
  framed, text, cursor, decoded, status

reading == <<framed, text, cursor, decoded, status>>

Values ==
  {<<"a">>, <<"&", "lt;">>, <<"\"", ">">>, <<"&", "amp;", "quot;">>,
   <<"a", "content-bytes=">>}

Opens == "<freshctx-unit "
Closes == "\n</freshctx-unit>"

Contents ==
  {<<>>, <<"x">>, <<"x", "\n">>, <<Closes>>, <<Closes, "x">>,
   <<Opens, ">", "\n">>, <<"x", Closes, "\n">>}

Words == {<<>>, <<"words", "\n">>, <<Opens>>, <<Opens, ">", "\n">>}

Whole == INSTANCE Projection WITH
  Preambles <- {<<>>}, MaxUnits <- 2, Cut <- FALSE, units <- framed

CutShort == INSTANCE Projection WITH
  Preambles <- Words, MaxUnits <- 1, Cut <- TRUE, units <- framed

ASSUME TextsAssumption ==
  Whole!ProjectionAssumption /\ CutShort!ProjectionAssumption

\* The hand of the policy while a text is read.
FirstHand == units = [u \in 1..3 |-> Face("resolved", FALSE, 0, 0, 0, 1)]
             /\ overlap = <<0, 0, 0>>

MCInit ==
  \/ /\ part = "policy" /\ Init
     /\ framed = <<>> /\ text = <<>> /\ cursor = 0 /\ decoded = <<>>
     /\ status = "done"
  \/ part = "whole" /\ FirstHand /\ Init /\ Whole!Init
  \/ part = "cut" /\ FirstHand /\ Init /\ CutShort!Init

MCNext ==
  /\ UNCHANGED part
  /\ \/ part = "policy" /\ Next /\ UNCHANGED reading
     \/ part = "whole" /\ Whole!Next /\ UNCHANGED vars
     \/ part = "cut" /\ CutShort!Next /\ UNCHANGED vars

MCSpec == MCInit /\ [][MCNext]_<<vars, part, reading>>

(* A text is read back as it was written, as far as it goes
   (projector.mjs:27-83). *)
ReadBack ==
  IF part = "cut" THEN CutShort!ReadBack ELSE part = "whole" => Whole!ReadBack
=============================================================================
