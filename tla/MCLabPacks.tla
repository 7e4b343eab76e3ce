----------------------------- MODULE MCLabPacks -----------------------------
(***************************************************************************)
(* The benchmarks, with the resolver of Anchors, and the results the       *)
(* repository records for them.  The worlds:                               *)
(*   labs:  the sixteen development labs                                   *)
(*   smoke: the traces of the smoke pack, against every baseline           *)
(***************************************************************************)
EXTENDS LabPacks

A == INSTANCE Anchors

LocateByAnchors(prev, cur, start) ==
  A!ResolveRegion(prev, cur, A!MakeAnchors(prev, start))

LabCellsAll ==
  InsertBeforeCells \cup InsertBeforeInteriorCells \cup InsertBeforeTieCells
  \cup InsertBeforeUniqueLastCells \cup GrowInsideCells \cup GrowShrinkExactDecoyCells
  \cup DeleteUnitCells \cup DeleteUnitFailCloseCells \cup DuplicateBoundaryCells
  \cup DuplicateBoundaryMarkersCells \cup MoveCrossFileCells \cup MoveInFileCells
  \cup MoveLookalikeCells \cup ParseBrokenCells \cup RenameBoundaryCells
  \cup StoredStartLeftoverCells

Outcome(recall, exact, method) == [recall |-> recall, exact |-> exact, method |-> method]

Lost     == Outcome(0, 0, "unresolved")  \* required, and not there
Withheld == Outcome(1, 0, "unresolved")  \* not required, and not there
Exact    == Outcome(1, 1, "exact")
Bounded  == Outcome(1, 1, "boundary-anchors")
Voted    == Outcome(1, 1, "structural")

\* The results.jsonl of the labs and, where they are newer, the labs' tests.
Recorded ==
  {<<"insert-before", {"happy"}, Exact>>,
   <<"insert-before", {"decoy", "codex"}, Lost>>,
   <<"insert-before-interior", {"door", "decoy"}, Bounded>>,
   <<"insert-before-interior", {"codex"}, Lost>>,
   <<"insert-before-tie", {"door", "decoy", "codex"}, Lost>>,
   <<"insert-before-unique-last", {"door"}, Voted>>,
   <<"insert-before-unique-last", {"decoy", "codex"}, Lost>>,
   <<"grow-inside", {"door", "decoy"}, Bounded>>,
   <<"grow-inside", {"codex"}, Lost>>,
   <<"grow-shrink-exact", {"door", "decoy"}, Bounded>>,
   <<"grow-shrink-exact", {"codex"}, Exact>>,
   <<"delete-unit", {"door", "decoy", "codex"}, Withheld>>,
   <<"delete-unit-fail-close", {"decoy"}, Withheld>>,
   <<"delete-unit-fail-close", {"shrink"}, Lost>>,
   <<"duplicate-boundary", {"door", "decoy", "codex"}, Withheld>>,
   <<"duplicate-boundary-markers", {"door"}, Withheld>>,
   <<"duplicate-boundary-markers", {"decoy", "codex"}, Bounded>>,
   <<"move-cross-file", {"door", "codex"}, Withheld>>,
   <<"move-cross-file", {"decoy"}, Exact>>,
   <<"move-in-file", {"door"}, Exact>>,
   <<"move-in-file", {"decoy"}, Bounded>>,
   <<"move-in-file", {"codex"}, Lost>>,
   <<"move-lookalike", {"door", "decoy"}, Exact>>,
   <<"move-lookalike", {"codex"}, Lost>>,
   <<"parse-broken", {"door", "decoy"}, Bounded>>,
   <<"parse-broken", {"codex"}, Lost>>,
   <<"rename-boundary", {"door"}, Voted>>,
   <<"rename-boundary", {"decoy", "codex"}, Lost>>,
   <<"stored-start-leftover", {"door", "codex"}, Withheld>>,
   <<"stored-start-leftover", {"decoy"}, Bounded>>}

\* The flags and lines the labs note where they are not the empty ones.
RecordedNotes ==
  {<<"move-cross-file", "decoy", {"cross-file"}, {}>>,
   <<"duplicate-boundary-markers", "decoy", {}, {3}>>,
   <<"duplicate-boundary-markers", "codex", {}, {3}>>}

(***************************************************************************)
(* A lab ends as the repository records it: which cells are resolved, how, *)
(* which are left unresolved because the text allows two answers or none,  *)
(* and that no lookalike is carried for the unit (results.jsonl under      *)
(* bench/packs and the tests of the labs; the line of an accepted copy is  *)
(* 20 there, 17 lines of the file are cut here).  evaluate-pack.mjs fails  *)
(* the cells that are recorded as lost, and only those.                    *)
(***************************************************************************)
AsRecorded ==
  \A file \in results : \A row \in file : \E r \in Recorded :
    /\ r[1] = lab /\ row.id \in r[2]
    /\ IF command = "evaluate" THEN row.verdict = "pass" <=> r[3] # Lost
       ELSE /\ r[3] = Outcome(row.recall, row.exact, row.method)
            /\ \/ <<lab, row.id, row.notes, row.line>> \in RecordedNotes
               \/ row.notes = {} /\ row.line = {}

\* bench/reports/latest.md: <<recall, exact, stale>> of the express traces.
Reported ==
  {<<"append-only", {"append", "move-in-file"}, <<1, 0, 0>> >>,
   <<"append-only", {"delete", "duplicate-boundary"}, <<1, 0, 1>> >>,
   <<"append-only", {"interior-edit"}, <<0, 0, 1>> >>,
   <<"observation-mask", {"append", "interior-edit", "move-in-file"}, <<0, 0, 0>> >>,
   <<"observation-mask", {"delete", "duplicate-boundary"}, <<1, 0, 0>> >>,
   <<"corvus-file", {c.id : c \in SmokeCells}, <<1, 0, 0>> >>,
   <<"freshctx-file", {c.id : c \in SmokeCells}, <<1, 0, 0>> >>,
   <<"freshctx-region", {"append", "interior-edit", "move-in-file"}, <<1, 1, 0>> >>,
   <<"freshctx-region", {"delete", "duplicate-boundary"}, <<1, 0, 0>> >>}

-----------------------------------------------------------------------------
(* The worlds *)

VARIABLE world

Smoke == INSTANCE TraceRunner WITH Cells <- SmokeCells

ASSUME SmokeAssumption == Smoke!TraceRunnerAssumption

MCInit ==
  \/ world = "labs" /\ LabInit
  \/ /\ world = "smoke" /\ Smoke!Init
     /\ lab = "none" /\ phase = "new" /\ command = "none" /\ loop = "generic"
     /\ written = {} /\ left = <<>> /\ rows = {} /\ results = {}

MCNext ==
  /\ UNCHANGED world
  /\ \/ world = "labs" /\ LabNext
     \/ world = "smoke" /\ Smoke!Next /\ UNCHANGED labVars

MCSpec == MCInit /\ [][MCNext]_<<allVars, world>>

-----------------------------------------------------------------------------
(* What is claimed in which world *)

(***************************************************************************)
(* The smoke pack ends as reported for every baseline: append-only carries *)
(* stale bytes, the mask loses the required ones, and only freshctx-region *)
(* carries the unit itself (bench/reports/latest.md).                      *)
(***************************************************************************)
AsReported ==
  world = "smoke" /\ Finished =>
    \E r \in Reported :
      /\ r[1] = baseline /\ cell.id \in r[2]
      /\ r[3] = <<result.recall, result.exact, result.stale>>

(* Labs and smoke pack end as the repository records, with whole files of
   results (results.jsonl under bench/packs, bench/reports/latest.md). *)
ResultsAsRecorded == AsRecorded /\ AsReported /\ ResultsAreWhole

(* The two runners agree, and the gates hold at every capture
   (grow-shrink-exact-decoy-lab.mjs:342, smoke.mjs:137-150). *)
RunnerInvariant ==
  /\ IF world = "smoke" THEN Smoke!TypeOK ELSE TypeOK
  /\ OwnRunnerAgrees /\ GatesHold
=============================================================================
