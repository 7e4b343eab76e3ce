------------------------------ MODULE LabPacks ------------------------------
(***************************************************************************)
(* A development lab as a whole: its generator writes the traces of all    *)
(* cells or none, then either the lab's own command or evaluate-pack.mjs   *)
(* plays them one after the other and writes one row per trace at the end. *)
(* A trace that throws ends the command before anything is written.  The   *)
(* labs differ in what they refuse to generate, in who plays the traces    *)
(* and in what they note besides the measures.                             *)
(***************************************************************************)
EXTENDS TraceRunner

VARIABLES
  lab,       \* the lab that is worked with
  phase,     \* "new", "written", "running", "ended"
  command,   \* "run" or "evaluate", once one was started
  written,   \* the cells whose trace stands in the pack's directory
  loop,      \* whose runner plays the traces: the "generic" one or the lab's "own"
  left,      \* the traces that were not started yet, in the order of their names
  rows,      \* the rows of the command that is running
  results    \* the rows that were written, as an option

labVars == <<lab, phase, command, loop, written, left, rows, results>>
allVars == <<vars, labVars>>

CellsOf(l) == {c \in Cells : c.lab = l}

LabInit ==
  /\ lab \in {c.lab : c \in Cells}
  /\ phase = "new" /\ command = "none" /\ loop = "generic"
  /\ written = {} /\ left = <<>> /\ rows = {} /\ results = {}
  /\ cell = CHOOSE c \in CellsOf(lab) : TRUE
  /\ baseline = "freshctx-region"
  /\ trace = <<>> /\ at = 1 /\ files = cell.files
  /\ read = {} /\ unit = {} /\ result = NoResult /\ failed = FALSE

-----------------------------------------------------------------------------
(* The generators.                                                         *)

\* The files do not hold the lines yet that the lab is going to insert.
Without(marks) ==
  \A source \in {c.files : c \in CellsOf(lab)} : \A p \in DOMAIN source :
    \A k \in DOMAIN marks : ~Includes(source[p], <<marks[k]>>)

\* The cells that pin the grown unit pin the same bytes.
GrownAlike ==
  Cardinality({Declared(c).gold : c \in {d \in CellsOf(lab) : d.gold = "grown"}}) <= 1

\* Every cell is built before the first trace is written.
Generates(l, sound) ==
  /\ phase = "new" /\ lab = l
  /\ sound
  /\ \A c \in CellsOf(l) : IsBuilt(c)
  /\ written' = CellsOf(l)
  /\ phase' = "written"
  /\ UNCHANGED <<vars, lab, command, loop, left, rows, results>>

GenerateInsertBeforeLab == Generates("insert-before", Without(Markers))
GenerateInsertBeforeInteriorLab == Generates("insert-before-interior", Without(Markers))
GenerateInsertBeforeTieLab == Generates("insert-before-tie", Without(Markers))
GenerateInsertBeforeUniqueLastLab ==
  Generates("insert-before-unique-last", Without(Markers))
GenerateGrowInsideLab == Generates("grow-inside", Without(InsertBlock) /\ GrownAlike)
GenerateGrowShrinkExactLab == Generates("grow-shrink-exact", Without(InsertBlock))
GenerateDeleteUnitLab == Generates("delete-unit", TRUE)
GenerateDeleteUnitFailCloseLab == Generates("delete-unit-fail-close", TRUE)
GenerateDuplicateBoundaryLab == Generates("duplicate-boundary", Without(Markers))
GenerateDuplicateBoundaryMarkersLab ==
  Generates("duplicate-boundary-markers", Without(Markers))
GenerateMoveCrossFileLab ==
  Generates("move-cross-file", Without(<<Markers[1]>>) /\ Includes(ParseTest, <<TestAnchor>>))
GenerateMoveInFileLab == Generates("move-in-file", Without(Markers))
GenerateMoveLookalikeLab == Generates("move-lookalike", Without(Markers))
GenerateParseBrokenLab == Generates("parse-broken", Without(Markers))
GenerateRenameBoundaryLab == Generates("rename-boundary", Without(Markers))
GenerateStoredStartLeftoverLab == Generates("stored-start-leftover", TRUE)

GenerateLab ==
  \/ GenerateInsertBeforeLab \/ GenerateInsertBeforeInteriorLab
  \/ GenerateInsertBeforeTieLab \/ GenerateInsertBeforeUniqueLastLab
  \/ GenerateGrowInsideLab \/ GenerateGrowShrinkExactLab
  \/ GenerateDeleteUnitLab \/ GenerateDeleteUnitFailCloseLab
  \/ GenerateDuplicateBoundaryLab \/ GenerateDuplicateBoundaryMarkersLab
  \/ GenerateMoveCrossFileLab \/ GenerateMoveInFileLab \/ GenerateMoveLookalikeLab
  \/ GenerateParseBrokenLab \/ GenerateRenameBoundaryLab
  \/ GenerateStoredStartLeftoverLab

-----------------------------------------------------------------------------
(* The bytes a lab's own runner takes for the required ones.  The empty    *)
(* set: the runner throws because the file is not what the lab expects.    *)

PathText == files[cell.path]

\* The capture asks for other bytes than those that were read.
PostMutation == EventGold # {} /\ EventGold # read

\* A plausible bug: the lab leaves the oracle's bytes in place.
GrowInsideUnpinned == {Oracle}

GrowInsidePin ==
  IF cell.gold = "grown" THEN GrownUnitBytes(PathText) ELSE {Oracle}

GrowShrinkExactPin ==
  CASE cell.gold = "moved" -> IF Includes(PathText, Fields) THEN {Fields} ELSE {Oracle}
    [] cell.gold = "grown" ->
         IF PostMutation /\ Includes(PathText, InsertBlock) THEN GrownUnitBytes(PathText)
         ELSE {Oracle}
    [] cell.gold = "prefix" ->
         IF PostMutation THEN PrefixFromFirst(PathText) ELSE {Oracle}

DeleteUnitFailClosePin ==
  IF cell.gold = "absent" \/ Includes(PathText, Fields) THEN {Oracle}
  ELSE {Region(PathText, cell.from, cell.from + 1)} \cap {LookalikeFields}

\* extractAcceptedCopyBytes: whenever the original bytes are asked for.
DuplicateBoundaryMarkersPin ==
  IF cell.gold # "copy" \/ EventGold # {Fields} THEN {Oracle}
  ELSE {Region(PathText, i, i + Len(initial) - 1) :
          initial \in read, i \in {FirstLine(PathText, Fields[1])} \ {0}}

MoveLookalikePin ==
  IF cell.gold = "moved" /\ Includes(PathText, Fields) THEN {Fields} ELSE {Oracle}

StoredStartLeftoverPin ==
  IF cell.gold = "prefix" /\ PostMutation
  THEN {PrefixAtStart(cell, PathText)} \cap {PrefixFields}
  ELSE {Oracle}

\* The labs that play their traces themselves.
OwnRunners == {"grow-inside", "grow-shrink-exact", "delete-unit-fail-close",
               "duplicate-boundary-markers", "move-lookalike", "stored-start-leftover"}

OwnLoop(l) == loop = "own" /\ lab = l

GrowInsideCapture == Capture(GrowInsidePin)
GrowShrinkExactCapture == Capture(GrowShrinkExactPin)
DeleteUnitFailCloseCapture == Capture(DeleteUnitFailClosePin)
DuplicateBoundaryMarkersCapture == Capture(DuplicateBoundaryMarkersPin)
MoveLookalikeCapture == Capture(MoveLookalikePin)
StoredStartLeftoverCapture == Capture(StoredStartLeftoverPin)

-----------------------------------------------------------------------------
(* Playing the traces.                                                     *)

Begin(which) ==
  /\ phase = "written"
  /\ phase' = "running" /\ command' = which
  /\ left' = SetToSeq(written)
  /\ loop' = IF which = "run" /\ lab \in OwnRunners THEN "own" ELSE "generic"
  /\ UNCHANGED <<vars, lab, written, rows, results>>

\* The next trace is read from its file and a new workspace is made for it.
StartTrace ==
  /\ phase = "running" /\ trace = <<>> /\ left # <<>>
  /\ cell' = Head(left)
  /\ left' = Tail(left)
  /\ trace' = TraceOf(cell') /\ files' = cell'.files
  /\ UNCHANGED <<baseline, at, read, unit, result, failed,
                 lab, phase, command, loop, written, rows, results>>

\* The events, each as its runner handles it.
GenericEvent ==
  loop = "generic" /\ (ReadEvent \/ ReplaceExactEvent \/ GenericCapture)
GrowInsideEvent ==
  OwnLoop("grow-inside") /\ (ReadEvent \/ ReplaceExactEvent \/ GrowInsideCapture)
GrowShrinkExactEvent ==
  /\ OwnLoop("grow-shrink-exact")
  /\ ReadEvent \/ ReplaceExactEvent \/ GrowShrinkExactCapture
DeleteUnitFailCloseEvent ==
  /\ OwnLoop("delete-unit-fail-close")
  /\ ReadEvent \/ ReplaceExactEvent \/ DeleteUnitFailCloseCapture
DuplicateBoundaryMarkersEvent ==
  /\ OwnLoop("duplicate-boundary-markers")
  /\ ReadEvent \/ ReplaceExactEvent \/ DuplicateBoundaryMarkersCapture
MoveLookalikeEvent ==
  OwnLoop("move-lookalike") /\ (ReadEvent \/ ReplaceExactEvent \/ MoveLookalikeCapture)
StoredStartLeftoverEvent ==
  /\ OwnLoop("stored-start-leftover")
  /\ ReadEvent \/ ReplaceExactEvent \/ StoredStartLeftoverCapture

Event ==
  /\ phase = "running" /\ trace # <<>>
  /\ \/ GenericEvent \/ GrowInsideEvent \/ GrowShrinkExactEvent
     \/ DeleteUnitFailCloseEvent \/ DuplicateBoundaryMarkersEvent \/ MoveLookalikeEvent
     \/ StoredStartLeftoverEvent
  /\ UNCHANGED labVars

\* A plausible bug: what was collected so far is written when a trace throws.
ThrowsWithPart ==
  /\ phase = "running" /\ failed
  /\ phase' = "ended"
  /\ results' = {rows}
  /\ UNCHANGED <<vars, lab, command, loop, written, left, rows>>

\* A trace that throws: the command fails, whatever it had collected is lost.
Throws ==
  /\ phase = "running" /\ failed
  /\ phase' = "ended"
  /\ UNCHANGED <<vars, lab, command, loop, written, left, rows, results>>

\* A row is collected; the file is written behind the last one.
Collect(row) ==
  /\ phase = "running" /\ Finished
  /\ rows' = rows \cup {row}
  /\ IF left = <<>>
     THEN phase' = "ended" /\ results' = {rows'}
     ELSE UNCHANGED <<phase, results>>
  /\ trace' = <<>> /\ at' = 1 /\ read' = {} /\ unit' = {} /\ result' = NoResult
  /\ UNCHANGED <<run, files, failed, lab, command, loop, written, left>>

-----------------------------------------------------------------------------
(* The rows of results.jsonl.                                              *)

Row(notes, line) ==
  [id |-> cell.id, recall |-> result.recall, exact |-> result.exact,
   stale |-> result.stale, duplicates |-> result.duplicates,
   method |-> result.method, notes |-> notes, line |-> line]

RunOf(l, notes, line) ==
  command = "run" /\ lab = l /\ Collect(Row(notes, line))

\* A note that is made when the text the request carries is of a kind.
Noted(name, Kind(_)) == {n \in {name} : \E s \in result.served : Kind(s)}

LookalikeOrFields(s) == Includes(s, LookalikeFields) \/ Includes(s, Fields)
LookalikeAlone(s)    == Includes(s, LookalikeFields) /\ ~Includes(s, <<BodyN>>)
FieldsWhole(s)       == Includes(s, Fields) /\ Includes(s, <<BodyN>>)
AsItWasRead(s)       == s = InitialContent(cell)

\* acceptedCopyStartLine: where the first line of what is carried stands.
CopyStartLine ==
  {i \in {FirstLine(files[cell.path], s[1]) : s \in result.served} : i # 0}

RunInsertBeforeLab           == RunOf("insert-before", {}, {})
RunInsertBeforeInteriorLab   == RunOf("insert-before-interior", {}, {})
RunInsertBeforeTieLab        == RunOf("insert-before-tie", {}, {})
RunInsertBeforeUniqueLastLab == RunOf("insert-before-unique-last", {}, {})
RunGrowInsideLab             == RunOf("grow-inside", {}, {})
RunGrowShrinkExactLab        == RunOf("grow-shrink-exact", {}, {})
RunDeleteUnitLab ==
  RunOf("delete-unit", Noted("lookalike", LookalikeOrFields), {})
RunDeleteUnitFailCloseLab ==
  RunOf("delete-unit-fail-close", Noted("lookalike", LookalikeOrFields), {})
RunDuplicateBoundaryLab        == RunOf("duplicate-boundary", {}, {})
RunDuplicateBoundaryMarkersLab ==
  RunOf("duplicate-boundary-markers", {}, CopyStartLine)
RunMoveCrossFileLab ==
  RunOf("move-cross-file",
        Noted("cross-file", FieldsWhole) \cup Noted("lookalike", LookalikeAlone), {})
RunMoveInFileLab    == RunOf("move-in-file", Noted("lookalike", LookalikeAlone), {})
RunMoveLookalikeLab == RunOf("move-lookalike", Noted("lookalike", LookalikeAlone), {})
RunParseBrokenLab   == RunOf("parse-broken", Noted("original", AsItWasRead), {})
RunRenameBoundaryLab == RunOf("rename-boundary", {}, {})
RunStoredStartLeftoverLab ==
  RunOf("stored-start-leftover", Noted("lookalike", LookalikeOrFields), {})

RunLab ==
  \/ RunInsertBeforeLab \/ RunInsertBeforeInteriorLab \/ RunInsertBeforeTieLab
  \/ RunInsertBeforeUniqueLastLab \/ RunGrowInsideLab \/ RunGrowShrinkExactLab
  \/ RunDeleteUnitLab \/ RunDeleteUnitFailCloseLab \/ RunDuplicateBoundaryLab
  \/ RunDuplicateBoundaryMarkersLab \/ RunMoveCrossFileLab \/ RunMoveInFileLab
  \/ RunMoveLookalikeLab \/ RunParseBrokenLab \/ RunRenameBoundaryLab
  \/ RunStoredStartLeftoverLab

-----------------------------------------------------------------------------
(* evaluate-pack.mjs: the gates decide over each trace.                    *)

\* judgeOnDiskCapture
Verdict ==
  CASE result.stale > 0                            -> "stale-bytes"
    [] result.duplicates > 0                       -> "duplicate-units"
    [] result.required # {} /\ result.recall < 1   -> "required-recall"
    [] OTHER                                       -> "pass"

EvaluateTrace ==
  command = "evaluate" /\ Collect([id |-> cell.id, verdict |-> Verdict])

LabNext ==
  \/ GenerateLab
  \/ Begin("run") \/ Begin("evaluate")
  \/ StartTrace \/ Event \/ Throws
  \/ RunLab \/ EvaluateTrace

LabSpec == LabInit /\ [][LabNext]_allVars

-----------------------------------------------------------------------------

(***************************************************************************)
(* A lab agrees with itself: the generator and the runner find the         *)
(* required bytes by code of their own (secondCaptureBytes and the pin     *)
(* functions of the labs), no generator refuses its own cells, and no      *)
(* trace is refused by the runner made for it, neither for an edit that    *)
(* misses nor for bytes that differ.  The generic runner refuses only      *)
(* traces whose last bytes were pinned.                                    *)
(***************************************************************************)
OwnRunnerAgrees ==
  /\ phase = "new" => \A c \in CellsOf(lab) : IsBuilt(c)
  /\ failed => /\ command = "evaluate"
               /\ \E g \in EventGold : g # OracleGold(cell, files)

(***************************************************************************)
(* One step of several failing: a trace that throws in the middle of a     *)
(* pack takes the rows of the traces before it with it, and a results file *)
(* has a row for every trace of the pack (runGrowInsideLab of              *)
(* grow-inside-lab.mjs:433-471 writes behind the loop).                    *)
(***************************************************************************)
ResultsAreWhole ==
  \A written_rows \in results : {r.id : r \in written_rows} = {c.id : c \in written}
=============================================================================
