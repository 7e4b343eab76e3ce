----------------------------- MODULE LabTraces -----------------------------
(***************************************************************************)
(* What the trace generators write: the events of a cell, with the bytes   *)
(* each capture must carry.  Every generator finds those bytes in its own  *)
(* way and refuses to write a trace its own checks do not agree with.  A   *)
(* trace holds the digest of the bytes; here it holds the bytes.           *)
(***************************************************************************)
EXTENDS LabCells

\* A plausible bug: the stored lines, whatever stands there.
StoredGoldBytes(files, path, scope, from, to, initial) ==
  IF path \notin DOMAIN files THEN Nothing
  ELSE IF scope = "file" THEN files[path] ELSE Region(files[path], from, to)

(***************************************************************************)
(* goldBytesForRead: the stored lines if they begin as the read did, else  *)
(* as many lines from the one line that does, else the stored lines.       *)
(***************************************************************************)
GoldBytes(files, path, scope, from, to, initial) ==
  IF path \notin DOMAIN files THEN Nothing
  ELSE IF scope = "file" THEN files[path]
  ELSE LET text   == files[path]
           stored == Region(text, from, to)
           places == {i \in DOMAIN text : text[i] = initial[1]}
       IN  IF stored[1] # initial[1] /\ Cardinality(places) = 1
           THEN Region(text, Min(places), Min(places) + to - from)
           ELSE stored

InitialContent(cell) ==
  IF cell.scope = "file" THEN cell.files[cell.path]
  ELSE Region(cell.files[cell.path], cell.from, cell.to)

OracleGold(cell, files) ==
  GoldBytes(files, cell.path, cell.scope, cell.from, cell.to, InitialContent(cell))

Missed(files, edit) ==
  \/ edit.path \notin DOMAIN files
  \/ edit.type = "replace-exact" /\ ~Includes(files[edit.path], edit.expected)

Edited(files, edit) ==
  IF edit.type = "delete-file"
  THEN [p \in DOMAIN files \ {edit.path} |-> files[p]]
  ELSE [files EXCEPT ![edit.path] = ReplaceExact(@, edit.expected, edit.replacement)]

\* applyMutations: the files after each edit, as far as none was missed.
Mutated(cell) ==
  LET after[k \in 0..Len(cell.edits)] ==
        IF k = 0 THEN cell.files
        ELSE IF Missed(after[k - 1], cell.edits[k]) THEN after[k - 1]
        ELSE Edited(after[k - 1], cell.edits[k])
  IN  after

-----------------------------------------------------------------------------
(* The bytes of the last capture, lab by lab.  The result is a set with    *)
(* the required bytes, or the empty set when nothing is required; checks   *)
(* says that the generator does not throw.                                 *)

Declares(checks, gold) == [checks |-> checks, gold |-> gold]

ByOracle(cell, files) == Declares(TRUE, {OracleGold(cell, files)})
StoredLines(cell, text) == Region(text, cell.from, cell.to)

InsertBeforeGold(cell, files)         == ByOracle(cell, files)
InsertBeforeInteriorGold(cell, files) == ByOracle(cell, files)
InsertBeforeTieGold(cell, files)      == ByOracle(cell, files)

\* Lines added by the edits above the region.
InsertedLineCount(edits) ==
  FoldLeft(LAMBDA n, e : n + Max({0, Len(e.replacement) - Len(e.expected)}), 0, edits)

InsertBeforeUniqueLastGold(cell, files) ==
  IF cell.gold = "oracle" THEN ByOracle(cell, files)
  ELSE LET text == files[cell.path]
           above == SelectSeq(cell.edits, LAMBDA e : e.expected # <<Godoc>>)
           start == cell.from + InsertedLineCount(above)
           relocated == Region(text, start, start + cell.to - cell.from)
           lasts == {i \in start..Len(text) : text[i] = BodyLast}
           upTo(end) == Region(text, end - cell.to + cell.from, end)
       IN  Declares(/\ above = cell.edits =>
                         Cardinality(lasts) = 1 /\ upTo(Min(lasts)) = relocated
                    /\ relocated = OracleGold(cell, files)
                    /\ relocated # StoredLines(cell, text),
                    {relocated})

\* grownUnitBytes: from the first BodyFirst to the first BodyLast behind it.
GrownUnitBytes(text) ==
  LET start == FirstLine(text, BodyFirst)
      ends == {i \in DOMAIN text : i > start /\ text[i] = BodyLast}
  IN  IF start = 0 \/ ends = {} THEN {} ELSE {Region(text, start, Min(ends))}

PrefixOfExpectedIsStable(previous, grown) ==
  /\ Len(previous) > 1
  /\ \A i \in 1..(Len(previous) - 1) :
       i \in DOMAIN grown /\ SameLine(previous[i], grown[i])

GrowInsideGold(cell, files) ==
  IF cell.gold = "oracle" THEN ByOracle(cell, files)
  ELSE LET text == files[cell.path]
           starts == {i \in DOMAIN text : text[i] = BodyFirst}
           cropped == {Region(text, i, i + cell.to - cell.from) : i \in starts}
           sound(grown) ==
             /\ Includes(grown, InsertBlock)
             /\ ~PrefixOfExpectedIsStable(InitialContent(cell), grown)
             /\ grown # OracleGold(cell, files)
             /\ Cardinality(starts) = 1 => grown \notin cropped
             /\ grown # StoredLines(cell, text)
             /\ Cardinality({i \in DOMAIN grown : grown[i] = BodyLast}) = 1
       IN  Declares(/\ GrownUnitBytes(text) # {}
                    /\ \A g \in GrownUnitBytes(text) : sound(g),
                    GrownUnitBytes(text))

\* prefixShrinkBytes from the first BodyFirst on.
PrefixFromFirst(text) ==
  LET start == FirstLine(text, BodyFirst)
  IN  IF start = 0 THEN {} ELSE {Region(text, start, start + Len(PrefixFields) - 1)}

GrowShrinkExactGold(cell, files) ==
  LET text == files[cell.path]
  IN  CASE cell.gold = "moved" -> Declares(Includes(text, Fields), {Fields})
        [] cell.gold = "grown" ->
             Declares(\E g \in GrownUnitBytes(text) : Includes(g, InsertBlock),
                      GrownUnitBytes(text))
        [] cell.gold = "prefix" ->
             Declares(\E p \in PrefixFromFirst(text) : p # InitialContent(cell),
                      PrefixFromFirst(text))

DeleteUnitGold(cell, files) ==
  Declares(/\ InitialContent(cell) = Fields
           /\ ~Includes(files[cell.path], Fields), {})

DeleteUnitFailCloseGold(cell, files) ==
  IF cell.gold = "absent" THEN DeleteUnitGold(cell, files)
  ELSE LET shrunk == Region(files[cell.path], cell.from, cell.from + 1)
       IN  Declares(/\ InitialContent(cell) = Fields
                    /\ shrunk = LookalikeFields
                    /\ shrunk # OracleGold(cell, files), {shrunk})

DuplicateBoundaryGold(cell, files) == Declares(TRUE, {})

\* The accepted copy has the bytes that were read.
DuplicateBoundaryMarkersGold(cell, files) ==
  Declares(TRUE, IF cell.gold = "copy" THEN {Fields} ELSE {})

MoveCrossFileGold(cell, files) ==
  LET here  == files["parse.go"]
      there == files["parse_test.go"]
      gold  == IF cell.gold = "absent" THEN {} ELSE {OracleGold(cell, files)}
  IN  Declares(/\ InitialContent(cell) = Fields
               /\ CASE cell.id = "door" ->
                         ~Includes(here, Fields) /\ Includes(there, Fields)
                    [] cell.id = "decoy" ->
                         Includes(here, Fields) /\ Includes(there, Fields) /\ gold = {Fields}
                    [] cell.id = "codex" ->
                         /\ ~Includes(here, Fields) /\ ~Includes(there, Fields)
                         /\ Includes(there, LookalikeFields),
               gold)

MoveInFileGold(cell, files) ==
  LET copies == CountOccurrences(Join(files[cell.path]), Join(Fields))
  IN  Declares(/\ InitialContent(cell) = Fields
               /\ cell.id = "door" => copies >= 1
               /\ cell.id = "decoy" => copies >= 2,
               {OracleGold(cell, files)})

MoveLookalikeGold(cell, files) ==
  LET text == files[cell.path]
  IN  IF cell.gold = "oracle"
      THEN Declares(/\ InitialContent(cell) = Fields
                    /\ cell.id = "door" => Includes(text, Fields),
                    {OracleGold(cell, files)})
      ELSE Declares(/\ InitialContent(cell) = Fields
                    /\ Includes(text, Fields)
                    /\ OracleGold(cell, files) # Fields
                    /\ Region(text, cell.from, cell.from + 1) = LookalikeFields
                    /\ ~Includes(text, Fields \o Fields),
                    {Fields})

\* The stored lines are those the door cell leaves there.
AsAtTheDoor(cells, cell, text) ==
  \A door \in {c \in cells : c.id = "door"} :
    StoredLines(cell, text) =
      StoredLines(door, Mutated(door)[Len(door.edits)][door.path])

ParseBrokenGold(cell, files) ==
  IF cell.gold = "oracle" THEN ByOracle(cell, files)
  ELSE LET text == files[cell.path]
           copies == {i \in DOMAIN text : text[i] = ParseFirst}
       IN  Declares(/\ StoredLines(cell, text) # InitialContent(cell)
                    /\ cell.id = "decoy" => /\ Cardinality(copies) >= 2
                                            /\ AsAtTheDoor(ParseBrokenCells, cell, text),
                    {StoredLines(cell, text)})

RenameBoundaryGold(cell, files) ==
  LET text == files[cell.path]
      copies == {i \in DOMAIN text : text[i] = ParseRenamed}
  IN  IF cell.gold = "oracle"
      THEN Declares(~Includes(text, <<ParseFirst>>), {OracleGold(cell, files)})
      ELSE Declares(/\ ~Includes(text, <<ParseFirst>>)
                    /\ StoredLines(cell, text) # InitialContent(cell)
                    /\ cell.id = "decoy" => /\ Cardinality(copies) >= 2
                                            /\ AsAtTheDoor(RenameBoundaryCells, cell, text),
                    {StoredLines(cell, text)})

PrefixAtStart(cell, text) == Region(text, cell.from, cell.from + Len(PrefixFields) - 1)

StoredStartLeftoverGold(cell, files) ==
  LET text == files[cell.path]
  IN  Declares(/\ InitialContent(cell) = Fields
               /\ cell.id = "door" => Includes(text, LookalikeFields)
               /\ cell.id = "decoy" => /\ PrefixAtStart(cell, text) = PrefixFields
                                       /\ PrefixFields # OracleGold(cell, files)
               /\ Includes(text, Fields) <=> cell.id = "decoy",
               IF cell.gold = "absent" THEN {} ELSE {PrefixAtStart(cell, text)})

(***************************************************************************)
(* scripts/build-smoke-traces.mjs: the lines from the first one that       *)
(* begins as the read did, the region with its one line replaced, or the   *)
(* bytes that were read.                                                   *)
(***************************************************************************)
SmokeGold(cell, files) ==
  LET initial == InitialContent(cell)
      start == FirstLine(files[cell.path], initial[1])
      edit == cell.edits[1]
  IN  CASE cell.gold = "absent" -> Declares(TRUE, {})
        [] cell.gold = "anchored" ->
             Declares(start # 0,
                      {Region(files[cell.path], start, start + Len(initial) - 1)})
        [] cell.gold = "replaced" ->
             Declares(TRUE, {ReplaceExact(initial, edit.expected, edit.replacement)})
        [] cell.gold = "moved" -> Declares(TRUE, {initial})

DeclaredGold(cell, files) ==
  CASE cell.lab = "insert-before"              -> InsertBeforeGold(cell, files)
    [] cell.lab = "insert-before-interior"     -> InsertBeforeInteriorGold(cell, files)
    [] cell.lab = "insert-before-tie"          -> InsertBeforeTieGold(cell, files)
    [] cell.lab = "insert-before-unique-last"  -> InsertBeforeUniqueLastGold(cell, files)
    [] cell.lab = "grow-inside"                -> GrowInsideGold(cell, files)
    [] cell.lab = "grow-shrink-exact"          -> GrowShrinkExactGold(cell, files)
    [] cell.lab = "delete-unit"                -> DeleteUnitGold(cell, files)
    [] cell.lab = "delete-unit-fail-close"     -> DeleteUnitFailCloseGold(cell, files)
    [] cell.lab = "duplicate-boundary"         -> DuplicateBoundaryGold(cell, files)
    [] cell.lab = "duplicate-boundary-markers" -> DuplicateBoundaryMarkersGold(cell, files)
    [] cell.lab = "move-cross-file"            -> MoveCrossFileGold(cell, files)
    [] cell.lab = "move-in-file"               -> MoveInFileGold(cell, files)
    [] cell.lab = "move-lookalike"             -> MoveLookalikeGold(cell, files)
    [] cell.lab = "parse-broken"               -> ParseBrokenGold(cell, files)
    [] cell.lab = "rename-boundary"            -> RenameBoundaryGold(cell, files)
    [] cell.lab = "stored-start-leftover"      -> StoredStartLeftoverGold(cell, files)
    [] cell.lab = "smoke"                      -> SmokeGold(cell, files)

-----------------------------------------------------------------------------
(* buildCellTrace.                                                         *)

CaptureEvent(required) == [type |-> "capture-request", required |-> required]

Declared(cell) == DeclaredGold(cell, Mutated(cell)[Len(cell.edits)])

\* No edit is missed and no check of the generator fails.
IsBuilt(cell) ==
  /\ \A k \in DOMAIN cell.edits : ~Missed(Mutated(cell)[k - 1], cell.edits[k])
  /\ Declared(cell).checks

TraceOf(cell) ==
  <<[type |-> "read", path |-> cell.path], CaptureEvent({OracleGold(cell, cell.files)})>>
  \o cell.edits \o <<CaptureEvent(Declared(cell).gold)>>
=============================================================================
