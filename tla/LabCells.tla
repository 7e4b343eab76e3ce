------------------------------ MODULE LabCells ------------------------------
(***************************************************************************)
(* The cells of the development labs (bench/*-lab.mjs) and of the smoke    *)
(* pack: which region of which file is read, how the file is then edited,  *)
(* and how the lab finds the bytes a request must carry at the end.        *)
(*                                                                         *)
(* The files are the labs' own (go/buildutil/util.go, benchmark/parse/     *)
(* parse.go and its test, lib/express.js), cut to the lines around the     *)
(* regions; all distances that decide a tie are those of the originals.  A *)
(* line is its indentation and one or more words.                          *)
(***************************************************************************)
EXTENDS LabText

L(word)  == <<word>>
T(word)  == <<Space, word>>
TT(word) == <<Space, Space, word>>
Blank    == <<>>

Replace(path, expected, replacement) ==
  [type |-> "replace-exact", path |-> path,
   expected |-> expected, replacement |-> replacement]

Delete(path) == [type |-> "delete-file", path |-> path]

\* New lines in front of a line that stays.
Before(path, line, new) == Replace(path, <<line>>, new \o <<line>>)

\* Words added at the end of a line.
AddWord(path, line, word) == Replace(path, <<line>>, <<Append(line, word)>>)

(***************************************************************************)
(* gold says how the bytes of the last capture are found: by the oracle of *)
(* bench/oracle.mjs, not at all ("absent": nothing is required), or pinned *)
(* by the lab.  A read of a whole file has no lines (0..0).                *)
(***************************************************************************)
Cell(lab, id, files, path, from, to, edits, gold) ==
  [lab |-> lab, id |-> id, files |-> files, path |-> path,
   scope |-> IF from = 0 THEN "file" ELSE "region", from |-> from, to |-> to,
   edits |-> edits, gold |-> gold]

-----------------------------------------------------------------------------
(* go/buildutil/util.go from its line 21 on.                               *)

Body == <<T("if !IsAbsPath file {"), TT("file = JoinPath"), T("}"),
          T("rd, err := OpenFile"), T("if err != nil {"), TT("return nil, err"), T("}")>>
SameFileFn == <<L("func sameFile {"), T("if Clean {"), TT("return true"), T("}"),
                T("return false"), L("}"), Blank>>

Util == <<L("// ParseFile"), L("// but uses"), L("//"), L("// If file"),
          L("// components"), L("//"), L("// The displayPath"), L("// filename"), L("//"),
          L("// TODO"), <<"func ParseFile(", "fset">> >>
        \o Body
        \o <<T("defer rd.Close()"), T("if displayPath {"), TT("file = displayPath"), T("}"),
             T("return parser.ParseFile"), L("}"), Blank,
             L("func ContainingPackage"), T("if !IsAbsPath filename {"),
             TT("filename = JoinPath"), T("}"), T("return nil, fmt"), L("}"), Blank>>
        \o SameFileFn

Markers == <<L("// alpha"), L("// beta")>>

UtilCell(lab, id, edits) ==
  Cell(lab, id, [p \in {"util.go"} |-> Util], "util.go", 12, 18, edits, "oracle")

\* The whole function, its header moved down and renamed.
RenamedHeader(lab) ==
  Cell(lab, "codex", [p \in {"util.go"} |-> Util], "util.go", 11, 24,
       <<Replace("util.go", <<L("func ParseFile(")>>, Markers \o <<L("func ParseFile(")>>),
         Replace("util.go", <<L("func ParseFile(")>>, <<L("func ParseFileSnapshot(")>>)>>,
       "oracle")

MarkersAboveBody == Before("util.go", Body[1], Markers)
InteriorJoinPath == AddWord("util.go", Body[2], "// interior")
DecoyFn == <<L("func labDecoy() {"), T("// unrelated"), T("}")>>
TrailingDecoy == Replace("util.go", SameFileFn, SameFileFn \o DecoyFn \o <<Blank>>)

InsertBeforeCells ==
  {UtilCell("insert-before", "happy", <<MarkersAboveBody>>),
   UtilCell("insert-before", "decoy",
            <<MarkersAboveBody, InteriorJoinPath,
              Replace("util.go", <<Body[5], Body[6], Body[7]>>,
                      <<Body[5], Body[6], Append(Body[7], "// changed")>>),
              TrailingDecoy>>),
   RenamedHeader("insert-before")}

InsertBeforeInteriorCells ==
  {UtilCell("insert-before-interior", "door", <<MarkersAboveBody, InteriorJoinPath>>),
   UtilCell("insert-before-interior", "decoy",
            <<MarkersAboveBody, InteriorJoinPath, TrailingDecoy>>),
   RenamedHeader("insert-before-interior")}

\* A second pair of boundary lines as far above as the region was moved down.
CompetingPair ==
  <<Body[1], TT("// a"), TT("// b"), TT("// c"), TT("// d"), TT("// e"), T("}")>>

InsertBeforeTieCells ==
  LET pair == Before("util.go", L("// components"), CompetingPair)
      decoy == Before("util.go", L("func sameFile {"), DecoyFn \o <<Blank>>)
  IN  {UtilCell("insert-before-tie", "door", <<pair, InteriorJoinPath>>),
       UtilCell("insert-before-tie", "decoy", <<pair, InteriorJoinPath, decoy>>),
       RenamedHeader("insert-before-tie")}

-----------------------------------------------------------------------------
(* benchmark/parse/parse.go from its line 18 on, and its test.             *)

Fields == <<T("Name"), T("N"), T("NsPerOp float"), T("Alloced uint"),
            T("Allocs uint"), T("MBPerS float"), T("Measured"), T("Ord")>>
BodyFirst == Fields[1]
BodyN     == Fields[2]
BodyLast  == Fields[8]

PrefixFields    == SubSeq(Fields, 1, 6)
LookalikeFields == <<BodyFirst, BodyLast>>
FieldsRelocated == <<T("NameRelocated")>> \o SubSeq(Fields, 2, 8)

Constants  == <<L("const ("), T("NsPerOp = 1 << iota"), T("MBPerS"),
                T("AllocedBytesPerOp"), T("AllocsPerOp"), L(")")>>
TypeHeader == L("type Benchmark struct {")
Godoc      == L("// ParseLine")
SetComment == L("// Set")

ParseFirst   == L("func ParseLine")
ParseRenamed == L("func ParseLineRenamed")
ParseBody ==
  <<T("fields :="), Blank, T("// Two required"), T("if len {"), TT("return too few"),
    T("}"), T("if !HasPrefix {"), TT("return no prefix"), T("}"), T("n, err := Atoi"),
    T("if err != nil {"), TT("return nil, err"), T("}"), T("b := &Benchmark"), Blank,
    T("// remaining"), T("for i {"), TT("b.parseMeasurement"), T("}"),
    T("return b, nil"), L("}")>>
ParseFn == <<ParseFirst>> \o ParseBody

Parse == <<L("// Flags"), L("// which")>> \o Constants
         \o <<Blank, L("// Benchmark is"), TypeHeader>> \o Fields
         \o <<L("}"), Blank, Godoc, L("// output.")>> \o ParseFn
         \o <<Blank, L("func parseMeasurement"), T("switch"), T("}"), L("}"), Blank,
              SetComment, L("type Set"), Blank, L("func ParseSet"), T("bb := make"),
              T("if err != nil {"), TT("return nil, err"), T("}"),
              T("return bb, nil"), L("}"), Blank>>

TestAnchor == L("func TestParseLine")
ParseTest  == <<L("package parse"), Blank, TestAnchor, T("cases"), L("}"), Blank>>

ParseFiles == [p \in {"parse.go"} |-> Parse]

\* Benchmark.fields, Benchmark.type and ParseLine.fn.
FieldsCell(lab, id, edits, gold) ==
  Cell(lab, id, ParseFiles, "parse.go", 12, 19, edits, gold)
TypeCell(lab, id, edits, gold) ==
  Cell(lab, id, ParseFiles, "parse.go", 11, 20, edits, gold)
ParseLineCell(lab, id, edits, gold) ==
  Cell(lab, id, ParseFiles, "parse.go", 24, 45, edits, gold)

PlantAt(line, text) == Before("parse.go", line, text \o <<Blank>>)
RenameHeader ==
  Replace("parse.go", <<TypeHeader>>, <<L("type BenchmarkSnapshot struct {")>>)
MoveOut == Replace("parse.go", Fields \o <<Blank>>, Nothing)
MoveIn  == PlantAt(SetComment, Fields)
EmptyStruct == <<TypeHeader, L("}")>>
AtOld(text) == Replace("parse.go", EmptyStruct, <<TypeHeader>> \o text \o <<L("}")>>)
InsertBlock == <<T("// block alpha"), T("// block beta")>>
InsertInside ==
  Replace("parse.go", <<BodyFirst, BodyN>>, <<BodyFirst>> \o InsertBlock \o <<BodyN>>)
PrefixShrink == Replace("parse.go", Fields \o <<Blank>>, PrefixFields \o <<Blank>>)

InsertBeforeUniqueLastCells ==
  LET competing == <<L("Name"), T("// 1"), T("// 2"), T("// 3"), T("// 4"), T("// 5"),
                     T("// 6"), L("Ord")>>
      pair == Before("parse.go", Constants[2], competing)
      decoy == PlantAt(Godoc, <<BodyLast>>)
      interior == AddWord("parse.go", BodyN, "// interior")
  IN  {FieldsCell("insert-before-unique-last", "door", <<pair, interior>>, "shifted"),
       FieldsCell("insert-before-unique-last", "decoy", <<pair, interior, decoy>>,
                  "shifted"),
       TypeCell("insert-before-unique-last", "codex",
                <<Before("parse.go", TypeHeader, Markers), RenameHeader>>, "oracle")}

GrowInsideCells ==
  {FieldsCell("grow-inside", "door", <<InsertInside>>, "grown"),
   FieldsCell("grow-inside", "decoy", <<InsertInside, PlantAt(Godoc, <<BodyLast>>)>>,
              "grown"),
   TypeCell("grow-inside", "codex", <<InsertInside, RenameHeader>>, "oracle")}

GrowShrinkExactDecoyCells ==
  {FieldsCell("grow-shrink-exact", "door", <<InsertInside, MoveIn>>, "grown"),
   FieldsCell("grow-shrink-exact", "decoy", <<PrefixShrink, MoveIn>>, "prefix"),
   FieldsCell("grow-shrink-exact", "codex", <<MoveOut, MoveIn, AtOld(LookalikeFields)>>,
              "moved")}

DeleteUnitCells ==
  {FieldsCell("delete-unit", "door", <<MoveOut>>, "absent"),
   FieldsCell("delete-unit", "decoy", <<MoveOut, PlantAt(Godoc, LookalikeFields)>>,
              "absent"),
   FieldsCell("delete-unit", "codex", <<MoveOut, RenameHeader>>, "absent")}

DeleteUnitFailCloseCells ==
  {FieldsCell("delete-unit-fail-close", "decoy",
              <<MoveOut, PlantAt(Godoc, LookalikeFields)>>, "absent"),
   FieldsCell("delete-unit-fail-close", "shrink",
              <<Replace("parse.go", Fields \o <<Blank>>, LookalikeFields \o <<Blank>>)>>,
              "shrunk")}

\* The fields twice, as far above as below the place they were read at.
GapFirst == T("// gap 1")
StripAndDuplicate ==
  Replace("parse.go",
          Constants \o <<Blank, L("// Benchmark is"), TypeHeader>> \o Fields \o <<L("}")>>,
          Fields \o <<TypeHeader, GapFirst, T("// gap 2"), T("// gap 3"), T("// gap 4"),
                      T("// gap 5"), T("// gap 6"), T("// gap 7"), T("// gap 8"), L("}")>>)
InsertCopy2 ==
  Replace("parse.go", <<Blank, L("}"), Blank, Godoc>>,
          <<Blank, L("}")>> \o Fields \o <<Blank, Godoc>>)
GapMarkers == Before("parse.go", GapFirst, Markers)

DuplicateBoundaryCells ==
  {FieldsCell("duplicate-boundary", "door", <<StripAndDuplicate, InsertCopy2>>, "absent"),
   FieldsCell("duplicate-boundary", "decoy",
              <<StripAndDuplicate, InsertCopy2, PlantAt(Godoc, <<BodyLast>>)>>, "absent"),
   FieldsCell("duplicate-boundary", "codex",
              <<StripAndDuplicate, InsertCopy2, RenameHeader>>, "absent")}

DuplicateBoundaryMarkersCells ==
  {FieldsCell("duplicate-boundary-markers", "door", <<StripAndDuplicate, InsertCopy2>>,
              "absent"),
   FieldsCell("duplicate-boundary-markers", "decoy",
              <<StripAndDuplicate, InsertCopy2, GapMarkers>>, "copy"),
   FieldsCell("duplicate-boundary-markers", "codex",
              <<StripAndDuplicate, InsertCopy2, GapMarkers, RenameHeader>>, "copy")}

MoveCrossFileCells ==
  LET both == [p \in {"parse.go", "parse_test.go"} |->
                 IF p = "parse.go" THEN Parse ELSE ParseTest]
      inTest(text) == Before("parse_test.go", TestAnchor, text \o <<Blank>>)
      cell(id, edits, gold) ==
        Cell("move-cross-file", id, both, "parse.go", 12, 19, edits, gold)
  IN  {cell("door", <<MoveOut, inTest(Fields)>>, "absent"),
       cell("decoy", <<MoveOut, inTest(Fields), AtOld(Fields)>>, "oracle"),
       cell("codex", <<MoveOut, inTest(LookalikeFields)>>, "absent")}

LeftoverMarkers ==
  <<MoveOut, AtOld(<<T("// alpha"), T("// beta")>>), RenameHeader,
    PlantAt(SetComment, FieldsRelocated)>>

MoveInFileCells ==
  {FieldsCell("move-in-file", "door", <<MoveOut, MoveIn>>, "oracle"),
   FieldsCell("move-in-file", "decoy", <<MoveOut, MoveIn, AtOld(Fields)>>, "oracle"),
   FieldsCell("move-in-file", "codex", LeftoverMarkers, "oracle")}

MoveLookalikeCells ==
  {FieldsCell("move-lookalike", "door", <<MoveOut, MoveIn>>, "oracle"),
   FieldsCell("move-lookalike", "decoy", <<MoveOut, MoveIn, AtOld(LookalikeFields)>>,
              "moved"),
   FieldsCell("move-lookalike", "codex", LeftoverMarkers, "oracle")}

RenameFirst == Replace("parse.go", <<ParseFirst>>, <<ParseRenamed>>)
BreakString == Replace("parse.go", <<T("b := &Benchmark")>>, <<T("b := unclosed")>>)

ParseBrokenCells ==
  {ParseLineCell("parse-broken", "door", <<BreakString>>, "stored"),
   ParseLineCell("parse-broken", "decoy", <<BreakString, PlantAt(SetComment, ParseFn)>>,
                 "stored"),
   ParseLineCell("parse-broken", "codex",
                 <<Before("parse.go", ParseFirst, Markers), RenameFirst, BreakString>>,
                 "oracle")}

RenameBoundaryCells ==
  {ParseLineCell("rename-boundary", "door", <<RenameFirst>>, "stored"),
   ParseLineCell("rename-boundary", "decoy",
                 <<RenameFirst, Before("parse.go", SetComment, <<ParseRenamed>> \o ParseBody)>>,
                 "stored"),
   ParseLineCell("rename-boundary", "codex",
                 <<Before("parse.go", ParseFirst, Markers), RenameFirst>>, "oracle")}

StoredStartLeftoverCells ==
  {FieldsCell("stored-start-leftover", "door",
              <<Replace("parse.go", Fields \o <<Blank>>, LookalikeFields \o <<Blank>>)>>,
              "absent"),
   FieldsCell("stored-start-leftover", "decoy",
              <<PrefixShrink, PlantAt(Godoc, Fields)>>, "prefix"),
   FieldsCell("stored-start-leftover", "codex",
              <<MoveOut, PlantAt(Godoc, LookalikeFields)>>, "absent")}

-----------------------------------------------------------------------------
(* The smoke pack: lib/express.js from its line 35 on, and a file that is  *)
(* deleted.                                                                *)

CreateHeader == L("function createApplication")
AppRequests  == T("// expose the prototype on requests")
Prototypes   == <<L("exports.application"), L("exports.request"), L("exports.response")>>
Constructors == <<Blank, L("/**"), L(" * Expose constructors.")>>
StaticExport == L("exports.static")
UrlEncoded   == L("exports.urlencoded")

Express ==
  <<Blank, CreateHeader, T("var app ="), TT("app.handle"), T("};"), Blank,
    T("mixin(app, Emitter"), T("mixin(app, proto"), Blank, AppRequests,
    T("app.request ="), TT("app: {}"), T("})"), Blank, T("// expose on responses"),
    T("app.response ="), TT("app: {}"), T("})"), Blank, T("app.init();"),
    T("return app;"), L("}"), Blank, L("/**"), L(" * Expose the prototypes."), L(" */"),
    Blank>> \o Prototypes \o Constructors
  \o <<L(" */"), Blank, L("exports.Route"), L("exports.Router"), Blank, L("/**"),
       L(" * Expose middleware"), L(" */"), Blank, L("exports.json"), L("exports.raw"),
       StaticExport, L("exports.text"), UrlEncoded, Blank>>

SmokeTemp == <<L("'use strict'"), Blank, L("module.exports"), T("return 'temp'"),
               L("};"), Blank>>

SmokeFiles == [p \in {"express.js", "temp.js"} |->
                 IF p = "express.js" THEN Express ELSE SmokeTemp]

SmokeCell(id, from, to, edits, gold) ==
  Cell("smoke", id, SmokeFiles, "express.js", from, to, edits, gold)

SmokeCells ==
  {SmokeCell("append", 2, 22,
             <<Before("express.js", CreateHeader, <<L("// smoke-append"), Blank>>)>>,
             "anchored"),
   Cell("smoke", "delete", SmokeFiles, "temp.js", 0, 0, <<Delete("temp.js")>>, "absent"),
   SmokeCell("duplicate-boundary", 39, 47,
             <<Replace("express.js", <<StaticExport>>,
                       <<StaticExport, L("exports.staticAlias")>>)>>, "absent"),
   SmokeCell("interior-edit", 2, 22,
             <<Replace("express.js", <<AppRequests>>, <<T("// expose the request prototype")>>)>>,
             "replaced"),
   SmokeCell("move-in-file", 28, 30,
             <<Replace("express.js", Prototypes \o Constructors, Tail(Constructors)),
               Replace("express.js", <<UrlEncoded, Blank>>,
                       <<UrlEncoded, Blank>> \o Prototypes \o <<Blank>>)>>, "moved")}
=============================================================================
