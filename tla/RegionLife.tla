----------------------------- MODULE RegionLife -----------------------------
(***************************************************************************)
(* One line region from its first read on: the file is edited a line at a  *)
(* time, and now and then the registry refreshes the unit as               *)
(* FreshRegistry.refresh does for a region whose language no semantic      *)
(* engine serves (src/registry.mjs:311-333): anchors first, then, for a    *)
(* single line of a file of known length, the stored line.                 *)
(***************************************************************************)
EXTENDS Resolution

CONSTANTS
  Locate(_, _, _), \* resolveRegion(content, current text, stored start line)
  Lines,        \* the lines an edit can write
  FirstTexts,   \* the files a host can have read from
  WrittenTexts, \* the files a tool can write as a whole
  MaxLines,     \* bound on the length of the file
  MaxEdits,     \* bound on the number of edits
  LongestRead   \* bound on the length of the observed region

ASSUME RegionLifeAssumption ==
  /\ MaxLines \in Nat \ {0} /\ MaxEdits \in Nat /\ LongestRead \in Nat \ {0}
  /\ \A t \in FirstTexts \cup WrittenTexts : t # <<>> /\ Len(t) =< MaxLines
  /\ \A l \in Lines \cup UNION {ToSet(t) : t \in FirstTexts \cup WrittenTexts} :
       NewLine \notin ToSet(l)

VARIABLES
  file,      \* the lines of the file now
  unit,      \* the registered unit
  edits,     \* how many edits were made
  seen       \* history: the file as the last resolution or read saw it

vars == <<file, unit, edits, seen>>

\* observedFileLineCount is 0 when the host did not report it.
UnitOf(content, from, to, state, method, observed) ==
  [scope |-> "region", content |-> content, startLine |-> from, endLine |-> to,
   state |-> state, method |-> method, observedFileLineCount |-> observed]

Init ==
  /\ file \in FirstTexts
  /\ \E from, to \in DOMAIN file :
       /\ from =< to /\ to - from < LongestRead
       /\ \E observed \in {0, Len(file)} :
            unit = UnitOf(LinesOf(file, from, to), from, to, "resolved",
                          "observed", observed)
  /\ edits = 0
  /\ seen = file

Write(text) ==
  /\ edits < MaxEdits
  /\ file' = text
  /\ edits' = edits + 1
  /\ UNCHANGED <<unit, seen>>

InsertLine == \E i \in 1..(Len(file) + 1), l \in Lines :
                Len(file) < MaxLines /\ Write(InsertAt(file, i, l))
DeleteLine == \E i \in DOMAIN file : Len(file) > 1 /\ Write(RemoveAt(file, i))
ChangeLine == \E i \in DOMAIN file : \E l \in Lines \ {file[i]} :
                Write(ReplaceAt(file, i, l))
WriteFile  == \E text \in WrittenTexts \ {file} : Write(text)

Located == Rescued(unit, file, Locate(unit.content, file, unit.startLine))

Take(found) ==
  /\ found # Unresolved
  /\ unit' = UnitOf(found.content, found.startLine, found.endLine,
                    "resolved", found.method, unit.observedFileLineCount)
  /\ seen' = file
  /\ UNCHANGED <<file, edits>>

RefreshResolved == Take(Located)

RefreshUnresolved ==
  /\ Located = Unresolved
  /\ unit' = [unit EXCEPT !.state = "unresolved"]
  /\ UNCHANGED <<file, edits, seen>>

Next == \/ InsertLine \/ DeleteLine \/ ChangeLine \/ WriteFile
        \/ RefreshResolved \/ RefreshUnresolved

Spec == Init /\ [][Next]_vars

-----------------------------------------------------------------------------

\* A unit has the lines of a region and a state, and the file has lines.
TypeOK ==
  /\ file # <<>> /\ Len(file) =< MaxLines
  /\ unit.state \in {"resolved", "unresolved"}
  /\ unit.content # <<>>
  /\ Len(unit.content) = unit.endLine - unit.startLine + 1
  /\ edits \in 0..MaxEdits

Fresh == unit.state = "resolved" /\ seen = file

(***************************************************************************)
(* Resolved bytes are current: what a refresh takes for the unit is a run  *)
(* of lines of the file, wherever it stands there (docs/ARCHITECTURE.md:   *)
(* 125, "last-known bytes are never rendered as current"). The code does   *)
(* not keep it: a line that grew in place is found inside what it became   *)
(* (anchors.mjs:211-213).                                                  *)
(***************************************************************************)
ResolvedBytesAreCurrent ==
  Fresh => \E k \in DOMAIN file :
             unit.content = LinesOf(file, k, k + Len(unit.content) - 1)

(***************************************************************************)
(* What a refresh reports stands at the lines it names, with the one       *)
(* exception the code makes: an exact match looks for the characters of    *)
(* the region and not for its lines, so it may be part of the lines it     *)
(* names, in a file nobody edited too (anchors.mjs:211-213, 253-260).      *)
(***************************************************************************)
ReportedLinesHoldTheBytes ==
  Fresh => LET there == LinesOf(file, unit.startLine, unit.endLine)
           IN  /\ Len(there) = Len(unit.content)
               /\ \/ unit.content = there
                  \/ /\ unit.method = "exact"
                     /\ Occurrences(Join(unit.content), Join(there)) # {}

(***************************************************************************)
(* What a refresh reports is a region of the file whose lines hold the     *)
(* bytes of the unit, or that there is none (registry.mjs:297-381).        *)
(***************************************************************************)
ReportIsSound == TypeOK /\ ReportedLinesHoldTheBytes

(***************************************************************************)
(* Exact content wins: however often a file is refreshed, and after any    *)
(* edits that were undone, a unit whose file is as it was last seen keeps  *)
(* its bytes (anchors.mjs:51). The code does not keep it: a region with a  *)
(* blank line at its edge that occurs twice is answered from its           *)
(* boundaries (anchors.mjs:264), in a file nobody edited too.              *)
(***************************************************************************)
ExactContentWins ==
  [][seen = file /\ unit' # unit /\ unit'.state = "resolved" =>
       unit'.content = unit.content]_vars

(***************************************************************************)
(* A solid region, one that begins and ends with a visible line, does not  *)
(* drift in a file that is as it was last seen: it is not lost, so that a  *)
(* change the registry counts for it is a change somebody made             *)
(* (registry.mjs:336, 347-350), it keeps its bytes, and its lines move at  *)
(* most once: to the one match of its characters, where that hides another *)
(* it overlaps (anchors.mjs:26). From there on they stay, whatever ties    *)
(* the boundary lines leave open (anchors.mjs:304).                        *)
(***************************************************************************)
IsSolid(content) == {1, Len(content)} \subseteq Meaningful(content)

HasMoved == <<unit'.startLine, unit'.endLine>> # <<unit.startLine, unit.endLine>>

SolidRegionStays ==
  [][seen = file /\ unit' # unit /\ IsSolid(unit.content) =>
       /\ unit'.state = "resolved"
       /\ unit'.content = unit.content
       /\ HasMoved =>
            /\ unit.method # "exact" /\ unit'.method = "exact"
            /\ Cardinality(Occurrences(Join(unit.content), Join(file))) > 1]_vars

(***************************************************************************)
(* A resolution never jumps to text that has nothing in common with what   *)
(* the unit was.  The stored line of a one-line read is exempt: the code   *)
(* trusts its number (registry.mjs:12-30).                                 *)
(***************************************************************************)
KeepsALine ==
  [][seen' = file /\ unit' # unit /\ unit'.method # "stored-line-span" =>
       \/ unit'.content = unit.content
       \/ \E i \in Meaningful(unit.content), j \in DOMAIN unit'.content :
            SameLine(unit.content[i], unit'.content[j])]_vars

(***************************************************************************)
(* A unit that moves and changes at once keeps its first visible line: no  *)
(* shift is accepted on interior lines alone                               *)
(* (structural-consensus.mjs:24-27, 113-137).                              *)
(***************************************************************************)
MovesWithItsFirstLine ==
  [][seen' = file /\ unit'.content # unit.content
       /\ unit'.startLine # unit.startLine
         => SameLine(unit'.content[1],
                     unit.content[Min(Meaningful(unit.content))])]_vars

(***************************************************************************)
(* A resolution does not jump: it keeps a line of what the unit was, and   *)
(* the first one if the unit moves as well                                 *)
(* (structural-consensus.mjs:112-137).                                     *)
(***************************************************************************)
NoJump == KeepsALine /\ MovesWithItsFirstLine

(***************************************************************************)
(* An exact match away from the stored start is the only one               *)
(* (docs/ARCHITECTURE.md:112, "accept a unique exact or structural         *)
(* match"). The code does not keep it: occurrences that overlap are        *)
(* counted once (anchors.mjs:26).                                          *)
(***************************************************************************)
ExactMoveIsUnique ==
  [][unit'.method = "exact" /\ unit'.startLine # unit.startLine =>
       Cardinality(Occurrences(Join(unit'.content), Join(file))) = 1]_vars
=============================================================================
