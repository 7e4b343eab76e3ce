------------------------------ MODULE ShellRead ------------------------------
(***************************************************************************)
(* A shell command an agent runs, from its output to the unit it becomes:  *)
(* the shell prints, the host may cut the output or its last line end, the *)
(* file may be edited, and the adapter parses the command and compares     *)
(* what it was shown with the file it now finds.                           *)
(*                                                                         *)
(* Pi does so for every result (tryTrackShellRead), Hermes for the calls   *)
(* of a transcript (shellCallsFromMessages and the shell branch of         *)
(* select_context), where a tail has lost its number of lines and nothing  *)
(* is compared.                                                            *)
(***************************************************************************)
EXTENDS ShellCommands

CONSTANTS
  Host,      \* "pi" or "hermes"
  Commands,  \* the commands of the agent
  Texts,     \* what the file Edited may hold
  Edited,    \* the file that changes
  Fixed      \* the texts of the other files

\* Assumed of the constants.
ShellAssumption ==
  /\ Host \in {"pi", "hermes"}
  /\ Edited \notin DOMAIN Fixed

VARIABLES
  disk,      \* the files of the workspace
  command,   \* what runs
  output,    \* what the host shows of it
  unit,      \* what became of it
  stage      \* "issue", "result", "tracked"

vars == <<disk, command, output, unit, stage>>

Known == DOMAIN Fixed \cup {Edited}
Files(text) == [p \in Known |-> IF p = Edited THEN text ELSE Fixed[p]]

Opaque == <<"other output">>

\* What a host shows: all of it, all but the last line end, or a part.
Shown(text) ==
  ({text, Body(text)}
     \cup {SubSeq(text, i, j) : i \in 1..Len(text), j \in 1..Len(text)}) \ {<<>>}

Init ==
  /\ disk \in {Files(text) : text \in Texts}
  /\ command \in Commands
  /\ output = Opaque
  /\ unit = NoRead
  /\ stage = "issue"

Run ==
  /\ stage = "issue"
  /\ output' \in
       IF command.pipe = "none" /\ Cardinality(FilesRead(command)) = 1
          /\ FilesRead(command) \subseteq Known
       THEN Shown(Printed(command, disk[CHOOSE p \in FilesRead(command) : TRUE]))
       ELSE {Opaque}
  /\ stage' = "result"
  /\ UNCHANGED <<disk, command, unit>>

Edit ==
  /\ stage = "result"
  /\ disk' \in {Files(text) : text \in Texts} \ {disk}
  /\ UNCHANGED <<command, output, unit, stage>>

-----------------------------------------------------------------------------
(* Tracking. *)

Observed(text) == IF Last(text) = Final THEN Front(text) ELSE text

Tracked(p, from, to, content) ==
  [scope |-> "region", path |-> p, from |-> from, to |-> to,
   content |-> content]

\* A plausible bug: fewer lines than the command must have printed will do.
SpanOfAnySize(read, text) ==
  LET body  == Body(text)
      lines == Observed(output)
      from  == IF read.scope = "tail" THEN Len(body) - Len(lines) + 1 ELSE 1
      to    == IF read.scope = "tail" \/ Len(lines) = Len(body)
               THEN Len(text) ELSE Len(lines)
  IN  IF /\ read.scope = "tail" \/ read.from = 1
         /\ lines # <<>> /\ Len(lines) <= Len(body)
         /\ SubSeq(body, from, from + Len(lines) - 1) = lines
      THEN {<<from, to>>} ELSE {}

(***************************************************************************)
(* observedSpanForShellRead: the lines of the file the output shows; none  *)
(* if it is not exactly what the command must print, or does not begin at  *)
(* the first line or end at the last one.                                  *)
(***************************************************************************)
SpanOf(read, text) ==
  LET body  == Body(text)
      lines == Observed(output)
      asked == IF read.scope = "tail" THEN read.n ELSE read.to
      from  == IF read.scope = "tail" THEN Len(body) - Len(lines) + 1 ELSE 1
      to    == IF read.scope = "tail" \/ Len(lines) = Len(body)
               THEN Len(text) ELSE Len(lines)
  IN  IF /\ read.scope = "tail" \/ read.from = 1
         /\ lines # <<>>
         /\ Len(lines) = IF asked < Len(body) THEN asked ELSE Len(body)
         /\ SubSeq(body, from, from + Len(lines) - 1) = lines
      THEN {<<from, to>>} ELSE {}

OnPi(read) ==
  IF read.scope = "none" \/ read.path \notin Known THEN NoRead
  ELSE IF read.scope = "file" THEN Wholly(read.path)
  ELSE IF output = <<Final>> \/ SpanOf(read, disk[read.path]) = {} THEN NoRead
  ELSE LET span == CHOOSE s \in SpanOf(read, disk[read.path]) : TRUE
       IN  Tracked(read.path, span[1], span[2], output)

OnHermes(read) ==
  IF read.scope = "none" \/ read.path \notin Known THEN NoRead
  ELSE IF \/ read.scope = "file"
          \/ read.scope = "region" /\ read.to >= Len(disk[read.path])
       THEN Wholly(read.path)
  ELSE IF output = <<Final>> THEN NoRead
  ELSE IF read.scope = "tail" THEN Tracked(read.path, 1, Len(output), output)
  ELSE Tracked(read.path, read.from, read.to, output)

Track ==
  /\ stage = "result"
  /\ unit' = IF Host = "pi" THEN OnPi(Parsed(command)) ELSE OnHermes(Parsed(command))
  /\ stage' = "tracked"
  /\ UNCHANGED <<disk, command, output>>

Next == Run \/ Edit \/ Track

Spec == Init /\ [][Next]_vars

-----------------------------------------------------------------------------
(* Properties.                                                             *)

\* Equal but for the line end of the last line, which hosts may cut.
SameLines(a, b) == a = b \/ Observed(a) = Observed(b) \/ a = Observed(b)

\* A command whose number counts lines from one end of the file.
CountsFromAnEnd == Asked(command).kind # "from"

(***************************************************************************)
(* A region that is tracked names the lines of the file that hold what was *)
(* shown, and was shown the whole output of the command: an output the     *)
(* host cut, or one of an older file, is not a shorter read. A tail +N is  *)
(* taken for tail N, so only its lines are right                           *)
(* (shell-read.mjs:139-142, 272-314). The Hermes bridge does not keep it: it has no *)
(* span for a tail and does not compare the output of a head               *)
(* (bridge.mjs:387).                                                       *)
(***************************************************************************)
RegionIsTheOutput ==
  stage = "tracked" /\ unit.scope = "region" =>
    LET text == disk[unit.path]
    IN  /\ SameLines(SubSeq(text, unit.from, unit.to), unit.content)
        /\ CountsFromAnEnd => SameLines(Printed(command, text), unit.content)

\* The whole output, or all but its last line end, unless a blank last line
\* would go with it.
IsWhole(shown, text) ==
  \/ shown = text
  \/ shown = Body(text) /\ Last(Body(text)) # Final

(***************************************************************************)
(* The output of a head or tail of one file, named behind the flags and    *)
(* not edited since, is tracked: all of it, or without its last line end,  *)
(* whether the number of lines is given as -n N, -nN, -N or --lines=N, or  *)
(* not at all. Two outputs are not tracked, and not claimed: with          *)
(* --lines N the parser takes N for a second file (shell-read.mjs:67-72,   *)
(* 169), and where a blank last line lost its end, the line is not counted *)
(* (shell-read.mjs:165-184, 238-252, 285).                                 *)
(***************************************************************************)
EndsAreTracked ==
  /\ stage = "tracked"
  /\ command.verb \in {"head", "tail"} /\ command.pipe = "none"
  /\ {i \in DOMAIN command.args : command.args[i].kind = "word"}
       = {Len(command.args)} \ {0}
  /\ {Flag("-c"), Flag("--lines")} \cap ToSet(command.args) = {}
  /\ \E p \in Known : /\ FilesRead(command) = {p}
                      /\ disk[p] # <<Final>>
                      /\ IsWhole(output, Printed(command, disk[p]))
  /\ CountsFromAnEnd /\ Asked(command).n >= 1
  => unit # NoRead

(***************************************************************************)
(* "A single-file cat, head, tail, sed -n, or nl ... goes through the same *)
(* workspace guard and tracking path as an official read"                  *)
(* (adapters/pi/README.md:155-157). The code does not keep it: a range     *)
(* that does not begin at the first line has no span (shell-read.mjs:293). *)
(***************************************************************************)
SlicesAreTracked ==
  /\ stage = "tracked"
  /\ command.verb = "sed"
  /\ \E p \in Known : /\ FilesRead(command) = {p}
                      /\ output = Printed(command, disk[p])
                      /\ output # <<Final>>
  => unit # NoRead

(***************************************************************************)
(* "It rejects pipes, subshells, multiple files, and anything it does not  *)
(* recognize, and those stay ordinary shell results"                       *)
(* (adapters/pi/README.md:157-159). The code does not keep it: -n takes a  *)
(* value whatever the verb, so the first of two files is taken for one     *)
(* (shell-read.mjs:67).                                                    *)
(***************************************************************************)
SeveralFilesAreRejected ==
  stage = "tracked" /\ unit # NoRead => FilesRead(command) = {unit.path}
=============================================================================
