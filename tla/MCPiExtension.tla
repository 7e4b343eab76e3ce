--------------------------- MODULE MCPiExtension ---------------------------
(***************************************************************************)
(* Two files, of which each has two contents, one of two characters and    *)
(* one of one; reads of both, one of them again, a shell read, and a       *)
(* command that dumps both.  The worlds:                                   *)
(*   any:      every question, with deletions, races and restarts          *)
(*   steady:   official reads; nothing is deleted and no process restarts  *)
(*   branches: the user leaves the branch and comes back to it             *)
(*   pi shell, hermes shell: what becomes of one shell command (ShellRead) *)
(*   dumps:    which files a shell output is taken to hold (ShellDumps)    *)
(***************************************************************************)
EXTENDS PiExtension

MCPaths == {1, 2}
MCUnitOrder == <<1, 2>>
MCVersions == {"short", "long"}
MCLength == [v \in MCVersions |-> IF v = "long" THEN 2 ELSE 1]
MCNone == {}

MCCalls == 1..5
MCTool == [c \in MCCalls |-> IF c \in {3, 4} THEN "shell" ELSE "read"]
MCReadOf == <<1, 2, 1, 0, 1>>
MCNamed == [c \in MCCalls |-> IF c = 4 THEN {1, 2} ELSE {}]
MCMentioned == [c \in MCCalls |-> IF c = 4 THEN {1, 2} ELSE {MCReadOf[c]}]

MCQuestions == {{1, 2}, {3}, {4}, {5}, {1, 5}}
MCOfficial == {{1, 2}, {5}, {1, 5}}
MCBranches == {{1}, {2}, {3}}

MCOverlaps == {0}

Samples == INSTANCE MCShell

ReadCommands == Samples!ReadCommands
ReadTexts == Samples!ReadTexts
ReadEdited == Samples!F
ReadFixed == Samples!ReadFixed
DumpFiles == Samples!DumpFiles
DumpCommands == Samples!DumpCommands

VARIABLES
  world,
  files, command, output, unit, step,      \* of a shell command
  tracked, dumped, judged, dump            \* of a dump

shell == <<files, command, output, unit, step>>
dumps == <<tracked, dumped, judged, dump>>

Any == INSTANCE PiExtension WITH
  Questions <- MCQuestions, Deletes <- TRUE, Races <- TRUE, Restarts <- TRUE,
  MaxMessages <- 6

Branches == INSTANCE PiExtension WITH
  Questions <- MCBranches, Budget <- 4, Forks <- TRUE, MaxMessages <- 7,
  MaxEdits <- 1, MaxTurn <- 0

Shell(Host) == INSTANCE ShellRead WITH
  Commands <- ReadCommands, Texts <- ReadTexts, Edited <- ReadEdited,
  Fixed <- ReadFixed, disk <- files, stage <- step

Dumps == INSTANCE ShellDumps WITH
  Files <- DumpFiles, Commands <- DumpCommands, command <- dumped

ASSUME WorldsAssumption ==
  /\ Any!PiAssumption /\ Branches!PiAssumption
  /\ Shell("pi")!ShellAssumption /\ Shell("hermes")!ShellAssumption

Shells == {"pi shell", "hermes shell"}

\* A machine that is not looked at stays in one of its first states.
MCInit ==
  /\ world \in {"any", "steady", "branches", "dumps"} \cup Shells
  /\ IF world \in Shells \cup {"dumps"} THEN disk = [p \in Paths |-> "long"]
     ELSE disk \in [Paths -> Versions]
  /\ IF world \in Shells THEN command \in ReadCommands
     ELSE /\ command = CHOOSE c \in ReadCommands : TRUE
          /\ files = Shell("pi")!Files(<<"x", "y">>)
  /\ IF world = "dumps" THEN dumped \in DumpCommands
     ELSE tracked = <<>> /\ dumped = CHOOSE c \in DumpCommands : TRUE
  /\ Init /\ Shell("pi")!Init /\ Dumps!Init

MCNext ==
  /\ UNCHANGED world
  /\ \/ /\ \/ world = "any" /\ Any!Next
           \/ world = "steady" /\ Next
           \/ world = "branches" /\ Branches!Next
        /\ UNCHANGED <<shell, dumps>>
     \/ /\ \/ world = "pi shell" /\ Shell("pi")!Next
           \/ world = "hermes shell" /\ Shell("hermes")!Next
        /\ UNCHANGED <<vars, dumps>>
     \/ world = "dumps" /\ Dumps!Next /\ UNCHANGED <<vars, shell>>

MCSpec == MCInit /\ [][MCNext]_<<vars, world, shell, dumps>>

-----------------------------------------------------------------------------
(* What holds in some of the worlds only *)

(* Without deletions a marker that says the current content is supplied is
   right, on whichever branch; with official reads on one branch every selected
   file is carried, and what a read showed and a request hides is in the
   archive (SOUL.md:34-35, transcript.mjs:2, extension.ts:296-300, 338-411). *)
SteadyTellsTheTruth ==
  /\ world \in {"steady", "branches"} => MarkersAreTrue
  /\ world = "steady" => SelectedIsCarried /\ MaskedIsRecoverable

(* Both adapters track the whole output of a head or tail of one file, as far
   as EndsAreTracked says; and on Pi, a region that is tracked was the whole
   output of its command (shell-read.mjs:165-184, 238-252, 272-314). *)
ShellReadsAreExact ==
  /\ world \in Shells => Shell("pi")!EndsAreTracked
  /\ world = "pi shell" => Shell("pi")!RegionIsTheOutput

(* The marker of a dump names the files that were dumped, but for those the
   parser is known to overlook
   (shell-read.mjs:104-131, 186-201, request-prune.mjs:529-560). *)
DumpsAreNamed == Dumps!DumpsAreNamed
=============================================================================
