------------------------------ MODULE ShellDumps ------------------------------
(***************************************************************************)
(* Which tracked files the output of a shell command is taken to hold when *)
(* a request is pruned: those it is given by name if it names several,     *)
(* else the one tracked file whose path its text contains.  The output is  *)
(* then replaced by a marker that names them.  RequestPrune takes this     *)
(* judgement as its constants Named and Mentioned.                         *)
(***************************************************************************)
EXTENDS ShellCommands

CONSTANTS Files, Commands

VARIABLES
  tracked,   \* the files that are tracked when the request is made, in order
  command,
  judged,    \* whether the command has been looked at
  dump       \* [files, others], or Untouched

vars == <<tracked, command, judged, dump>>

Untouched == [files |-> {}, others |-> {}]

Tracked == ToSet(tracked)

Init ==
  /\ tracked \in UNION {SetToSeqs(files) : files \in SUBSET Files}
  /\ command \in Commands
  /\ judged = FALSE
  /\ dump = Untouched

\* A plausible bug: the first file that is named will do for all.
JudgedByOne ==
  LET named == DumpPaths(command) \cap Tracked
      hits  == Mentions(command, tracked)
  IN  IF named # {} THEN [files |-> named, others |-> {}]
      ELSE IF Cardinality(hits) = 1 THEN [files |-> hits, others |-> {}]
      ELSE Untouched

\* trackedDumpPathsForCommand
Judged ==
  LET named == DumpPaths(command)
      hits  == Mentions(command, tracked)
  IN  IF named # {}
      THEN IF named \cap Tracked = {} THEN Untouched
           ELSE [files |-> named \cap Tracked, others |-> named \ Tracked]
      ELSE IF Cardinality(hits) = 1 THEN [files |-> hits, others |-> {}]
      ELSE Untouched

Judge ==
  /\ ~judged
  /\ judged' = TRUE
  /\ dump' = Judged
  /\ UNCHANGED <<tracked, command>>

Next == Judge

Spec == Init /\ [][Next]_vars

-----------------------------------------------------------------------------
(* Properties.                                                             *)

\* What a list of files does not show: the word behind the -n of cat, which
\* takes no value, and a file that a script opens of its own.
Overlooked ==
  {command.args[i].path : i \in
     {k \in DOMAIN command.args :
        \/ command.args[k].kind = "script"
        \/ /\ command.verb = "cat" /\ k > 1 /\ command.args[k].kind = "word"
           /\ command.args[k - 1] = Flag("-n")}}

(***************************************************************************)
(* When the output of a command is replaced, the marker names no file as   *)
(* supplied that is not tracked, and what it leaves unnamed is known: of a *)
(* list of files only what the list does not show, so that `cat -n a b c'  *)
(* loses a (shell-read.mjs:67), and without a list no tracked file. What   *)
(* is lost without a list is the text of files that are not tracked: that  *)
(* of b in `head a b', if a is (shell-read.mjs:104-131, 203-219;           *)
(* request-prune.mjs:529-560).                                             *)
(***************************************************************************)
UnnamedIsKnown ==
  LET named   == dump.files \cup dump.others
      unnamed == FilesRead(command) \ named
  IN  dump # Untouched =>
        /\ dump.files \subseteq Tracked /\ dump.others \cap Tracked = {}
        /\ IF DumpPaths(command) # {}
           THEN named \subseteq FilesRead(command) /\ unnamed \subseteq Overlooked
           ELSE unnamed \cap Tracked = {}

(***************************************************************************)
(* The output of a command that reads one file, which is tracked, is taken *)
(* for that file's, unless another tracked path stands in what else is     *)
(* written there: in the verb, a flag or a script. A path that is part of  *)
(* the file's own does not stand in its way (shell-read.mjs:186-201).      *)
(***************************************************************************)
LongestPathWins ==
  \A p \in Tracked :
    /\ judged /\ FilesRead(command) = {p}
    /\ \A q \in Tracked \ {p} : ~Inside(Without(TextOf(command), p), q)
    => dump.files = {p}

(***************************************************************************)
(* A dump is replaced under the names of the files it holds, but for those *)
(* the parser overlooks: all of a list, the one with the longest path if   *)
(* the text has to be searched (shell-read.mjs:104-131, 186-201).          *)
(***************************************************************************)
DumpsAreNamed == UnnamedIsKnown /\ LongestPathWins

(***************************************************************************)
(* "path matching stays fail-closed exact" (docs/ARCHITECTURE.md:185):     *)
(* only the output of a command that names a tracked file is replaced. The *)
(* code does not keep it: the path of a tracked file is searched in the    *)
(* text of the command, and found in a longer path (shell-read.mjs:196).   *)
(***************************************************************************)
OnlyNamedFiles == dump.files \subseteq FilesRead(command)
=============================================================================
