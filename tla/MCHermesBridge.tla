--------------------------- MODULE MCHermesBridge ---------------------------
(***************************************************************************)
(* Two files, of which each has two contents, one of two characters and    *)
(* one of one; reads of both, one of them again, a shell read, and a       *)
(* command that dumps both.  The worlds:                                   *)
(*   any:     every question, with kills, interrupts and deletions         *)
(*   steady:  one file after the other, with room for both; no file        *)
(*            disappears                                                   *)
(*   tight:   as any, without deletions                                    *)
(*   calm:    both files at once; no process is killed or interrupted      *)
(*   kept:    a host that keeps projections in its transcript; both files  *)
(*            at once, with kills, interrupts and deletions                *)
(*   omitted: as calm, with room for both files                            *)
(*   plugin:  the store of executed reads, of two sessions with two calls  *)
(*            each                                                         *)
(***************************************************************************)
EXTENDS HermesBridge

MCPaths == {1, 2}
MCUnitOrder == <<1, 2>>
MCVersions == {"short", "long"}
MCLength == [v \in MCVersions |-> IF v = "long" THEN 2 ELSE 1]
MCNone == {}

MCCalls == 1..5
MCTool == [c \in MCCalls |-> IF c \in {3, 4} THEN "shell" ELSE "read"]
MCReadOf == <<1, 2, 1, 0, 1>>
MCNamed == [c \in MCCalls |-> IF c = 4 THEN {1, 2} ELSE {}]
MCMentioned == [c \in MCCalls |-> IF c = 4 THEN {1, 2} ELSE {MCReadOf[c]}]

MCQuestions == {{1, 2}, {3}, {4}, {5}, {1, 5}}
MCTwoReads == {{1, 2}}
MCReadsApart == {{1}, {2}}

MCOverlaps == {0}
MCOldState == [p \in MCPaths |-> "long"]

CONSTANT Worlds    \* those that are explored

VARIABLES
  world,
  store, executed, stateFile, operation, payload, renamed, taken  \* the plugin's

plugin == <<store, executed, stateFile, operation, payload, renamed, taken>>

Any == INSTANCE HermesBridge WITH
  Questions <- MCQuestions, Budget <- 2, Kills <- TRUE, Interrupts <- TRUE,
  MaxMessages <- 6, MaxEdits <- 1

Steady == INSTANCE HermesBridge WITH
  Questions <- MCReadsApart, Budget <- 4, Kills <- TRUE, Interrupts <- TRUE,
  Deletes <- FALSE, MaxMessages <- 7, MaxEdits <- 1

Tight == INSTANCE HermesBridge WITH
  Questions <- MCQuestions, Budget <- 2, Kills <- TRUE, Interrupts <- TRUE,
  Deletes <- FALSE, MaxMessages <- 6, MaxEdits <- 1

Kept == INSTANCE HermesBridge WITH
  Persists <- TRUE, Kills <- TRUE, Interrupts <- TRUE,
  MaxMessages <- 7, MaxEdits <- 1

Roomy == INSTANCE HermesBridge WITH Budget <- 4

PluginCalls == 1..4
SessionOfCall == [c \in PluginCalls |-> IF c \in {1, 2} THEN "a" ELSE "b"]

Plugin == INSTANCE ExecutedReads WITH
  Sessions <- {"a", "b"}, Calls <- PluginCalls, SessionOf <- SessionOfCall,
  saved <- renamed

ASSUME WorldsAssumption ==
  /\ Any!HermesAssumption /\ Steady!HermesAssumption
  /\ Tight!HermesAssumption /\ Kept!HermesAssumption /\ Roomy!HermesAssumption
  /\ Plugin!ExecutedReadsAssumption

MCInit ==
  /\ world \in Worlds
  /\ Init /\ Plugin!Init
  /\ world = "plugin" =>
       disk = [p \in Paths |-> "long"] /\ ~saved.versioned /\ ~Holds(saved.last)

MCNext ==
  /\ UNCHANGED world
  /\ \/ /\ \/ world = "any" /\ Any!Next
           \/ world = "steady" /\ Steady!Next
           \/ world = "tight" /\ Tight!Next
           \/ world = "calm" /\ Next
           \/ world = "kept" /\ Kept!Next
           \/ world = "omitted" /\ Roomy!Next
        /\ UNCHANGED plugin
     \/ world = "plugin" /\ Plugin!Next /\ UNCHANGED vars

MCSpec == MCInit /\ [][MCNext]_<<vars, world, plugin>>

-----------------------------------------------------------------------------
(* What holds in some of the worlds only *)

(* Without deletions a request tells the truth, whatever is killed or
   interrupted: a marker that says the current content is supplied is right,
   also when a file is over budget, and where there is room for all every
   selected file is carried (adapters/hermes/README.md:66, transcript.mjs:2,
   bridge.mjs:804-822). *)
SteadyTellsTheTruth ==
  /\ world \in {"steady", "tight"} => MarkersAreTrue
  /\ world = "steady" => SelectedIsCarried

(* The bridge is told the executed arguments of every read of its session, but
   for those that a turn of the other session cleared
   (adapters/hermes/README.md:87-98, __init__.py:196-205). *)
PluginInvariant == Plugin!PluginInvariant
=============================================================================
