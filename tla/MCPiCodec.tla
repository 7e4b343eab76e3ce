----------------------------- MODULE MCPiCodec -----------------------------
(***************************************************************************)
(* Two files; two reads of the first, one of the second, a shell command,  *)
(* and questions that make one or two calls at once.  The worlds:          *)
(*   plain:   one file is outside the workspace, users interrupt, and the  *)
(*            host changes its request while the codec is at work          *)
(*   corrupt: the codec breaks what it returns                             *)
(*   test:    the codec of the test host, with two calls, one of them a    *)
(*            read (TestHost)                                              *)
(***************************************************************************)
EXTENDS PiCodec

MCPaths == {1, 2}
MCUnitOrder == <<1, 2>>
MCVersions == {"short", "long"}
MCOne == {"long"}
MCLength == [v \in MCVersions |-> IF v = "long" THEN 2 ELSE 1]
MCOneLength == [v \in MCOne |-> 2]
MCNone == {}
MCSecond == {2}

MCCalls == 1..4
MCTool == [c \in MCCalls |-> IF c = 3 THEN "shell" ELSE "read"]
MCReadOf == <<1, 2, 0, 1>>
MCNamed == [c \in MCCalls |-> {}]
MCMentioned == [c \in MCCalls |-> IF c = 3 THEN {1} ELSE {MCReadOf[c]}]

MCQuestions == {{}, {1, 3}, {1, 2}, {4}}
MCPlain == {{}, {1}, {2, 3}, {4}}

MCTurns == {1}
MCOverlaps == {0}

VARIABLES world, failAt, corrupt, replaced

Plain == INSTANCE PiCodec WITH MaxMessages <- 5

Corrupt == INSTANCE PiCodec WITH
  Versions <- MCOne, Length <- MCOneLength, Questions <- MCPlain,
  Refused <- MCNone, Interrupts <- FALSE, Interferes <- FALSE,
  Corrupts <- TRUE, MaxEdits <- 0

TestCalls == {1, 2}
TestReads == {1}

Test == INSTANCE TestHost WITH
  Calls <- TestCalls, Reads <- TestReads, OldBodies <- {"old"},
  NewBody <- "new", Chosen <- {TestReads}, MaxMessages <- 4

options == <<failAt, corrupt, replaced>>

ASSUME WorldsAssumption ==
  /\ Corrupt!RequestPruneAssumption /\ Corrupt!PiCodecAssumption
  /\ Test!TestHostAssumption

MCInit ==
  \/ /\ world = "plain" /\ Plain!Init
     /\ failAt = "none" /\ corrupt = "none" /\ replaced = TestReads
  \/ /\ world = "corrupt" /\ Corrupt!Init
     /\ failAt = "none" /\ corrupt = "none" /\ replaced = TestReads
  \/ /\ world = "test" /\ Test!Init
     /\ disk = [p \in Paths |-> "long"] /\ edits = 0

MCNext ==
  /\ UNCHANGED world
  /\ \/ world = "plain" /\ Plain!Next /\ UNCHANGED options
     \/ world = "corrupt" /\ Corrupt!Next /\ UNCHANGED options
     \/ world = "test" /\ Test!Next /\ UNCHANGED <<disk, edits>>

MCSpec == MCInit /\ [][MCNext]_<<vars, world, options>>

-----------------------------------------------------------------------------
(* What is claimed in which world *)

(* A record exists exactly for well-paired requests, broken ones included, and
   the test host rewrites complete histories only (codec.mjs:61-134,
   host-codec-test-double.mjs:77-108). *)
CodecInvariant ==
  /\ IF world = "test" THEN Test!TypeOK /\ Test!RewrittenIsAnswered ELSE TypeOK
  /\ world = "corrupt" => RecordIsExact

(* A request that is sent has all of the conversation but superseded reads
   (host-codec.mjs:50-82, adapters/pi/README.md:90-97). *)
PlainIsKept == world = "plain" => NothingIsLost

(* A history that can be reconstructed is rewritten (codec.mjs:408-459). *)
PlainIsApplied == world = "plain" => SafeIsApplied

(* However a codec breaks its result, and whatever fails, what goes out has its
   pairs in their places and no change but to the results that were to be
   replaced (host-codec.mjs:50-82, codec.mjs:61-187). *)
BrokenIsRefused ==
  /\ world = "corrupt" => PairsInPlace
  /\ world = "test" => Test!OnlyResultsChange
=============================================================================
