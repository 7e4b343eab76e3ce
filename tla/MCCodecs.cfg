\* The constants are those of the world "plain", but for MaxMessages.
SPECIFICATION MCSpec
CONSTANTS
  Paths <- MCPaths
  UnitOrder <- MCUnitOrder
  Structural <- MCNone
  Versions <- MCVersions
  Gone = "gone"
  Length <- MCLength
  Calls <- MCCalls
  Tool <- MCTool
  NoPath = 0
  ReadOf <- MCReadOf
  Named <- MCNamed
  Mentioned <- MCMentioned
  Questions <- MCQuestions
  Refused <- MCSecond
  Turns <- MCTurns
  Overlaps <- MCOverlaps
  Interrupts = TRUE
  Interferes = TRUE
  Corrupts = FALSE
  Budget = 2
  MaxMessages = 6
  MaxEdits = 1
INVARIANTS CodecInvariant PlainIsKept PlainIsApplied BrokenIsRefused
CHECK_DEADLOCK FALSE
