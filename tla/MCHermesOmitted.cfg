SPECIFICATION MCSpec
CONSTANTS
  Worlds = {"omitted"}
  Paths <- MCPaths
  UnitOrder <- MCUnitOrder
  Structural <- MCNone
  Versions <- MCVersions
  Gone = "gone"
  Length <- MCLength
  Calls <- MCCalls
  Tool <- MCTool
  NoPath = 0
  ReadOf <- MCReadOf
  Named <- MCNamed
  Mentioned <- MCMentioned
  Questions <- MCTwoReads
  Overlaps <- MCOverlaps
  Budget = 3
  Persists = FALSE
  Kills = FALSE
  Interrupts = FALSE
  Deletes = TRUE
  OldState <- MCOldState
  MaxMessages = 9
  MaxEdits = 2
INVARIANT SelectedIsCarried
CHECK_DEADLOCK FALSE
