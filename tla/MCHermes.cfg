\* The constants are those of the world "calm".
SPECIFICATION MCSpec
CONSTANTS
  Worlds = {"any", "steady", "tight", "calm", "kept", "plugin"}
  Paths <- MCPaths
  UnitOrder <- MCUnitOrder
  Structural <- MCNone
  Versions <- MCVersions
  Gone = "gone"
  Length <- MCLength
  Calls <- MCCalls
  Tool <- MCTool
  NoPath = 0
  ReadOf <- MCReadOf
  Named <- MCNamed
  Mentioned <- MCMentioned
  Questions <- MCTwoReads
  Overlaps <- MCOverlaps
  Budget = 3
  Persists = FALSE
  Kills = FALSE
  Interrupts = FALSE
  Deletes = TRUE
  OldState <- MCOldState
  MaxMessages = 9
  MaxEdits = 2
INVARIANTS RequestIsSound SteadyTellsTheTruth InjectedHasEvidence PluginInvariant
CHECK_DEADLOCK FALSE
