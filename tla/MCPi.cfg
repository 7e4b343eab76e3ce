\* The constants are those of the world "steady".
SPECIFICATION MCSpec
CONSTANTS
  Paths <- MCPaths
  UnitOrder <- MCUnitOrder
  Structural <- MCNone
  Versions <- MCVersions
  Gone = "gone"
  Length <- MCLength
  Calls <- MCCalls
  Tool <- MCTool
  NoPath = 0
  ReadOf <- MCReadOf
  Named <- MCNamed
  Mentioned <- MCMentioned
  Questions <- MCOfficial
  Overlaps <- MCOverlaps
  Budget = 2
  Deletes = FALSE
  Forks = FALSE
  Races = FALSE
  Restarts = FALSE
  MaxMessages = 9
  MaxEdits = 2
  MaxTurn = 1
INVARIANTS RequestIsSound InjectedWasSent OnlyThisBranch SteadyTellsTheTruth
           ShellReadsAreExact DumpsAreNamed
CHECK_DEADLOCK FALSE
