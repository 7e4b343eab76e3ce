SPECIFICATION MCSpec
CONSTANTS
  Worlds = {"plain", "engine"}
  NoSelector = "-"
  Missing = Missing
  Locate <- MCLocate
  Paths = {"p"}
  Texts <- MCTexts
  Reads <- EngineReads
  Identities <- EngineIdentities
  EngineInjected = TRUE
  EngineServed = {"p"}
  Answers <- MCAnswers
  Overlaps = {0}
  Budget = 3
  MaxEdits = 3
  MaxReads = 2
  MaxTurn = 1
INVARIANTS TypeOK NoStaleInjection ChangedIsCarried ArchiveSound
PROPERTIES ExactRecovery UnresolvedKeepsItsBytes
