SPECIFICATION MCSpec
CONSTANTS
  Worlds = {"roomy"}
  NoSelector = "-"
  Missing = Missing
  Locate <- MCLocate
  Paths = {"p"}
  Texts <- MCTexts
  Reads <- EngineReads
  Identities <- EngineIdentities
  EngineInjected = TRUE
  EngineServed = {"p"}
  Answers <- MCAnswers
  Overlaps = {0}
  Budget = 3
  MaxEdits = 3
  MaxReads = 3
  MaxTurn = 1
INVARIANT OneCurrentCopy
