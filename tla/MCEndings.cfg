SPECIFICATION EndSpec
CONSTANTS
  MaxOutput = 3
  MaxWritten = 5
  ChunkSizes <- MCChunkSizes
  Requests <- MCRequests
  Streaming <- MCStreaming
  Expected = 3
  WritesToFile = TRUE
  WritesFail = TRUE
  NoSelector = "-"
  Missing = Missing
  Locate <- StayPut
  Paths = {"p"}
  Texts <- EngineTexts
  Reads <- EngineReads
  Identities <- EngineIdentities
  EngineInjected = TRUE
  EngineServed = {"p"}
  Answers <- EngineAnswers
  Overlaps = {0}
  Budget = 3
  MaxEdits = 2
  MaxReads = 2
  MaxTurn = 0
INVARIANTS ClientInvariant RecordingInvariant
PROPERTIES RequestCompletes KeepsPromise EveryoneIsAnswered
CHECK_DEADLOCK FALSE
