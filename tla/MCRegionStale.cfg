SPECIFICATION MCSpec
CONSTANTS
  Locate <- MCLocate
  Lines <- ShortLines
  FirstTexts <- ShortTexts
  WrittenTexts <- LongWrites
  MaxLines = 8
  MaxEdits = 2
  LongestRead = 4
INVARIANT ResolvedBytesAreCurrent
CHECK_DEADLOCK FALSE
