\* Both worlds; the constants are bounds that hold in both.
SPECIFICATION MCSpec
CONSTANTS
  Locate <- MCLocate
  Lines <- ShortLines
  FirstTexts <- ShortTexts
  WrittenTexts <- LongWrites
  MaxLines = 8
  MaxEdits = 2
  LongestRead = 4
INVARIANT ReportIsSound
PROPERTIES SolidRegionStays NoJump
CHECK_DEADLOCK FALSE
