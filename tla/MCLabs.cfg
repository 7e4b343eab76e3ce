SPECIFICATION MCSpec
CONSTANTS
  Locate <- LocateByAnchors
  Cells <- LabCellsAll
INVARIANTS RunnerInvariant ResultsAsRecorded
PROPERTY CarriedIsInTheFile
CHECK_DEADLOCK FALSE
