\* The constants are bounds that hold in all worlds.
SPECIFICATION MCSpec
CONSTANTS
  Drafts <- Two
  Versions <- Two
  Locks <- Two
  Hosted = FALSE
  BindExisting = FALSE
  EditsManifest = FALSE
  Editable <- None
  MaxCommits = 4
  MaxFreezes = 2
INVARIANTS FrozenFirst SealedIsEarned UntouchedIsWhole
PROPERTY RecordedIsKept
CHECK_DEADLOCK FALSE
