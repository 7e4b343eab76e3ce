SPECIFICATION MCSpec
CONSTANTS
  Budget = 4
  Turn <- MCTurn
  Hands <- MCHands
  Overlaps <- MCOverlaps
INVARIANTS BudgetRespected Bookkeeping OneVerdict ReadBack
PROPERTY KeepsPromise
CHECK_DEADLOCK FALSE
