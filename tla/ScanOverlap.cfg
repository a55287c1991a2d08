CONSTANTS
  w1 = w1
  w2 = w2
  Workers <- MCTwo
  MaxKey = 2
  PageSize = 1
  MaxPages <- MCThenOnePage
  MaxQuery = 2
  MaxChanges = 1
  MaxCrashes = 1
  ResetAllowed = TRUE
SPECIFICATION Spec
SYMMETRY MCSymmetry
INVARIANTS TypeOK HealthyOverlooksNothing CheckpointCovered
PROPERTY ImplementsScanPromise
CHECK_DEADLOCK FALSE
