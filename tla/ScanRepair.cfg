CONSTANTS
  w1 = w1
  w2 = w2
  Workers <- MCOne
  MaxKey = 2
  PageSize = 1
  MaxPages <- MCUnlimited
  MaxQuery = 1
  MaxChanges = 0
  MaxCrashes = 0
  ResetAllowed = FALSE
SPECIFICATION Spec
INVARIANT RepairFailedMeansDrift
CHECK_DEADLOCK FALSE
