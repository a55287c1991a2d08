CONSTANTS
  w1 = w1
  w2 = w2
  Workers <- MCTwo
  MaxKey = 2
  PageSize = 1
  MaxPages <- MCUnlimited
  MaxQuery = 1
  MaxChanges = 0
  MaxCrashes = 0
  ResetAllowed = FALSE
SPECIFICATION Spec
PROPERTY LastKeyNotLost
CHECK_DEADLOCK FALSE
