CONSTANTS
  p1 = p1
  p2 = p2
  Orders <- MCOrders
  Paid <- MCPaid
  SkipEvery = 2
  MaxStream = 2
SPECIFICATION Spec
SYMMETRY MCSymmetry
INVARIANT MismatchMeansDrift
CHECK_DEADLOCK FALSE
