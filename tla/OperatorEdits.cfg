CONSTANTS
  MaxGeneration = 2
  MaxSlot = 0
  Scheduled <- MCFirst
  MaxFaults = 1
  MaxLag = 0
  Outcomes <- MCAll
  Disturbances <- MCCrash
SPECIFICATION Spec
INVARIANT QuietMeansVerdict
PROPERTY ImplementsCheckCycle
CHECK_DEADLOCK FALSE
