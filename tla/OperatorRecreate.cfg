CONSTANTS
  MaxGeneration = 1
  MaxSlot = 0
  Scheduled <- MCNone
  MaxFaults = 1
  MaxLag = 0
  Outcomes <- MCDrift
  Disturbances <- MCRecreate
SPECIFICATION Spec
INVARIANT VerdictIsEarned
CHECK_DEADLOCK FALSE
