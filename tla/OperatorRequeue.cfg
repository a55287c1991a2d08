CONSTANTS
  MaxGeneration = 1
  MaxSlot = 1
  Scheduled <- MCFirst
  MaxFaults = 1
  MaxLag = 0
  Outcomes <- MCDrift
  Disturbances <- MCNone
SPECIFICATION Spec
INVARIANT RequeuedForNextInterval
CHECK_DEADLOCK FALSE
