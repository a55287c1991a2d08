CONSTANTS
  MaxGeneration = 1
  MaxSlot = 0
  Scheduled <- MCNone
  MaxFaults = 0
  MaxLag = 0
  Outcomes <- MCDrift
  Disturbances <- MCRotate
SPECIFICATION FairSpec
PROPERTY RotationTriggersCheck
CHECK_DEADLOCK FALSE
