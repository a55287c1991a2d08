CONSTANTS
  MaxGeneration = 1
  MaxSlot = 1
  Scheduled <- MCFirst
  MaxFaults = 1
  MaxLag = 0
  Outcomes <- MCDrift
  Disturbances <- MCPolicy
SPECIFICATION Spec
INVARIANTS TypeOK VerdictIsEarned RepairFollowsDrift NoLostWakeup
PROPERTIES RunsMoveForward RepairVerdictSticks SettledVerdictNotHidden
CHECK_DEADLOCK FALSE
