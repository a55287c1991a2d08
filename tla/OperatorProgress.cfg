CONSTANTS
  MaxGeneration = 1
  MaxSlot = 0
  Scheduled <- MCNone
  MaxFaults = 1
  MaxLag = 0
  Outcomes <- MCAll
  Disturbances <- MCEvery
SPECIFICATION FairSpec
PROPERTIES  PublishedReportWins DriftGetsRepair
CHECK_DEADLOCK FALSE
