CONSTANTS
  MaxOrders = 3
  SkipEvery = 2
  MaxLoads = 2
  Prefix <- MCPrefix
  MaxFaults = 2
  k1 = k1
  Keys <- MCKeys
  TicksPerSecond = 2
  MaxLag = 1
  CacheSkipEvery = 2
  MaxClock = 7
  MaxSaves = 2
  r1 = r1
  r2 = r2
  r3 = r3
  Reports <- MCReports
  Directory <- MCDirectory
  Keep = 1
  MaxSecond = 2
  i1 = i1
  v1 = v1
  v2 = v2
  d1 = d1
  s1 = s1
  Invariants <- MCInvariants
  DerivedViews <- MCViews
  DataSources <- MCDataSources
  Secrets <- MCSecrets
  None = None
  MaxEdits = 2
  MaxPolicies = 2
  MaxActions = 2
SPECIFICATION Spec
INVARIANTS
  TypeOK
  DeficitMeansUnloaded
  
  
  
  RepairRestoresBuckets
  ViolationMeansUnseen
  UnseenIsListed
  LateIsReported
  RefLeadsToReport
  LostMeansOvertaken
  DirectoryIsBounded
  TopologyIsKnown
  RepairIsFirstAllowedAction
CHECK_DEADLOCK FALSE
