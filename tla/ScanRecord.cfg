CONSTANTS
  Links <- MCLinks
  Setups <- MCSetups
SPECIFICATION FairSpec
CHECK_DEADLOCK FALSE
PROPERTIES
  PointsComplete
  ScanComplete
  ClientsWaited
  ArraysComplete
  BuffersKept
  ScanEnds
  KillEnds
