SPECIFICATION FairSpec
CONSTANTS
  PingGardenInterval = 1
  StalledMetricHeartbeatInterval = 3
  MaxElapsed = 4
  Off = Off
  Stacks = {"s1"}
  Archives <- TwoArchives
INVARIANTS
  TypeOK
  OnePingAtATime
  OnlySuccessReturns
  RootFSPartition
  ServesAsConfigured
  HubOpenWhileUsed
  PoolsOutliveMembers
PROPERTIES
  KeepsBeating
  WaitEnds
  StopsOnSignal
CHECK_DEADLOCK FALSE
