SPECIFICATION FairSpec
CONSTANTS
  Names = {"a"}
  CheckNames = {"web"}
  VIPPrefixes = {"p1", "p2"}
  Absent = Absent
  NoRoute = NoRoute
  NoHash = NoHash
  Configs <- LiveConfigs
  Defs <- LiveDefs
  Boot <- StartOnly
  SchedIds = {1, 2, 3}
  Faults = {}
  MaxFaults = 0
  MaxReloads = 2
  MaxRequests = 0
PROPERTIES ReloadReturns StagingEnds
CHECK_DEADLOCK FALSE
