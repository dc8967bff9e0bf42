SPECIFICATION Spec
CONSTANTS
  Names = {"a"}
  CheckNames = {"web"}
  VIPPrefixes = {"p1"}
  Absent = Absent
  NoRoute = NoRoute
  NoHash = NoHash
  Configs <- Removals
  Defs <- RemovalsDefs
  Boot <- StartOnly
  SchedIds = {1, 2, 3, 4}
  Faults = {"deleteFailed"}
  MaxFaults = 1
  MaxReloads = 2
  MaxRequests = 0
INVARIANTS NoOrphanRoute
CHECK_DEADLOCK FALSE
