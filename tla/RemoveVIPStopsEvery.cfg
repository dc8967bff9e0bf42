SPECIFICATION Spec
CONSTANTS
  Names = {"a"}
  CheckNames = {"web", "dns"}
  VIPPrefixes = {"p1"}
  Absent = Absent
  NoRoute = NoRoute
  NoHash = NoHash
  Configs <- DropsWidened
  Defs <- DropsWidenedDefs
  Boot <- WidenedOnly
  SchedIds = {1, 2, 3, 4}
  Faults = {}
  MaxFaults = 0
  MaxReloads = 2
  MaxRequests = 0
INVARIANTS RemoveVIPStopsEvery
CHECK_DEADLOCK FALSE
