SPECIFICATION Spec
CONSTANTS
  Names = {"a", "b"}
  CheckNames = {"web"}
  VIPPrefixes = {"p1"}
  Absent = Absent
  NoRoute = NoRoute
  NoHash = NoHash
  Configs <- Renamings
  Defs <- RenamingsDefs
  Boot <- NamedOnly
  SchedIds = {1, 2, 3, 4}
  Faults = {"deleteFailed"}
  MaxFaults = 1
  MaxReloads = 2
  MaxRequests = 0
INVARIANTS AnnouncedHasRoute
CHECK_DEADLOCK FALSE
