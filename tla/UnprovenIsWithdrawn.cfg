SPECIFICATION Spec
CONSTANTS
  Names = {"a"}
  CheckNames = {"web", "dns"}
  VIPPrefixes = {"p1"}
  Absent = Absent
  NoRoute = NoRoute
  NoHash = NoHash
  Configs <- Unproven
  Defs <- UnprovenDefs
  Boot <- TwoCheckStart
  SchedIds = {1, 2, 3, 4}
  Faults = {}
  MaxFaults = 0
  MaxReloads = 2
  MaxRequests = 0
INVARIANTS UnprovenIsWithdrawn
CHECK_DEADLOCK FALSE
