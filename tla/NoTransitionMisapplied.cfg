SPECIFICATION Spec
CONSTANTS
  Names = {"a"}
  CheckNames = {"web"}
  VIPPrefixes = {"p1"}
  Absent = Absent
  NoRoute = NoRoute
  NoHash = NoHash
  Configs <- Tweaks
  Defs <- TweaksDefs
  Boot <- StartOnly
  SchedIds = {1, 2, 3, 4}
  Faults = {}
  MaxFaults = 0
  MaxReloads = 2
  MaxRequests = 1
INVARIANTS NoTransitionMisapplied
CHECK_DEADLOCK FALSE
