SPECIFICATION Spec
CONSTANTS
  Names = {"a"}
  CheckNames = {"web", "dns"}
  VIPPrefixes = {"p1", "p2", "p3"}
  Absent = Absent
  NoRoute = NoRoute
  NoHash = NoHash
  Configs <- AllConfigs
  Defs <- AllDefsOfBoth
  Boot <- EitherStart
  SchedIds = {1, 2, 3, 4}
  Faults = {"deleteFailed"}
  MaxFaults = 1
  MaxReloads = 2
  MaxRequests = 1
INVARIANTS TypeOK EffectiveGoverns RightChecksRun HealthAgreesUnlessMisled CommitIsAccepted
PROPERTIES CommitsOnVerdicts
CONSTRAINT OneScenario
CHECK_DEADLOCK FALSE
