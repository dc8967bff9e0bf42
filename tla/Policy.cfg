CONSTANTS
  Names = {v1}
  CheckNames = {"web", "dns"}
  VIPPrefixes = {"p1", "p2"}
  Files = {"drain"}
  Absent = Absent
  NoRoute = NoRoute
  Defs <- VIPDefs
SPECIFICATION FairSpec
INVARIANTS TypeOK UUIDsTrackRoutes HealthIsCombined StateFollowsPolicy RouteMatchesState
PROPERTIES HealthyIsServed PendingIsRetried
