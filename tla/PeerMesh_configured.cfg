SPECIFICATION Spec
CONSTANTS
  Keeper = {"a", "b", "c"}
  Fleets <- Configured
  UpdateInterval = 4
  FailoverAfter = 4
  SixHours = 5
  None = None
INVARIANTS
  TypeOK
  StartsFarthest
  OverdueIsCovered
PROPERTIES
  EvictedOnlyAfterOutage
  DeadPeerForgotten
  MeshForms
CHECK_DEADLOCK FALSE
