SPECIFICATION Spec
CONSTANTS
  Keeper = {"a", "b", "c"}
  Fleets <- Star
  UpdateInterval = 1
  FailoverAfter = 1
  SixHours = 2
  None = None
PROPERTIES
  MeshForms
CHECK_DEADLOCK FALSE
