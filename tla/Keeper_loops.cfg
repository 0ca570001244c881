SPECIFICATION Spec
CONSTANTS
  Spokes <- OneSpoke
  UpdateInterval = 2
  MinUpdateInterval = 1
  SkipIfFresh = 2
  EarlyPushThreshold = 25
  MaxRetries = 1
  BridgeTimeout = 2
  HasOwnerKey = TRUE
  Value <- Near
  Unreadable = {}
  PeerValues <- Reading
  PeerCount = 0
  Environments <- BothLoops
  Window = 8
  MaxDriftBps = 500
  Delta = {10}
  StalenessThreshold = 6
  None = None
INVARIANTS
  TypeOK
  NeverStale
  SuspensionEnds
  SkipIsFounded
PROPERTIES
  OracleConverges
  WarningEnds
  WarningEndsForCause
  BreakerRestored
