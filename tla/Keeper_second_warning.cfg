SPECIFICATION Spec
CONSTANTS
  Spokes <- OneSpoke
  UpdateInterval = 2
  MinUpdateInterval = 1
  SkipIfFresh = 2
  EarlyPushThreshold = 25
  MaxRetries = 3
  BridgeTimeout = 2
  HasOwnerKey = TRUE
  Value <- Near
  Unreadable = {}
  PeerValues <- Reading
  PeerCount = 0
  Environments <- TwoBridges
  Window = 0
  MaxDriftBps = 0
  Delta = {10}
  StalenessThreshold = 0
  None = None
PROPERTIES
  BreakerRestored
