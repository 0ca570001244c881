SPECIFICATION Spec
CONSTANTS
  Spokes <- TwoSpokes
  UpdateInterval = 2
  MinUpdateInterval = 1
  SkipIfFresh = 2
  EarlyPushThreshold = 25
  MaxRetries = 3
  BridgeTimeout = 0
  HasOwnerKey = FALSE
  Value <- Near
  Unreadable = {}
  PeerValues <- Reading
  PeerCount = 0
  Environments <- Alone
  Window = 0
  MaxDriftBps = 0
  Delta = {}
  StalenessThreshold = 12
  None = None
INVARIANTS
  NeverStale
