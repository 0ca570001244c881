SPECIFICATION Spec
CONSTANTS
  Spokes <- OneSpoke
  UpdateInterval = 2
  MinUpdateInterval = 1
  SkipIfFresh = 2
  EarlyPushThreshold = 25
  MaxRetries = 3
  BridgeTimeout = 0
  HasOwnerKey = FALSE
  Value <- Near
  Unreadable = {"first"}
  PeerValues <- Reading
  PeerCount = 0
  Environments <- Alone
  Window = 0
  MaxDriftBps = 0
  Delta = {}
  StalenessThreshold = 0
  None = None
INVARIANTS
  FailedReadingNotPushed
