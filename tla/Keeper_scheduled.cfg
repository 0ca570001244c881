SPECIFICATION Spec
CONSTANTS
  Spokes <- TwoSpokes
  UpdateInterval = 2
  MinUpdateInterval = 1
  SkipIfFresh = 2
  EarlyPushThreshold = 0
  MaxRetries = 3
  BridgeTimeout = 0
  HasOwnerKey = FALSE
  Value <- Near
  Unreadable = {"first"}
  PeerValues <- Reading
  PeerCount = 2
  Environments <- Scheduled
  Window = 0
  MaxDriftBps = 0
  Delta = {}
  StalenessThreshold = 0
  None = None
INVARIANTS
  KeeperViewMatchesChain
  FallbackIsIndependent
  CycleHasWork
  FailedReadingNotPushed
PROPERTIES
  CycleEnds
