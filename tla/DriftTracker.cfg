SPECIFICATION Spec
CONSTANTS
  Window = 2
  MaxDriftBps = 1000
  Task = {scheduled, monitor}
  Value <- MCValue
  NoValue = NoValue
  Asleep = Asleep
  Awake = Awake
  MaxLag = 1
INVARIANTS
  TypeOK
  OrderedUpToLag
PROPERTIES
  AcceptedNearOldest
  PersistentValueAccepted
