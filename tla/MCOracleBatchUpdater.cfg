SPECIFICATION Spec
CONSTANTS
  Address = {admin, hub}
  UpdaterAddress = hub
  OracleOwner = admin
  ZeroAddress = zero
  Oracle = {o1, o2}
  MaxWord = 999999
  MaxRound = 2
  UsdScale = 10
  NoPrice = NoPrice
  Value <- MCValue
  Bps <- MCBps
  Price = 5
  MaxBatch = 2
  MaxTime = 1
SYMMETRY OracleSymmetry
INVARIANTS
  TypeOK
  FeedsInOrder
PROPERTIES
  BatchIsAtomic
  BatchWithinBreaker
  OnlyThroughTheUpdater
