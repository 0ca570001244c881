SPECIFICATION Spec
CONSTANTS
  Address = {a, b}
  ZeroAddress = zero
  MaxWord <- MCMaxWord
  MaxRound = 3
  UsdScale = 10
  NoPrice = NoPrice
  Value <- MCValue
  Bps <- MCBps
  Price <- MCPrice
  MaxTime = 1
INVARIANTS
  TypeOK
  LatestIsLastRound
  RoundsInOrder
  HistoryWithinBreaker
  NominationIsCurrent
PROPERTIES
  FeedSpec
