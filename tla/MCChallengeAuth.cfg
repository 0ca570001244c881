SPECIFICATION Spec
CONSTANTS
  Wallet = {"w1", "w2"}
  Task = {"program", "other", "script"}
  Assignments <- SharedOrOwn
  Revocable = {"w1"}
  Careless = {"script"}
  WalletTtl = 2
  CacheTtl = 2
  Nonce = {1, 2, 3, 4, 5, 6}
  None = None
INVARIANTS
  TypeOK
PROPERTIES
  ChallengesAdmitOnce
  RevokedRefused
  LoneClientServed
