SPECIFICATION HistSpec
CONSTANTS
  m1 = m1
  m2 = m2
  k1 = k1
  k2 = k2
  k3 = k3
  c1 = c1
  right = right
  wrong = wrong
  Minter <- TwoMinters
  Redeemer <- TwoRedeemers
  ConnectID <- OneID
  Pin <- Pins
  MintTries = 2
  MaxRedeemTries = 1
  TTL = 3
  CutoffMultiplier = 2
  MintLatency = 1
  RedeemLatency = 1
  Skew = 1
  Failures = TRUE
  NoSession = NoSession
  MaxNow = 6
SYMMETRY Symmetry
CONSTRAINT Light
INVARIANTS
  TypeOK
  RedeemedSessionActive
  LiveTokenUsable
  ActiveSessionHasNoToken
  OverrunBounded
PROPERTIES
  StatusForward
CHECK_DEADLOCK FALSE
