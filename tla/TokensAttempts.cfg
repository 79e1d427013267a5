SPECIFICATION HistSpec
CONSTANTS
  m1 = m1
  m2 = m2
  k1 = k1
  k2 = k2
  k3 = k3
  c1 = c1
  right = right
  wrong = wrong
  Minter <- OneMinter
  Redeemer <- ThreeRedeemers
  ConnectID <- OneID
  Pin <- Pins
  MintTries = 1
  MaxRedeemTries = 1
  TTL = 2
  CutoffMultiplier = 2
  MintLatency = 1
  RedeemLatency = 1
  Skew = 0
  Failures = FALSE
  NoSession = NoSession
  MaxNow = 1
INVARIANT
  WrongPINsBounded
CHECK_DEADLOCK FALSE
