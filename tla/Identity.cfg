SPECIFICATION Spec
CONSTANTS
  r1 = r1
  r2 = r2
  u1 = u1
  u2 = u2
  n1 = n1
  n2 = n2
  None = None
  Req <- TwoReq
  User <- TwoUsers
  Name <- TwoNames
  Role <- Roles
  AccessTTL = 1
  RefreshTTL = 2
  Latency = 1
  MaxVer = 1
  MaxNow = 3
SYMMETRY Symmetry
INVARIANTS
  RevokedStaysRevoked
  DisabledHoldsNoCurrentClaim
  DisabledAccessBounded
PROPERTIES
  OrgIsolation
CHECK_DEADLOCK FALSE
