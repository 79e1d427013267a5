SPECIFICATION FairSpec
CONSTANTS
  a1 = a1
  a2 = a2
  p1 = p1
  p2 = p2
  Conn <- Conns
  RoleOf <- Roles
  TokenTTL = 2
  SigTTL = 3
  Cutoff = 4
  Latency = 1
  MaxStops = 2
  MaxAge = 6
INVARIANTS
  PhoneOnlyAfterActivation
PROPERTIES
  PendingResolved
  EmptiedRoomEnds
CHECK_DEADLOCK FALSE
