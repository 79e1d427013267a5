SPECIFICATION Spec
CONSTANTS
  i1 = i1
  i2 = i2
  a1 = a1
  a2 = a2
  p1 = p1
  None = None
  Inst <- TwoInst
  Conn <- Reconnecting
  InstOf <- ReconnectingInst
  RoleOf <- ReconnectingRole
  TTL = 2
  MaxRetries = 1
  FaultSets <- Profiles
  MaxSend = 1
  MaxNow = 2
CONSTRAINT Focus
INVARIANTS
  PairedPeersNotified
  OnceInOrderUnlessOverdue
PROPERTIES
  EmptyIsAuthoritative
  ImplementsRoomPresence
CHECK_DEADLOCK FALSE
