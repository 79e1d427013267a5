SPECIFICATION FairSpec
CONSTANTS
  r1 = r1
  r2 = r2
  a1 = a1
  a2 = a2
  p1 = p1
  p2 = p2
  None = None
  Peer <- SplitPeers
  Room <- TwoRooms
  RoomOf <- SplitRoomOf
  RoleOf <- SplitRoleOf
  SendBuffer = 1
  MaxSend <- SplitSends
CONSTRAINT OnePhone
INVARIANTS
  RelayIsolation
PROPERTIES
  NoSendAfterClose
  BrokenConnectionReaped
  AcceptedFramesFlushed
CHECK_DEADLOCK FALSE
