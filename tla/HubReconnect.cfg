SPECIFICATION Spec
CONSTANTS
  r1 = r1
  r2 = r2
  a1 = a1
  a2 = a2
  p1 = p1
  p2 = p2
  None = None
  Peer <- ReconnectPeers
  Room <- OneRoom
  RoomOf <- ReconnectRoomOf
  RoleOf <- ReconnectRoleOf
  SendBuffer = 2
  MaxSend <- PhoneSends
SYMMETRY Symmetry
CONSTRAINT SilentOrReplaced
INVARIANTS
  TypeOK
  PresenceCounts
  OccupantValid
  PairedPeersNotified
  ByeMeansGone
  DepartureAnnounced
  RelayedOnceInOrder
PROPERTIES
  SuccessorKept
  ImplementsRoomPresence
CHECK_DEADLOCK FALSE
