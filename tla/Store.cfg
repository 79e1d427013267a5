SPECIFICATION FairStoreSpec
CONSTANTS
  s1 = s1
  s2 = s2
  s3 = s3
  q1 = q1
  q2 = q2
  o1 = o1
  o2 = o2
  x1 = x1
  x2 = x2
  x3 = x3
  None = None
  Replica <- ThreeReplicas
  N = 4
  Idempotent <- LastIsIdempotent
  MaxFaults = 3
  Req <- TwoReq
  Org <- TwoOrgs
  Session <- Sessions
  OrgOf <- SessionOrg
  Rec <- Recs
  Size <- Sizes
  MaxSize = 2
  TTL = 1
  MaxNow = 2
CONSTRAINT Focus
INVARIANTS
  SchemaIsPrefix
  ObjectsAccounted
  FinalizedOnce
PROPERTIES
  EveryReplicaServes
CHECK_DEADLOCK FALSE
