SPECIFICATION FairSpec
CONSTANTS
  r1 = r1
  r2 = r2
  client = client
  proxy = proxy
  NoHeader = NoHeader
  Req <- TwoReq
  Addr <- Addrs
  Trusted <- Proxies
  Route <- OneRoute
  max = 2
  window = 2
INVARIANTS
  SlidingBound
PROPERTIES
  LockoutEnds
