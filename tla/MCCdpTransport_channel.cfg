CONSTANTS
  e1 = e1  e2 = e2  p1 = p1  p2 = p2  v1 = v1  v2 = v2
  None = None
  Calls = {e1, e2, p1, p2}
  Captures = {p1, p2}
  VaultOf <- TwoVaults
  Mixes = {{e1, e2}, {e1, p1}, {e2, p1}, {p1, p2}}
  UpheavalLimit = 1
SPECIFICATION FairSpec
INVARIANT ChannelInv
PROPERTIES CapMeansDelivered KeepsThePromise EveryCallEnds
CHECK_DEADLOCK FALSE
