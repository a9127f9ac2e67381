CONSTANTS
  e1 = e1  e2 = e2  e3 = e3  w1 = w1  w2 = w2
  None = None
  Calls = {e1, e2, e3}
  Transports = {w1, w2}
  TransportOf <- Callers
  Length <- Lengths
  Cap = 2
  Grace = 1
  PollLimit = 2
  EventLimit <- Limits
  ExitsOn = {"android"}
SPECIFICATION SessionFairSpec
INVARIANT SessionInv
PROPERTIES EveryCallEnds
CHECK_DEADLOCK FALSE
