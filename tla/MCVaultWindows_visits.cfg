CONSTANTS
  a1 = a1  a2 = a2  b1 = b1
  workerA = workerA  workerB = workerB
  v1 = v1  home = home
  User = User  None = None
  Visits = {a1, a2, b1}
  Transports = {workerA, workerB}
  TransportOf <- WorkerOf
  VaultOf <- Shared
  HomeVault = home
  Listed = {}
  UserLimit = 1
SPECIFICATION FairSpec
INVARIANT VisitInv
PROPERTIES ForeignIsSpared EveryVisitEnds
CHECK_DEADLOCK FALSE
