CONSTANTS
  e1 = e1  e2 = e2  e3 = e3  h1 = h1  h2 = h2  ctx = ctx
  Nil = Nil
  Evals = {e1, e2, e3}
  Hosts = {h1, h2}
  HostOf <- Callers
  VersionOf <- Versions
  ContextOf <- ContextIdsOf
  Driving = {e1, e2}
  EvalLimit <- Limits
  TroubleLimit = 2
SPECIFICATION PageFairSpec
INVARIANTS GestureInv NamespaceInv
PROPERTIES EveryEvalEnds
CHECK_DEADLOCK FALSE
