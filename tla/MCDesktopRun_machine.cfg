SPECIFICATION RunSpec
CONSTANTS
  h1 = h1
  h2 = h2
  other = other
  p1 = p1
  here = here
  there = there
  Nil = Nil
  Harnesses = {h1, h2}
  Ports = {p1}
  Attempts <- MCAttempts
  RoundLimit = 1
  ProbeLimit = 3
  RefusalLimit = 2
  TroubleLimit = 1
  Setups = {h1, h2, other}
  Sweepers = {h1, h2}
  Sessions = {h2}
  ProcessOf <- MCProcessOf
  Needs <- MCNeeds
  MaxAge <- MCMaxAge
  Livened <- MCLivened
  Horizon = 1
  FaultLimit = 1
INVARIANT MachineInv
PROPERTIES NoDeathMistaken OrphanEnds
CHECK_DEADLOCK FALSE
