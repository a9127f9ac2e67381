CONSTANTS
  r1 = r1  r2 = r2  r3 = r3  v1 = v1  v2 = v2  
  None = None  NoHold = NoHold  Bare = Bare  Torn = Torn
  Runs = {r1, r2}
  CrashProne = {r1}
  Versions = {v1, v2}
  Own = {v1, v2}
  Pinned = v1
  OwnFlag = "own"
  Lingering = TRUE
  Racing = FALSE
  CallerRetries = TRUE
SPECIFICATION Spec
INVARIANTS AsarsKeptUnlessLapsed HandedBackUnlessLapsed HeldWhileLaunched
PROPERTY KilledRunIsRestored
CHECK_DEADLOCK FALSE
