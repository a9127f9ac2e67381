CONSTANTS
  r1 = r1  r2 = r2  r3 = r3
  hostA = hostA  hostB = hostB
  Absent = Absent  Torn = Torn
  Runs = {r1, r2, r3}
  Reapers = {r3}
  CrashProne = {}
  Stallable = {}
  HostOf <- OneHost
SPECIFICATION Spec
PROPERTIES ImplementsMutex
CHECK_DEADLOCK FALSE
