CONSTANTS
  r1 = r1  r2 = r2  r3 = r3
  hostA = hostA  hostB = hostB
  Absent = Absent  Torn = Torn
  Runs = {r1, r2, r3}
  Reapers = {r2}
  CrashProne = {r1, r2}
  Stallable = {r1}
  HostOf <- TwoHosts
SPECIFICATION FairSpec
PROPERTIES AcquisitionEnds CrashedHolderIsEvicted
INVARIANTS ExclusiveUnlessRobbed FreeVerdictSound SuccessorSpared
CHECK_DEADLOCK FALSE
