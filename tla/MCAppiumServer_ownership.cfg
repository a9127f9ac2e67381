CONSTANTS
  s1 = s1  s2 = s2  s3 = s3
  Foreign = Foreign  NoServer = NoServer
  Servers = {s1, s2, s3}
  Stubborn = {s1, s2}
  TreeKillReaches = FALSE
  QueryMayFail = TRUE
  AttemptLimit = 2
  MayCrash = TRUE
SPECIFICATION FairSpec
INVARIANT ServersAccountedFor
PROPERTIES AdoptedServerSpared RunSettles
CHECK_DEADLOCK FALSE
