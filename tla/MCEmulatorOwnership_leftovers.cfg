CONSTANTS
  a1 = a1  a2 = a2  None = None
  Avds = {a1, a2}
  UserAvds = {a1}
  LaunchLimit = 2
  HostLimit = 2
  LapseLimit = 1
  Stubborn = {1}
  DieProne = {1}
  QueriesMayFail = TRUE
  PidsRecycled = TRUE
SPECIFICATION FairSpec
INVARIANT LeftoverEmulatorConvictable
PROPERTIES UsersEmulatorSpared LeftoverEmulatorStopped
CONSTRAINT Judged
CHECK_DEADLOCK FALSE
