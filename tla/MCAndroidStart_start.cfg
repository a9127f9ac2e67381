SPECIFICATION MCSpec
CONSTANTS
  e1 = e1
  e2 = e2
  phone = phone
  Emulators = {e1, e2}
  Handsets = {phone}
  NoDevice = NoDevice
  PollLimit = 2
  QuirkLimit = 2
  TheDevice = e1
  None = None
  NoVault = NoVault
  Services = {"settings", "window"}
  TroubleLimit = 2
  c1 = c1
  c2 = c2
  one = one
  two = two
  notes = notes
  old = old
  twin = twin
  Callers = {c1, c2}
  Vaults = {one, two, notes, old, twin}
  VaultOf <- MCVaultOf
  UserVaults = {notes}
  OldVaults = {old}
  Internal = {twin}
  SameName <- MCSameName
  MishapLimit = 1
  Enabler = c1
  mine = mine
  other = other
  enable = enable
  enableOther = enableOther
  reload = reload
  detect = detect
  Plugins = {mine, other}
  NoPlugin = NoPlugin
  Patching = {mine}
  Enables = {enable, enableOther}
  Reloads = {reload}
  Leaks = {detect}
  PluginOf <- MCPluginOf
  Tries = 2
  UpsetLimit = 1
INVARIANTS
  DeviceInv
  AppInv
PROPERTIES
  EverythingEnds
  ReadyIsRequested
CHECK_DEADLOCK FALSE
