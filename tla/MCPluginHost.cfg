SPECIFICATION FairSpec
CONSTANTS
  Users = {u1, u2}
  MaxPlugin = 1
  Kinds <- MCKindsAll
  StandbyLimit = 0
INVARIANTS RefCountExact LoadedWhileUsed OneLoaderPerSlot
PROPERTIES CallsReturn IdlePluginUnloaded
