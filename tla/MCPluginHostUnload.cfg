SPECIFICATION Spec
CONSTANTS
  Users = {u1, u2}
  MaxPlugin = 1
  Kinds <- MCKindsGuarded
  StandbyLimit = 0
INVARIANT UnloadOnlyUnused
