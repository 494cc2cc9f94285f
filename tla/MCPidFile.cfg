SPECIFICATION ProcSpec
CONSTANTS
  Pids = {p1, p2, p3}
  MaxFaults = 3
INVARIANTS ProcTypeOK NoStaleAfterExit ListedUnlessSecond
PROPERTY Recovers
CHECK_DEADLOCK FALSE
