SPECIFICATION FairSpec
CONSTANTS
  Clients = {c1, c2, c3}
  Protocols <- MCProtocols
  Limit = 1
INVARIANT MemorySound
PROPERTY OthersStayListed ClosedIsUnlisted
CHECK_DEADLOCK FALSE
