SPECIFICATION FairSpec
CONSTANTS
  Requests = {c1, c2, c3}
  Capacity = 2
  NoRequest = none
INVARIANTS OnePlace AloneIsAnswered
PROPERTIES QueueIsFifo CallsReturn AcceptedServed
