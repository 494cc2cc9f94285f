SPECIFICATION Spec
CONSTANTS
  Requests = {c1, c2, c3}
  Capacity = 2
  NoRequest = none
INVARIANT ReadyMeansAnswered
