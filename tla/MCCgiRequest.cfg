SPECIFICATION FairSpec
CONSTANTS
  Requests = {r1, r2}
  PoolSize = 2
  PipeCap = 1
  MaxResult = 1
  Outputs = {0, 1, 4}
  Errors = {0, 2}
  Leakable = {2}
  Leavable = {1}
INVARIANTS SlotsAccounted NothingLeft AnswerWhole
PROPERTY EmptyOnlyWhileGenerating RequestsReturn
CHECK_DEADLOCK FALSE
