SPECIFICATION Spec
CONSTANTS
  Ranks = {1, 4}
  Timestamps = {1, 2}
  PruneBatch = 2
  MaxBatch = 2
  CountLimits = {0}
  ByteLimits = {3}
  WalAnswers = {TRUE}
  MaxRowId = 5
INVARIANT PrunesDownToTarget
CHECK_DEADLOCK FALSE
