SPECIFICATION Spec
CONSTANTS
  Ranks = {1, 4}
  Timestamps = {1, 2}
  PruneBatch = 2
  MaxBatch = 2
  CountLimits = {0, 2, 3}
  ByteLimits = {0, 3}
  WalAnswers = {TRUE, FALSE}
  MaxRowId = 4
INVARIANTS
  TypeOK
  AckedIsDurable
  EvictsLeastImportant
  CountPruneStopsAtTarget
PROPERTIES
  BatchIsAtomic
  PruneTerminates
CHECK_DEADLOCK FALSE
