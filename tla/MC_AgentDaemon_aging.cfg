SPECIFICATION Spec
CONSTANTS
  SessionIds = {s1}
  Descriptors = {d1}
  NoActivation = NoActivation
  OtherApp = OtherApp
  MaxId = 3
  kCapacity = 2
  kLifetime = 1
  kMaxAge = 1
  MaxTime = 2
  MaxSignals = 1
  MaxRequests = 1
INVARIANTS CapacityRespected
PROPERTY EvictionSparesYounger
