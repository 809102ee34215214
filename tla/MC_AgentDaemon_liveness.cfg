SPECIFICATION Spec
CONSTANTS
  SessionIds = {s1}
  Descriptors = {d1}
  NoActivation = NoActivation
  OtherApp = OtherApp
  MaxId = 2
  kCapacity = 1
  kLifetime = 0
  kMaxAge = 0
  MaxTime = 1
  MaxSignals = 2
  MaxRequests = 1
PROPERTIES OpenIsServed StaleSessionsArePruned
