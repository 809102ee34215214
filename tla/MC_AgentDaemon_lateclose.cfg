SPECIFICATION Spec
CONSTANTS
  SessionIds = {s1}
  Descriptors = {d1}
  NoActivation = NoActivation
  OtherApp = OtherApp
  MaxId = 2
  kCapacity = 1
  kLifetime = 0
  kMaxAge = 0
  MaxTime = 0
  MaxSignals = 1
  MaxRequests = 1
PROPERTY LateCloseIsHarmless
