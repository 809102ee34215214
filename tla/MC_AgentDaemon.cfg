SPECIFICATION Spec
CONSTANTS
  SessionIds = {s1, s2}
  Descriptors = {d1, d2}
  NoActivation = NoActivation
  OtherApp = OtherApp
  MaxId = 2
  kCapacity = 1
  kLifetime = 0
  kMaxAge = 0
  MaxTime = 0
  MaxSignals = 1
  MaxRequests = 2
SYMMETRY Symmetry
INVARIANTS TypeOK Correlated OpenActivatesWhatTheUserSaw ReplacesOnlyOwnNotification
