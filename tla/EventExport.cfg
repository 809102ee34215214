SPECIFICATION Spec
CONSTANTS
  Exports = {e1, e2, e3}
  Matching = 2
  Old = Old
  NoFile = NoFile
INVARIANTS TypeOK DestIsWhole TmpIsCleanedUp
CHECK_DEADLOCK FALSE
