SPECIFICATION Spec
CONSTANTS
  h1 = h1
  h2 = h2
  Shell = sh
  Helpers = {h1, h2}
  Behaviours <- MC_Behaviours
  ReadSize = 2
  PipeSize = 3
  max_output_bytes = 2
  MaxWritten = 4
INVARIANTS
  TypeOK
  OutputIsComplete
  ExitCodeIsHonest
PROPERTIES
  EndsWhenHelpersObey
  KeepsContract
CHECK_DEADLOCK FALSE
