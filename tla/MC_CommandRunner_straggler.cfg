SPECIFICATION Spec
CONSTANTS
  h1 = h1
  h2 = h2
  Shell = sh
  Helpers = {h1}
  Behaviours <- MC_Stragglers
  ReadSize = 1
  PipeSize = 1
  max_output_bytes = 1
  MaxWritten = 2
PROPERTY EndsWhenInterrupted
CHECK_DEADLOCK FALSE
