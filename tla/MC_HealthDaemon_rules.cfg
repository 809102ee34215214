SPECIFICATION Spec
CONSTANTS
  Substring = {}
  RegexMatch = {}
  Units = {u1}
  ignore_units = {}
  flapping_threshold = 2
  flapping_window_seconds = 3
  mount_points = {}
  storage_warning = 85
  storage_critical = 95
  some_warning_threshold = 10
  full_critical_threshold = 25
  meminfo_warning_threshold = 85
  checks = {"kernel", "locks", "orphans", "transactions"}
  pacnew_warning = 5
  Modes = {"status"}
  CommandLists <- MC_CommandLists
  ExitCodes = {0, 137}
  Mentions = {{}, {"exit=0"}}
  RuleDirectories <- MC_RuleDirectories
  StorageViews <- MC_StorageViews
  MemoryViews <- MC_MemoryViews
  PacmanViews <- MC_PacmanViews
  interval = 1
  CommandTime = 1
  WorkTime = 1
  RestartSec = 1
  KmsgBlocks = FALSE
  MaxOom = 2
  MaxDumps = 0
INVARIANT DiagnosesUnitsAndMemory
CHECK_DEADLOCK FALSE
