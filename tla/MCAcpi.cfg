SPECIFICATION Spec
CHECK_DEADLOCK FALSE
CONSTANTS
  Firmware <- MCFirmware
  MAX_CPUS = 2
  MAX_TASKS = 2
  SLICE = 2
  MaxTicks = 3
  ENABLE_POLLS = 2
INVARIANTS
  EachTaskQueuedOnce
PROPERTIES
  CpusMatchMadt
  NoTaskStarves
  ShutdownPowersOff
  RebootResets
