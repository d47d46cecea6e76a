SPECIFICATION IntrSpec
CONSTANTS
  MaxSleep = 2
INVARIANTS
  ContextPreserved
PROPERTIES
  RequestsServed
  SleepEnds
CHECK_DEADLOCK FALSE
