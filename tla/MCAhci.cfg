SPECIFICATION Spec
CONSTANTS
  SLOTS = 2
  READY_POLLS = 1
  POLLS = 2
  PORTS = 2
  Sector = {0, 1}
  Buffer = {b1}
  Value = {0, 1}
  MaxCalls = 3
  Idle = Idle
INVARIANTS
  SlotsPrivate
PROPERTIES
  SynchronousDisk
  RequestsReturn
CHECK_DEADLOCK FALSE
