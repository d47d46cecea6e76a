CONSTANTS
  PORTS = 2
  CMD_RING_SIZE = 7
  EVENT_RING_SIZE = 3
  EP_RING_SIZE = 5
  FLUSH = 2
  MaxPortEvents = 1
  MaxReports = 5
  MaxErrors = 1
SPECIFICATION Spec
INVARIANTS DriverOwns EventsInOrder AnswersMatch ReportsProcessedOnce
PROPERTIES KeyboardKeepsWorking
CHECK_DEADLOCK FALSE
