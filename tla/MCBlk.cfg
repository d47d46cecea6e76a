SPECIFICATION BlkSpec
CONSTANTS
  Request <- MCRequest
  Reads <- MCReads
  deadline <- MCDeadline
  MaxSubmits = 7
INVARIANTS
  LinkedOnce
  DeadlineOrder
PROPERTIES
  EarliestFirst
CHECK_DEADLOCK FALSE
