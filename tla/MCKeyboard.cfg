SPECIFICATION KbdSpec
CONSTANTS
  Letter = {"a", "b"}
  Codes <- MCCodes
  Reports <- MCReports
  RING = 3
  g_i8042_present = TRUE
  MaxKeys = 3
  None = None
INVARIANTS
  DeliveredInOrder
  MaskedKeysDelivered
PROPERTIES
  InputIsRead
