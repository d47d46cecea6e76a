SPECIFICATION Spec
CONSTANTS
  PAGE_SIZE = 2
  BitsPerPage = 3
  MAX_PAGES = 9
  LowPages = 6
  ReqPages = 2
  CounterSpan = 4
  MaxFrees = 1
  MemMap <- MCMemMap
  Patterns <- MCPatterns
INVARIANTS
  TypeOK
  LowFramesPartitioned
PROPERTY
  LowRamServedFirst
