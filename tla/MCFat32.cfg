SPECIFICATION Spec
SYMMETRY Symmetry
CONSTANTS
  TotalClusters = 7
  CACHED = 6
  Root = 2
  UNITS = 2
  PAGE_UNITS = 2
  Name <- MCName
  Slots <- MCSlots
  ShortName <- MCShortName
  FirstDisk <- MCDisk
  FirstFat <- MCFat
  Handle = {h1, h2}
  Byte = {y1, y2}
  WriteSizes = {2}
  MaxEnd = 3
INVARIANTS
  ChainsDisjoint
  CrashConsistent
  ReadsReturnWrites
CHECK_DEADLOCK FALSE
