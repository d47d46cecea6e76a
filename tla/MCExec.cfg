SPECIFICATION Spec
CONSTANTS
  Program <- MCProgram
  init_path = "init"
  shell_path = "rash"
  File <- MCFile
  PAGE_SIZE = 2
  STACK_TOP = 5
  INIT_STACK_PAGES = 2
  Table <- MCTable
  Walk <- MCWalk
  MaxFrames = 14
  MMIO_CAP = 2
  KERNEL_PAGE = 4
  RemapSizes = {0, 5}
  MaxRemaps = 2
INVARIANTS
  FramesPrivate
  RegionsKept
  StartsWithItsImage
PROPERTIES
  PromptComesBack
CHECK_DEADLOCK FALSE
