SPECIFICATION BootSpec
CHECK_DEADLOCK FALSE
CONSTANTS
  Archives <- MCArchives
  NameRead <- MCNameRead
  Dot = "."
  BLOCK = 2
  MAX_FILE = 4
  Names <- MCNames
  EmptyName = ""
  ChildName <- MCChildName
  Path = {}
  StaticFs = {"DeviceFS", "ProcessFS"}
  MAX_RAMFS_NODES = 12
  RAMFS_MAX_CHILDREN = 12
  MAX_STATIC_NODES = 5
  MAX_MOUNTS = 4
  FDs = {3}
  MaxUnmounts = 0
INVARIANTS
  ExtractionExact
  RuntimeReachable
PROPERTIES
  InitFromArchive
