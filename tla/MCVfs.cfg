SPECIFICATION Spec
CONSTANTS
  Names <- MCNames
  EmptyName = ""
  ChildName <- MCChildName
  Path <- MCPaths
  StaticFs = {"DeviceFS"}
  MAX_RAMFS_NODES = 3
  RAMFS_MAX_CHILDREN = 2
  MAX_STATIC_NODES = 1
  MAX_MOUNTS = 2
  FDs = {3}
  MaxUnmounts = 1
INVARIANTS
  ListingIsPrefix
PROPERTIES
  ResolutionStable
