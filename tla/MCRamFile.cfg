SPECIFICATION Spec
SYMMETRY Symmetry
CONSTANTS
  File = {f, g}
  NoFile = NoFile
  FD = {fd1, fd2}
  Byte = {x, y}
  Garbage = Garbage
  PAGE_SIZE = 2
  NPAGES = 2
  PageSpan = 8
  MaxFrames = 3
  WriteSizes = {0, 1, 3}
  ReadSizes = {1}
  Offsets = {0, 3}
  MaxEnd = 4
INVARIANTS
  PagesPrivate
  PagesCoverSize
  ReadsReturnWrites
