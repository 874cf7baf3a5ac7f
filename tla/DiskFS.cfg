SPECIFICATION Spec
CONSTANTS
  NumSectors = 9
  SectorSize = 2
  NumDirect = 2
  NumDirEntries = 2
  DirectoryFileSize = 3
  HeadAt <- MCHeadAt
  NameAt <- MCNameAt
  a = a
  b = b
  c = c
  x = x
  y = y
  Names = {a, b, c}
  Bytes = {x, y}
  NULL = NULL
  Junk = Junk
  Sizes = {1, 3}
  Buffers <- MCBuffers
  Handles = {1}
  Garbage <- MCGarbage
  RemoveOpen = FALSE
  MountTorn = FALSE
INVARIANTS SectorsExact CallsExact
PROPERTY ImplementsFileStore
SYMMETRY Symmetry
