SPECIFICATION Spec
CONSTANTS
  MaxAddress = 20
  Null = Null
  RegionSize = 3
  ImageBase = 1
  IpcBase = 3
  IpcSize = 3
  HeapBase = 6
  HeapEnd = 9
  SharedEnd = 11
  OldLinearBase = 11
  TlsBase = 14
  LinearBase = 17
  CommitLimit = 3
  SlotsPerPage = 1
  Sizes = {1, 2}
  Perms <- OnlyReadWrite
  MapTargets = {1}
  UnmapTargets = {1, 9}
  SharedTargets = {9}
  BufferSizes = {1}
  MaxBuffers = 1
  MaxThreads = 1
  BlockSizes = {1}
  AliasSizes = {2}
  MaxUnderflow = 1
  MaxCalls = 6
INVARIANTS
  TypeOK
  VMAsExact
  FramesExact
PROPERTIES
  
  ImplementsPageMap
CHECK_DEADLOCK FALSE
