SPECIFICATION Spec
CONSTANTS
  MaxAddress = 30
  Null = Null
  RegionSize = 3
  ImageBase = 1
  IpcBase = 3
  IpcSize = 13
  HeapBase = 16
  HeapEnd = 19
  SharedEnd = 21
  OldLinearBase = 21
  TlsBase = 24
  LinearBase = 27
  CommitLimit = 3
  SlotsPerPage = 1
  Sizes = {1, 2}
  Perms <- OnlyReadWrite
  MapTargets = {1}
  UnmapTargets = {1, 19}
  SharedTargets = {19}
  BufferSizes = {1, 2}
  MaxBuffers = 3
  MaxThreads = 1
  BlockSizes = {1}
  AliasSizes = {2}
  MaxUnderflow = 1
  MaxCalls = 6
INVARIANT
  RoomIsFound
CHECK_DEADLOCK FALSE
