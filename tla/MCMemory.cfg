SPECIFICATION MemorySpec
CONSTANTS
  MaxFrames = 8
  FrameSize = 2
  MemoryMap <- MCMemoryMap
  MaxCount = 3
  PageSize = 10
  HeapMaximum = 30
  HeapAlignment = 2
  Header = 4
  UintMax = 63
  Requests = {1, 9, 63}
  Arrays <- MCArrays
  PoolPages = 3
  Tags = {1, 2, 3}
  FrameCount = 8
  UserVas <- MCUser
  KernelVas <- MCKernel
  SpaceMax = 2
INVARIANTS FramesCounted HeapSound PageTablesSound TlbCoherent
PROPERTIES KeepsPromise
CHECK_DEADLOCK FALSE
