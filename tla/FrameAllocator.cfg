SPECIFICATION FrameSpec
CONSTANTS
  FRAME_SIZE = 2
  BITMAP_BITS = 7
  MemoryMaps <- MCMemoryMaps
  KernelRanges <- MCKernelRanges
  ModuleLists <- MCModuleLists
  NoFrame = NoFrame
INVARIANTS SearchCoversAllFree UsedIsExact FreeFramesAreSafe
PROPERTY ImplementsPool
