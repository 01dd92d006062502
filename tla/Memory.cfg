SPECIFICATION MCSpec
CONSTANTS
  MaxFrames = 8
  Regions <- MCRegions
  BootData <- MCBootData
INVARIANTS
  HeapConsistent LiveBlocksUsed
  Isolated KernelReachable FramesAccounted
PROPERTIES
  PoolSpec
