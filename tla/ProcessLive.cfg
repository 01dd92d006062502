SPECIFICATION FairSpec
CONSTANTS
  MaxTasks = 3
  Quantum = 1
  TickMod = 2
  Stacks = {b1, b2}
  NoStack = NoStack
  ProcessMax = 3
  PidMod = 6
  NFrames = 5
  HeapStarts = {0}
  HeapCaps = {0}
  UserFaults = FALSE
INVARIANT HaltsAwake
PROPERTY EveryProcessReaped
