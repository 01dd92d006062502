SPECIFICATION Spec
CONSTANTS
  MaxTasks = 3
  Quantum = 1
  TickMod = 2
  Stacks = {b1, b2, b3}
  NoStack = NoStack
  ProcessMax = 3
  PidMod = 6
  NFrames = 8
  HeapStarts = {0}
  HeapCaps = {1}
  UserFaults = TRUE
CHECK_DEADLOCK FALSE
INVARIANT HaltsAwake
