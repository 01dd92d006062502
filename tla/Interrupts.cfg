SPECIFICATION MCFairSpec
CONSTANTS
  MaxTasks = 4
  Quantum = 2
  TickMod = 5
  Stacks = {b1, b2, b3, b4}
  NoStack = NoStack
  Size = 4
  Word = 5
  Hz = 2
  Milli = 3
  Asked = {0, 1, 2, 3, 4}
  MaxLate = 1
INVARIANTS
  ExitFindsSuccessor StacksOwned ExpiryPending
  Untorn
PROPERTIES
  NoStarvation
  FifoSpec KeyHandled
   SleepEnds
