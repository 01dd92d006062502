\* A halted kernel does nothing more, and a number ends.
SPECIFICATION MCSpec
CONSTANTS
  Word = 256
  Bases = {10, 16}
  Quantum = 2
  MaxTicks = 6
  MaxKeys = 1
INVARIANTS
  ValueExact
  NeedsMet EarlyTicks
   YieldsSuffice
  HistoryExact ShowsLine
CHECK_DEADLOCK FALSE
