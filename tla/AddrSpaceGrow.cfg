SPECIFICATION Spec
CONSTANTS
  Tables = 9
  Entries = 4
  IdTables = 5
  WindowPD = 5
  HeapPD = 6
  ScratchPD = 8
  MaxProcs = 1
  MaxHeap = 5
INVARIANTS HeapReachable
