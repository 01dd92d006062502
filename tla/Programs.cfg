\* A load and a copy end.
SPECIFICATION MCSpec
CONSTANTS
  Word = 8
  CodeVaddr = 4
  CodeSize = 2
  EhdrSize = 1
  PhdrSize = 1
  MaxImage = 2
  MaxPhnum = 2
  Values = {0, 1, 2, 4, 5, 7}
  PageSize = 2
  NumPages = 4
  DstSize = 4
INVARIANTS
  SegmentsInside PageExact RejectedForCause
  RangeExact ReadsAllowed
  
PROPERTIES
  SameIncarnation CallsConfined
CHECK_DEADLOCK FALSE
