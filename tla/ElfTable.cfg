\* A rejected or accepted image ends the call.
SPECIFICATION ElfSpec
CONSTANTS
  Word = 8
  CodeVaddr = 4
  CodeSize = 2
  EhdrSize = 1
  PhdrSize = 1
  MaxImage = 2
  MaxPhnum = 2
  Values = {0, 1, 2, 4, 5, 7}
INVARIANT TableInImage
CHECK_DEADLOCK FALSE
