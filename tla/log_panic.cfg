CONSTANTS
  Ops = {o1, o2}
  Blocks = {b1, b2, b3, b4}
  Vals = {0}
  MAXOPBLOCKS = 2
  LOGSIZE = 4
  LogBlocks = 4
  OpBlocks = 2
SPECIFICATION Spec
INVARIANT NoPanic
