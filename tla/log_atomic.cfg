CONSTANTS
  Ops = {o1, o2}
  Blocks = {b1, b2}
  Vals = {0, 1}
  MAXOPBLOCKS = 2
  LOGSIZE = 4
  LogBlocks = 4
  OpBlocks = 2
SPECIFICATION Spec
INVARIANTS TypeOK CommitAlone IndInv
PROPERTY AtomicSpec
SYMMETRY Symmetry
