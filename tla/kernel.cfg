CONSTANTS
  PIPESIZE = 2
  PipeUInt = 4
  PipeReaders = {"r1"}
  PipeWriters = {"w1", "w2"}
  PipeBytes = {0, 1}
  Counts = {1, 3}
  Texts <- MCTexts
  INPUT_BUF = 3
  ConsUInt = 6
  Columns = 2
  Rows = 3
  ConsProcs = {"p"}
  Letters = {"a", "b"}
  ReadSizes = {1, 3}
  Keys = {29, 42, 54, 58, 157, 30, 200, 184}
  AddrMod = 16
  IntSize = 2
  ByteMod = 4
  Sizes = {6, 7}
  Images <- MCImages
  NOFILE = 2
  NFILE = 3
  MAXARG = 2
  MemSlots = 3
  MemSpaces = 3
  MemPages = {11, 13}
  PGSIZE = 2
  NPTENTRIES = 2
  KERNBASE = 8
  KernTables = 1
  SbrkArgs <- MCSbrkArgs
  Limits = {6}
  StackSizes = {}
  Programs <- MCPrograms
  ArgBytes = {1, 3}
  BufProcs = {"p1", "p2"}
  Bufs = {"b1", "b2"}
  Blknos = {x, y, z}
  BufVals = {0, 1}
  HeapEnd = 14
  MoreUnits = 4
  Requests = {2, 3, 5}
  Inputs <- MCInputs
  BufSize = 5
  IntMod = 16
  Dec = 3
  Hex = 4
  Formats <- MCFormats
  Arguments <- MCArguments
  MAXARGS = 3
  ShLetters = {"a", " ", "|", ">", "&", ";", "(", ")"}
  ShLength = 4
SPECIFICATION KernelSpec
INVARIANTS PipeSafe BufferSafe ConsoleSafe ArgumentsChecked MemoryOwnedOnce ProgramsRight
PROPERTIES PipeIsFifo LimitHolds
SYMMETRY Symmetry
CHECK_DEADLOCK FALSE
