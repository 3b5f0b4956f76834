CONSTANTS
  BufProcs = {"p1", "p2"}
  Bufs = {"b1","b2"}
  Blknos = {"x","y","z"}
  BufVals = {0}
  ApicIds = {0, 1, 2, 3}
  MpTables <- MCMpTables
  NCPU = 3
  LowPages = {1, 2, 3, 4}
  HighPages = {5, 6}
  MAXARGS = 3
  ShLines <- MCShLines
  ShProcs = 5
  ShOrphans = 1
  ShPipes = 2
  Pslots = {1, 2, 3, 4}
  Manager = 1
  Lines <- MCLines
SPECIFICATION ServicesSpec
INVARIANTS BootSafe NothingLeftOpen
PROPERTIES HardwareAnswers PromptsReturn
CHECK_DEADLOCK FALSE
