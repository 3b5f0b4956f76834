CONSTANTS
  NPROC = 4
  MaxPid = 4
  Calls = {"fork", "exit", "wait", "create", "texit", "join", "kill", "exec"}
  OneTakeover = TRUE
  RrProcs = 2
  RrCpus = 2
  RrSleep = 1
SPECIFICATION ProcessesSpec
INVARIANTS TypeOK PointersLive ExitTakesAllThreads NoLostExit RoundRobinSafe
CHECK_DEADLOCK FALSE
