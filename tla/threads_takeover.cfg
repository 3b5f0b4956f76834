CONSTANTS
  NPROC = 4
  MaxPid = 4
  Calls = {"fork", "exit", "wait", "create", "texit", "join", "kill", "exec"}
  OneTakeover = FALSE
SPECIFICATION Spec
INVARIANT ExitTakesAllThreads
CHECK_DEADLOCK FALSE
