CONSTANTS
  NPROC = 2
  Priority0 = 0
  BoostTicks = 6
  Calls = {"fork", "exit", "kill", "yield", "setpri"}
  SleepArgs = {0}
  Quantum0 = 1
  UIntSize = 64
  PriorityArgs = {0}
  LongLocks = FALSE
SPECIFICATION LiveSpec
INVARIANTS TypeOK QueuesSound
PROPERTIES KilledDies QueuedRuns
