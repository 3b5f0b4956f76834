CONSTANTS
  NPROC = 1
  Quantum0 = 1
  Priority0 = 0
  BoostTicks = 3
  UIntSize = 64
  Calls = {"lock"}
  SleepArgs = {0}
  PriorityArgs = {0}
  LongLocks = TRUE
SPECIFICATION Spec
INVARIANT QueuesExclusive
