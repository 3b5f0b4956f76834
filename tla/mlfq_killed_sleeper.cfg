CONSTANTS
  NPROC = 2
  Quantum0 = 1
  Priority0 = 0
  BoostTicks = 3
  UIntSize = 64
  Calls = {"fork", "io", "kill"}
  SleepArgs = {0}
  PriorityArgs = {0}
  LongLocks = FALSE
SPECIFICATION Spec
INVARIANT RunnableIsQueued
