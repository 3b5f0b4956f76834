CONSTANTS
  Quantum0 = 1
  UIntSize = 64
  PriorityArgs = {0}
  LongLocks = FALSE
SPECIFICATION LoadsSpec
INVARIANTS ExitsReachParents QueuedIffRunnable SleepersInTime LevelsKept
PROPERTY LockHolderKeepsCpu
