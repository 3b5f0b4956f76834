---------------------------- MODULE MCWorkloads ----------------------------
(***************************************************************************)
(* Four workloads of the scheduler in one state space: load says which     *)
(* instance of Mlfq the behaviour is one of.  They share the variables and *)
(* the promises of MlfqState; the clock runs for the sleepers only.        *)
(***************************************************************************)
EXTENDS SleepClock

CONSTANTS PriorityArgs, LongLocks

VARIABLE load

\* Processes that come and go, a boost every other tick.
Forks == INSTANCE Mlfq WITH NPROC <- 3, Priority0 <- 0, BoostTicks <- 2,
           Calls <- {"fork", "exit", "wait"}, SleepArgs <- {0}
\* Sleepers on I/O and on the tick counter; some of them meet a boost.
Sleeps == INSTANCE MlfqSleep WITH NPROC <- 2, Priority0 <- 0, BoostTicks <- 3,
            Calls <- {"fork", "exit", "io", "sleep"}, SleepArgs <- {2}
\* Processes that only run: they reach L2 and its priorities.
Runs == INSTANCE Mlfq WITH NPROC <- 3, Priority0 <- 1, BoostTicks <- 18,
          Calls <- {"fork"}, SleepArgs <- {0}
\* Holders of the scheduler lock.
Locks == INSTANCE Mlfq WITH NPROC <- 3, Priority0 <- 0, BoostTicks <- 2,
           Calls <- {"fork", "exit", "lock", "unlock"}, SleepArgs <- {0}

LoadsInit ==
  /\ \/ load = "forks" /\ Forks!Init
     \/ load = "sleeps" /\ Sleeps!Init
     \/ load = "runs" /\ Runs!Init
     \/ load = "locks" /\ Locks!Init
  /\ ClockFirst

LoadsNext ==
  /\ UNCHANGED load
  /\ \/ load = "forks" /\ Forks!Next /\ UNCHANGED clockvars
     \/ load = "sleeps" /\ Sleeps!ClockNext
     \/ load = "runs" /\ Runs!Next /\ UNCHANGED clockvars
     \/ load = "locks" /\ Locks!Next /\ UNCHANGED clockvars

LoadsSpec == LoadsInit /\ [][LoadsNext]_<<Runs!vars, clockvars, load>>
=============================================================================
