-------------------------------- MODULE Mlfq --------------------------------
(***************************************************************************)
(* The scheduler of project01/xv6-public: proc.c, the timer path of        *)
(* trap.c and the process system calls of sysproc.c, on the single CPU     *)
(* the Makefile boots (CPUS := 1).                                         *)
(*                                                                         *)
(* A handler runs with interrupts enabled except while it holds a          *)
(* spinlock, so every section under ptable.lock or tickslock is one        *)
(* action, and a timer interrupt may come between two of them: pc[p] says  *)
(* where process p is between two sections.                                *)
(*                                                                         *)
(*   "user"      in user mode                                              *)
(*   "trap"      in trap(), switched out by its yield() (interrupt from    *)
(*               user mode)                                                *)
(*   "ret"       a system call is done, before trap() tests p->killed      *)
(*   "iret"      after that test, before user mode is reached              *)
(*   "fork", "exit", "wait", "kill", "sleep", "yield", "lock", "unlock",   *)
(*   "setpri", "io"   entered that call                                    *)
(*   "fork2"     allocproc() returned an EMBRYO                            *)
(*   "lock2", "unlock2"   past the unprotected test of schedlock           *)
(*   "slept"     in the loop of sys_sleep()                                *)
(*   "exitTrap"  in exit() called by the timer trap: interrupts are off    *)
(*   "zombie"    past the last sched() of exit()                           *)
(* "io" is any call that may sleep on a channel an interrupt wakes (disk,  *)
(* console, log, inode); it is external to this module.                    *)
(***************************************************************************)
EXTENDS MlfqQueues

CONSTANTS
  BoostTicks,   \* ticks between two boosts, 100 in the code
  Calls,        \* the system calls the programs make
  SleepArgs,    \* arguments of sleep()
  PriorityArgs, \* arguments of setPriority()
  LongLocks     \* whether a program may hold the scheduler lock for
                \* BoostTicks ticks or more

AllCalls == {"fork", "exit", "wait", "kill", "sleep", "yield", "lock",
             "unlock", "setpri", "io"}

ASSUME SizesAssumption ==
  /\ NPROC \in Nat \ {0} /\ Quantum0 \in Nat \ {0} /\ Priority0 \in Nat
  /\ BoostTicks \in Nat \ {0} /\ UIntSize \in Nat /\ UIntSize > BoostTicks
ASSUME WorkloadAssumption ==
  /\ Calls \subseteq AllCalls
  /\ SleepArgs \subseteq 0 .. UIntSize - 1 /\ PriorityArgs \subseteq Int
  /\ LongLocks \in BOOLEAN

kvars == <<mlfq, state, qlevel, tq, priority, schedlock>>
cpuvars == <<cpu, level, window>>
procvars == <<pc, chan, parent, killed, np, slp>>
vars == <<kvars, cpuvars, ticks, procvars>>

(* Channels: a process (wait), the tick counter, everything else.          *)
NoChan == 0
TicksChan == NPROC + 1
IoChan == NPROC + 2

K == [mlfq |-> mlfq, state |-> state, qlevel |-> qlevel, tq |-> tq,
      priority |-> priority, schedlock |-> schedlock]

Become(k) ==
  /\ mlfq' = k.mlfq /\ state' = k.state /\ qlevel' = k.qlevel
  /\ tq' = k.tq /\ priority' = k.priority /\ schedlock' = k.schedlock

NoLocals == [ticks0 |-> 0, n |-> 0]

On(ch) == {p \in Proc : chan[p] = ch}

Init ==
  /\ mlfq = [lev \in LevelsAndBefore |-> IF lev = 0 THEN <<initproc>> ELSE <<>>]
  /\ state = [p \in Proc |-> IF p = initproc THEN "RUNNABLE" ELSE "UNUSED"]
  /\ qlevel = [p \in Proc |-> 0]
  /\ tq = [p \in Proc |-> IF p = initproc THEN Quantum0 ELSE 0]
  /\ priority = [p \in Proc |-> IF p = initproc THEN Priority0 ELSE 0]
  /\ schedlock = FALSE
  /\ cpu = NoProc /\ level = 0 /\ window = TRUE /\ ticks = 0
  /\ pc = [p \in Proc |-> "user"] /\ chan = [p \in Proc |-> NoChan]
  /\ parent = [p \in Proc |-> NoProc] /\ killed = [p \in Proc |-> FALSE]
  /\ np = [p \in Proc |-> NoProc]
  /\ slp = [p \in Proc |-> NoLocals]

-----------------------------------------------------------------------------
(* The scheduler.                                                          *)

(* sched(): back to scheduler(), which starts again at L0 holding the lock. *)
Sched == cpu' = NoProc /\ level' = 0 /\ window' = FALSE

(* A process switched out inside trap() goes on with trap()'s last test of *)
(* p->killed, with interrupts still off.                                   *)
Resume(p) ==
  CASE pc[p] = "trap" -> IF killed[p] THEN "exitTrap" ELSE "user"
    [] OTHER -> pc[p]

SchedulerDispatch ==
  /\ cpu = NoProc /\ mlfq[level] # <<>>
  /\ LET p == Head(mlfq[level])
     IN  /\ Become([Dequeue(K, level) EXCEPT !.state[p] = "RUNNING"])
         /\ cpu' = p /\ level' = 0 /\ window' = FALSE
         /\ pc' = [pc EXCEPT ![p] = Resume(p)]
         /\ chan' = [chan EXCEPT ![p] = NoChan]
  /\ UNCHANGED <<ticks, parent, killed, np, slp>>

SchedulerNextLevel ==
  /\ cpu = NoProc /\ mlfq[level] = <<>>
  /\ level' = (level + 1) % 3 /\ window' = TRUE
  /\ UNCHANGED <<kvars, cpu, ticks, procvars>>

-----------------------------------------------------------------------------
(* Interrupts.                                                             *)

InterruptsOn == IF cpu = NoProc THEN window ELSE pc[cpu] # "exitTrap"

(* Mutant of the tick: the reset one tick late.                            *)
TickLateReset ==
  LET boost == ticks + 1 > BoostTicks
      boosted == IF boost THEN Prboost(K, cpu) ELSE K
  IN  [k |-> Wakeup1(boosted, On(TicksChan)),
       ticks |-> IF boost THEN 0 ELSE ticks + 1]

(* The tick itself: ticks++, the boost, wakeup(&ticks).                    *)
Tick ==
  LET boost == ticks + 1 = BoostTicks
      boosted == IF boost THEN Prboost(K, cpu) ELSE K
  IN  [k |-> Wakeup1(boosted, On(TicksChan)),
       ticks |-> IF boost THEN 0 ELSE ticks + 1]

TimerAllowed ==
  /\ InterruptsOn
  /\ LongLocks \/ ~(schedlock /\ ticks + 1 = BoostTicks)

TimerIdle ==
  /\ cpu = NoProc /\ TimerAllowed
  /\ Become(Tick.k) /\ ticks' = Tick.ticks
  /\ UNCHANGED <<cpuvars, procvars>>

(* Mutants: a killed process is let go on; the lock does not stop yield(). *)
TimerKillsNobody ==
  /\ cpu # NoProc /\ TimerAllowed
  /\ killed[cpu] /\ pc[cpu] = "user"
  /\ Become(Tick.k) /\ ticks' = Tick.ticks
  /\ UNCHANGED <<cpuvars, procvars>>

TimerIgnoresLock ==
  /\ cpu # NoProc /\ TimerAllowed
  /\ ~(killed[cpu] /\ pc[cpu] = "user")
  /\ ticks' = Tick.ticks
  /\ Become(YieldEnqueue([Tick.k EXCEPT !.tq[cpu] = @ - 1], cpu))
  /\ Sched
  /\ pc' = [pc EXCEPT ![cpu] = IF @ = "user" THEN "trap" ELSE @]
  /\ UNCHANGED <<chan, parent, killed, np, slp>>

(* After the tick: exit() for a killed process interrupted in user mode;   *)
(* otherwise, unless the scheduler lock is held, one unit of quantum and   *)
(* yield().                                                                *)
TimerKills ==
  /\ cpu # NoProc /\ TimerAllowed
  /\ killed[cpu] /\ pc[cpu] = "user"
  /\ Become(Tick.k) /\ ticks' = Tick.ticks
  /\ pc' = [pc EXCEPT ![cpu] = "exitTrap"]
  /\ UNCHANGED <<cpuvars, chan, parent, killed, np, slp>>

TimerRunning ==
  /\ cpu # NoProc /\ TimerAllowed
  /\ ~(killed[cpu] /\ pc[cpu] = "user")
  /\ ticks' = Tick.ticks
  /\ IF Tick.k.schedlock
     THEN /\ Become(Tick.k)
          /\ UNCHANGED <<cpuvars, pc>>
     ELSE /\ Become(YieldEnqueue([Tick.k EXCEPT !.tq[cpu] = @ - 1], cpu))
          /\ Sched
          /\ pc' = [pc EXCEPT ![cpu] = IF @ = "user" THEN "trap" ELSE @]
  /\ UNCHANGED <<chan, parent, killed, np, slp>>

Timer == TimerIdle \/ TimerKills \/ TimerRunning

(* Any other interrupt: it wakes the processes waiting for I/O.            *)
IoInterrupt ==
  /\ InterruptsOn
  /\ \E p \in On(IoChan) : state[p] = "SLEEPING"
  /\ Become(Wakeup1(K, On(IoChan)))
  /\ UNCHANGED <<cpuvars, ticks, procvars>>

-----------------------------------------------------------------------------
(* System calls.                                                           *)

At(p, l) == cpu = p /\ pc[p] = l
Goto(p, l) == pc' = [pc EXCEPT ![p] = l]

(* sleep(): under ptable.lock, so no wakeup falls between the test of the  *)
(* caller's condition and SLEEPING.                                        *)
Sleep(k, p, ch) ==
  /\ Become([k EXCEPT !.state[p] = "SLEEPING", !.schedlock = FALSE])
  /\ chan' = [chan EXCEPT ![p] = ch]
  /\ Sched

(* trap() first sends a killed process to exit().  init never exits:       *)
(* exit() panics on it.                                                    *)
Syscall(p) ==
  /\ At(p, "user")
  /\ IF killed[p] THEN Goto(p, "exit")
     ELSE \E c \in Calls : (c = "exit" => p # initproc) /\ Goto(p, c)
  /\ UNCHANGED <<kvars, cpuvars, ticks, chan, parent, killed, np, slp>>

SyscallReturn(p) ==
  /\ At(p, "ret")
  /\ Goto(p, IF killed[p] THEN "exit" ELSE "iret")
  /\ UNCHANGED <<kvars, cpuvars, ticks, chan, parent, killed, np, slp>>

ReturnToUser(p) ==
  /\ At(p, "iret") /\ Goto(p, "user")
  /\ UNCHANGED <<kvars, cpuvars, ticks, chan, parent, killed, np, slp>>

Unused == {q \in Proc : state[q] = "UNUSED"}
FirstUnused == CHOOSE q \in Unused : \A r \in Unused : q <= r

(* fork() as far as allocproc(): an EMBRYO, visible to kill().             *)
ForkAlloc(p) ==
  /\ At(p, "fork") /\ Unused # {}
  /\ Become([K EXCEPT !.state[FirstUnused] = "EMBRYO",
                      !.tq[FirstUnused] = Quantum0,
                      !.priority[FirstUnused] = Priority0])
  /\ np' = [np EXCEPT ![p] = FirstUnused]
  /\ Goto(p, "fork2")
  /\ UNCHANGED <<cpuvars, ticks, chan, parent, killed, slp>>

ForkNoSlot(p) ==
  /\ At(p, "fork") /\ Unused = {}
  /\ Goto(p, "ret")
  /\ UNCHANGED <<kvars, cpuvars, ticks, chan, parent, killed, np, slp>>

(* copyuvm() (or kalloc()) failed: the slot is given back.                 *)
ForkNoMemory(p) ==
  /\ At(p, "fork2")
  /\ Become([K EXCEPT !.state[np[p]] = "UNUSED"])
  /\ np' = [np EXCEPT ![p] = NoProc]
  /\ Goto(p, "ret")
  /\ UNCHANGED <<cpuvars, ticks, chan, parent, killed, slp>>

ForkDone(p) ==
  /\ At(p, "fork2")
  /\ Become(Enqueue([K EXCEPT !.state[np[p]] = "RUNNABLE"], np[p], 0))
  /\ parent' = [parent EXCEPT ![np[p]] = p]
  /\ np' = [np EXCEPT ![p] = NoProc]
  /\ pc' = [pc EXCEPT ![p] = "ret", ![np[p]] = "user"]
  /\ UNCHANGED <<cpuvars, ticks, chan, killed, slp>>

(* Closing files, iput() and the log may sleep before exit() takes         *)
(* ptable.lock.                                                            *)
ExitSleeps(p) ==
  /\ At(p, "exit") \/ At(p, "exitTrap")
  /\ "io" \in Calls
  /\ Sleep(K, p, IoChan)
  /\ UNCHANGED <<ticks, pc, parent, killed, np, slp>>

Children(p) == {c \in Proc : parent[c] = p}

ExitKeepsChildren(p) ==
  /\ At(p, "exit") \/ At(p, "exitTrap")
  /\ Become([Wakeup1(K, On(parent[p])) EXCEPT !.state[p] = "ZOMBIE",
                                              !.schedlock = FALSE])
  /\ Goto(p, "zombie") /\ Sched
  /\ UNCHANGED <<ticks, chan, parent, killed, np, slp>>

Exit(p) ==
  /\ At(p, "exit") \/ At(p, "exitTrap")
  /\ LET zombieChild == \E c \in Children(p) : state[c] = "ZOMBIE"
         k1 == Wakeup1(K, On(parent[p]))
         k2 == IF zombieChild THEN Wakeup1(k1, On(initproc)) ELSE k1
     IN  Become([k2 EXCEPT !.state[p] = "ZOMBIE", !.schedlock = FALSE])
  /\ parent' = [c \in Proc |-> IF parent[c] = p THEN initproc ELSE parent[c]]
  /\ Goto(p, "zombie")
  /\ Sched
  /\ UNCHANGED <<ticks, chan, killed, np, slp>>

(* One pass of wait()'s loop.                                              *)
WaitReaps(p) ==
  /\ At(p, "wait")
  /\ LET zombies == {c \in Children(p) : state[c] = "ZOMBIE"}
         c == CHOOSE d \in zombies : \A e \in zombies : d <= e
     IN  /\ zombies # {}
         /\ Become([K EXCEPT !.state[c] = "UNUSED"])
         /\ parent' = [parent EXCEPT ![c] = NoProc]
         /\ killed' = [killed EXCEPT ![c] = FALSE]
  /\ Goto(p, "ret")
  /\ UNCHANGED <<cpuvars, ticks, chan, np, slp>>

WaitGivesUp(p) ==
  /\ At(p, "wait")
  /\ \A c \in Children(p) : state[c] # "ZOMBIE"
  /\ Children(p) = {} \/ killed[p]
  /\ Goto(p, "ret")
  /\ UNCHANGED <<kvars, cpuvars, ticks, chan, parent, killed, np, slp>>

WaitSleeps(p) ==
  /\ At(p, "wait")
  /\ \A c \in Children(p) : state[c] # "ZOMBIE"
  /\ Children(p) # {} /\ ~killed[p]
  /\ Sleep(K, p, p)
  /\ UNCHANGED <<ticks, pc, parent, killed, np, slp>>

(* kill(pid) stops at the first slot whose pid matches.  The pid of a slot *)
(* that was reaped, or never used, is 0: kill(0) finds such a slot.        *)
KillTargets ==
  {t \in Proc \ {initproc} : state[t] # "UNUSED"}
    \cup IF Unused # {} THEN {FirstUnused} ELSE {}

KillProcess(t) ==
  /\ Become(KillState(K, t))
  /\ killed' = [killed EXCEPT ![t] = TRUE]

Kill(p) ==
  /\ At(p, "kill")
  /\ \E t \in KillTargets : KillProcess(t)
  /\ Goto(p, "ret")
  /\ UNCHANGED <<cpuvars, ticks, chan, parent, np, slp>>

KillNotFound(p) ==
  /\ At(p, "kill") /\ Goto(p, "ret")
  /\ UNCHANGED <<kvars, cpuvars, ticks, chan, parent, killed, np, slp>>

(* Mutant: a sleep of n ends after n + 1 ticks.                            *)
SleepLoopLong(p, s) ==
  IF Elapsed(s.ticks0) > s.n \/ killed[p]
  THEN /\ Goto(p, "ret") /\ slp' = [slp EXCEPT ![p] = NoLocals]
       /\ UNCHANGED <<kvars, cpuvars, chan>>
  ELSE /\ Goto(p, "slept") /\ slp' = [slp EXCEPT ![p] = s]
       /\ Sleep(K, p, TicksChan)

(* One pass of the loop of sys_sleep() with its locals in s.               *)
SleepLoop(p, s) ==
  IF Elapsed(s.ticks0) >= s.n \/ killed[p]
  THEN /\ Goto(p, "ret") /\ slp' = [slp EXCEPT ![p] = NoLocals]
       /\ UNCHANGED <<kvars, cpuvars, chan>>
  ELSE /\ Goto(p, "slept") /\ slp' = [slp EXCEPT ![p] = s]
       /\ Sleep(K, p, TicksChan)

SysSleep(p) ==
  /\ At(p, "sleep")
  /\ \E n \in SleepArgs :
       SleepLoop(p, [ticks0 |-> ticks, n |-> n])
  /\ UNCHANGED <<ticks, parent, killed, np>>

SysSleepAgain(p) ==
  /\ At(p, "slept") /\ SleepLoop(p, slp[p])
  /\ UNCHANGED <<ticks, parent, killed, np>>

(* sys_yield(): the yield() of the timer path, without its tq--.           *)
SysYield(p) ==
  /\ At(p, "yield")
  /\ Become(YieldEnqueue(K, p))
  /\ Sched
  /\ Goto(p, "ret")
  /\ UNCHANGED <<ticks, chan, parent, killed, np, slp>>

SchedulerLockTest(p) ==
  /\ At(p, "lock")
  /\ Goto(p, IF schedlock THEN "ret" ELSE "lock2")
  /\ UNCHANGED <<kvars, cpuvars, ticks, chan, parent, killed, np, slp>>

SchedulerLock(p) ==
  /\ At(p, "lock2")
  /\ Become([K EXCEPT !.schedlock = TRUE]) /\ ticks' = 0
  /\ Goto(p, "ret")
  /\ UNCHANGED <<cpuvars, chan, parent, killed, np, slp>>

SchedulerUnlockTest(p) ==
  /\ At(p, "unlock")
  /\ Goto(p, IF schedlock THEN "unlock2" ELSE "ret")
  /\ UNCHANGED <<kvars, cpuvars, ticks, chan, parent, killed, np, slp>>

SchedulerUnlock(p) ==
  /\ At(p, "unlock2")
  /\ Become(Movefront([K EXCEPT !.schedlock = FALSE, !.tq[p] = Quantum0,
                                !.priority[p] = Priority0,
                                !.state[p] = "RUNNABLE"], p))
  /\ Sched
  /\ Goto(p, "ret")
  /\ UNCHANGED <<ticks, chan, parent, killed, np, slp>>

(* Either call with a wrong password kills the caller.                     *)
WrongPassword(p) ==
  /\ At(p, "lock2") \/ At(p, "unlock2")
  /\ p # initproc /\ KillProcess(p)
  /\ Goto(p, "ret")
  /\ UNCHANGED <<cpuvars, ticks, chan, parent, np, slp>>

SysSetPriority(p) ==
  /\ At(p, "setpri")
  /\ \E t \in Proc, v \in PriorityArgs : Become(SetPriority(K, p, t, v))
  /\ Goto(p, "ret")
  /\ UNCHANGED <<cpuvars, ticks, chan, parent, killed, np, slp>>

IoSleeps(p) ==
  /\ At(p, "io") /\ Sleep(K, p, IoChan)
  /\ UNCHANGED <<ticks, pc, parent, killed, np, slp>>

IoDone(p) ==
  /\ At(p, "io") /\ Goto(p, "ret")
  /\ UNCHANGED <<kvars, cpuvars, ticks, chan, parent, killed, np, slp>>

Process(p) ==
  \/ Syscall(p) \/ SyscallReturn(p) \/ ReturnToUser(p)
  \/ ForkAlloc(p) \/ ForkNoSlot(p) \/ ForkNoMemory(p) \/ ForkDone(p)
  \/ ExitSleeps(p) \/ Exit(p)
  \/ WaitReaps(p) \/ WaitGivesUp(p) \/ WaitSleeps(p)
  \/ Kill(p) \/ KillNotFound(p)
  \/ SysSleep(p) \/ SysSleepAgain(p) \/ SysYield(p)
  \/ SchedulerLockTest(p) \/ SchedulerLock(p)
  \/ SchedulerUnlockTest(p) \/ SchedulerUnlock(p) \/ WrongPassword(p)
  \/ SysSetPriority(p) \/ IoSleeps(p) \/ IoDone(p)

Next ==
  \/ SchedulerDispatch \/ SchedulerNextLevel
  \/ TimerIdle \/ TimerKills \/ TimerRunning \/ IoInterrupt
  \/ \E p \in Proc : Process(p)

Spec == Init /\ [][Next]_vars

(* The interrupt controller keeps a raised timer interrupt pending until   *)
(* interrupts are enabled, hence strong fairness of the tick.  The         *)
(* scheduler loop and code that runs with interrupts off go on.            *)
Fairness ==
  /\ WF_vars(SchedulerDispatch \/ SchedulerNextLevel)
  /\ SF_vars(Timer)
  /\ \A p \in Proc :
       WF_vars(At(p, "exitTrap") /\ (ExitSleeps(p) \/ Exit(p)))

(* A process in the kernel goes on whenever it is dispatched often enough. *)
KernelStep(p) == Process(p) /\ pc[p] # "user"

KernelFairness == \A p \in Proc : SF_vars(KernelStep(p))

-----------------------------------------------------------------------------
(* Properties, besides those of MlfqState.                                 *)

States == {"UNUSED", "EMBRYO", "SLEEPING", "RUNNABLE", "RUNNING", "ZOMBIE"}
Places == AllCalls \cup {"user", "trap", "ret", "iret", "fork2", "lock2",
                         "unlock2", "slept", "exitTrap", "zombie"}

(* Every variable has its type: queues hold processes, qlevel is -1 only   *)
(* between a boost and the yield after it.                                 *)
TypeOK ==
  /\ \A lev \in LevelsAndBefore : mlfq[lev] \in Seq(Proc)
  /\ state \in [Proc -> States] /\ qlevel \in [Proc -> LevelsAndBefore]
  /\ tq \in [Proc -> Int] /\ priority \in [Proc -> Int]
  /\ schedlock \in BOOLEAN /\ window \in BOOLEAN
  /\ cpu \in Proc \cup {NoProc} /\ level \in Levels
  /\ ticks \in 0 .. BoostTicks - 1
  /\ pc \in [Proc -> Places] /\ chan \in [Proc -> 0 .. NPROC + 2]
  /\ parent \in [Proc -> Proc \cup {NoProc}]
  /\ np \in [Proc -> Proc \cup {NoProc}]
  /\ killed \in [Proc -> BOOLEAN]

(* No starvation: a queued process gets the CPU, however the others use    *)
(* the queues above it, because the boost comes.                           *)
QueuedRuns ==
  \A p \in Proc :
    (\E lev \in Levels : p \in Range(mlfq[lev])) ~> cpu = p

(* A killed process that is not asleep dies: it reaches exit() from its    *)
(* next return to user mode or the next tick in user mode.                 *)
KilledDies ==
  \A p \in Proc : killed[p] ~> state[p] \in {"ZOMBIE", "UNUSED"}
=============================================================================
