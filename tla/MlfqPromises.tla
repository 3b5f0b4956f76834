---------------------------- MODULE MlfqPromises ----------------------------
(***************************************************************************)
(* What the scheduler of project01 promises beyond sound queues, proved    *)
(* for every number of processes, every quantum and boost period and all   *)
(* system calls that a theorem does not exclude: no sleeper of sys_sleep() *)
(* and no exit is forgotten, a lock holder keeps the CPU, nobody has more  *)
(* quantum than its level grants, and L2 stays in priority order.          *)
(***************************************************************************)
EXTENDS MlfqProofs, MlfqSleep

-----------------------------------------------------------------------------
(* Where a process goes, and who goes to sleep.                            *)

(* From one place of the kernel the process x gets to l.                   *)
Goes(x, l) ==
  \/ l \in {"user", "trap", "ret", "iret", "fork2", "unlock2"}
  \/ l \in Calls /\ l # "exit"
  \/ l = "exit" /\ (killed[x] \/ x # initproc)
  \/ l = "exitTrap" /\ killed[x]
  \/ l = "zombie" /\ pc[x] \in {"exit", "exitTrap"}
  \/ l = "lock2" /\ pc[x] = "lock"
  \/ l = "slept" /\ pc[x] \in {"sleep", "slept"}

PcStep(q) == pc'[q] = pc[q] \/ Goes(q, pc'[q])

LEMMA PcSteps ==
  ASSUME MlfqInv, [Next]_vars, NEW q \in Proc
  PROVE  PcStep(q)
<1>1. pc \in [Proc -> Places] /\ cpu \in Proc \cup {NoProc}
  BY DEF MlfqInv, OtherTypes
<1>2. ASSUME NEW x \in Proc, NEW l, pc' = [pc EXCEPT ![x] = l], l = pc[x] \/ Goes(x, l)
      PROVE  PcStep(q)
  BY <1>1, <1>2 DEF PcStep
<1>3. CASE pc' = pc
  BY <1>3 DEF PcStep
<1>4. CASE SchedulerDispatch
  <2>1. PICK x : x = cpu' /\ x \in Proc /\ pc' = [pc EXCEPT ![x] = Resume(x)]
    BY <1>4, Dispatches DEF SchedulerDispatch
  <2>2. Resume(x) = pc[x] \/ Goes(x, Resume(x))
    BY DEF Resume, Goes
  <2> QED
    BY <1>2, <2>1, <2>2
<1>5. CASE SchedulerNextLevel \/ TimerIdle \/ IoInterrupt \/ UNCHANGED vars
  BY <1>3, <1>5 DEF SchedulerNextLevel, TimerIdle, IoInterrupt, vars, procvars
<1>6. CASE TimerKills
  <2>1. cpu \in Proc /\ killed[cpu] /\ pc' = [pc EXCEPT ![cpu] = "exitTrap"]
    BY <1>1, <1>6 DEF TimerKills
  <2>2. Goes(cpu, "exitTrap")
    BY <2>1 DEF Goes
  <2> QED
    BY <1>2, <2>1, <2>2
<1>7. CASE TimerRunning
  <2>1. PICK x \in Proc : x = cpu
    BY <1>1, <1>7 DEF TimerRunning
  <2>2. PICK l : l = IF pc[x] = "user" THEN "trap" ELSE pc[x]
    OBVIOUS
  <2>3. pc' = pc \/ pc' = [pc EXCEPT ![x] = l]
    BY <1>7, <2>1, <2>2 DEF TimerRunning
  <2>4. l = pc[x] \/ Goes(x, l)
    BY <2>2 DEF Goes
  <2> QED
    BY <1>2, <1>3, <2>3, <2>4
<1>8. ASSUME NEW p \in Proc, Process(p)
      PROVE  PcStep(q)
  <2>1. CASE Syscall(p)
    <3>1. PICK l : /\ Goto(p, l)
                   /\ \/ killed[p] /\ l = "exit"
                      \/ l \in Calls /\ (l = "exit" => p # initproc)
      BY <2>1 DEF Syscall
    <3>2. Goes(p, l)
      BY <3>1 DEF Goes
    <3> QED
      BY <1>2, <3>1, <3>2 DEF Goto
  <2>2. CASE SyscallReturn(p)
    <3>1. PICK l : l = IF killed[p] THEN "exit" ELSE "iret"
      OBVIOUS
    <3>2. Goto(p, l)
      BY <2>2, <3>1 DEF SyscallReturn
    <3>3. Goes(p, l)
      BY <3>1 DEF Goes
    <3> QED
      BY <1>2, <3>2, <3>3 DEF Goto
  <2>3. CASE \/ ReturnToUser(p) \/ ForkAlloc(p) \/ ForkNoSlot(p) \/ ForkNoMemory(p) \/ WaitReaps(p)
             \/ WaitGivesUp(p) \/ Kill(p) \/ KillNotFound(p) \/ SysYield(p) \/ SchedulerLock(p)
             \/ SchedulerUnlock(p) \/ WrongPassword(p) \/ SysSetPriority(p) \/ IoDone(p)
    <3>1. PICK l \in {"user", "fork2", "ret"} : pc' = [pc EXCEPT ![p] = l]
      BY <2>3 DEF ReturnToUser, ForkAlloc, ForkNoSlot, ForkNoMemory, WaitReaps, WaitGivesUp, Kill,
                  KillNotFound, SysYield, SchedulerLock, SchedulerUnlock, WrongPassword,
                  SysSetPriority, IoDone, Goto
    <3>2. Goes(p, l)
      BY <3>1 DEF Goes
    <3> QED
      BY <1>2, <3>1, <3>2
  <2>4. CASE ForkDone(p)
    <3>1. pc' = [pc EXCEPT ![p] = "ret", ![np[p]] = "user"]
      BY <2>4 DEF ForkDone
    <3>2. pc'[q] \in {"ret", "user", pc[q]}
      BY <1>1, <3>1
    <3> QED
      BY <3>2 DEF PcStep, Goes
  <2>5. CASE ExitSleeps(p) \/ WaitSleeps(p) \/ IoSleeps(p)
    BY <1>3, <2>5 DEF ExitSleeps, WaitSleeps, IoSleeps
  <2>6. CASE Exit(p)
    <3>1. pc' = [pc EXCEPT ![p] = "zombie"] /\ pc[p] \in {"exit", "exitTrap"}
      BY <2>6 DEF Exit, Goto, At
    <3>2. Goes(p, "zombie")
      BY <3>1 DEF Goes
    <3> QED
      BY <1>2, <3>1, <3>2
  <2>7. CASE SysSleep(p) \/ SysSleepAgain(p)
    <3>1. PICK s : SleepLoop(p, s)
      BY <2>7 DEF SysSleep, SysSleepAgain
    <3>2. PICK l \in {"ret", "slept"} : pc' = [pc EXCEPT ![p] = l]
      BY <3>1 DEF SleepLoop, Goto
    <3>3. pc[p] \in {"sleep", "slept"}
      BY <2>7 DEF SysSleep, SysSleepAgain, At
    <3>4. Goes(p, l)
      BY <3>2, <3>3 DEF Goes
    <3> QED
      BY <1>2, <3>2, <3>4
  <2>8. CASE SchedulerLockTest(p) \/ SchedulerUnlockTest(p)
    <3>1. PICK l : /\ Goto(p, l) /\ l \in {"ret", "lock2", "unlock2"}
                   /\ l = "lock2" => pc[p] = "lock"
      <4>1. CASE SchedulerLockTest(p)
        <5>1. PICK l : l = IF schedlock THEN "ret" ELSE "lock2"
          OBVIOUS
        <5> QED
          BY <4>1, <5>1 DEF SchedulerLockTest, At
      <4>2. CASE SchedulerUnlockTest(p)
        <5>1. PICK l : l = IF schedlock THEN "unlock2" ELSE "ret"
          OBVIOUS
        <5> QED
          BY <4>2, <5>1 DEF SchedulerUnlockTest
      <4> QED
        BY <2>8, <4>1, <4>2
    <3>2. Goes(p, l)
      BY <3>1 DEF Goes
    <3> QED
      BY <1>2, <3>1, <3>2 DEF Goto
  <2> QED
    BY <1>8, <2>1, <2>2, <2>3, <2>4, <2>5, <2>6, <2>7, <2>8 DEF Process
<1> QED
  BY <1>4, <1>5, <1>6, <1>7, <1>8 DEF Next

(* Any other interrupt only wakes.                                         *)
LEMMA IoWakes ==
  ASSUME MlfqInv, IoInterrupt
  PROVE  ChangesOnly(0) /\ schedlock' = schedlock
<1>1. PICK k \in KRecord : k = K /\ QInv(k)
  BY DEF MlfqInv
<1>2. PICK e : e = Wakeup1(k, On(IoChan))
  OBVIOUS
<1>3. Awakens(k, e)
  BY <1>1, <1>2, Wakeup1Awakens
<1>4. Become(e)
  BY <1>1, <1>2 DEF IoInterrupt
<1> QED
  BY <1>1, <1>3, <1>4, Becomes, Fields DEF Awakens, ChangesOnly

(* Nobody is in a call that the programs do not make.                      *)
Uncalled ==
  ({"yield", "lock", "sleep"} \ Calls)
    \cup {l \in {"lock2"} : "lock" \notin Calls}
    \cup {l \in {"slept"} : "sleep" \notin Calls}

Called == \A p \in Proc : pc[p] \notin Uncalled

LEMMA CalledKept ==
  ASSUME MlfqInv, [Next]_vars, Called
  PROVE  Called'
<1> SUFFICES ASSUME NEW q \in Proc PROVE pc'[q] \notin Uncalled
  BY DEF Called, Uncalled
<1>1. pc[q] \notin Uncalled /\ PcStep(q)
  BY PcSteps DEF Called
<1>2. \A c \in Calls : c \notin {"lock2", "slept"}
  BY WorkloadAssumption DEF WorkloadAssumption, AllCalls
<1>3. ("lock" \notin Calls => pc[q] # "lock") /\ ("sleep" \notin Calls => pc[q] \notin {"sleep", "slept"})
  BY <1>1 DEF Uncalled
<1> QED
  BY <1>1, <1>2, <1>3 DEF PcStep, Goes, Uncalled

LEMMA CalledFirst ==
  ASSUME Init
  PROVE  Called
BY DEF Init, Called, Uncalled

-----------------------------------------------------------------------------
(* The scheduler lock.                                                     *)

(* The lock is held by who has the CPU.                                    *)
HeldOnCpu == schedlock => cpu # NoProc

LEMMA LockSteps ==
  ASSUME MlfqInv, ~LongLocks, HeldOnCpu, \A p \in Proc : pc[p] # "yield", [Next]_vars
  PROVE  HeldOnCpu' /\ (schedlock /\ schedlock' => cpu' = cpu)
<1>1. CASE SchedulerDispatch
  <2>1. cpu' \in Proc /\ cpu = NoProc
    BY <1>1, Dispatches DEF SchedulerDispatch
  <2> QED
    BY <2>1 DEF HeldOnCpu, Proc, NoProc
<1>2. CASE SchedulerNextLevel \/ UNCHANGED vars
  BY <1>2 DEF SchedulerNextLevel, vars, kvars, cpuvars, HeldOnCpu
<1>3. CASE TimerIdle \/ TimerKills
  <2>1. cpu' = cpu /\ schedlock' = schedlock
    BY <1>3, TimerTicks DEF TimerIdle, TimerKills, cpuvars
  <2> QED
    BY <2>1 DEF HeldOnCpu
<1>4. CASE TimerRunning
  <2>1. CASE Tick.k.schedlock
    <3>1. cpu' = cpu /\ schedlock' = schedlock
      BY <1>4, <2>1, TimerTicks DEF TimerRunning, cpuvars
    <3> QED
      BY <3>1 DEF HeldOnCpu
  <2>2. CASE ~Tick.k.schedlock
    <3>1. ~schedlock /\ ~schedlock'
      BY <1>4, <2>2, TimerYields DEF TimerRunning
    <3> QED
      BY <3>1 DEF HeldOnCpu
  <2> QED
    BY <2>1, <2>2
<1>5. CASE IoInterrupt
  <2>1. schedlock' = schedlock /\ cpu' = cpu
    BY <1>5, IoWakes DEF IoInterrupt, cpuvars
  <2> QED
    BY <2>1 DEF HeldOnCpu
<1>6. ASSUME NEW p \in Proc, Process(p)
      PROVE  HeldOnCpu' /\ (schedlock /\ schedlock' => cpu' = cpu)
  <2>1. CASE cpu' = cpu /\ cpu = p
    BY <2>1 DEF HeldOnCpu, Proc, NoProc
  <2>2. CASE ~schedlock'
    BY <2>2 DEF HeldOnCpu
  <2>3. CASE \/ Syscall(p) \/ SyscallReturn(p) \/ ReturnToUser(p) \/ ForkAlloc(p) \/ ForkNoSlot(p)
             \/ ForkNoMemory(p) \/ ForkDone(p) \/ WaitReaps(p) \/ WaitGivesUp(p) \/ Kill(p)
             \/ KillNotFound(p) \/ SchedulerLockTest(p) \/ SchedulerLock(p)
             \/ SchedulerUnlockTest(p) \/ WrongPassword(p) \/ SysSetPriority(p) \/ IoDone(p)
    BY <2>1, <2>3 DEF Syscall, SyscallReturn, ReturnToUser, ForkAlloc, ForkNoSlot, ForkNoMemory,
                      ForkDone, WaitReaps, WaitGivesUp, Kill, KillNotFound, SchedulerLockTest,
                      SchedulerLock, SchedulerUnlockTest, WrongPassword, SysSetPriority, IoDone,
                      At, cpuvars
  <2>4. CASE ExitSleeps(p) \/ WaitSleeps(p) \/ IoSleeps(p)
    <3>1. cpu = p /\ \E ch : Sleep(K, p, ch)
      BY <2>4 DEF ExitSleeps, WaitSleeps, IoSleeps, At
    <3> QED
      BY <2>2, <3>1, Sleeps
  <2>5. CASE SysSleep(p) \/ SysSleepAgain(p)
    <3>1. cpu = p /\ \E s : SleepLoop(p, s)
      BY <2>5 DEF SysSleep, SysSleepAgain, At
    <3>2. cpu' = cpu \/ \E ch : Sleep(K, p, ch)
      BY <3>1 DEF SleepLoop, cpuvars
    <3> QED
      BY <2>1, <2>2, <3>1, <3>2, Sleeps
  <2>6. CASE Exit(p)
    BY <2>2, <2>6, Exits
  <2>7. CASE SchedulerUnlock(p)
    BY <2>2, <2>7, Unlocks
  <2>8. CASE SysYield(p)
    BY <2>8 DEF SysYield, At
  <2> QED
    BY <1>6, <2>3, <2>4, <2>5, <2>6, <2>7, <2>8 DEF Process
<1> QED
  BY <1>1, <1>2, <1>3, <1>4, <1>5, <1>6 DEF Next

(* proc.c, schedulerLock(): until it is unlocked, sleeps, exits or is      *)
(* boosted, the process that took the lock has the CPU to itself: neither  *)
(* a tick nor another process moves it.  yield() gives the CPU away with   *)
(* the lock held, so it is excluded.                                       *)
THEOREM LockHolderStays ==
  ASSUME ~LongLocks, "yield" \notin Calls
  PROVE  Spec => LockHolderKeepsCpu
<1> DEFINE Inv == MlfqInv /\ Called /\ HeldOnCpu
<1>1. Init => Inv
  <2>1. Init => HeldOnCpu
    BY DEF Init, HeldOnCpu
  <2> QED
    BY <2>1, InitHolds, CalledFirst
<1>2. Inv => \A p \in Proc : pc[p] # "yield"
  BY DEF Called, Uncalled
<1>3. Inv /\ [Next]_vars => Inv'
  BY <1>2, NextKeeps, CalledKept, LockSteps
<1>4. Inv /\ [Next]_vars => [schedlock /\ schedlock' => cpu' = cpu]_<<schedlock, cpu>>
  BY <1>2, LockSteps
<1> HIDE DEF Inv
<1> QED
  BY <1>1, <1>3, <1>4, PTL DEF Spec, LockHolderKeepsCpu

-----------------------------------------------------------------------------
(* Who is asleep after a step.                                             *)

(* wait() takes a ZOMBIE child of the caller.                              *)
LEMMA Reaps ==
  ASSUME MlfqInv, NEW p \in Proc, WaitReaps(p)
  PROVE  \E c \in Proc :
           /\ parent[c] = p /\ state[c] = "ZOMBIE" /\ state'[c] = "UNUSED" /\ Queueing(c)
           /\ parent' = [parent EXCEPT ![c] = NoProc] /\ killed' = [killed EXCEPT ![c] = FALSE]
           /\ Become([K EXCEPT !.state[c] = "UNUSED"])
<1> DEFINE Z == {c \in Children(p) : state[c] = "ZOMBIE"}
<1>1. PICK S : S = Z
  OBVIOUS
<1>2. PICK c : c = CHOOSE d \in S : \A e \in S : d <= e
  OBVIOUS
<1>3. S # {} /\ S \in SUBSET Nat
  BY <1>1 DEF WaitReaps, Children, Proc
<1>4. c \in S
  <2>1. \E d \in S : \A e \in S : d <= e
    BY <1>3, LeastOf
  <2> QED
    BY <1>2, <2>1, Zenon
<1>5. c \in Proc /\ parent[c] = p /\ state[c] = "ZOMBIE"
  BY <1>1, <1>4 DEF Children
<1>6. /\ Become([K EXCEPT !.state[c] = "UNUSED"])
      /\ parent' = [parent EXCEPT ![c] = NoProc] /\ killed' = [killed EXCEPT ![c] = FALSE]
  BY <1>1, <1>2 DEF WaitReaps
<1>7. Queueing(c) /\ state'[c] = "UNUSED"
  BY <1>5, <1>6, Frees
<1> QED
  BY <1>5, <1>6, <1>7

(* q slept before, and nothing about it changed.                           *)
Rests(q) ==
  state[q] = "SLEEPING" /\ chan'[q] = chan[q] /\ pc'[q] = pc[q] /\ slp'[q] = slp[q]

(* q went to sleep in this step.                                           *)
Dozes(q) ==
  /\ cpu = q
  /\ \/ WaitSleeps(q) \/ SysSleep(q) \/ SysSleepAgain(q) \/ ExitSleeps(q) \/ IoSleeps(q)

LEMMA RestsUnless ==
  ASSUME NEW x, ChangesOnly(x), NEW q \in Proc, q # x, state'[q] = "SLEEPING",
         state[q] = "SLEEPING" => chan'[q] = chan[q] /\ pc'[q] = pc[q] /\ slp'[q] = slp[q]
  PROVE  Rests(q)
<1>1. state[q] = "SLEEPING"
  BY DEF ChangesOnly
<1> QED
  BY <1>1 DEF Rests

LEMMA Sleepers ==
  ASSUME MlfqInv, ~LongLocks, [Next]_vars, NEW q \in Proc, state'[q] = "SLEEPING"
  PROVE  Rests(q) \/ Dozes(q)
<1>1. /\ pc \in [Proc -> Places] /\ chan \in [Proc -> 0 .. NPROC + 2]
      /\ cpu \in Proc \cup {NoProc} /\ (cpu \in Proc => state[cpu] = "RUNNING")
  BY DEF MlfqInv, OtherTypes, RunInv, Proc, NoProc
<1>2. ASSUME ChangesOnly(0), UNCHANGED <<pc, chan, slp>>
      PROVE  Rests(q)
  BY <1>2, RestsUnless DEF Proc
<1>3. CASE SchedulerDispatch
  <2>1. PICK x \in Proc : x = cpu' /\ state'[x] = "RUNNING" /\ ChangesOnly(x)
    BY <1>3, Dispatches DEF Queueing
  <2>2. /\ pc' = [pc EXCEPT ![x] = Resume(x)] /\ chan' = [chan EXCEPT ![x] = NoChan]
        /\ slp' = slp
    BY <1>3, <2>1 DEF SchedulerDispatch
  <2>3. q # x
    BY <2>1
  <2> QED
    BY <1>1, <2>1, <2>2, <2>3, RestsUnless
<1>4. CASE SchedulerNextLevel \/ UNCHANGED vars
  <2>1. ChangesOnly(0) /\ UNCHANGED <<pc, chan, slp>>
    BY <1>4, Stays DEF SchedulerNextLevel, vars, procvars, Queueing
  <2> QED
    BY <1>2, <2>1
<1>5. CASE TimerIdle
  <2>1. ChangesOnly(0) /\ UNCHANGED <<pc, chan, slp>>
    BY <1>5, TimerTicks DEF TimerIdle, procvars, Queueing
  <2> QED
    BY <1>2, <2>1
<1>6. ASSUME NEW x \in Proc, NEW l, cpu = x, pc' = pc \/ pc' = [pc EXCEPT ![x] = l],
             UNCHANGED <<chan, slp>>, NEW y, ChangesOnly(y), y = x => state'[x] # "SLEEPING",
             y \in Proc /\ y # x => state'[y] # "SLEEPING"
      PROVE  Rests(q)
  <2>1. q # y
    BY <1>6
  <2>2. q = x => state[q] # "SLEEPING"
    BY <1>1, <1>6
  <2>3. q # x => pc'[q] = pc[q]
    BY <1>1, <1>6
  <2> QED
    BY <1>6, <2>1, <2>2, <2>3, RestsUnless
<1>7. CASE TimerKills
  <2>1. PICK x \in Proc : x = cpu
    BY <1>1, <1>7 DEF TimerKills
  <2>2. ChangesOnly(0) /\ pc' = [pc EXCEPT ![x] = "exitTrap"] /\ UNCHANGED <<chan, slp>>
    BY <1>7, <2>1, TimerTicks DEF TimerKills, Queueing
  <2>3. 0 \notin Proc
    BY DEF Proc
  <2> QED
    BY <1>6, <2>1, <2>2, <2>3
<1>8. CASE TimerRunning
  <2>1. PICK x \in Proc : x = cpu
    BY <1>1, <1>8 DEF TimerRunning
  <2>2. PICK l : l = IF pc[x] = "user" THEN "trap" ELSE pc[x]
    OBVIOUS
  <2>3. (pc' = pc \/ pc' = [pc EXCEPT ![x] = l]) /\ UNCHANGED <<chan, slp>>
    BY <1>8, <2>1, <2>2 DEF TimerRunning
  <2>4. CASE Tick.k.schedlock
    <3>1. ChangesOnly(0)
      BY <1>8, <2>4, TimerTicks DEF TimerRunning, Queueing
    <3>2. 0 \notin Proc
      BY DEF Proc
    <3> QED
      BY <1>6, <2>1, <2>3, <3>1, <3>2
  <2>5. CASE ~Tick.k.schedlock
    <3>1. ChangesOnly(x) /\ state'[x] = "RUNNABLE"
      BY <1>8, <2>1, <2>5, TimerYields DEF TimerRunning, Queueing
    <3> QED
      BY <1>6, <2>1, <2>3, <3>1
  <2> QED
    BY <2>4, <2>5
<1>9. CASE IoInterrupt
  <2>1. ChangesOnly(0) /\ UNCHANGED <<pc, chan, slp>>
    BY <1>9, IoWakes DEF IoInterrupt, procvars
  <2> QED
    BY <1>2, <2>1
<1>10. ASSUME NEW p \in Proc, Process(p)
       PROVE  Rests(q) \/ Dozes(q)
  <2>1. 0 \notin Proc
    BY DEF Proc
  <2>2. CASE \/ Syscall(p) \/ SyscallReturn(p) \/ ReturnToUser(p) \/ ForkNoSlot(p) \/ WaitGivesUp(p)
             \/ KillNotFound(p) \/ SchedulerLockTest(p) \/ SchedulerUnlockTest(p) \/ IoDone(p)
    <3>1. cpu = p /\ UNCHANGED kvars /\ UNCHANGED <<chan, slp>> /\ \E l : pc' = [pc EXCEPT ![p] = l]
      BY <2>2 DEF Syscall, SyscallReturn, ReturnToUser, ForkNoSlot, WaitGivesUp, KillNotFound,
                  SchedulerLockTest, SchedulerUnlockTest, IoDone, At, Goto
    <3>2. ChangesOnly(0)
      BY <3>1, Stays DEF Queueing
    <3> QED
      BY <1>6, <2>1, <3>1, <3>2
  <2>3. CASE ForkAlloc(p)
    <3>1. /\ cpu = p /\ UNCHANGED <<chan, slp>> /\ pc' = [pc EXCEPT ![p] = "fork2"]
          /\ ChangesOnly(FirstUnused) /\ state'[FirstUnused] = "EMBRYO"
      BY <2>3, Forks DEF ForkAlloc, At, Goto, Queueing
    <3> QED
      BY <1>6, <3>1
  <2>4. CASE ForkNoMemory(p)
    <3>1. PICK c : c = np[p]
      OBVIOUS
    <3>2. c \in Proc /\ state[c] = "EMBRYO"
      BY <2>4, <3>1 DEF ForkNoMemory, At, MlfqInv, ForkInv
    <3>3. ChangesOnly(c) /\ state'[c] = "UNUSED"
      BY <2>4, <3>1, <3>2, Frees DEF ForkNoMemory, Queueing
    <3>4. cpu = p /\ UNCHANGED <<chan, slp>> /\ pc' = [pc EXCEPT ![p] = "ret"]
      BY <2>4 DEF ForkNoMemory, At, Goto
    <3> QED
      BY <1>6, <3>3, <3>4
  <2>5. CASE ForkDone(p)
    <3>1. PICK c : c = np[p]
      OBVIOUS
    <3>2. c \in Proc /\ state[c] = "EMBRYO"
      BY <2>5, <3>1 DEF ForkDone, At, MlfqInv, ForkInv
    <3>3. ChangesOnly(c) /\ state'[c] = "RUNNABLE"
      BY <2>5, <3>1, <3>2, ForkLinks DEF ForkDone, Queueing
    <3>4. cpu = p /\ UNCHANGED <<chan, slp>> /\ pc' = [pc EXCEPT ![p] = "ret", ![c] = "user"]
      BY <2>5, <3>1 DEF ForkDone, At
    <3>5. state[q] = "SLEEPING" => pc'[q] = pc[q]
      BY <1>1, <3>2, <3>4
    <3>6. q # c /\ chan'[q] = chan[q] /\ slp'[q] = slp[q]
      BY <3>3, <3>4
    <3> QED
      BY <3>3, <3>5, <3>6, RestsUnless
  <2>6. CASE ExitSleeps(p) \/ WaitSleeps(p) \/ IoSleeps(p)
    <3>1. PICK ch : cpu = p /\ Sleep(K, p, ch) /\ UNCHANGED <<pc, slp>>
      BY <2>6 DEF ExitSleeps, WaitSleeps, IoSleeps, At
    <3>2. ChangesOnly(p) /\ chan' = [chan EXCEPT ![p] = ch]
      BY <3>1, Sleeps DEF Queueing, Sleep
    <3>3. q # p => Rests(q)
      BY <1>1, <3>1, <3>2, RestsUnless
    <3> QED
      BY <2>6, <3>1, <3>3 DEF Dozes
  <2>7. CASE SysSleep(p) \/ SysSleepAgain(p)
    <3>1. PICK s : cpu = p /\ SleepLoop(p, s)
      BY <2>7 DEF SysSleep, SysSleepAgain, At
    <3>2. PICK v : slp' = [slp EXCEPT ![p] = v]
      BY <3>1 DEF SleepLoop
    <3>3. PICK l : pc' = [pc EXCEPT ![p] = l]
      BY <3>1 DEF SleepLoop, Goto
    <3>4. ChangesOnly(p) /\ \A r \in Proc \ {p} : chan'[r] = chan[r]
      <4>1. CASE UNCHANGED <<kvars, cpuvars, chan>>
        BY <4>1, Stays DEF Queueing
      <4>2. CASE Sleep(K, p, TicksChan)
        <5>1. ChangesOnly(p) /\ chan' = [chan EXCEPT ![p] = TicksChan]
          BY <3>1, <4>2, Sleeps DEF Queueing, Sleep
        <5> QED
          BY <1>1, <5>1
      <4> QED
        BY <3>1, <4>1, <4>2 DEF SleepLoop
    <3>5. ASSUME q # p PROVE Rests(q)
      <4>1. pc'[q] = pc[q] /\ slp'[q] = slp[q] /\ chan'[q] = chan[q]
        BY <1>1, <3>2, <3>3, <3>4, <3>5
      <4> QED
        BY <3>4, <3>5, <4>1, RestsUnless
    <3> QED
      BY <2>7, <3>1, <3>5 DEF Dozes
  <2>8. CASE Exit(p)
    <3>1. cpu = p /\ UNCHANGED <<chan, slp>> /\ pc' = [pc EXCEPT ![p] = "zombie"]
      BY <2>8 DEF Exit, At, Goto
    <3>2. ChangesOnly(p) /\ state'[p] = "ZOMBIE"
      BY <2>8, Exits DEF Queueing
    <3> QED
      BY <1>6, <3>1, <3>2
  <2>9. CASE WaitReaps(p)
    <3>1. PICK c \in Proc : ChangesOnly(c) /\ state'[c] = "UNUSED"
      BY <2>9, Reaps DEF Queueing
    <3>2. cpu = p /\ UNCHANGED <<chan, slp>> /\ pc' = [pc EXCEPT ![p] = "ret"]
      BY <2>9 DEF WaitReaps, At, Goto
    <3> QED
      BY <1>6, <3>1, <3>2
  <2>10. CASE Kill(p) \/ WrongPassword(p)
    <3>1. PICK t \in Proc : KillProcess(t)
      BY <2>10, KillTargetsIn DEF Kill, WrongPassword
    <3>2. cpu = p /\ UNCHANGED <<chan, slp>> /\ pc' = [pc EXCEPT ![p] = "ret"]
      BY <2>10 DEF Kill, WrongPassword, At, Goto
    <3>3. ChangesOnly(0)
      BY <3>1, Kills DEF KillProcess, Queueing
    <3> QED
      BY <1>6, <2>1, <3>2, <3>3
  <2>11. CASE SysYield(p) \/ SchedulerUnlock(p)
    <3>1. cpu = p /\ UNCHANGED <<chan, slp>> /\ pc' = [pc EXCEPT ![p] = "ret"]
      BY <2>11 DEF SysYield, SchedulerUnlock, At, Goto
    <3>2. ChangesOnly(p) /\ state'[p] = "RUNNABLE"
      BY <2>11, <3>1, Yields, Unlocks DEF SysYield, Queueing
    <3> QED
      BY <1>6, <3>1, <3>2
  <2>12. CASE SchedulerLock(p) \/ SysSetPriority(p)
    <3>1. cpu = p /\ UNCHANGED <<chan, slp>> /\ pc' = [pc EXCEPT ![p] = "ret"]
      BY <2>12 DEF SchedulerLock, SysSetPriority, At, Goto
    <3>2. ChangesOnly(0)
      BY <2>12, Locks, Reprioritizes DEF Queueing
    <3> QED
      BY <1>6, <2>1, <3>1, <3>2
  <2> QED
    BY <1>10, <2>2, <2>3, <2>4, <2>5, <2>6, <2>7, <2>8, <2>9, <2>10, <2>11, <2>12 DEF Process
<1> QED
  BY <1>3, <1>4, <1>5, <1>7, <1>8, <1>9, <1>10 DEF Next

-----------------------------------------------------------------------------
(* sys_sleep().                                                            *)

(* After a tick nobody sleeps on the tick counter.                         *)
LEMMA TickWakes ==
  ASSUME MlfqInv, ~LongLocks, TimerAllowed, NEW q \in Proc, chan[q] = TicksChan
  PROVE  Tick.k.state[q] # "SLEEPING"
<1> DEFINE boost == ticks + 1 = BoostTicks
           boosted == IF boost THEN Prboost(K, cpu) ELSE K
<1>1. Tick.k = Wakeup1(boosted, On(TicksChan))
  BY DEF Tick
<1>2. K \in KRecord /\ QInv(K) /\ cpu \in Proc \cup {NoProc}
  BY DEF MlfqInv, OtherTypes
<1>3. PICK b : b = boosted
  OBVIOUS
<1>4. b \in KRecord /\ QInv(b)
  <2>1. CASE boost
    <3>1. ~K.schedlock
      BY <2>1, Fields DEF TimerAllowed
    <3>2. cpu \in Proc => K.state[cpu] = "RUNNING"
      BY Fields DEF MlfqInv, RunInv, Proc, NoProc
    <3>3. Boosted(K, cpu, Prboost(K, cpu))
      BY <1>2, <3>1, <3>2, PrboostBoosts
    <3> QED
      BY <1>3, <2>1, <3>3 DEF Boosted
  <2>2. CASE ~boost
    BY <1>2, <1>3, <2>2
  <2> QED
    BY <2>1, <2>2
<1>5. PICK ws : ws = On(TicksChan)
  OBVIOUS
<1>6. PICK w : w = Wakeup1(b, ws)
  OBVIOUS
<1>7. WokenUpto(b, ws, NPROC, w)
  BY <1>4, <1>6, Wakeup1Wakes
<1>8. w.state[q] = IF Awake(b, ws, q, NPROC) THEN "RUNNABLE" ELSE b.state[q]
  BY <1>7 DEF WokenUpto
<1>9. b.state[q] = "SLEEPING" => Awake(b, ws, q, NPROC)
  BY <1>5 DEF Awake, On, Proc
<1> QED
  BY <1>1, <1>3, <1>5, <1>6, <1>8, <1>9

(* The locals of sys_sleep() are numbers, and so is its clock.             *)
SleepTypes == slp \in [Proc -> [ticks0 : Nat, n : Nat]]

ClockTypes ==
  /\ todo \in [Proc -> Nat]
  /\ setback \in [Proc -> BOOLEAN] /\ missed \in [Proc -> BOOLEAN]

(* As long as ticks is not set back it runs with the timer: what it has    *)
(* grown by since the call and what the sleep has still to last make up    *)
(* what was asked for, or more once nothing is left.                       *)
TicksTellTime(q) ==
  /\ slp[q].ticks0 <= ticks /\ ticks - slp[q].ticks0 >= slp[q].n - todo[q]
  /\ todo[q] > 0 => ticks - slp[q].ticks0 = slp[q].n - todo[q]

OnTime(q) ==
  /\ pc[q] \notin {"slept", "ret"} => todo[q] = 0
  /\ pc[q] = "ret" /\ ~setback[q] => todo[q] = 0
  /\ pc[q] = "slept" /\ ~setback[q] => TicksTellTime(q)
  /\ InSleep(q) => chan[q] = TicksChan
  /\ InSleep(q) /\ ~setback[q] => todo[q] > 0
  /\ ~missed[q]

ClockInv == SleepTypes /\ ClockTypes /\ \A q \in Proc : OnTime(q)

LEMMA ElapsedIs ==
  ASSUME MlfqInv, NEW t \in Nat
  PROVE  /\ Elapsed(t) \in Nat
         /\ t <= ticks => Elapsed(t) = ticks - t
<1>1. /\ ticks \in Nat /\ UIntSize \in Nat /\ ticks < UIntSize /\ UIntSize > 0
  BY SizesAssumption DEF SizesAssumption, MlfqInv, OtherTypes
<1>2. (ticks - t) % UIntSize \in Nat
  BY <1>1
<1>3. ASSUME t <= ticks PROVE (ticks - t) % UIntSize = ticks - t
  <2>1. PICK d \in Nat : d = ticks - t /\ d < UIntSize
    BY <1>1, <1>3
  <2>2. d % UIntSize = d
    BY <1>1, <2>1
  <2> QED
    BY <2>1, <2>2
<1> QED
  BY <1>2, <1>3 DEF Elapsed

LEMMA SleepTypesKept ==
  ASSUME MlfqInv, SleepTypes, [Next]_vars
  PROVE  SleepTypes'
<1>1. CASE slp' = slp
  BY <1>1 DEF SleepTypes
<1>2. ASSUME NEW p \in Proc, NEW s \in [ticks0 : Nat, n : Nat], SleepLoop(p, s)
      PROVE  SleepTypes'
  <2>1. NoLocals \in [ticks0 : Nat, n : Nat]
    BY DEF NoLocals
  <2>2. slp' = [slp EXCEPT ![p] = NoLocals] \/ slp' = [slp EXCEPT ![p] = s]
    BY <1>2 DEF SleepLoop
  <2> QED
    BY <2>1, <2>2 DEF SleepTypes
<1>3. ASSUME NEW p \in Proc, SysSleep(p) \/ SysSleepAgain(p)
      PROVE  SleepTypes'
  <2>1. CASE SysSleep(p)
    <3>1. PICK n \in SleepArgs : SleepLoop(p, [ticks0 |-> ticks, n |-> n])
      BY <2>1 DEF SysSleep
    <3>2. n \in Nat /\ ticks \in Nat
      BY SizesAssumption, WorkloadAssumption
      DEF SizesAssumption, WorkloadAssumption, MlfqInv, OtherTypes
    <3>3. PICK s \in [ticks0 : Nat, n : Nat] : s = [ticks0 |-> ticks, n |-> n]
      BY <3>2
    <3> QED
      BY <1>2, <3>1, <3>3
  <2>2. CASE SysSleepAgain(p)
    <3>1. slp[p] \in [ticks0 : Nat, n : Nat] /\ SleepLoop(p, slp[p])
      BY <2>2 DEF SysSleepAgain, SleepTypes
    <3> QED
      BY <1>2, <3>1
  <2> QED
    BY <1>3, <2>1, <2>2
<1>4. ASSUME NEW p \in Proc, Process(p), ~SysSleep(p), ~SysSleepAgain(p)
      PROVE  slp' = slp
  BY <1>4 DEF Process, Syscall, SyscallReturn, ReturnToUser, ForkAlloc, ForkNoSlot,
     ForkNoMemory, ForkDone, ExitSleeps, Exit, WaitReaps, WaitGivesUp, WaitSleeps, Kill,
     KillNotFound, SysYield, SchedulerLockTest, SchedulerLock, SchedulerUnlockTest,
     SchedulerUnlock, WrongPassword, SysSetPriority, IoSleeps, IoDone
<1>5. CASE \/ SchedulerDispatch \/ SchedulerNextLevel \/ TimerIdle \/ TimerKills \/ TimerRunning
           \/ IoInterrupt \/ UNCHANGED vars
  BY <1>1, <1>5 DEF SchedulerDispatch, SchedulerNextLevel, TimerIdle, TimerKills, TimerRunning,
     IoInterrupt, vars, procvars
<1> QED
  BY <1>1, <1>3, <1>4, <1>5 DEF Next

LEMMA ClockTypesKept ==
  ASSUME MlfqInv, ClockTypes, SleepTypes', NEW t \in {0, 1}, Clock(t)
  PROVE  ClockTypes'
<1>1. Slots = Proc
  BY SlotsAre
<1>2. todo' \in [Proc -> Nat]
  <2>1. ASSUME NEW q \in Proc
        PROVE  (IF CallsSleep(q) THEN slp'[q].n
                ELSE IF StillOwed(q) /\ todo[q] > t THEN todo[q] - t ELSE 0) \in Nat
    BY DEF ClockTypes, SleepTypes
  <2> QED
    BY <1>1, <2>1 DEF Clock
<1>3. setback' \in [Proc -> BOOLEAN] /\ missed' \in [Proc -> BOOLEAN]
  BY <1>1 DEF Clock, ClockTypes
<1> QED
  BY <1>2, <1>3 DEF ClockTypes

(* Except by sys_sleep() itself nobody gets into its loop or out of it.    *)
StaysAsleep(q) ==
  /\ slp'[q] = slp[q]
  /\ pc'[q] = "slept" => pc[q] = "slept"
  /\ pc'[q] = "ret" => pc[q] # "slept"

LEMMA UntimedStays ==
  ASSUME MlfqInv, SleepTypes, Untimed, NEW q \in Proc, ~SysSleep(q), ~SysSleepAgain(q)
  PROVE  StaysAsleep(q)
<1>1. pc \in [Proc -> Places] /\ slp \in [Proc -> [ticks0 : Nat, n : Nat]]
  BY DEF MlfqInv, OtherTypes, SleepTypes
<1>2. ASSUME NEW x \in Proc, NEW l, pc' = pc \/ pc' = [pc EXCEPT ![x] = l], slp' = slp,
             l # "slept" \/ pc[x] = "slept", pc[x] # "slept" \/ l # "ret"
      PROVE  StaysAsleep(q)
  BY <1>1, <1>2 DEF StaysAsleep
<1>3. CASE SchedulerDispatch
  <2>1. PICK x \in Proc : x = cpu' /\ pc' = [pc EXCEPT ![x] = Resume(x)] /\ slp' = slp
    BY <1>3, Dispatches DEF SchedulerDispatch
  <2>2. /\ Resume(x) # "slept" \/ pc[x] = "slept"
        /\ pc[x] # "slept" \/ Resume(x) # "ret"
    BY DEF Resume
  <2> QED
    BY <1>2, <2>1, <2>2
<1>4. CASE SchedulerNextLevel \/ IoInterrupt
  BY <1>4 DEF SchedulerNextLevel, IoInterrupt, procvars, StaysAsleep
<1>5. ASSUME NEW p \in Proc, Process(p)
      PROVE  StaysAsleep(q)
  <2>1. CASE Syscall(p)
    <3>1. PICK l \in Calls \cup {"exit"} : Goto(p, l) /\ pc[p] = "user" /\ slp' = slp
      BY <2>1 DEF Syscall, At
    <3>2. l # "slept" /\ l # "ret"
      BY <3>1, WorkloadAssumption DEF WorkloadAssumption, AllCalls
    <3> QED
      BY <1>2, <3>1, <3>2 DEF Goto
  <2>2. CASE SyscallReturn(p)
    <3>1. PICK l : l = IF killed[p] THEN "exit" ELSE "iret"
      OBVIOUS
    <3>2. Goto(p, l) /\ pc[p] = "ret" /\ slp' = slp /\ l # "slept"
      BY <2>2, <3>1 DEF SyscallReturn, At
    <3> QED
      BY <1>2, <3>2 DEF Goto
  <2>3. CASE \/ ReturnToUser(p) \/ ForkAlloc(p) \/ ForkNoSlot(p) \/ ForkNoMemory(p) \/ WaitReaps(p)
             \/ WaitGivesUp(p) \/ Kill(p) \/ KillNotFound(p) \/ SysYield(p) \/ SchedulerLock(p)
             \/ SchedulerUnlock(p) \/ WrongPassword(p) \/ SysSetPriority(p) \/ IoDone(p)
    <3>1. PICK l \in {"user", "fork2", "ret"} : Goto(p, l) /\ pc[p] # "slept" /\ slp' = slp
      BY <2>3 DEF ReturnToUser, ForkAlloc, ForkNoSlot, ForkNoMemory, WaitReaps, WaitGivesUp, Kill,
                  KillNotFound, SysYield, SchedulerLock, SchedulerUnlock, WrongPassword,
                  SysSetPriority, IoDone, At
    <3> QED
      BY <1>2, <3>1 DEF Goto
  <2>4. CASE ForkDone(p)
    <3>1. /\ pc' = [pc EXCEPT ![p] = "ret", ![np[p]] = "user"] /\ pc[p] = "fork2" /\ slp' = slp
      BY <2>4 DEF ForkDone, At
    <3>2. pc'[q] = "user" \/ pc'[q] = pc[q] \/ (q = p /\ pc'[q] = "ret")
      BY <1>1, <3>1
    <3> QED
      BY <3>1, <3>2 DEF StaysAsleep
  <2>5. CASE ExitSleeps(p) \/ WaitSleeps(p) \/ IoSleeps(p)
    BY <2>5 DEF ExitSleeps, WaitSleeps, IoSleeps, StaysAsleep
  <2>6. CASE Exit(p)
    <3>1. Goto(p, "zombie") /\ slp' = slp
      BY <2>6 DEF Exit
    <3> QED
      BY <1>2, <3>1 DEF Goto
  <2>7. CASE SysSleep(p) \/ SysSleepAgain(p)
    <3>1. PICK s : SleepLoop(p, s)
      BY <2>7 DEF SysSleep, SysSleepAgain
    <3>2. PICK l, v : pc' = [pc EXCEPT ![p] = l] /\ slp' = [slp EXCEPT ![p] = v]
      BY <3>1 DEF SleepLoop, Goto
    <3>3. q # p
      BY <2>7
    <3> QED
      BY <1>1, <3>2, <3>3 DEF StaysAsleep
  <2>8. CASE SchedulerLockTest(p) \/ SchedulerUnlockTest(p)
    <3>1. PICK l : Goto(p, l) /\ l # "slept" /\ pc[p] # "slept" /\ slp' = slp
      BY <2>8 DEF SchedulerLockTest, SchedulerUnlockTest, At
    <3> QED
      BY <1>2, <3>1 DEF Goto
  <2> QED
    BY <1>5, <2>1, <2>2, <2>3, <2>4, <2>5, <2>6, <2>7, <2>8 DEF Process
<1> QED
  BY <1>3, <1>4, <1>5 DEF Untimed

(* An interrupt of the timer wakes everybody in sys_sleep().               *)
LEMMA TimerRings ==
  ASSUME MlfqInv, ~LongLocks, Timer, NEW q \in Proc
  PROVE  /\ StaysAsleep(q)
         /\ (state[q] = "SLEEPING" => chan[q] = TicksChan) => state'[q] # "SLEEPING"
         /\ pc'[q] = "ret" => pc[q] = "ret"
         /\ ticks' = 0 \/ ticks' = ticks + 1
<1>1. /\ pc \in [Proc -> Places] /\ cpu \in Proc \cup {NoProc} /\ NoProc \notin Proc
      /\ (cpu \in Proc => state[cpu] = "RUNNING") /\ TimerAllowed
  BY DEF MlfqInv, OtherTypes, RunInv, Proc, NoProc, Timer, TimerIdle, TimerKills, TimerRunning
<1>2. StaysAsleep(q) /\ (pc'[q] = "ret" => pc[q] = "ret")
  <2>1. CASE TimerIdle
    BY <2>1 DEF TimerIdle, procvars, StaysAsleep
  <2>2. CASE TimerKills
    BY <1>1, <2>2 DEF TimerKills, StaysAsleep
  <2>3. CASE TimerRunning
    BY <1>1, <2>3 DEF TimerRunning, StaysAsleep
  <2> QED
    BY <2>1, <2>2, <2>3 DEF Timer
<1>3. ASSUME state[q] = "SLEEPING" => chan[q] = TicksChan
      PROVE  state'[q] # "SLEEPING"
  <2>1. CASE Become(Tick.k)
    <3>1. state' = Tick.k.state /\ ChangesOnly(0)
      BY <1>1, <2>1, TimerTicks DEF Queueing
    <3>2. state'[q] = state[q] \/ state'[q] = "RUNNABLE"
      BY <3>1 DEF ChangesOnly, Proc
    <3> QED
      BY <1>1, <1>3, <3>1, <3>2, TickWakes
  <2>2. CASE TimerRunning /\ ~Tick.k.schedlock
    <3>1. /\ cpu # NoProc /\ ChangesOnly(cpu) /\ state'[cpu] = "RUNNABLE"
          /\ \A p \in Proc \ {cpu} : state'[p] = Tick.k.state[p]
      BY <1>1, <2>2, TimerYields DEF TimerRunning, Queueing
    <3>2. q # cpu => state'[q] = state[q] \/ state'[q] = "RUNNABLE"
      BY <3>1 DEF ChangesOnly
    <3> QED
      BY <1>1, <1>3, <3>1, <3>2, TickWakes
  <2>3. Become(Tick.k) \/ (TimerRunning /\ ~Tick.k.schedlock)
    BY DEF Timer, TimerIdle, TimerKills, TimerRunning
  <2> QED
    BY <2>1, <2>2, <2>3
<1>4. ticks' = Tick.ticks
  BY DEF Timer, TimerIdle, TimerKills, TimerRunning
<1> QED
  BY <1>2, <1>3, <1>4 DEF Tick

LEMMA OnTimeAtTick ==
  ASSUME MlfqInv, ~LongLocks, ClockInv, NEW q \in Proc, Timer, Clock(1)
  PROVE  OnTime(q)'
<1>1. /\ q \in Slots /\ todo[q] \in Nat /\ setback[q] \in BOOLEAN /\ OnTime(q)
      /\ slp[q].ticks0 \in Nat /\ slp[q].n \in Nat /\ ticks \in Nat
  BY SlotsAre DEF ClockInv, ClockTypes, SleepTypes, MlfqInv, OtherTypes
<1>2. /\ slp'[q] = slp[q] /\ (pc'[q] = "slept" => pc[q] = "slept")
      /\ (pc'[q] = "ret" => pc[q] = "ret") /\ (ticks' = 0 \/ ticks' = ticks + 1)
  BY TimerRings DEF StaysAsleep
<1>3. ~InSleep(q)'
  BY <1>1, <1>2, TimerRings DEF OnTime, InSleep
<1>4. /\ todo'[q] = IF StillOwed(q) /\ todo[q] > 1 THEN todo[q] - 1 ELSE 0
      /\ setback'[q] = (/\ pc'[q] \in {"slept", "ret"}
                        /\ setback[q] \/ (pc[q] = "slept" /\ ticks' # ticks + 1))
      /\ ~missed'[q]
  BY <1>1, <1>2, <1>3 DEF Clock, CallsSleep
<1>5. pc'[q] \notin {"slept", "ret"} => todo'[q] = 0
  BY <1>4 DEF StillOwed
<1>6. pc'[q] = "ret" /\ ~setback'[q] => todo'[q] = 0
  BY <1>1, <1>2, <1>4 DEF OnTime
<1>7. ASSUME pc'[q] = "slept", ~setback'[q]
      PROVE  TicksTellTime(q)'
  <2>1. pc[q] = "slept" /\ ticks' = ticks + 1 /\ TicksTellTime(q)
    BY <1>1, <1>2, <1>4, <1>7 DEF OnTime
  <2>2. todo'[q] = IF todo[q] > 1 THEN todo[q] - 1 ELSE 0
    BY <1>4, <1>7 DEF StillOwed
  <2> QED
    BY <1>1, <1>2, <2>1, <2>2 DEF TicksTellTime
<1> QED
  BY <1>3, <1>4, <1>5, <1>6, <1>7 DEF OnTime

(* The process q runs its sys_sleep().                                     *)
LEMMA OnTimeInSleep ==
  ASSUME MlfqInv, ClockInv, NEW q \in Proc, SysSleep(q) \/ SysSleepAgain(q), Clock(0)
  PROVE  OnTime(q)'
<1>1. /\ q \in Slots /\ todo[q] \in Nat /\ OnTime(q) /\ state[q] = "RUNNING"
      /\ slp[q] \in [ticks0 : Nat, n : Nat] /\ ticks \in Nat /\ ticks' = ticks
      /\ pc[q] \in {"sleep", "slept"} /\ pc \in [Proc -> Places]
      /\ chan \in [Proc -> 0 .. NPROC + 2] /\ slp \in [Proc -> [ticks0 : Nat, n : Nat]]
  <2>1. cpu = q /\ pc[q] \in {"sleep", "slept"} /\ ticks' = ticks
    <3>1. CASE SysSleep(q)
      BY <3>1 DEF SysSleep, At
    <3>2. CASE SysSleepAgain(q)
      BY <3>2 DEF SysSleepAgain, At
    <3> QED
      BY <3>1, <3>2
  <2>2. state[q] = "RUNNING" /\ q \in Slots
    <3>1. q # 0 /\ q \in Slots
      BY SlotsAre DEF Proc
    <3> QED
      BY <2>1, <3>1 DEF MlfqInv, RunInv, NoProc
  <2>3. /\ pc \in [Proc -> Places] /\ chan \in [Proc -> 0 .. NPROC + 2] /\ ticks \in Nat
    BY SizesAssumption DEF SizesAssumption, MlfqInv, OtherTypes
  <2>4. OnTime(q) /\ todo[q] \in Nat /\ slp \in [Proc -> [ticks0 : Nat, n : Nat]]
    BY DEF ClockInv, ClockTypes, SleepTypes
  <2> QED
    BY <2>1, <2>2, <2>3, <2>4
<1>2. PICK s \in [ticks0 : Nat, n : Nat] :
        /\ SleepLoop(q, s)
        /\ pc[q] = "sleep" => s.ticks0 = ticks
        /\ pc[q] = "slept" => s = slp[q]
  <2>1. CASE SysSleep(q)
    <3>1. PICK n \in SleepArgs : SleepLoop(q, [ticks0 |-> ticks, n |-> n])
      BY <2>1 DEF SysSleep
    <3>2. n \in Nat
      BY WorkloadAssumption, SizesAssumption DEF WorkloadAssumption, SizesAssumption
    <3>3. PICK s \in [ticks0 : Nat, n : Nat] : s = [ticks0 |-> ticks, n |-> n]
      BY <1>1, <3>2
    <3> QED
      BY <2>1, <3>1, <3>3 DEF SysSleep, At
  <2>2. CASE SysSleepAgain(q)
    BY <1>1, <2>2 DEF SysSleepAgain, At
  <2> QED
    BY <1>1, <2>1, <2>2
<1>3. ~missed'[q]
  BY <1>1 DEF Clock, InSleep
<1>4. /\ setback'[q] <=> (pc'[q] \in {"slept", "ret"} /\ setback[q])
      /\ todo'[q] = IF CallsSleep(q) THEN slp'[q].n
                    ELSE IF StillOwed(q) /\ todo[q] > 0 THEN todo[q] ELSE 0
  <2>1. ticks' = ticks + 0 /\ todo[q] - 0 = todo[q]
    BY <1>1
  <2>2. setback'[q] <=> (pc'[q] \in {"slept", "ret"} /\ setback[q])
    BY <1>1, <2>1, Zenon DEF Clock
  <2> QED
    BY <1>1, <2>1, <2>2 DEF Clock
<1>5. Elapsed(s.ticks0) \in Nat /\ (s.ticks0 <= ticks => Elapsed(s.ticks0) = ticks - s.ticks0)
  BY ElapsedIs
<1>6. CASE Elapsed(s.ticks0) >= s.n \/ killed[q]
  <2>1. pc'[q] = "ret" /\ ~CallsSleep(q)
    BY <1>1, <1>2, <1>6 DEF SleepLoop, Goto, CallsSleep
  <2>2. ASSUME ~setback'[q] PROVE todo'[q] = 0
    <3>1. CASE pc[q] = "sleep" \/ killed[q]
      BY <1>1, <1>4, <2>1, <3>1 DEF OnTime, StillOwed
    <3>2. CASE pc[q] = "slept" /\ ~killed[q]
      <4>1. TicksTellTime(q) /\ s = slp[q]
        BY <1>1, <1>2, <1>4, <2>1, <2>2, <3>2 DEF OnTime
      <4>2. ticks - s.ticks0 >= s.n
        BY <1>5, <1>6, <3>2, <4>1 DEF TicksTellTime
      <4>3. todo[q] = 0
        BY <1>1, <4>1, <4>2 DEF TicksTellTime
      <4> QED
        BY <1>4, <2>1, <4>3
    <3> QED
      BY <1>1, <3>1, <3>2
  <2> QED
    BY <1>3, <2>1, <2>2 DEF OnTime, InSleep
<1>7. CASE ~(Elapsed(s.ticks0) >= s.n \/ killed[q])
  <2>1. /\ pc'[q] = "slept" /\ slp'[q] = s /\ chan'[q] = TicksChan
    BY <1>1, <1>2, <1>7 DEF SleepLoop, Goto, Sleep
  <2>2. Elapsed(s.ticks0) < s.n
    BY <1>2, <1>5, <1>7
  <2>3. CASE pc[q] = "sleep"
    <3>1. todo'[q] = s.n /\ s.ticks0 = ticks
      BY <1>2, <1>4, <2>1, <2>3 DEF CallsSleep
    <3>2. TicksTellTime(q)' /\ todo'[q] > 0
      BY <1>1, <1>2, <1>5, <2>1, <2>2, <3>1 DEF TicksTellTime
    <3> QED
      BY <1>3, <2>1, <3>2 DEF OnTime
  <2>4. CASE pc[q] = "slept"
    <3>1. todo'[q] = todo[q] /\ s = slp[q] /\ (~setback'[q] => ~setback[q])
      <4>1. ~CallsSleep(q) /\ StillOwed(q)
        BY <2>1, <2>4 DEF CallsSleep, StillOwed
      <4> QED
        BY <1>1, <1>2, <1>4, <2>1, <2>4, <4>1 DEF ClockInv, ClockTypes
    <3>2. ASSUME ~setback'[q] PROVE TicksTellTime(q)' /\ todo'[q] > 0
      <4>1. TicksTellTime(q)
        BY <1>1, <2>4, <3>1, <3>2 DEF OnTime
      <4> QED
        BY <1>1, <1>2, <1>5, <2>1, <2>2, <3>1, <4>1 DEF TicksTellTime
    <3> QED
      BY <1>3, <2>1, <3>2 DEF OnTime
  <2> QED
    BY <1>1, <2>3, <2>4
<1> QED
  BY <1>6, <1>7

LEMMA OnTimeElsewhere ==
  ASSUME MlfqInv, ~LongLocks, ClockInv, NEW q \in Proc, Untimed, Clock(0),
         ~SysSleep(q), ~SysSleepAgain(q)
  PROVE  OnTime(q)'
<1>1. /\ q \in Slots /\ todo[q] \in Nat /\ setback[q] \in BOOLEAN /\ OnTime(q) /\ ticks \in Nat
  BY SlotsAre DEF ClockInv, ClockTypes, SleepTypes, MlfqInv, OtherTypes
<1>2. StaysAsleep(q)
  BY UntimedStays DEF ClockInv
<1>3. InSleep(q)' => InSleep(q) /\ chan'[q] = chan[q]
  <2>1. [Next]_vars
    BY DEF Untimed, Next
  <2>2. ASSUME Dozes(q) PROVE pc'[q] # "slept"
    BY <1>2, <2>2 DEF Dozes, WaitSleeps, ExitSleeps, IoSleeps, At, StaysAsleep
  <2> QED
    BY <2>1, <2>2, Sleepers DEF InSleep, Rests
<1>4. ~CallsSleep(q)
  BY <1>2 DEF StaysAsleep, CallsSleep
<1>5. /\ todo'[q] = IF StillOwed(q) /\ todo[q] > 0 THEN todo[q] ELSE 0
      /\ setback'[q] <=> /\ pc'[q] \in {"slept", "ret"}
                         /\ setback[q] \/ (pc[q] = "slept" /\ ticks' # ticks)
  <2>1. ticks + 0 = ticks /\ todo[q] - 0 = todo[q]
    BY <1>1
  <2>2. setback'[q] <=> /\ pc'[q] \in {"slept", "ret"}
                        /\ setback[q] \/ (pc[q] = "slept" /\ ticks' # ticks)
    BY <1>1, <2>1, Zenon DEF Clock
  <2> QED
    BY <1>1, <1>4, <2>1, <2>2 DEF Clock
<1>6. ~missed'[q]
  <2>1. ~missed[q] /\ 0 # 1
    BY <1>1 DEF OnTime
  <2> QED
    BY <1>1, <2>1, Zenon DEF Clock
<1>7. pc'[q] \notin {"slept", "ret"} => todo'[q] = 0
  BY <1>5 DEF StillOwed
<1>8. pc'[q] = "ret" /\ ~setback'[q] => todo'[q] = 0
  BY <1>1, <1>2, <1>5 DEF OnTime, StaysAsleep
<1>9. ASSUME pc'[q] = "slept", ~setback'[q]
      PROVE  TicksTellTime(q)' /\ todo'[q] = todo[q]
  <2>1. /\ pc[q] = "slept" /\ ticks' = ticks /\ ~setback[q] /\ slp'[q] = slp[q]
    BY <1>2, <1>5, <1>9 DEF StaysAsleep
  <2>2. todo'[q] = todo[q] /\ TicksTellTime(q)
    BY <1>1, <1>5, <1>9, <2>1 DEF OnTime, StillOwed
  <2> QED
    BY <2>1, <2>2 DEF TicksTellTime
<1>10. InSleep(q)' => pc'[q] = "slept" /\ (~setback'[q] => ~setback[q]) /\ chan'[q] = TicksChan
  BY <1>1, <1>3, <1>5 DEF InSleep, OnTime
<1>11. InSleep(q)' /\ ~setback'[q] => todo'[q] > 0
  BY <1>1, <1>3, <1>9, <1>10 DEF OnTime
<1> QED
  BY <1>6, <1>7, <1>8, <1>9, <1>10, <1>11 DEF OnTime

LEMMA ClockInvKept ==
  ASSUME MlfqInv, ~LongLocks, ClockInv, [ClockNext]_<<vars, clockvars>>
  PROVE  MlfqInv' /\ ClockInv'
<1>1. [Next]_vars
  BY DEF ClockNext, Untimed, Timer, Next
<1>2. MlfqInv' /\ SleepTypes'
  BY <1>1, NextKeeps, SleepTypesKept DEF ClockInv
<1>3. CASE UNCHANGED <<vars, clockvars>>
  BY <1>2, <1>3 DEF ClockInv, ClockTypes, OnTime, TicksTellTime, InSleep, vars, kvars, procvars,
     clockvars
<1>4. CASE ClockNext
  <2>1. ClockTypes'
    BY <1>2, <1>4, ClockTypesKept DEF ClockInv, ClockNext
  <2>2. ASSUME NEW q \in Proc PROVE OnTime(q)'
    BY <1>4, OnTimeAtTick, OnTimeInSleep, OnTimeElsewhere DEF ClockNext
  <2> QED
    BY <1>2, <2>1, <2>2 DEF ClockInv
<1> QED
  BY <1>3, <1>4

(* sysproc.c, sys_sleep(): no interrupt of the timer leaves a sleeper      *)
(* asleep with an old look at ticks, the interrupt of a boost included,    *)
(* and a sleep during which ticks is not set back is over neither before   *)
(* nor after the interrupts it asked for, counted by themselves and not by *)
(* ticks; lock holders and killed sleepers included.                       *)
THEOREM SleepersWakeInTime ==
  ASSUME ~LongLocks
  PROVE  ClockSpec => []SleepersInTime
<1>1. ClockInit => MlfqInv /\ ClockInv
  <2> SUFFICES ASSUME ClockInit PROVE MlfqInv /\ ClockInv
    OBVIOUS
  <2>1. MlfqInv /\ Slots = Proc
    BY InitHolds, SlotsAre DEF ClockInit
  <2>2. SleepTypes /\ ClockTypes
    BY <2>1 DEF ClockInit, ClockFirst, Init, SleepTypes, ClockTypes, NoLocals
  <2>3. ASSUME NEW q \in Proc PROVE OnTime(q)
    BY <2>1 DEF ClockInit, ClockFirst, Init, OnTime, InSleep
  <2> QED
    BY <2>1, <2>2, <2>3 DEF ClockInv
<1>2. MlfqInv /\ ClockInv /\ [ClockNext]_<<vars, clockvars>> => MlfqInv' /\ ClockInv'
  BY ClockInvKept
<1>3. MlfqInv /\ ClockInv => SleepersInTime
  BY SlotsAre DEF ClockInv, OnTime, SleepersInTime
<1> QED
  BY <1>1, <1>2, <1>3, PTL DEF ClockSpec

-----------------------------------------------------------------------------
(* Parents and children.                                                   *)

Alive == {"SLEEPING", "RUNNABLE", "RUNNING"}

(* init lives and never gets to exit().                                    *)
InitLives ==
  /\ ~killed[initproc] /\ state[initproc] \in Alive /\ parent[initproc] = NoProc
  /\ pc[initproc] \notin {"exit", "exitTrap", "zombie"}

(* A parent is alive, and not its own child; who has none is init or not   *)
(* yet made.                                                               *)
ParentsLive ==
  \A c \in Proc :
    /\ parent[c] # NoProc => parent[c] # c /\ state[parent[c]] \in Alive
    /\ state[c] \in {"UNUSED", "EMBRYO"} => parent[c] = NoProc
    /\ c # initproc /\ state[c] \notin {"UNUSED", "EMBRYO"} => parent[c] # NoProc

(* Who sleeps in wait() has no ZOMBIE child.                               *)
ExitsHeard ==
  \A q, c \in Proc :
    state[q] = "SLEEPING" /\ chan[q] = q /\ parent[c] = q => state[c] # "ZOMBIE"

Family == InitLives /\ ParentsLive /\ ExitsHeard

LEMMA InitIn == initproc \in Proc /\ initproc # NoProc /\ NoProc \notin Proc
BY SizesAssumption DEF SizesAssumption, initproc, Proc, NoProc

(* A step of processes that are alive, under which no parent changes, and  *)
(* which does not put to sleep in wait() who has a ZOMBIE child.           *)
LEMMA FamilyKept ==
  ASSUME MlfqInv, Family, NEW x, ChangesOnly(x), parent' = parent,
         x \in Proc => state[x] \in Alive /\ state'[x] \in Alive,
         ~killed'[initproc], pc'[initproc] \notin {"exit", "exitTrap", "zombie"},
         \A q \in Proc : state'[q] = "SLEEPING" =>
           \/ state[q] = "SLEEPING" /\ chan'[q] = chan[q]
           \/ chan'[q] # q
           \/ \A c \in Proc : parent[c] = q => state[c] # "ZOMBIE"
  PROVE  Family'
<1>1. /\ \A q \in Proc : state[q] \in Alive => state'[q] \in Alive
      /\ \A q \in Proc : state[q] \notin Alive => state'[q] = state[q]
      /\ parent \in [Proc -> Proc \cup {NoProc}]
  <2>1. parent \in [Proc -> Proc \cup {NoProc}]
    BY DEF MlfqInv, OtherTypes
  <2>2. \A q \in Proc \ {x} : state'[q] = state[q] \/ (state[q] = "SLEEPING" /\ state'[q] = "RUNNABLE")
    BY DEF ChangesOnly
  <2>3. \A q \in Proc : q = x => state[q] \in Alive /\ state'[q] \in Alive
    OBVIOUS
  <2> QED
    BY <2>1, <2>2, <2>3 DEF Alive
<1>2. InitLives'
  BY <1>1, InitIn DEF Family, InitLives
<1>3. ParentsLive'
  <2> SUFFICES ASSUME NEW c \in Proc
               PROVE  /\ parent[c] # NoProc => parent[c] # c /\ state'[parent[c]] \in Alive
                      /\ state'[c] \in {"UNUSED", "EMBRYO"} => parent[c] = NoProc
                      /\ c # initproc /\ state'[c] \notin {"UNUSED", "EMBRYO"} => parent[c] # NoProc
    BY DEF ParentsLive
  <2>1. /\ parent[c] # NoProc => parent[c] # c /\ state[parent[c]] \in Alive /\ parent[c] \in Proc
        /\ state[c] \in {"UNUSED", "EMBRYO"} => parent[c] = NoProc
        /\ c # initproc /\ state[c] \notin {"UNUSED", "EMBRYO"} => parent[c] # NoProc
    BY <1>1 DEF Family, ParentsLive
  <2>2. parent[c] # NoProc => parent[c] # c /\ state'[parent[c]] \in Alive
    BY <1>1, <2>1
  <2>3. CASE state[c] \in Alive
    <3>1. state[c] \notin {"UNUSED", "EMBRYO"} /\ state'[c] \notin {"UNUSED", "EMBRYO"}
      BY <1>1, <2>3 DEF Alive
    <3> QED
      BY <2>1, <2>2, <3>1
  <2>4. CASE state[c] \notin Alive
    BY <1>1, <2>1, <2>2, <2>4
  <2> QED
    BY <2>3, <2>4
<1>4. ExitsHeard'
  <2> SUFFICES ASSUME NEW q \in Proc, NEW c \in Proc, state'[q] = "SLEEPING", chan'[q] = q, parent[c] = q
               PROVE  state'[c] # "ZOMBIE"
    BY DEF ExitsHeard
  <2>1. state[c] # "ZOMBIE"
    <3>1. CASE state[q] = "SLEEPING" /\ chan'[q] = chan[q]
      BY <3>1 DEF Family, ExitsHeard
    <3>2. CASE \A d \in Proc : parent[d] = q => state[d] # "ZOMBIE"
      BY <3>2
    <3> QED
      BY <3>1, <3>2
  <2> QED
    BY <1>1, <2>1 DEF Alive
<1> QED
  BY <1>2, <1>3, <1>4 DEF Family

(* Nothing sends init to exit().                                           *)
LEMMA InitStays ==
  ASSUME MlfqInv, Family, [Next]_vars
  PROVE  pc'[initproc] \notin {"exit", "exitTrap", "zombie"}
<1>1. PcStep(initproc)
  BY InitIn, PcSteps
<1>2. \A c \in Calls : c \notin {"exitTrap", "zombie"}
  BY WorkloadAssumption DEF WorkloadAssumption, AllCalls
<1> QED
  BY <1>1, <1>2 DEF PcStep, Goes, Family, InitLives

(* exit(): the parent is woken, or init if it inherits a ZOMBIE.           *)
LEMMA ExitWakes ==
  ASSUME MlfqInv, Family, NEW p \in Proc, Exit(p)
  PROVE  /\ \A q \in Proc : chan[q] = parent[p] /\ state'[q] = "SLEEPING" => q = p
         /\ \A q, c \in Proc : chan[q] = initproc /\ parent[c] = p /\ state[c] = "ZOMBIE"
              /\ state'[q] = "SLEEPING" => q = p
<1> DEFINE zombieChild == \E c \in Children(p) : state[c] = "ZOMBIE"
           k1 == Wakeup1(K, On(parent[p]))
           k2 == IF zombieChild THEN Wakeup1(k1, On(initproc)) ELSE k1
<1>1. K \in KRecord /\ QInv(K)
  BY DEF MlfqInv
<1>2. PICK ws : ws = On(parent[p])
  OBVIOUS
<1>3. PICK vs : vs = On(initproc)
  OBVIOUS
<1>4. PICK a : a = Wakeup1(K, ws)
  OBVIOUS
<1>5. PICK b : b = Wakeup1(a, vs)
  OBVIOUS
<1>6. WokenUpto(K, ws, NPROC, a)
  BY <1>1, <1>4, Wakeup1Wakes
<1>7. a \in KRecord /\ QInv(a) /\ Awakens(K, a)
  BY <1>1, <1>4, <1>6, Wakeup1Awakens DEF WokenUpto
<1>8. WokenUpto(a, vs, NPROC, b)
  BY <1>5, <1>7, Wakeup1Wakes
<1>9. \A q \in Proc : /\ a.state[q] = IF Awake(K, ws, q, NPROC) THEN "RUNNABLE" ELSE K.state[q]
                      /\ b.state[q] = IF Awake(a, vs, q, NPROC) THEN "RUNNABLE" ELSE a.state[q]
  BY <1>6, <1>8 DEF WokenUpto
<1>10. \A q \in Proc : chan[q] = parent[p] => a.state[q] # "SLEEPING"
  <2> SUFFICES ASSUME NEW q \in Proc, chan[q] = parent[p] PROVE a.state[q] # "SLEEPING"
    OBVIOUS
  <2>1. K.state[q] = "SLEEPING" => Awake(K, ws, q, NPROC)
    BY <1>2 DEF Awake, On, Proc
  <2> QED
    BY <1>9, <2>1
<1>11. \A q \in Proc : chan[q] = initproc => b.state[q] # "SLEEPING"
  <2> SUFFICES ASSUME NEW q \in Proc, chan[q] = initproc PROVE b.state[q] # "SLEEPING"
    OBVIOUS
  <2>1. a.state[q] = "SLEEPING" => Awake(a, vs, q, NPROC)
    BY <1>3 DEF Awake, On, Proc
  <2> QED
    BY <1>9, <2>1
<1>12. \A q \in Proc : a.state[q] # "SLEEPING" => b.state[q] # "SLEEPING"
  BY <1>9
<1>13. PICK k : k = k2
  OBVIOUS
<1>14. (zombieChild => k = b) /\ (~zombieChild => k = a)
  BY <1>2, <1>3, <1>4, <1>5, <1>13
<1>15. k \in KRecord
  BY <1>7, <1>8, <1>14 DEF WokenUpto
<1>16. PICK e : e = Leaving(k, p, "ZOMBIE")
  OBVIOUS
<1>17. Become(e)
  BY <1>13, <1>16 DEF Exit, Leaving
<1>18. PICK v \in States : v = "ZOMBIE"
  BY DEF States
<1>19. Alters(k, e, p)
  BY <1>15, <1>16, <1>18, LeavingAlters
<1>20. \A q \in Proc \ {p} : state'[q] = k.state[q]
  BY <1>17, <1>19, Becomes DEF Alters
<1>21. \A q \in Proc : chan[q] = parent[p] /\ state'[q] = "SLEEPING" => q = p
  BY <1>10, <1>12, <1>14, <1>20
<1>22. ASSUME NEW q \in Proc, NEW c \in Proc, chan[q] = initproc, parent[c] = p, state[c] = "ZOMBIE",
              state'[q] = "SLEEPING"
       PROVE  q = p
  <2>1. zombieChild
    BY <1>22 DEF Children
  <2> QED
    BY <1>11, <1>14, <1>20, <1>22, <2>1
<1> QED
  BY <1>21, <1>22

LEMMA FamilyExits ==
  ASSUME MlfqInv, Family, NEW p \in Proc, Exit(p), [Next]_vars
  PROVE  Family'
<1>1. /\ parent \in [Proc -> Proc \cup {NoProc}]
      /\ \A c \in Proc : parent'[c] = IF parent[c] = p THEN initproc ELSE parent[c]
      /\ chan' = chan /\ killed' = killed /\ pc[p] \in {"exit", "exitTrap"} /\ cpu = p
  BY DEF Exit, MlfqInv, OtherTypes, At
<1>2. ChangesOnly(p) /\ state'[p] = "ZOMBIE" /\ state[p] = "RUNNING"
  BY <1>1, Exits, WakesOf DEF Queueing
<1>3. p # initproc /\ p # NoProc
  BY <1>1, InitIn DEF Family, InitLives
<1>4. \A q \in Proc \ {p} : state'[q] = state[q] \/ (state[q] = "SLEEPING" /\ state'[q] = "RUNNABLE")
  BY <1>2 DEF ChangesOnly
<1>5. \A q \in Proc \ {p} : /\ state[q] \in Alive => state'[q] \in Alive
                            /\ state[q] \notin Alive => state'[q] = state[q]
  BY <1>4 DEF Alive
<1>6. InitLives'
  <2>1. state'[initproc] \in Alive /\ parent'[initproc] = NoProc
    BY <1>1, <1>3, <1>5, InitIn DEF Family, InitLives
  <2> QED
    BY <1>1, <2>1, InitStays DEF Family, InitLives
<1>7. ParentsLive'
  <2> SUFFICES ASSUME NEW c \in Proc
               PROVE  /\ parent'[c] # NoProc => parent'[c] # c /\ state'[parent'[c]] \in Alive
                      /\ state'[c] \in {"UNUSED", "EMBRYO"} => parent'[c] = NoProc
                      /\ c # initproc /\ state'[c] \notin {"UNUSED", "EMBRYO"} => parent'[c] # NoProc
    BY DEF ParentsLive
  <2>1. /\ parent[c] # NoProc => parent[c] # c /\ state[parent[c]] \in Alive /\ parent[c] \in Proc
        /\ state[c] \in {"UNUSED", "EMBRYO"} => parent[c] = NoProc
        /\ c # initproc /\ state[c] \notin {"UNUSED", "EMBRYO"} => parent[c] # NoProc
    BY <1>1 DEF Family, ParentsLive
  <2>2. parent[initproc] = NoProc /\ state[initproc] \in Alive /\ initproc \in Proc
    BY InitIn DEF Family, InitLives
  <2>3. parent'[c] # NoProc => parent'[c] # c /\ state'[parent'[c]] \in Alive
    <3>1. CASE parent[c] = p
      BY <1>1, <1>3, <1>5, <2>2, <3>1
    <3>2. CASE parent[c] # p
      BY <1>1, <1>5, <2>1, <3>2
    <3> QED
      BY <3>1, <3>2
  <2>4. state'[c] \in {"UNUSED", "EMBRYO"} => state[c] \in {"UNUSED", "EMBRYO"}
    BY <1>2, <1>4
  <2>5. state[c] \in {"UNUSED", "EMBRYO"} => state'[c] \in {"UNUSED", "EMBRYO"}
    BY <1>2, <1>4
  <2>6. parent'[c] = NoProc <=> parent[c] = NoProc
    BY <1>1, <1>3, InitIn
  <2> QED
    BY <2>1, <2>3, <2>4, <2>5, <2>6
<1>8. ExitsHeard'
  <2> SUFFICES ASSUME NEW q \in Proc, NEW c \in Proc, state'[q] = "SLEEPING", chan'[q] = q,
                      parent'[c] = q, state'[c] = "ZOMBIE"
               PROVE  FALSE
    BY DEF ExitsHeard
  <2>1. q # p /\ state[q] = "SLEEPING" /\ chan[q] = q
    BY <1>1, <1>2, <1>4
  <2>2. CASE c = p
    <3>1. parent[p] # p
      BY <1>3 DEF Family, ParentsLive
    <3>2. parent[p] = q
      BY <1>1, <2>2, <3>1
    <3> QED
      BY <2>1, <3>2, ExitWakes
  <2>3. CASE c # p
    <3>1. state[c] = "ZOMBIE"
      BY <1>4, <2>3
    <3>2. CASE parent[c] = p
      <4>1. q = initproc
        BY <1>1, <3>2
      <4> QED
        BY <2>1, <3>1, <3>2, <4>1, ExitWakes
    <3>3. CASE parent[c] # p
      BY <1>1, <2>1, <3>1, <3>3 DEF Family, ExitsHeard
    <3> QED
      BY <3>2, <3>3
  <2> QED
    BY <2>2, <2>3
<1> QED
  BY <1>6, <1>7, <1>8 DEF Family

(* fork(): a slot is taken, given back, or becomes a child.                *)
LEMMA FamilyForks ==
  ASSUME MlfqInv, Family, NEW p \in Proc, ForkAlloc(p) \/ ForkNoMemory(p), [Next]_vars
  PROVE  Family'
<1>1. PICK c \in Proc : /\ state[c] \in {"UNUSED", "EMBRYO"} /\ state'[c] \in {"UNUSED", "EMBRYO"}
                        /\ ChangesOnly(c)
  <2>1. CASE ForkAlloc(p)
    <3>1. PICK c \in Proc : c = FirstUnused
      BY <2>1, Forks
    <3> QED
      BY <2>1, <3>1, Forks DEF Queueing
  <2>2. CASE ForkNoMemory(p)
    <3>1. PICK c : c = np[p]
      OBVIOUS
    <3>2. c \in Proc /\ state[c] = "EMBRYO"
      BY <2>2, <3>1 DEF ForkNoMemory, At, MlfqInv, ForkInv
    <3>3. ChangesOnly(c) /\ state'[c] = "UNUSED"
      BY <2>2, <3>1, <3>2, Frees DEF ForkNoMemory, Queueing
    <3> QED
      BY <3>2, <3>3
  <2> QED
    BY <2>1, <2>2
<1>2. parent' = parent /\ chan' = chan /\ killed' = killed /\ parent \in [Proc -> Proc \cup {NoProc}]
  BY DEF ForkAlloc, ForkNoMemory, MlfqInv, OtherTypes
<1>3. \A q \in Proc \ {c} : state'[q] = state[q] \/ (state[q] = "SLEEPING" /\ state'[q] = "RUNNABLE")
  BY <1>1 DEF ChangesOnly
<1>4. /\ \A q \in Proc : state[q] \in Alive => state'[q] \in Alive
      /\ \A q \in Proc : state'[q] \in {"UNUSED", "EMBRYO"} <=> state[q] \in {"UNUSED", "EMBRYO"}
  BY <1>1, <1>3 DEF Alive
<1>5. InitLives'
  BY <1>2, <1>4, InitIn, InitStays DEF Family, InitLives
<1>6. ParentsLive'
  BY <1>2, <1>4 DEF Family, ParentsLive
<1>7. ExitsHeard'
  <2>1. \A q \in Proc : /\ state'[q] = "SLEEPING" => state[q] = "SLEEPING"
                        /\ state'[q] = "ZOMBIE" => state[q] = "ZOMBIE"
    BY <1>1, <1>3
  <2> QED
    BY <1>2, <2>1 DEF Family, ExitsHeard
<1> QED
  BY <1>5, <1>6, <1>7 DEF Family

LEMMA FamilyGrows ==
  ASSUME MlfqInv, Family, NEW p \in Proc, ForkDone(p), [Next]_vars
  PROVE  Family'
<1>1. PICK c : c = np[p]
  OBVIOUS
<1>2. c \in Proc /\ state[c] = "EMBRYO" /\ cpu = p /\ state[p] = "RUNNING"
  BY <1>1 DEF ForkDone, At, MlfqInv, ForkInv, RunInv, Proc, NoProc
<1>3. ChangesOnly(c) /\ state'[c] = "RUNNABLE"
  BY <1>1, <1>2, ForkLinks DEF ForkDone, Queueing
<1>4. /\ chan' = chan /\ killed' = killed /\ parent \in [Proc -> Proc \cup {NoProc}]
      /\ \A d \in Proc : parent'[d] = IF d = c THEN p ELSE parent[d]
  BY <1>1 DEF ForkDone, MlfqInv, OtherTypes
<1>5. \A q \in Proc \ {c} : state'[q] = state[q] \/ (state[q] = "SLEEPING" /\ state'[q] = "RUNNABLE")
  BY <1>3 DEF ChangesOnly
<1>6. /\ \A q \in Proc : state[q] \in Alive => state'[q] \in Alive
      /\ \A q \in Proc \ {c} : state'[q] \in {"UNUSED", "EMBRYO"} <=> state[q] \in {"UNUSED", "EMBRYO"}
      /\ \A q \in Proc : state'[q] \in {"SLEEPING", "ZOMBIE"} => state'[q] = state[q]
  BY <1>2, <1>3, <1>5 DEF Alive
<1>7. c # initproc /\ c # p /\ parent[c] = NoProc /\ p # NoProc /\ state[p] \in Alive
  BY <1>2, InitIn DEF Family, InitLives, ParentsLive, Alive
<1>8. InitLives'
  BY <1>4, <1>6, <1>7, InitIn, InitStays DEF Family, InitLives
<1>9. ParentsLive'
  <2> SUFFICES ASSUME NEW d \in Proc
               PROVE  /\ parent'[d] # NoProc => parent'[d] # d /\ state'[parent'[d]] \in Alive
                      /\ state'[d] \in {"UNUSED", "EMBRYO"} => parent'[d] = NoProc
                      /\ d # initproc /\ state'[d] \notin {"UNUSED", "EMBRYO"} => parent'[d] # NoProc
    BY DEF ParentsLive
  <2>1. CASE d = c
    BY <1>3, <1>4, <1>6, <1>7, <2>1
  <2>2. CASE d # c
    BY <1>4, <1>6, <2>2 DEF Family, ParentsLive
  <2> QED
    BY <2>1, <2>2
<1>10. ExitsHeard'
  BY <1>3, <1>4, <1>6 DEF Family, ExitsHeard
<1> QED
  BY <1>8, <1>9, <1>10 DEF Family

(* wait() frees a ZOMBIE, which has no children any more.                  *)
LEMMA FamilyReaps ==
  ASSUME MlfqInv, Family, NEW p \in Proc, WaitReaps(p), [Next]_vars
  PROVE  Family'
<1>1. PICK c \in Proc : /\ parent[c] = p /\ state[c] = "ZOMBIE" /\ state'[c] = "UNUSED" /\ ChangesOnly(c)
                        /\ parent' = [parent EXCEPT ![c] = NoProc]
                        /\ killed' = [killed EXCEPT ![c] = FALSE]
  BY Reaps DEF Queueing
<1>2. /\ chan' = chan
      /\ \A d \in Proc : parent'[d] = IF d = c THEN NoProc ELSE parent[d]
      /\ \A d \in Proc : killed'[d] => killed[d]
  BY <1>1 DEF WaitReaps, MlfqInv, OtherTypes
<1>3. \A q \in Proc \ {c} : state'[q] = state[q] \/ (state[q] = "SLEEPING" /\ state'[q] = "RUNNABLE")
  BY <1>1 DEF ChangesOnly
<1>4. /\ \A q \in Proc : state[q] \in Alive => state'[q] \in Alive
      /\ \A q \in Proc \ {c} : state'[q] \in {"UNUSED", "EMBRYO"} <=> state[q] \in {"UNUSED", "EMBRYO"}
      /\ \A q \in Proc : state'[q] \in {"SLEEPING", "ZOMBIE"} => state'[q] = state[q]
  BY <1>1, <1>3 DEF Alive
<1>5. parent \in [Proc -> Proc \cup {NoProc}]
  BY DEF MlfqInv, OtherTypes
<1>6. InitLives'
  BY <1>2, <1>4, InitIn, InitStays DEF Family, InitLives
<1>7. ParentsLive'
  <2> SUFFICES ASSUME NEW d \in Proc
               PROVE  /\ parent'[d] # NoProc => parent'[d] # d /\ state'[parent'[d]] \in Alive
                      /\ state'[d] \in {"UNUSED", "EMBRYO"} => parent'[d] = NoProc
                      /\ d # initproc /\ state'[d] \notin {"UNUSED", "EMBRYO"} => parent'[d] # NoProc
    BY DEF ParentsLive
  <2>1. CASE d = c
    BY <1>1, <1>2, <2>1
  <2>2. CASE d # c
    BY <1>2, <1>4, <1>5, <2>2 DEF Family, ParentsLive
  <2> QED
    BY <2>1, <2>2
<1>8. ExitsHeard'
  BY <1>1, <1>2, <1>4 DEF Family, ExitsHeard
<1> QED
  BY <1>6, <1>7, <1>8 DEF Family

(* The other steps: who changes was and stays alive.                       *)
LEMMA FamilyStep ==
  ASSUME MlfqInv, ~LongLocks, Family, [Next]_vars, parent' = parent, ~killed'[initproc],
         NEW x, ChangesOnly(x), x \in Proc => state[x] \in Alive /\ state'[x] \in Alive
  PROVE  Family'
<1>1. pc'[initproc] \notin {"exit", "exitTrap", "zombie"}
  BY InitStays
<1>2. ASSUME NEW q \in Proc, state'[q] = "SLEEPING"
      PROVE  \/ state[q] = "SLEEPING" /\ chan'[q] = chan[q]
             \/ chan'[q] # q
             \/ \A c \in Proc : parent[c] = q => state[c] # "ZOMBIE"
  <2>1. CASE Rests(q)
    BY <2>1 DEF Rests
  <2>2. CASE WaitSleeps(q)
    BY <2>2 DEF WaitSleeps, Children
  <2>3. CASE SysSleep(q) \/ SysSleepAgain(q) \/ ExitSleeps(q) \/ IoSleeps(q)
    <3>1. TicksChan # q /\ IoChan # q
      BY SizesAssumption DEF SizesAssumption, TicksChan, IoChan, Proc
    <3>2. chan \in [Proc -> 0 .. NPROC + 2] /\ cpu = q /\ state[q] = "RUNNING"
      BY <2>3, WakesOf DEF SysSleep, SysSleepAgain, ExitSleeps, IoSleeps, At
    <3>3. CASE ExitSleeps(q) \/ IoSleeps(q)
      BY <3>1, <3>2, <3>3 DEF ExitSleeps, IoSleeps, Sleep
    <3>4. CASE SysSleep(q) \/ SysSleepAgain(q)
      <4>1. PICK s : SleepLoop(q, s)
        BY <3>4 DEF SysSleep, SysSleepAgain
      <4>2. CASE UNCHANGED kvars
        <5>1. state' = state
          BY <4>2 DEF kvars
        <5> QED
          BY <1>2, <3>2, <5>1
      <4>3. CASE Sleep(K, q, TicksChan)
        BY <3>1, <3>2, <4>3 DEF Sleep
      <4> QED
        BY <4>1, <4>2, <4>3 DEF SleepLoop
    <3> QED
      BY <2>3, <3>3, <3>4
  <2> QED
    BY <1>2, <2>1, <2>2, <2>3, Sleepers DEF Dozes
<1> QED
  BY <1>1, <1>2, FamilyKept

LEMMA FamilyNext ==
  ASSUME MlfqInv, ~LongLocks, Family, [Next]_vars
  PROVE  Family'
<1>0. ~killed[initproc] /\ 0 \notin Proc
  BY DEF Family, InitLives, Proc
<1>1. ASSUME parent' = parent, killed' = killed, ChangesOnly(0)
      PROVE  Family'
  BY <1>0, <1>1, FamilyStep
<1>2. ASSUME parent' = parent, killed' = killed, NEW x \in Proc, ChangesOnly(x),
             state[x] \in Alive, state'[x] \in Alive
      PROVE  Family'
  BY <1>0, <1>2, FamilyStep
<1>3. CASE SchedulerDispatch
  <2>1. PICK x \in Proc : x = cpu' /\ state[x] = "RUNNABLE" /\ state'[x] = "RUNNING" /\ ChangesOnly(x)
    BY <1>3, Dispatches DEF Queueing
  <2> QED
    BY <1>2, <1>3, <2>1 DEF SchedulerDispatch, Alive
<1>4. CASE SchedulerNextLevel \/ UNCHANGED vars
  <2>1. ChangesOnly(0) /\ parent' = parent /\ killed' = killed
    BY <1>4, Stays DEF SchedulerNextLevel, vars, procvars, Queueing
  <2> QED
    BY <1>1, <2>1
<1>5. CASE TimerIdle \/ TimerKills
  <2>1. ChangesOnly(0) /\ parent' = parent /\ killed' = killed
    BY <1>5, TimerTicks DEF TimerIdle, TimerKills, procvars, Queueing
  <2> QED
    BY <1>1, <2>1
<1>6. CASE TimerRunning
  <2>1. PICK x \in Proc : x = cpu /\ state[x] = "RUNNING"
    BY <1>6 DEF TimerRunning, MlfqInv, OtherTypes, RunInv
  <2>2. parent' = parent /\ killed' = killed
    BY <1>6 DEF TimerRunning
  <2>3. CASE Tick.k.schedlock
    BY <1>1, <1>6, <2>2, <2>3, TimerTicks DEF TimerRunning, Queueing
  <2>4. CASE ~Tick.k.schedlock
    <3>1. ChangesOnly(x) /\ state'[x] = "RUNNABLE"
      BY <1>6, <2>1, <2>4, TimerYields DEF TimerRunning, Queueing
    <3> QED
      BY <1>2, <2>1, <2>2, <3>1 DEF Alive
  <2> QED
    BY <2>3, <2>4
<1>7. CASE IoInterrupt
  <2>1. ChangesOnly(0)
    BY <1>7, IoWakes
  <2> QED
    BY <1>1, <1>7, <2>1 DEF IoInterrupt, procvars
<1>8. ASSUME NEW p \in Proc, Process(p)
      PROVE  Family'
  <2>1. CASE \/ Syscall(p) \/ SyscallReturn(p) \/ ReturnToUser(p) \/ ForkNoSlot(p) \/ WaitGivesUp(p)
             \/ KillNotFound(p) \/ SchedulerLockTest(p) \/ SchedulerUnlockTest(p) \/ IoDone(p)
    <3>1. UNCHANGED <<kvars, parent, killed>>
      BY <2>1 DEF Syscall, SyscallReturn, ReturnToUser, ForkNoSlot, WaitGivesUp, KillNotFound,
                  SchedulerLockTest, SchedulerUnlockTest, IoDone
    <3>2. ChangesOnly(0)
      BY <3>1, Stays DEF Queueing
    <3> QED
      BY <1>1, <3>1, <3>2
  <2>2. CASE ForkAlloc(p) \/ ForkNoMemory(p)
    BY <2>2, FamilyForks
  <2>3. CASE ForkDone(p)
    BY <2>3, FamilyGrows
  <2>4. CASE ExitSleeps(p) \/ WaitSleeps(p) \/ IoSleeps(p)
    <3>1. PICK ch : cpu = p /\ Sleep(K, p, ch) /\ UNCHANGED <<parent, killed>>
      BY <2>4 DEF ExitSleeps, WaitSleeps, IoSleeps, At
    <3>2. ChangesOnly(p) /\ state'[p] = "SLEEPING" /\ state[p] = "RUNNING"
      BY <3>1, Sleeps, WakesOf DEF Queueing
    <3> QED
      BY <1>2, <3>1, <3>2 DEF Alive
  <2>5. CASE SysSleep(p) \/ SysSleepAgain(p)
    <3>1. PICK s : cpu = p /\ SleepLoop(p, s) /\ UNCHANGED <<parent, killed>>
      BY <2>5 DEF SysSleep, SysSleepAgain, At
    <3>2. CASE UNCHANGED kvars
      BY <1>1, <3>1, <3>2, Stays DEF Queueing
    <3>3. CASE Sleep(K, p, TicksChan)
      <4>1. ChangesOnly(p) /\ state'[p] = "SLEEPING" /\ state[p] = "RUNNING"
        BY <3>1, <3>3, Sleeps, WakesOf DEF Queueing
      <4> QED
        BY <1>2, <3>1, <4>1 DEF Alive
    <3> QED
      BY <3>1, <3>2, <3>3 DEF SleepLoop
  <2>6. CASE Exit(p)
    BY <2>6, FamilyExits
  <2>7. CASE WaitReaps(p)
    BY <2>7, FamilyReaps
  <2>8. CASE Kill(p) \/ WrongPassword(p)
    <3>1. PICK t \in Proc : KillProcess(t) /\ t # initproc
      <4>1. CASE WrongPassword(p)
        BY <4>1 DEF WrongPassword
      <4>2. CASE Kill(p)
        <5>1. PICK t \in KillTargets : KillProcess(t)
          BY <4>2 DEF Kill
        <5>2. Unused # {} => FirstUnused # initproc
          BY FirstUnusedIn DEF Family, InitLives, Alive
        <5> QED
          BY <5>1, <5>2, KillTargetsIn DEF KillTargets
      <4> QED
        BY <2>8, <4>1, <4>2
    <3>2. ChangesOnly(0) /\ parent' = parent
      BY <2>8, <3>1, Kills DEF KillProcess, Kill, WrongPassword, Queueing
    <3>3. ~killed'[initproc]
      BY <1>0, <3>1, InitIn DEF KillProcess, MlfqInv, OtherTypes
    <3> QED
      BY <1>0, <3>2, <3>3, FamilyStep
  <2>9. CASE SysYield(p) \/ SchedulerUnlock(p)
    <3>1. cpu = p /\ UNCHANGED <<parent, killed>>
      BY <2>9 DEF SysYield, SchedulerUnlock, At
    <3>2. ChangesOnly(p) /\ state'[p] = "RUNNABLE" /\ state[p] = "RUNNING"
      BY <2>9, <3>1, Yields, Unlocks, WakesOf DEF SysYield, Queueing
    <3> QED
      BY <1>2, <3>1, <3>2 DEF Alive
  <2>10. CASE SchedulerLock(p) \/ SysSetPriority(p)
    <3>1. UNCHANGED <<parent, killed>>
      BY <2>10 DEF SchedulerLock, SysSetPriority
    <3>2. ChangesOnly(0)
      BY <2>10, Locks, Reprioritizes DEF Queueing
    <3> QED
      BY <1>1, <3>1, <3>2
  <2> QED
    BY <1>8, <2>1, <2>2, <2>3, <2>4, <2>5, <2>6, <2>7, <2>8, <2>9, <2>10 DEF Process
<1> QED
  BY <1>3, <1>4, <1>5, <1>6, <1>7, <1>8 DEF Next

(* proc.c, fork(), exit(), wait(), kill(): whatever the programs call, no  *)
(* exit is lost on a parent that sleeps in wait(), not even that of a child*)
(* handed to init as a ZOMBIE, and every process but init has a living     *)
(* parent to wait() for it.                                                *)
THEOREM ExitsStayHeard ==
  ASSUME ~LongLocks
  PROVE  Spec => []ExitsReachParents
<1> DEFINE Inv == MlfqInv /\ Family
<1>1. Init => Inv
  <2> SUFFICES ASSUME Init PROVE Family
    BY InitHolds
  <2>1. /\ state = [p \in Proc |-> IF p = initproc THEN "RUNNABLE" ELSE "UNUSED"]
        /\ parent = [p \in Proc |-> NoProc] /\ killed = [p \in Proc |-> FALSE]
        /\ pc = [p \in Proc |-> "user"]
    BY DEF Init
  <2>2. InitLives
    BY <2>1, InitIn DEF InitLives, Alive
  <2>3. ParentsLive
    BY <2>1 DEF ParentsLive
  <2>4. ExitsHeard
    BY <2>1 DEF ExitsHeard
  <2> QED
    BY <2>2, <2>3, <2>4 DEF Family
<1>2. Inv /\ [Next]_vars => Inv'
  BY NextKeeps, FamilyNext
<1>3. Inv => ExitsReachParents
  <2> SUFFICES ASSUME MlfqInv, Family PROVE ExitsReachParents
    OBVIOUS
  <2>1. NoLostChildExit
    BY SlotsAre DEF Family, ExitsHeard, NoLostChildExit
  <2>2. OrphansAdopted
    BY SlotsAre DEF Family, ParentsLive, OrphansAdopted, Alive
  <2> QED
    BY <2>1, <2>2 DEF ExitsReachParents
<1> HIDE DEF Inv
<1> QED
  BY <1>1, <1>2, <1>3, PTL DEF Spec

-----------------------------------------------------------------------------
(* The quanta of the levels, and the order of L2.                          *)

(* Behind its head, s is in the order of prio.                             *)
Tailed(s, prio) == \A i, j \in 2 .. Len(s) : i < j => prio[s[i]] <= prio[s[j]]
Ordered(k) == Tailed(k.mlfq[2], k.priority)

LEMMA InsertOrders ==
  ASSUME NEW s \in Seq(Proc), s # <<>>, NEW prio \in [Proc -> Int], NEW p \in Proc, Tailed(s, prio)
  PROVE  Tailed(InsertAt(s, PrioPosition(s, prio, p) + 1, p), prio)
<1> DEFINE n == Len(s)
<1>1. PICK i \in 1 .. n : /\ i = PrioPosition(s, prio, p)
                          /\ i = n \/ prio[p] < prio[s[i + 1]]
                          /\ \A j \in 1 .. i - 1 : prio[p] >= prio[s[j + 1]]
  BY PrioPositionIn
<1>2. PICK t : t = InsertAt(s, i + 1, p)
  OBVIOUS
<1>3. n \in Nat \ {0} /\ \A j \in 1 .. n : s[j] \in Proc
  OBVIOUS
<1>4. PICK x \in 1 .. n + 1 : x = i + 1
  BY <1>3
<1>5. /\ Len(t) = n + 1 /\ t[x] = p
      /\ \A j \in 1 .. x - 1 : t[j] = s[j]
      /\ \A j \in x + 1 .. n + 1 : t[j] = s[j - 1]
  <2>1. t = InsertAt(s, x, p)
    BY <1>2, <1>4
  <2>2. /\ Len(InsertAt(s, x, p)) = Len(s) + 1 /\ InsertAt(s, x, p)[x] = p
        /\ \A j \in 1 .. x - 1 : InsertAt(s, x, p)[j] = s[j]
        /\ \A j \in x + 1 .. Len(s) + 1 : InsertAt(s, x, p)[j] = s[j - 1]
    <3>1. s \in Seq(Proc) /\ p \in Proc /\ x \in 1 .. Len(s) + 1
      OBVIOUS
    <3> HIDE DEF n
    <3> QED
      BY <3>1, InsertsAt, SMTT(60)
  <2> QED
    BY <2>1, <2>2
<1>6. \A a, b \in 2 .. n : a <= b => prio[s[a]] <= prio[s[b]]
  <2> TAKE a, b \in 2 .. n
  <2>1. prio[s[a]] \in Int
    BY <1>3
  <2> QED
    BY <2>1 DEF Tailed
<1>7. \A a \in 2 .. x - 1 : prio[s[a]] <= prio[p]
  <2> TAKE a \in 2 .. x - 1
  <2>1. a - 1 \in 1 .. i - 1 /\ (a - 1) + 1 = a /\ a \in 1 .. n
    BY <1>3, <1>4
  <2>2. prio[p] >= prio[s[a]]
    BY <1>1, <2>1
  <2>3. prio[p] \in Int /\ prio[s[a]] \in Int
    BY <1>3, <2>1
  <2> QED
    BY <2>2, <2>3
<1>8. \A b \in x .. n : prio[p] <= prio[s[b]]
  <2> TAKE b \in x .. n
  <2>1. x \in 2 .. n /\ b \in 2 .. n /\ x <= b /\ i # n /\ x \in 1 .. n /\ b \in 1 .. n
    BY <1>3, <1>4
  <2>2. prio[p] < prio[s[x]] /\ prio[s[x]] <= prio[s[b]]
    BY <1>1, <1>4, <1>6, <2>1
  <2>3. prio[p] \in Int /\ prio[s[x]] \in Int /\ prio[s[b]] \in Int
    BY <1>3, <2>1
  <2> QED
    BY <2>2, <2>3
<1>9. ASSUME NEW a \in 2 .. n + 1, NEW b \in 2 .. n + 1, a < b
      PROVE  prio[t[a]] <= prio[t[b]]
  <2>1. CASE b <= x - 1
    <3>1. a \in 1 .. x - 1 /\ b \in 1 .. x - 1 /\ a \in 2 .. n /\ b \in 2 .. n /\ a <= b
      BY <1>3, <1>4, <1>9, <2>1
    <3> QED
      BY <1>5, <1>6, <3>1
  <2>2. CASE b = x
    <3>1. a \in 2 .. x - 1 /\ a \in 1 .. x - 1
      BY <1>9, <2>2
    <3> QED
      BY <1>5, <1>7, <2>2, <3>1
  <2>3. CASE b > x /\ a <= x - 1
    <3>1. a \in 1 .. x - 1 /\ b \in x + 1 .. n + 1 /\ a \in 2 .. n /\ b - 1 \in 2 .. n /\ a <= b - 1
      BY <1>3, <1>4, <1>9, <2>3
    <3> QED
      BY <1>5, <1>6, <3>1
  <2>4. CASE b > x /\ a = x
    <3>1. b \in x + 1 .. n + 1 /\ b - 1 \in x .. n
      BY <1>3, <1>4, <2>4
    <3> QED
      BY <1>5, <1>8, <2>4, <3>1
  <2>5. CASE b > x /\ a > x
    <3>1. /\ a \in x + 1 .. n + 1 /\ b \in x + 1 .. n + 1
          /\ a - 1 \in 2 .. n /\ b - 1 \in 2 .. n /\ a - 1 <= b - 1
      BY <1>3, <1>4, <1>9, <2>5
    <3> QED
      BY <1>5, <1>6, <3>1
  <2> QED
    BY <1>4, <1>9, <2>1, <2>2, <2>3, <2>4, <2>5
<1>10. Tailed(t, prio)
  BY <1>5, <1>9 DEF Tailed
<1> QED
  BY <1>1, <1>2, <1>10

LEMMA RemoveOrders ==
  ASSUME NEW s \in Seq(Proc), NEW i \in 1 .. Len(s), i # 1, NEW prio, Tailed(s, prio)
  PROVE  Tailed(RemoveAt(s, i), prio)
<1> DEFINE n == Len(s)
<1>1. n \in Nat /\ i \in 2 .. n
  OBVIOUS
<1>2. PICK t : t = RemoveAt(s, i)
  OBVIOUS
<1>3. /\ Len(t) = n - 1 /\ \A j \in 1 .. i - 1 : t[j] = s[j]
      /\ \A j \in i .. n - 1 : t[j] = s[j + 1]
  BY <1>2, RemovesAt
<1>4. \A a \in 2 .. n - 1 : \E c \in 2 .. n : t[a] = s[c] /\ c = IF a < i THEN a ELSE a + 1
  <2> TAKE a \in 2 .. n - 1
  <2>1. CASE a < i
    <3>1. a \in 1 .. i - 1 /\ a \in 2 .. n
      BY <1>1, <2>1
    <3> QED
      BY <1>3, <2>1, <3>1
  <2>2. CASE ~(a < i)
    <3>1. a \in i .. n - 1 /\ a + 1 \in 2 .. n
      BY <1>1, <2>2
    <3> QED
      BY <1>3, <2>2, <3>1
  <2> QED
    BY <2>1, <2>2
<1>5. ASSUME NEW a \in 2 .. n - 1, NEW b \in 2 .. n - 1, a < b
      PROVE  prio[t[a]] <= prio[t[b]]
  <2>1. PICK c \in 2 .. n : t[a] = s[c] /\ c = IF a < i THEN a ELSE a + 1
    BY <1>4
  <2>2. PICK d \in 2 .. n : t[b] = s[d] /\ d = IF b < i THEN b ELSE b + 1
    BY <1>4
  <2>3. c < d
    BY <1>1, <1>5, <2>1, <2>2
  <2> QED
    BY <2>1, <2>2, <2>3 DEF Tailed
<1> QED
  BY <1>2, <1>3, <1>5 DEF Tailed

LEMMA TailOrders ==
  ASSUME NEW s \in Seq(Proc), s # <<>>, NEW prio, Tailed(s, prio)
  PROVE  Tailed(Tail(s), prio)
<1> DEFINE n == Len(s)
<1>1. PICK t : t = Tail(s)
  OBVIOUS
<1>2. n \in Nat \ {0} /\ Len(t) = n - 1 /\ \A j \in 1 .. n - 1 : t[j] = s[j + 1]
  BY <1>1
<1>3. ASSUME NEW a \in 2 .. n - 1, NEW b \in 2 .. n - 1, a < b
      PROVE  prio[t[a]] <= prio[t[b]]
  <2>1. /\ a \in 1 .. n - 1 /\ b \in 1 .. n - 1 /\ a + 1 \in 2 .. n /\ b + 1 \in 2 .. n
        /\ a + 1 < b + 1
    BY <1>2, <1>3
  <2> QED
    BY <1>2, <2>1 DEF Tailed
<1> QED
  BY <1>1, <1>2, <1>3 DEF Tailed

(* New priorities for others leave the order.                              *)
LEMMA OthersOrder ==
  ASSUME NEW s, NEW prio, NEW v, Tailed(s, prio),
         \A i \in 2 .. Len(s) : v[s[i]] = prio[s[i]]
  PROVE  Tailed(s, v)
BY DEF Tailed

LEMMA EnqueueOrders ==
  ASSUME NEW k \in KRecord, NEW p \in Proc, NEW lev \in LevelsAndBefore, Ordered(k)
  PROVE  Ordered(Enqueue(k, p, lev))
<1> DEFINE s == k.mlfq[lev]
           linked == IF lev = 2 /\ s # <<>>
                     THEN InsertAt(s, PrioPosition(s, k.priority, p) + 1, p)
                     ELSE Append(s, p)
<1>1. PICK e : e = Enqueue(k, p, lev)
  OBVIOUS
<1>2. PICK t : t = linked
  OBVIOUS
<1>3. /\ Links(k, e, p, lev) /\ 2 \in LevelsAndBefore /\ k.mlfq[2] \in Seq(Proc)
      /\ k.priority \in [Proc -> Int]
  <2>1. Links(k, e, p, lev)
    BY <1>1, EnqueueLinks
  <2>2. 2 \in LevelsAndBefore
    BY LevelsAre
  <2> QED
    BY <2>1, <2>2 DEF KRecord
<1>4. e.priority = k.priority /\ (lev # 2 => e.mlfq[2] = k.mlfq[2])
  BY <1>3 DEF Links
<1>5. CASE lev # 2
  BY <1>1, <1>4, <1>5 DEF Ordered
<1>6. CASE lev = 2
  <2>1. e.mlfq[2] = t
    <3>1. e = [k EXCEPT !.mlfq[lev] = t, !.qlevel[p] = lev]
      BY <1>1, <1>2 DEF Enqueue
    <3> QED
      BY <1>3, <1>6, <3>1 DEF KRecord
  <2>2. PICK q \in Seq(Proc) : q = k.mlfq[2]
    BY <1>3
  <2>3. Tailed(q, k.priority)
    BY <2>2 DEF Ordered
  <2>4. CASE q # <<>>
    <3>1. t = InsertAt(q, PrioPosition(q, k.priority, p) + 1, p)
      BY <1>2, <1>6, <2>2, <2>4
    <3>2. Tailed(t, k.priority)
      BY <1>3, <2>3, <2>4, <3>1, InsertOrders
    <3> QED
      BY <1>1, <1>4, <2>1, <3>2 DEF Ordered
  <2>5. CASE q = <<>>
    <3>1. t = Append(q, p)
      BY <1>2, <1>6, <2>2, <2>5
    <3>2. Len(t) = 1
      BY <2>2, <2>5, <3>1
    <3>3. Tailed(t, k.priority)
      BY <3>2 DEF Tailed
    <3> QED
      BY <1>1, <1>4, <2>1, <3>3 DEF Ordered
  <2> QED
    BY <2>4, <2>5
<1> QED
  BY <1>5, <1>6

(* What a process may have left of its quantum: off the CPU or on it, some *)
(* of what its level grants; before its first turn, that of L0.            *)
Lives == {"SLEEPING", "RUNNABLE", "RUNNING"}
Fits(k, q) ==
  /\ k.state[q] \in Lives /\ k.qlevel[q] \in Levels => k.tq[q] \in 1 .. 2 * k.qlevel[q] + Quantum0
  /\ k.state[q] = "EMBRYO" => k.tq[q] = Quantum0
FitBut(k, p) == \A q \in Proc \ {p} : Fits(k, q)
Leveled(k) == Ordered(k) /\ \A q \in Proc : Fits(k, q)

(* A state that needs no other quantum than the one before.                *)
Follows(v, w) == w = v \/ (v \in Lives /\ w \in Lives) \/ w \in {"ZOMBIE", "UNUSED"}

LEMMA FitsKept ==
  ASSUME NEW k, NEW e, NEW q, Fits(k, q), e.tq[q] = k.tq[q], e.qlevel[q] = k.qlevel[q],
         Follows(k.state[q], e.state[q])
  PROVE  Fits(e, q)
<1>1. CASE e.state[q] \in {"ZOMBIE", "UNUSED"}
  BY <1>1 DEF Fits, Lives
<1>2. CASE e.state[q] = k.state[q]
  BY <1>2 DEF Fits
<1>3. CASE k.state[q] \in Lives /\ e.state[q] \in Lives
  BY <1>3 DEF Fits, Lives
<1> QED
  BY <1>1, <1>2, <1>3 DEF Follows

(* A process that has just been linked, with the quantum of its level.     *)
LEMMA LinksLevel ==
  ASSUME NEW k \in KRecord, NEW p \in Proc, NEW lev \in LevelsAndBefore, NEW e,
         Links(k, e, p, lev), Ordered(e), FitBut(k, p), k.state[p] = "RUNNABLE",
         lev \in Levels => k.tq[p] \in 1 .. 2 * lev + Quantum0
  PROVE  Leveled(e)
<1>1. e.state = k.state /\ e.tq = k.tq
  BY DEF Links
<1>2. \A q \in Proc : e.qlevel[q] = IF q = p THEN lev ELSE k.qlevel[q]
  <2>1. k.qlevel \in [Proc -> LevelsAndBefore] /\ e.qlevel = [k.qlevel EXCEPT ![p] = lev]
    BY DEF Links, KRecord
  <2> QED
    BY <2>1
<1>3. Fits(e, p)
  BY <1>1, <1>2 DEF Fits
<1>4. ASSUME NEW q \in Proc \ {p} PROVE Fits(e, q)
  BY <1>1, <1>2, <1>4, FitsKept DEF FitBut, Follows
<1> QED
  BY <1>3, <1>4 DEF Leveled

(* The same at the end of a walk: wakeup1().                               *)
LEMMA WakeupLevels ==
  ASSUME NEW k \in KRecord, QInv(k), Leveled(k), NEW ws
  PROVE  Leveled(Wakeup1(k, ws))
<1> DEFINE f == CHOOSE f : WakesUpto(k, ws, NPROC, f)
           S == {n \in Nat : n <= NPROC => WokenUpto(k, ws, n, f[n]) /\ Ordered(f[n])}
<1>1. NPROC \in Nat
  BY SizesAssumption DEF SizesAssumption
<1>2. WakesUpto(k, ws, NPROC, f)
  BY <1>1, WakeupExists
<1>3. Wakeup1(k, ws) = f[NPROC]
  BY DEF Wakeup1, WakesUpto
<1> HIDE DEF f
<1>4. \A p \in 0 .. NPROC : f[p] = IF p = 0 THEN k ELSE WakeOne(f[p - 1], ws, p)
  BY <1>2 DEF WakesUpto
<1>5. 0 \in S
  <2>1. f[0] = k /\ \A q \in Proc : ~Awake(k, ws, q, 0)
    BY <1>1, <1>4 DEF Awake, Proc
  <2> QED
    BY <2>1 DEF WokenUpto, Leveled
<1>6. ASSUME NEW n \in Nat, n \in S PROVE n + 1 \in S
  <2> SUFFICES ASSUME n + 1 <= NPROC
               PROVE  WokenUpto(k, ws, n + 1, f[n + 1]) /\ Ordered(f[n + 1])
    OBVIOUS
  <2>1. n + 1 \in Proc /\ n + 1 \in 0 .. NPROC /\ n <= NPROC /\ n + 1 # 0 /\ (n + 1) - 1 = n
    BY <1>1 DEF Proc
  <2>2. f[n + 1] = WakeOne(f[n], ws, n + 1)
    BY <1>4, <2>1
  <2>3. PICK e : e = f[n]
    OBVIOUS
  <2>4. WokenUpto(k, ws, n, e) /\ Ordered(e)
    BY <1>6, <2>1, <2>3
  <2>5. PICK p \in Proc : p = n + 1
    BY <2>1
  <2>6. Ordered(WakeOne(e, ws, p))
    <3>1. CASE ~(p \in ws /\ e.state[p] = "SLEEPING")
      BY <2>4, <3>1 DEF WakeOne
    <3>2. CASE p \in ws /\ e.state[p] = "SLEEPING"
      <4>1. PICK r : r = InState(e, p, "RUNNABLE")
        OBVIOUS
      <4>2. r \in KRecord /\ r.mlfq = e.mlfq /\ r.qlevel = e.qlevel /\ r.priority = e.priority
        <5>1. e \in KRecord
          BY <2>4 DEF WokenUpto
        <5>2. PICK v \in States : v = "RUNNABLE"
          BY DEF States
        <5>3. r = InState(e, p, v)
          BY <4>1, <5>2
        <5> QED
          BY <5>1, <5>3, StateAlters DEF Alters
      <4>3. Ordered(r)
        BY <2>4, <4>2 DEF Ordered
      <4>4. PICK lev \in LevelsAndBefore : lev = e.qlevel[p]
        BY <2>4 DEF WokenUpto, KRecord
      <4>5. WakeOne(e, ws, p) = Enqueue(r, p, lev)
        BY <3>2, <4>1, <4>4 DEF WakeOne, InState
      <4> QED
        BY <4>2, <4>3, <4>5, EnqueueOrders
    <3> QED
      BY <3>1, <3>2
  <2> QED
    BY <2>1, <2>2, <2>3, <2>4, <2>5, <2>6, WakeOneWakes
<1> HIDE DEF S
<1>7. NPROC \in S
  BY <1>1, <1>5, <1>6, NatSet
<1>8. PICK e : e = Wakeup1(k, ws)
  OBVIOUS
<1>9. WokenUpto(k, ws, NPROC, e) /\ Ordered(e)
  BY <1>1, <1>3, <1>7, <1>8 DEF S
<1>10. ASSUME NEW q \in Proc PROVE Fits(e, q)
  <2>1. Fits(k, q) /\ e.tq[q] = k.tq[q] /\ e.qlevel[q] = k.qlevel[q]
    BY <1>9 DEF Leveled, WokenUpto
  <2>2. Follows(k.state[q], e.state[q])
    <3>1. Awake(k, ws, q, NPROC) => k.state[q] = "SLEEPING" /\ e.state[q] = "RUNNABLE"
      BY <1>9 DEF Awake, WokenUpto
    <3>2. ~Awake(k, ws, q, NPROC) => e.state[q] = k.state[q]
      BY <1>9 DEF WokenUpto
    <3> QED
      BY <3>1, <3>2 DEF Follows, Lives
  <2> QED
    BY <2>1, <2>2, FitsKept
<1> QED
  BY <1>8, <1>9, <1>10 DEF Leveled

(* prboost(): L2 is empty, and all have the quantum of L0 or, on the CPU,  *)
(* no level.                                                               *)
LEMMA BoostLevels ==
  ASSUME NEW k \in KRecord, NEW r \in Proc \cup {NoProc}, NEW b, Boosted(k, r, b), Leveled(k),
         r \in Proc => k.state[r] = "RUNNING"
  PROVE  Leveled(b)
<1>1. Ordered(b)
  <2>1. b.mlfq[2] = <<>> /\ Len(<<>>) = 0
    BY DEF Boosted
  <2>2. \A s, prio : Len(s) = 0 => Tailed(s, prio)
    BY DEF Tailed
  <2> QED
    BY <2>1, <2>2 DEF Ordered
<1>2. ASSUME NEW q \in Proc PROVE Fits(b, q)
  <2>1. Quantum0 \in Nat \ {0} /\ 0 \in Levels /\ b.state = k.state /\ Fits(k, q)
    BY SizesAssumption DEF SizesAssumption, Levels, Boosted, Leveled
  <2>2. CASE q = r
    <3>1. b.qlevel[q] = -1 /\ b.state[q] = "RUNNING" /\ -1 \notin Levels
      BY <2>1, <2>2 DEF Boosted, Levels
    <3> QED
      BY <3>1 DEF Fits
  <2>3. CASE b.tq[q] = k.tq[q] /\ b.qlevel[q] = k.qlevel[q]
    BY <2>1, <2>3, FitsKept DEF Follows
  <2>4. CASE b.tq[q] = Quantum0 /\ b.qlevel[q] = 0
    BY <2>1, <2>4 DEF Fits
  <2> QED
    BY <2>2, <2>3, <2>4 DEF Boosted
<1> QED
  BY <1>1, <1>2 DEF Leveled

(* Other fields of one process that is in no queue.                        *)
Refit(k, p, s, t, v) == [k EXCEPT !.state[p] = s, !.tq[p] = t, !.priority[p] = v]

LEMMA RefitFits ==
  ASSUME NEW k \in KRecord, NEW p \in Proc, NEW s \in States, NEW t \in Int, NEW v \in Int,
         NEW e, e = Refit(k, p, s, t, v)
  PROVE  /\ e \in KRecord /\ e.mlfq = k.mlfq /\ e.qlevel = k.qlevel /\ e.schedlock = k.schedlock
         /\ e.state[p] = s /\ e.tq[p] = t /\ e.priority[p] = v
         /\ \A q \in Proc \ {p} : e.priority[q] = k.priority[q]
         /\ Ordered(k) /\ NotQueued(k, p) => Ordered(e)
         /\ FitBut(k, p) => FitBut(e, p)
<1> DEFINE ss == [k.state EXCEPT ![p] = s]
           ts == [k.tq EXCEPT ![p] = t]
           vs == [k.priority EXCEPT ![p] = v]
<1>1. /\ ss \in [Proc -> States] /\ ss[p] = s /\ \A q \in Proc \ {p} : ss[q] = k.state[q]
      /\ ts \in [Proc -> Int] /\ ts[p] = t /\ \A q \in Proc \ {p} : ts[q] = k.tq[q]
      /\ vs \in [Proc -> Int] /\ vs[p] = v /\ \A q \in Proc \ {p} : vs[q] = k.priority[q]
  BY DEF KRecord
<1>2. e = [k EXCEPT !.state = ss, !.tq = ts, !.priority = vs]
  BY DEF KRecord, Refit
<1> HIDE DEF ss, ts, vs
<1>3. /\ e \in KRecord /\ e.mlfq = k.mlfq /\ e.qlevel = k.qlevel /\ e.schedlock = k.schedlock
      /\ e.state = ss /\ e.tq = ts /\ e.priority = vs
  BY <1>1, <1>2 DEF KRecord
<1>4. ASSUME Ordered(k), NotQueued(k, p) PROVE Ordered(e)
  <2>1. PICK l \in Seq(Proc) : l = k.mlfq[2] /\ p \notin Range(l)
    BY <1>4, LevelsAre DEF KRecord, NotQueued
  <2>2. \A i \in 2 .. Len(l) : vs[l[i]] = k.priority[l[i]]
    <3> TAKE i \in 2 .. Len(l)
    <3>1. i \in 1 .. Len(l) /\ DOMAIN l = 1 .. Len(l)
      OBVIOUS
    <3>2. l[i] \in Proc /\ l[i] \in Range(l)
      BY <3>1 DEF Range
    <3> QED
      BY <1>1, <2>1, <3>2
  <2>3. Tailed(l, k.priority)
    BY <1>4, <2>1 DEF Ordered
  <2>4. Tailed(l, vs)
    BY <2>2, <2>3, OthersOrder
  <2> QED
    BY <1>3, <2>1, <2>4 DEF Ordered
<1>5. ASSUME FitBut(k, p), NEW q \in Proc \ {p} PROVE Fits(e, q)
  <2>1. e.tq[q] = k.tq[q] /\ e.qlevel[q] = k.qlevel[q] /\ e.state[q] = k.state[q]
    BY <1>1, <1>3
  <2> QED
    BY <1>5, <2>1, FitsKept DEF FitBut, Follows
<1> QED
  BY <1>1, <1>3, <1>4, <1>5 DEF FitBut

LEMMA LinkedLevels ==
  ASSUME NEW k \in KRecord, NEW p \in Proc, NotQueued(k, p), Ordered(k), FitBut(k, p),
         NEW t \in Int, NEW v \in Int, NEW lev \in LevelsAndBefore,
         lev \in Levels => t \in 1 .. 2 * lev + Quantum0
  PROVE  Leveled(Enqueue(Refit(k, p, "RUNNABLE", t, v), p, lev))
<1>1. PICK s \in States : s = "RUNNABLE"
  BY DEF States
<1>2. PICK r : r = Refit(k, p, s, t, v)
  OBVIOUS
<1>3. /\ r \in KRecord /\ r.state[p] = s /\ r.tq[p] = t
      /\ Ordered(r) /\ FitBut(r, p)
  BY <1>2, RefitFits
<1>4. PICK e : e = Enqueue(r, p, lev)
  OBVIOUS
<1>5. Links(r, e, p, lev) /\ Ordered(e)
  BY <1>3, <1>4, EnqueueLinks, EnqueueOrders
<1>6. Leveled(e)
  BY <1>1, <1>3, <1>5, LinksLevel
<1> QED
  BY <1>1, <1>2, <1>4, <1>6

(* yield(): the next level comes with its quantum, and who keeps its level *)
(* has some left.                                                          *)
LEMMA YieldLevels ==
  ASSUME NEW k \in KRecord, NEW p \in Proc, NotQueued(k, p), Ordered(k), FitBut(k, p),
         k.qlevel[p] \in Levels => k.tq[p] <= 2 * k.qlevel[p] + Quantum0
  PROVE  Leveled(YieldEnqueue(k, p))
<1> DEFINE r == [k EXCEPT !.state[p] = "RUNNABLE"]
           less == IF k.priority[p] # 0 THEN k.priority[p] - 1 ELSE k.priority[p]
           x1 == [r EXCEPT !.priority[p] = IF @ # 0 THEN @ - 1 ELSE @, !.tq[p] = 4 + Quantum0]
           x2(l) == [r EXCEPT !.tq[p] = 2 * (l + 1) + Quantum0]
<1>1. PICK lev \in LevelsAndBefore : lev = k.qlevel[p]
  BY DEF KRecord
<1>2. /\ k.tq[p] \in Int /\ Quantum0 \in Nat \ {0} /\ lev \in -1 .. 2 /\ k.priority[p] \in Int
      /\ Levels = 0 .. 2
  BY SizesAssumption, LevelsAre DEF KRecord, SizesAssumption, Levels
<1>3. /\ k.tq[p] > 0 => YieldEnqueue(k, p) = Enqueue(r, p, lev)
      /\ k.tq[p] <= 0 /\ lev = 2 => YieldEnqueue(k, p) = Enqueue(x1, p, 2)
      /\ k.tq[p] <= 0 /\ lev # 2 => YieldEnqueue(k, p) = Enqueue(x2(lev), p, lev + 1)
  <2> DEFINE y == CASE k.tq[p] > 0 -> Enqueue(r, p, lev)
                    [] k.tq[p] <= 0 /\ lev = 2 -> Enqueue(x1, p, 2)
                    [] OTHER -> Enqueue(x2(lev), p, lev + 1)
  <2>1. YieldEnqueue(k, p) = y
    BY <1>1 DEF YieldEnqueue
  <2> HIDE DEF r, x1, x2
  <2>2. k.tq[p] > 0 => ~(k.tq[p] <= 0 /\ lev = 2)
    BY <1>2
  <2>3. k.tq[p] > 0 => y = Enqueue(r, p, lev)
    BY <2>2
  <2>4. k.tq[p] <= 0 /\ lev = 2 => y = Enqueue(x1, p, 2)
    BY <2>2
  <2>5. k.tq[p] <= 0 /\ lev # 2 => y = Enqueue(x2(lev), p, lev + 1)
    BY <1>2
  <2> QED
    BY <2>1, <2>3, <2>4, <2>5
<1>4. /\ r = Refit(k, p, "RUNNABLE", k.tq[p], k.priority[p])
      /\ x1 = Refit(k, p, "RUNNABLE", 4 + Quantum0, less)
      /\ \A l \in Int : x2(l) = Refit(k, p, "RUNNABLE", 2 * (l + 1) + Quantum0, k.priority[p])
  BY DEF Refit, KRecord
<1> HIDE DEF r, x1, x2
<1>5. less \in Int
  BY <1>2
<1> HIDE DEF less
<1>6. CASE k.tq[p] > 0
  <2>1. lev \in Levels => k.tq[p] \in 1 .. 2 * lev + Quantum0
    BY <1>1, <1>2, <1>6
  <2> QED
    BY <1>2, <1>3, <1>4, <1>6, <2>1, LinkedLevels
<1>7. CASE k.tq[p] <= 0 /\ lev = 2
  <2>1. 4 + Quantum0 \in 1 .. 2 * 2 + Quantum0 /\ 4 + Quantum0 \in Int
    BY <1>2
  <2> QED
    BY <1>1, <1>3, <1>4, <1>5, <1>7, <2>1, LinkedLevels
<1>8. CASE k.tq[p] <= 0 /\ lev # 2
  <2>1. PICK t \in Int, l \in LevelsAndBefore : t = 2 * (lev + 1) + Quantum0 /\ l = lev + 1
    BY <1>2, <1>8, LevelsAre
  <2>2. t \in 1 .. 2 * l + Quantum0 /\ lev \in Int
    BY <1>2, <2>1
  <2>3. YieldEnqueue(k, p) = Enqueue(Refit(k, p, "RUNNABLE", t, k.priority[p]), p, l)
    BY <1>3, <1>4, <1>8, <2>1, <2>2
  <2> QED
    BY <1>2, <2>2, <2>3, LinkedLevels
<1> QED
  BY <1>2, <1>6, <1>7, <1>8

(* setPriority(): the head of L2 has any priority, another process of it is*)
(* linked anew, and the others are in no order.                            *)
LEMMA SetPriorityLevels ==
  ASSUME NEW k \in KRecord, QInv(k), Leveled(k), NEW caller \in Proc, NotQueued(k, caller),
         NEW t \in Proc, NEW v \in Int
  PROVE  Leveled(SetPriority(k, caller, t, v))
<1> DEFINE s == k.mlfq[2]
           place == CHOOSE i \in DOMAIN s : s[i] = t
           x == [k EXCEPT !.priority[t] = v]
           y == [x EXCEPT !.mlfq[2] = RemoveAt(@, place)]
           InQ(l) == t \in Range(k.mlfq[l])
<1>1. PICK w : w = SetPriority(k, caller, t, v)
  OBVIOUS
<1>2. PICK c : c = x
  OBVIOUS
<1>3. PICK r : r = y
  OBVIOUS
<1>4. /\ s \in Seq(Proc) /\ IsInjective(s) /\ 2 \in LevelsAndBefore
      /\ InQ(2) => k.state[t] = "RUNNABLE" /\ k.qlevel[t] = 2
  BY LevelsAre DEF KRecord, QInv
<1>5. \/ w = k
      \/ w = c /\ (t = caller \/ ~InQ(2) \/ Head(s) = t)
      \/ w = Enqueue(r, t, 2) /\ InQ(2) /\ Head(s) # t
  <2> DEFINE z == CASE t = caller -> x
                    [] t # caller /\ InQ(2) /\ Head(s) # t -> Enqueue(y, t, 2)
                    [] t # caller /\ InQ(2) /\ Head(s) = t -> x
                    [] t # caller /\ (InQ(0) \/ InQ(1)) -> x
                    [] OTHER -> k
  <2>0. w = z
    BY <1>1 DEF SetPriority
  <2> HIDE DEF x, y, place
  <2>1. CASE t = caller
    BY <1>1, <1>2, <2>1 DEF SetPriority, x
  <2>2. CASE t # caller /\ InQ(2) /\ Head(s) # t
    <3>1. ~InQ(0) /\ ~InQ(1)
      BY <1>4, <2>2, LevelsAre DEF QInv
    <3>2. w = Enqueue(y, t, 2)
      BY <2>0, <2>2, <3>1
    <3> QED
      BY <1>3, <2>2, <3>2
  <2>3. CASE t # caller /\ InQ(2) /\ Head(s) = t
    BY <1>1, <1>2, <2>3 DEF SetPriority, x
  <2>4. CASE t # caller /\ ~InQ(2)
    BY <1>1, <1>2, <2>4 DEF SetPriority, x
  <2> QED
    BY <2>1, <2>2, <2>3, <2>4
<1>6. /\ c \in KRecord /\ c.mlfq = k.mlfq /\ c.qlevel = k.qlevel /\ c.state[t] = k.state[t]
      /\ c.tq[t] = k.tq[t] /\ FitBut(c, t)
      /\ \A q \in Proc \ {t} : c.priority[q] = k.priority[q]
  <2>1. PICK st \in States, tt \in Int : st = k.state[t] /\ tt = k.tq[t]
    BY DEF KRecord
  <2>2. c = Refit(k, t, st, tt, v)
    BY <1>2, <2>1 DEF Refit, KRecord
  <2>3. FitBut(k, t)
    BY DEF Leveled, FitBut
  <2> QED
    BY <2>1, <2>2, <2>3, RefitFits
<1>7. ASSUME t = caller \/ ~InQ(2) \/ Head(s) = t
      PROVE  Leveled(c)
  <2>1. \A i \in 2 .. Len(s) : s[i] # t
    <3> TAKE i \in 2 .. Len(s)
    <3>1. i \in DOMAIN s /\ 1 \in DOMAIN s /\ Head(s) = s[1] /\ i # 1
      BY <1>4
    <3>2. s[i] \in Range(s)
      BY <3>1 DEF Range
    <3>3. CASE t = caller \/ ~InQ(2)
      BY <1>4, <3>2, <3>3 DEF NotQueued
    <3>4. CASE Head(s) = t
      BY <1>4, <3>1, <3>4 DEF IsInjective
    <3> QED
      BY <1>7, <3>3, <3>4
  <2>2. \A i \in 2 .. Len(s) : c.priority[s[i]] = k.priority[s[i]]
    BY <1>4, <1>6, <2>1
  <2>3. Tailed(s, k.priority)
    BY DEF Leveled, Ordered
  <2>4. PICK l : l = s
    OBVIOUS
  <2>5. Tailed(l, c.priority)
    BY <2>2, <2>3, <2>4, OthersOrder
  <2>6. Fits(c, t)
    BY <1>6, FitsKept DEF Leveled, Follows
  <2> QED
    BY <1>6, <2>4, <2>5, <2>6 DEF Leveled, Ordered, FitBut
<1>8. ASSUME InQ(2), Head(s) # t
      PROVE  Leveled(Enqueue(r, t, 2))
  <2>1. PICK i \in 1 .. Len(s) : i = place /\ s[i] = t /\ i # 1
    <3>1. \E i \in DOMAIN s : s[i] = t
      BY <1>8 DEF Range
    <3>2. DOMAIN s = 1 .. Len(s) /\ place \in DOMAIN s /\ s[place] = t
      BY <1>4, <3>1
    <3>3. Head(s) = s[1]
      BY <1>4, <3>2
    <3> QED
      BY <1>8, <3>2, <3>3
  <2>2. PICK l \in Seq(Proc) : l = s /\ Len(l) = Len(s)
    BY <1>4
  <2>3. PICK u : u = RemoveAt(l, i)
    OBVIOUS
  <2>4. u \in Seq(Proc) /\ Range(u) = Range(s) \ {t}
    <3>1. i \in 1 .. Len(l) /\ IsInjective(l) /\ l[i] = t
      BY <1>4, <2>1, <2>2
    <3>2. RemoveAt(l, i) \in Seq(Proc) /\ Range(RemoveAt(l, i)) = Range(l) \ {l[i]}
      BY <3>1, RemovesAt
    <3> QED
      BY <2>2, <2>3, <3>1, <3>2
  <2>5. Tailed(u, k.priority)
    BY <2>1, <2>2, <2>3, RemoveOrders DEF Leveled, Ordered
  <2>6. \A j \in 2 .. Len(u) : c.priority[u[j]] = k.priority[u[j]]
    <3> TAKE j \in 2 .. Len(u)
    <3>1. j \in DOMAIN u /\ u[j] \in Proc
      BY <2>4
    <3>2. u[j] \in Range(u)
      BY <3>1 DEF Range
    <3> QED
      BY <1>6, <2>4, <3>1, <3>2
  <2>7. Tailed(u, c.priority)
    BY <2>5, <2>6, OthersOrder
  <2>8. r = Requeued(c, 2, u)
    BY <1>2, <1>3, <1>6, <2>1, <2>2, <2>3 DEF Requeued
  <2>9. /\ r \in KRecord /\ r.state = c.state /\ r.qlevel = c.qlevel /\ r.tq = c.tq
        /\ r.priority = c.priority /\ r.mlfq[2] = u
    BY <1>4, <1>6, <2>4, <2>8, RequeuedRecord
  <2>10. Ordered(r)
    BY <2>7, <2>9 DEF Ordered
  <2>11. FitBut(r, t)
    BY <1>6, <2>9 DEF FitBut, Fits
  <2>12. r.state[t] = "RUNNABLE" /\ r.tq[t] \in 1 .. 2 * 2 + Quantum0
    <3>1. Fits(k, t) /\ k.state[t] = "RUNNABLE" /\ k.qlevel[t] = 2 /\ 2 \in Levels
      BY <1>4, <1>8 DEF Leveled, Levels
    <3> QED
      BY <1>6, <2>9, <3>1 DEF Fits, Lives
  <2>13. PICK e : e = Enqueue(r, t, 2)
    OBVIOUS
  <2>14. Links(r, e, t, 2) /\ Ordered(e)
    BY <1>4, <2>9, <2>10, <2>13, EnqueueLinks, EnqueueOrders
  <2> QED
    BY <1>4, <2>9, <2>11, <2>12, <2>13, <2>14, LinksLevel
<1> QED
  BY <1>1, <1>5, <1>7, <1>8

(* The steps.                                                              *)
LEMMA BecomesLeveled ==
  ASSUME NEW e \in KRecord, Become(e), Leveled(e)
  PROVE  Leveled(K')
BY Becomes

LEMMA StateLevels ==
  ASSUME Leveled(K), UNCHANGED <<mlfq, qlevel, tq, priority>>,
         \A q \in Proc : Follows(state[q], state'[q])
  PROVE  Leveled(K')
<1>1. PICK k, e : k = K /\ e = K'
  OBVIOUS
<1>2. /\ e.mlfq = k.mlfq /\ e.qlevel = k.qlevel /\ e.tq = k.tq /\ e.priority = k.priority
      /\ k.state = state /\ e.state = state'
  BY <1>1 DEF K
<1>3. ASSUME NEW q \in Proc PROVE Fits(e, q)
  BY <1>1, <1>2, FitsKept DEF Leveled
<1>4. Ordered(e)
  BY <1>1, <1>2 DEF Leveled, Ordered
<1> QED
  BY <1>1, <1>3, <1>4 DEF Leveled

LEMMA DispatchLevels ==
  ASSUME MlfqInv, Leveled(K), SchedulerDispatch
  PROVE  Leveled(K')
<1>1. PICK x : x = cpu' /\ x \in Proc /\ state[x] = "RUNNABLE"
  BY Dispatches
<1>2. PICK lev \in LevelsAndBefore : lev = level
  BY LevelsAre DEF MlfqInv, OtherTypes
<1>3. /\ mlfq' = [mlfq EXCEPT ![lev] = Tail(@)] /\ state' = [state EXCEPT ![x] = "RUNNING"]
      /\ UNCHANGED <<qlevel, tq, priority>> /\ mlfq[lev] # <<>>
  BY <1>1, <1>2 DEF SchedulerDispatch, Become, Dequeue, K
<1>4. PICK k, e : k = K /\ e = K'
  OBVIOUS
<1>5. /\ e.mlfq = [k.mlfq EXCEPT ![lev] = Tail(@)] /\ k.mlfq[lev] # <<>>
      /\ e.qlevel = k.qlevel /\ e.tq = k.tq /\ e.priority = k.priority
      /\ k.state = state /\ e.state = state'
  BY <1>3, <1>4 DEF K
<1>6. k \in KRecord /\ Leveled(k) /\ 2 \in LevelsAndBefore
  BY <1>4, LevelsAre DEF MlfqInv
<1>7. Ordered(e)
  <2>1. PICK s \in Seq(Proc) : s = k.mlfq[2]
    BY <1>6 DEF KRecord
  <2>2. Tailed(s, k.priority)
    BY <1>6, <2>1 DEF Leveled, Ordered
  <2>3. CASE lev = 2
    <3>1. e.mlfq[2] = Tail(s) /\ s # <<>>
      BY <1>5, <1>6, <2>1, <2>3 DEF KRecord
    <3>2. Tailed(Tail(s), k.priority)
      BY <2>2, <3>1, TailOrders
    <3> QED
      BY <1>5, <3>1, <3>2 DEF Ordered
  <2>4. CASE lev # 2
    <3>1. e.mlfq[2] = s
      BY <1>5, <1>6, <2>1, <2>4 DEF KRecord
    <3> QED
      BY <1>5, <2>2, <3>1 DEF Ordered
  <2> QED
    BY <2>3, <2>4
<1>8. ASSUME NEW q \in Proc PROVE Fits(e, q)
  <2>1. Follows(k.state[q], e.state[q])
    BY <1>1, <1>3, <1>5, <1>6 DEF Follows, Lives, KRecord
  <2> QED
    BY <1>5, <1>6, <2>1, FitsKept DEF Leveled
<1> QED
  BY <1>4, <1>7, <1>8 DEF Leveled

LEMMA TickLevels ==
  ASSUME MlfqInv, ~LongLocks, TimerAllowed, Leveled(K)
  PROVE  Tick.k \in KRecord /\ Leveled(Tick.k)
<1> DEFINE boost == ticks + 1 = BoostTicks
           boosted == IF boost THEN Prboost(K, cpu) ELSE K
<1>1. Tick.k = Wakeup1(boosted, On(TicksChan))
  BY DEF Tick
<1>2. K \in KRecord /\ QInv(K) /\ cpu \in Proc \cup {NoProc}
  BY DEF MlfqInv, OtherTypes
<1>3. PICK b : b = boosted
  OBVIOUS
<1>4. b \in KRecord /\ QInv(b) /\ Leveled(b)
  <2>1. CASE boost
    <3>1. ~K.schedlock
      BY <2>1, Fields DEF TimerAllowed
    <3>2. cpu \in Proc => K.state[cpu] = "RUNNING"
      BY Fields DEF MlfqInv, RunInv, Proc, NoProc
    <3>3. Boosted(K, cpu, Prboost(K, cpu))
      BY <1>2, <3>1, <3>2, PrboostBoosts
    <3>4. Boosted(K, cpu, b)
      BY <1>3, <2>1, <3>3
    <3>5. Leveled(b)
      BY <1>2, <3>2, <3>4, BoostLevels
    <3> QED
      BY <3>4, <3>5 DEF Boosted
  <2>2. CASE ~boost
    BY <1>2, <1>3, <2>2
  <2> QED
    BY <2>1, <2>2
<1>5. Leveled(Wakeup1(b, On(TicksChan)))
  BY <1>4, WakeupLevels
<1>6. Tick.k \in KRecord
  BY Ticks DEF Ticked
<1> QED
  BY <1>1, <1>3, <1>5, <1>6

(* Who is on the CPU is in no queue, and has some quantum left.            *)
LEMMA TimerYieldLevels ==
  ASSUME MlfqInv, ~LongLocks, TimerAllowed, cpu # NoProc, Leveled(K),
         Become(YieldEnqueue([Tick.k EXCEPT !.tq[cpu] = @ - 1], cpu))
  PROVE  Leveled(K')
<1>1. PICK p \in Proc : p = cpu
  BY DEF MlfqInv, OtherTypes
<1>2. PICK w : w = Tick.k
  OBVIOUS
<1>3. w \in KRecord /\ Leveled(w) /\ Ticked(w)
  BY <1>2, Ticks, TickLevels
<1>4. w.state[p] = "RUNNING" /\ QInv(w)
  BY <1>1, <1>3 DEF Ticked, MlfqInv, RunInv
<1>5. NotQueued(w, p)
  BY <1>3, <1>4, IdleNotQueued
<1>6. PICK t \in Int, st \in States, v \in Int : t = w.tq[p] - 1 /\ st = w.state[p] /\ v = w.priority[p]
  BY <1>3 DEF KRecord
<1>7. PICK y : y = Refit(w, p, st, t, v)
  OBVIOUS
<1>8. y = [w EXCEPT !.tq[p] = @ - 1]
  BY <1>3, <1>6, <1>7 DEF Refit, KRecord
<1>9. Ordered(w) /\ FitBut(w, p)
  BY <1>3 DEF Leveled, FitBut
<1>10. /\ y \in KRecord /\ y.mlfq = w.mlfq /\ y.qlevel = w.qlevel /\ y.tq[p] = t
       /\ y.state[p] = "RUNNING" /\ Ordered(y) /\ FitBut(y, p)
  BY <1>3, <1>4, <1>5, <1>6, <1>7, <1>9, RefitFits
<1>11. NotQueued(y, p)
  BY <1>5, <1>10 DEF NotQueued
<1>12. y.qlevel[p] \in Levels => y.tq[p] <= 2 * y.qlevel[p] + Quantum0
  <2>1. Fits(w, p) /\ Quantum0 \in Nat /\ \A l \in Levels : l \in 0 .. 2
    BY <1>3, SizesAssumption DEF Leveled, SizesAssumption, Levels
  <2> QED
    BY <1>4, <1>6, <1>10, <2>1 DEF Fits, Lives
<1>13. PICK e : e = YieldEnqueue(y, p)
  OBVIOUS
<1>14. Leveled(e)
  BY <1>10, <1>11, <1>12, <1>13, YieldLevels
<1>15. e \in KRecord
  <2>1. QInv(y)
    <3>1. y = Quantumed(w, p, t)
      BY <1>6, <1>8 DEF Quantumed
    <3>2. Alters(w, y, p)
      BY <1>3, <3>1, QuantumedAlters
    <3> QED
      BY <1>3, <1>4, <1>5, <3>2, AltersKeep
  <2> QED
    BY <1>10, <1>11, <1>13, <2>1, YieldEnqueueYields DEF Yielded
<1>16. Become(e)
  BY <1>1, <1>2, <1>8, <1>13
<1> QED
  BY <1>14, <1>15, <1>16, BecomesLeveled

(* exit(): the parent and init are woken, the process leaves.              *)
LEMMA LeavingLevels ==
  ASSUME NEW k \in KRecord, NEW p \in Proc, Leveled(k), NEW v \in States, Follows(k.state[p], v),
         NEW e, e = Leaving(k, p, v)
  PROVE  e \in KRecord /\ Leveled(e)
<1> DEFINE ss == [k.state EXCEPT ![p] = v]
<1>1. ss \in [Proc -> States] /\ ss[p] = v /\ \A q \in Proc \ {p} : ss[q] = k.state[q]
  BY DEF KRecord
<1>2. e = [k EXCEPT !.state = ss, !.schedlock = FALSE]
  BY DEF KRecord, Leaving
<1> HIDE DEF ss
<1>3. /\ e \in KRecord /\ e.mlfq = k.mlfq /\ e.qlevel = k.qlevel /\ e.tq = k.tq
      /\ e.priority = k.priority /\ e.state = ss
  BY <1>1, <1>2 DEF KRecord
<1>4. ASSUME NEW q \in Proc PROVE Fits(e, q)
  <2>1. Follows(k.state[q], e.state[q])
    BY <1>1, <1>3 DEF Follows
  <2> QED
    BY <1>3, <2>1, FitsKept DEF Leveled
<1>5. Ordered(e)
  BY <1>3 DEF Leveled, Ordered
<1> QED
  BY <1>3, <1>4, <1>5 DEF Leveled

LEMMA ExitLevels ==
  ASSUME MlfqInv, Leveled(K), NEW p \in Proc, Exit(p)
  PROVE  Leveled(K')
<1> DEFINE zombieChild == \E c \in Children(p) : state[c] = "ZOMBIE"
           k1 == Wakeup1(K, On(parent[p]))
           k2 == IF zombieChild THEN Wakeup1(k1, On(initproc)) ELSE k1
<1>1. PICK a : a = k1
  OBVIOUS
<1>2. a \in KRecord /\ QInv(a) /\ Leveled(a)
  <2>1. K \in KRecord /\ QInv(K)
    BY DEF MlfqInv
  <2>2. Awakens(K, a)
    BY <1>1, <2>1, Wakeup1Awakens
  <2>3. Leveled(a)
    BY <1>1, <2>1, WakeupLevels
  <2> QED
    BY <2>2, <2>3 DEF Awakens
<1>3. PICK b : b = Wakeup1(a, On(initproc))
  OBVIOUS
<1>4. b \in KRecord /\ Leveled(b)
  <2>1. Awakens(a, b)
    BY <1>2, <1>3, Wakeup1Awakens
  <2>2. Leveled(b)
    BY <1>2, <1>3, WakeupLevels
  <2> QED
    BY <2>1, <2>2 DEF Awakens
<1>5. PICK k : k = k2
  OBVIOUS
<1>6. k = a \/ k = b
  BY <1>1, <1>3, <1>5
<1>7. PICK e : e = Leaving(k, p, "ZOMBIE")
  OBVIOUS
<1>8. Become(e)
  BY <1>5, <1>7 DEF Exit, Leaving
<1>9. PICK v \in States : v = "ZOMBIE"
  BY DEF States
<1>10. k \in KRecord /\ Leveled(k) /\ Follows(k.state[p], v) /\ e = Leaving(k, p, v)
  BY <1>2, <1>4, <1>6, <1>7, <1>9 DEF Follows
<1>11. e \in KRecord /\ Leveled(e)
  BY <1>10, LeavingLevels
<1> QED
  BY <1>8, <1>11, BecomesLeveled

(* fork(): the child starts with the quantum of L0.                        *)
LEMMA ForkAllocLevels ==
  ASSUME MlfqInv, Leveled(K), NEW p \in Proc, ForkAlloc(p)
  PROVE  Leveled(K')
<1>1. FirstUnused \in Proc /\ state[FirstUnused] = "UNUSED"
  BY Forks
<1>2. PICK f \in Proc : f = FirstUnused
  BY <1>1
<1>3. PICK k \in KRecord : k = K /\ QInv(k)
  BY DEF MlfqInv
<1>4. PICK s \in States, t \in Int, v \in Int : s = "EMBRYO" /\ t = Quantum0 /\ v = Priority0
  BY SizesAssumption DEF SizesAssumption, States
<1>5. PICK e : e = Refit(k, f, s, t, v)
  OBVIOUS
<1>6. Become(e)
  BY <1>2, <1>3, <1>4, <1>5 DEF ForkAlloc, Refit
<1>7. k.state[f] = "UNUSED"
  BY <1>1, <1>2, <1>3, Fields
<1>8. NotQueued(k, f) /\ Ordered(k) /\ FitBut(k, f)
  <2>1. NotQueued(k, f)
    BY <1>3, <1>7, IdleNotQueued
  <2> QED
    BY <1>3, <2>1 DEF Leveled, FitBut
<1>9. e \in KRecord /\ e.state[f] = s /\ e.tq[f] = t /\ Ordered(e) /\ FitBut(e, f)
  BY <1>5, <1>8, RefitFits
<1>10. Fits(e, f)
  BY <1>4, <1>9 DEF Fits, Lives
<1>11. Leveled(e)
  BY <1>9, <1>10 DEF Leveled, FitBut
<1> QED
  BY <1>6, <1>9, <1>11, BecomesLeveled

LEMMA ForkDoneLevels ==
  ASSUME MlfqInv, Leveled(K), NEW p \in Proc, ForkDone(p)
  PROVE  Leveled(K')
<1>1. PICK c \in Proc : c = np[p] /\ state[c] = "EMBRYO"
  BY DEF ForkDone, At, MlfqInv, ForkInv
<1>2. PICK k \in KRecord : k = K /\ QInv(k)
  BY DEF MlfqInv
<1>3. PICK t \in Int, v \in Int : t = k.tq[c] /\ v = k.priority[c]
  BY DEF KRecord
<1>4. PICK s \in States : s = "RUNNABLE"
  BY DEF States
<1>5. PICK r : r = Refit(k, c, s, t, v)
  OBVIOUS
<1>6. r = [k EXCEPT !.state[c] = "RUNNABLE"]
  BY <1>3, <1>4, <1>5 DEF Refit, KRecord
<1>7. PICK e : e = Enqueue(r, c, 0)
  OBVIOUS
<1>8. Become(e)
  BY <1>1, <1>2, <1>6, <1>7 DEF ForkDone
<1>9. k.state[c] = "EMBRYO"
  BY <1>1, <1>2, Fields
<1>10. NotQueued(k, c)
  BY <1>2, <1>9, IdleNotQueued
<1>11. Ordered(k) /\ FitBut(k, c) /\ t = Quantum0
  BY <1>2, <1>3, <1>9 DEF Leveled, FitBut, Fits
<1>12. PICK lev \in LevelsAndBefore : lev = 0
  BY LevelsAre
<1>13. lev \in Levels => t \in 1 .. 2 * lev + Quantum0
  BY <1>11, <1>12, SizesAssumption DEF SizesAssumption
<1>14. Leveled(e)
  BY <1>4, <1>5, <1>7, <1>10, <1>11, <1>12, <1>13, LinkedLevels
<1>15. e \in KRecord
  <2>1. r \in KRecord
    BY <1>5, RefitFits
  <2> QED
    BY <1>7, <1>12, <2>1, EnqueueLinks DEF Links
<1> QED
  BY <1>8, <1>14, <1>15, BecomesLeveled

(* unlockScheduler(): to the head of L0, with its quantum.                 *)
LEMMA UnlockLevels ==
  ASSUME MlfqInv, Leveled(K), NEW p \in Proc, SchedulerUnlock(p)
  PROVE  Leveled(K')
<1>1. PICK k \in KRecord : k = K /\ QInv(k)
  BY DEF MlfqInv
<1>2. PICK l : l = WithLock(k, FALSE)
  OBVIOUS
<1>3. /\ l \in KRecord /\ l.mlfq = k.mlfq /\ l.qlevel = k.qlevel /\ l.state = k.state
      /\ l.tq = k.tq /\ l.priority = k.priority
  BY <1>2 DEF WithLock, KRecord
<1>4. PICK s \in States, t \in Int, v \in Int : s = "RUNNABLE" /\ t = Quantum0 /\ v = Priority0
  BY SizesAssumption DEF SizesAssumption, States
<1>5. PICK r : r = Refit(l, p, s, t, v)
  OBVIOUS
<1>6. r = Unlocking(k, p)
  BY <1>2, <1>4, <1>5 DEF Unlocking, Refit, WithLock, KRecord
<1>7. PICK e : e = Movefront(r, p)
  OBVIOUS
<1>8. Become(e)
  BY <1>1, <1>6, <1>7 DEF SchedulerUnlock, Unlocking
<1>9. k.state[p] = "RUNNING"
  BY <1>1, Fields DEF SchedulerUnlock, At, MlfqInv, RunInv, Proc, NoProc
<1>10. NotQueued(k, p)
  BY <1>1, <1>9, IdleNotQueued
<1>11. NotQueued(l, p) /\ Ordered(l)
  BY <1>1, <1>3, <1>10 DEF NotQueued, Leveled, Ordered
<1>12. FitBut(l, p)
  BY <1>1, <1>3 DEF Leveled, FitBut, Fits
<1>13. r \in KRecord /\ r.state[p] = s /\ r.tq[p] = t /\ Ordered(r) /\ FitBut(r, p)
  <2>1. l \in KRecord
    BY <1>3
  <2>2. /\ r \in KRecord /\ r.state[p] = s /\ r.tq[p] = t
        /\ Ordered(l) /\ NotQueued(l, p) => Ordered(r)
        /\ FitBut(l, p) => FitBut(r, p)
    BY <1>5, <2>1, RefitFits
  <2> QED
    BY <1>11, <1>12, <2>2
<1>14. Links(r, e, p, 0)
  BY <1>7, <1>13, MovefrontLinks
<1>15. Ordered(e)
  <2>1. e.mlfq[2] = r.mlfq[2] /\ e.priority = r.priority
    BY <1>14, LevelsAre DEF Links
  <2> QED
    BY <1>13, <2>1 DEF Ordered
<1>16. PICK lev \in LevelsAndBefore : lev = 0
  BY LevelsAre
<1>17. lev \in Levels => r.tq[p] \in 1 .. 2 * lev + Quantum0
  BY <1>4, <1>13, <1>16, SizesAssumption DEF SizesAssumption
<1>18. Leveled(e)
  BY <1>4, <1>13, <1>14, <1>15, <1>16, <1>17, LinksLevel
<1> QED
  BY <1>8, <1>14, <1>18, BecomesLeveled DEF Links

LEMMA SysYieldLevels ==
  ASSUME MlfqInv, Leveled(K), NEW p \in Proc, SysYield(p)
  PROVE  Leveled(K')
<1>1. PICK k \in KRecord : k = K /\ QInv(k)
  BY DEF MlfqInv
<1>2. PICK e : e = YieldEnqueue(k, p)
  OBVIOUS
<1>3. k.state[p] = "RUNNING"
  BY <1>1, Fields DEF SysYield, At, MlfqInv, RunInv, Proc, NoProc
<1>4. NotQueued(k, p)
  BY <1>1, <1>3, IdleNotQueued
<1>5. Ordered(k) /\ FitBut(k, p) /\ Fits(k, p)
  BY <1>1 DEF Leveled, FitBut
<1>6. k.qlevel[p] \in Levels => k.tq[p] <= 2 * k.qlevel[p] + Quantum0
  BY <1>3, <1>5 DEF Fits, Lives
<1>7. Leveled(e)
  BY <1>2, <1>4, <1>5, <1>6, YieldLevels
<1>8. e \in KRecord
  BY <1>1, <1>2, <1>4, YieldEnqueueYields DEF Yielded
<1> QED
  BY <1>1, <1>2, <1>7, <1>8, BecomesLeveled DEF SysYield

LEMMA SysSetPriorityLevels ==
  ASSUME MlfqInv, Leveled(K), NEW p \in Proc, SysSetPriority(p)
  PROVE  Leveled(K')
<1>1. PICK t \in Proc, v \in Int : Become(SetPriority(K, p, t, v))
  BY WorkloadAssumption DEF SysSetPriority, WorkloadAssumption
<1>2. PICK k \in KRecord : k = K /\ QInv(k)
  BY DEF MlfqInv
<1>3. PICK e : e = SetPriority(k, p, t, v)
  OBVIOUS
<1>4. k.state[p] = "RUNNING"
  BY <1>2, Fields DEF SysSetPriority, At, MlfqInv, RunInv, Proc, NoProc
<1>5. NotQueued(k, p)
  BY <1>2, <1>4, IdleNotQueued
<1>6. Leveled(e)
  BY <1>2, <1>3, <1>5, SetPriorityLevels
<1>7. e \in KRecord
  BY <1>2, <1>3, SetPriorityKeeps DEF Reprioritized
<1> QED
  BY <1>1, <1>2, <1>3, <1>6, <1>7, BecomesLeveled

LEMMA IoLevels ==
  ASSUME MlfqInv, Leveled(K), IoInterrupt
  PROVE  Leveled(K')
<1>1. PICK k \in KRecord : k = K /\ QInv(k)
  BY DEF MlfqInv
<1>2. PICK e : e = Wakeup1(k, On(IoChan))
  OBVIOUS
<1>3. Leveled(e)
  BY <1>1, <1>2, WakeupLevels
<1>4. e \in KRecord
  BY <1>1, <1>2, Wakeup1Awakens DEF Awakens
<1> QED
  BY <1>1, <1>2, <1>3, <1>4, BecomesLeveled DEF IoInterrupt

LEMMA StateStepLevels ==
  ASSUME MlfqInv, Leveled(K), NEW p \in Proc, NEW v \in States, Follows(state[p], v),
         \/ Become([K EXCEPT !.state[p] = v])
         \/ Become([K EXCEPT !.state[p] = v, !.schedlock = FALSE])
  PROVE  Leveled(K')
<1>1. PICK k \in KRecord : k = K
  BY DEF MlfqInv
<1>2. UNCHANGED <<mlfq, qlevel, tq, priority>> /\ state' = [state EXCEPT ![p] = v]
  BY DEF Become, K
<1>3. state \in [Proc -> States]
  BY <1>1, Fields DEF KRecord
<1>4. \A q \in Proc : Follows(state[q], state'[q])
  BY <1>2, <1>3 DEF Follows
<1> QED
  BY <1>2, <1>4, StateLevels

(* sched() to sleep, a slot given back, kill().                            *)
LEMMA StateOnlyLevels ==
  ASSUME MlfqInv, Leveled(K), NEW p \in Proc,
         \/ \E ch : cpu = p /\ Sleep(K, p, ch)
         \/ Become([K EXCEPT !.state[p] = "UNUSED"])
         \/ KillProcess(p)
  PROVE  Leveled(K')
<1>1. state \in [Proc -> States]
  BY Fields DEF MlfqInv, KRecord
<1>2. CASE \E ch : cpu = p /\ Sleep(K, p, ch)
  <2>1. state[p] = "RUNNING"
    BY <1>2 DEF MlfqInv, RunInv, Proc, NoProc
  <2>2. PICK v \in States : v = "SLEEPING"
    BY DEF States
  <2>3. Follows(state[p], v)
    BY <2>1, <2>2 DEF Follows, Lives
  <2> QED
    BY <1>2, <2>2, <2>3, StateStepLevels DEF Sleep
<1>3. CASE Become([K EXCEPT !.state[p] = "UNUSED"])
  <2>1. PICK v \in States : v = "UNUSED"
    BY DEF States
  <2>2. Follows(state[p], v)
    BY <2>1 DEF Follows
  <2>3. Become([K EXCEPT !.state[p] = v])
    BY <1>3, <2>1
  <2> QED
    BY <2>2, <2>3, StateStepLevels
<1>4. CASE KillProcess(p)
  <2>1. PICK v \in States : v = IF state[p] = "SLEEPING" THEN "RUNNABLE" ELSE state[p]
    BY <1>1 DEF States
  <2>2. Follows(state[p], v)
    BY <2>1 DEF Follows, Lives
  <2>3. PICK k : k = K
    OBVIOUS
  <2>4. k.state = state
    BY <2>3, Fields
  <2>5. KillState(k, p) = [k EXCEPT !.state[p] = v, !.schedlock = FALSE]
    BY <2>1, <2>3, <2>4 DEF K, KillState
  <2>6. Become([K EXCEPT !.state[p] = v, !.schedlock = FALSE])
    BY <1>4, <2>3, <2>5 DEF KillProcess
  <2> QED
    BY <2>2, <2>6, StateStepLevels
<1> QED
  BY <1>2, <1>3, <1>4

LEMMA LevelsNext ==
  ASSUME MlfqInv, ~LongLocks, Leveled(K), [Next]_vars
  PROVE  Leveled(K')
<1>1. CASE SchedulerDispatch
  BY <1>1, DispatchLevels
<1>2. CASE SchedulerNextLevel \/ UNCHANGED vars
  <2>1. K' = K
    BY <1>2, Stays DEF SchedulerNextLevel, vars
  <2> QED
    BY <2>1
<1>3. CASE TimerIdle \/ TimerKills
  <2>1. TimerAllowed /\ Become(Tick.k)
    BY <1>3 DEF TimerIdle, TimerKills
  <2> QED
    BY <2>1, TickLevels, BecomesLeveled
<1>4. CASE TimerRunning
  <2>1. cpu # NoProc /\ TimerAllowed
    BY <1>4 DEF TimerRunning
  <2>2. CASE Tick.k.schedlock
    BY <1>4, <2>1, <2>2, TickLevels, BecomesLeveled DEF TimerRunning
  <2>3. CASE ~Tick.k.schedlock
    BY <1>4, <2>1, <2>3, TimerYieldLevels DEF TimerRunning
  <2> QED
    BY <2>2, <2>3
<1>5. CASE IoInterrupt
  BY <1>5, IoLevels
<1>6. ASSUME NEW p \in Proc, Process(p)
      PROVE  Leveled(K')
  <2>1. CASE \/ Syscall(p) \/ SyscallReturn(p) \/ ReturnToUser(p) \/ ForkNoSlot(p) \/ WaitGivesUp(p)
             \/ KillNotFound(p) \/ SchedulerLockTest(p) \/ SchedulerUnlockTest(p) \/ IoDone(p)
    <3>1. UNCHANGED kvars
      BY <2>1 DEF Syscall, SyscallReturn, ReturnToUser, ForkNoSlot, WaitGivesUp, KillNotFound,
                  SchedulerLockTest, SchedulerUnlockTest, IoDone
    <3>2. K' = K
      BY <3>1, Stays
    <3> QED
      BY <3>2
  <2>2. CASE ForkAlloc(p) \/ ForkDone(p)
    BY <2>2, ForkAllocLevels, ForkDoneLevels
  <2>3. CASE ForkNoMemory(p)
    <3>1. PICK c \in Proc : c = np[p]
      BY <2>3 DEF ForkNoMemory, At, MlfqInv, ForkInv
    <3> QED
      BY <2>3, <3>1, StateOnlyLevels DEF ForkNoMemory
  <2>4. CASE ExitSleeps(p) \/ WaitSleeps(p) \/ IoSleeps(p)
    <3>1. \E ch : cpu = p /\ Sleep(K, p, ch)
      BY <2>4 DEF ExitSleeps, WaitSleeps, IoSleeps, At
    <3> QED
      BY <3>1, StateOnlyLevels
  <2>5. CASE SysSleep(p) \/ SysSleepAgain(p)
    <3>1. PICK s : cpu = p /\ SleepLoop(p, s)
      BY <2>5 DEF SysSleep, SysSleepAgain, At
    <3>2. CASE UNCHANGED kvars
      <4>1. K' = K
        BY <3>2, Stays
      <4> QED
        BY <4>1
    <3>3. CASE Sleep(K, p, TicksChan)
      BY <3>1, <3>3, StateOnlyLevels
    <3> QED
      BY <3>1, <3>2, <3>3 DEF SleepLoop
  <2>6. CASE Exit(p)
    BY <2>6, ExitLevels
  <2>7. CASE WaitReaps(p)
    <3>1. PICK c \in Proc : Become([K EXCEPT !.state[c] = "UNUSED"])
      BY <2>7, Reaps
    <3> QED
      BY <3>1, StateOnlyLevels
  <2>8. CASE Kill(p) \/ WrongPassword(p)
    <3>1. PICK t \in Proc : KillProcess(t)
      BY <2>8, KillTargetsIn DEF Kill, WrongPassword
    <3> QED
      BY <3>1, StateOnlyLevels
  <2>9. CASE SysYield(p) \/ SchedulerUnlock(p) \/ SysSetPriority(p)
    BY <2>9, SysYieldLevels, UnlockLevels, SysSetPriorityLevels
  <2>10. CASE SchedulerLock(p)
    <3>1. UNCHANGED <<mlfq, qlevel, tq, priority, state>>
      BY <2>10 DEF SchedulerLock, Become, K
    <3>2. \A q \in Proc : Follows(state[q], state'[q])
      BY <3>1 DEF Follows
    <3> QED
      BY <3>1, <3>2, StateLevels
  <2> QED
    BY <1>6, <2>1, <2>2, <2>3, <2>4, <2>5, <2>6, <2>7, <2>8, <2>9, <2>10 DEF Process
<1> QED
  BY <1>1, <1>2, <1>3, <1>4, <1>5, <1>6 DEF Next

(* proc.c, yield(), prboost(), setPriority() and unlockScheduler(): a      *)
(* process off the CPU has some of the quantum its level grants and never  *)
(* more, and behind its head L2 is in priority order, whatever the other   *)
(* processes do.                                                           *)
THEOREM LevelsStay ==
  ASSUME ~LongLocks
  PROVE  Spec => []LevelsKept
<1> DEFINE Inv == MlfqInv /\ Leveled(K)
<1>1. Init => Inv
  <2> SUFFICES ASSUME Init PROVE Leveled(K)
    BY InitHolds
  <2>1. /\ mlfq = [lev \in LevelsAndBefore |-> IF lev = 0 THEN <<initproc>> ELSE <<>>]
        /\ state = [p \in Proc |-> IF p = initproc THEN "RUNNABLE" ELSE "UNUSED"]
        /\ qlevel = [p \in Proc |-> 0]
        /\ tq = [p \in Proc |-> IF p = initproc THEN Quantum0 ELSE 0]
    BY DEF Init
  <2>2. Quantum0 \in Nat \ {0} /\ 2 \in LevelsAndBefore
    BY SizesAssumption, LevelsAre DEF SizesAssumption
  <2>3. ASSUME NEW q \in Proc PROVE Fits(K, q)
    BY <2>1, <2>2, Fields DEF Fits, Lives
  <2>4. Ordered(K)
    <3>1. K.mlfq[2] = <<>>
      BY <2>1, <2>2, Fields
    <3>2. \A s, prio : Len(s) = 0 => Tailed(s, prio)
      BY DEF Tailed
    <3> QED
      BY <3>1, <3>2 DEF Ordered
  <2> QED
    BY <2>3, <2>4 DEF Leveled
<1>2. Inv /\ [Next]_vars => Inv'
  BY NextKeeps, LevelsNext
<1>3. Inv => LevelsKept
  <2> SUFFICES ASSUME MlfqInv, Leveled(K) PROVE LevelsKept
    OBVIOUS
  <2>1. QuantumBound
    BY SlotsAre, Fields DEF Leveled, Fits, Lives, QuantumBound
  <2>2. L2TailSorted
    BY Fields DEF Leveled, Ordered, Tailed, L2TailSorted
  <2> QED
    BY <2>1, <2>2 DEF LevelsKept
<1> HIDE DEF Inv
<1> QED
  BY <1>1, <1>2, <1>3, PTL DEF Spec
=============================================================================
