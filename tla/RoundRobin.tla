----------------------------- MODULE RoundRobin -----------------------------
(***************************************************************************)
(* Processes on several CPUs in project03/xv6-public: proc.c's scheduler,  *)
(* fork, exit, wait, sleep and kill, sys_sleep() and the timer, over the   *)
(* spinlocks of spinlock.c.                                                *)
(*                                                                         *)
(* A CPU runs a thread: a process p, or its scheduler 0 - c.  A thread has *)
(*   at     where it is, a record: at "acquire" or "release" of the lock   *)
(*          lk it goes on at next                                          *)
(*   irq    the place a timer interrupt put aside, or "none"               *)
(*   arg    a process, or an index of the table                            *)
(*   intena the local of sched()                                           *)
(* Taking a lock, the section under it and giving it back are a step each, *)
(* between which other CPUs and, with interrupts on, the timer take part.  *)
(***************************************************************************)
EXTENDS Integers, FiniteSets, FiniteSetsExt

CONSTANTS RrProcs, RrCpus, RrSleep   \* numbers, and the ticks to sleep for

ASSUME RrAssumption ==
  /\ RrProcs \in Nat \ {0} /\ RrCpus \in Nat \ {0} /\ RrSleep \in Nat

VARIABLES
  rproc,    \* ptable: state, parent, chan, killed, pid (has one)
  rcpu,     \* proc, ncli, intena, iflag of each CPU
  rlock,    \* who holds ptable.lock and tickslock; 0 is nobody
  rthread,  \* the threads
  rleft,    \* n - (ticks - ticks0) of the processes in sys_sleep()
  rpanic

rrvars == <<rproc, rcpu, rlock, rthread, rleft, rpanic>>

RrProc == 1 .. RrProcs
RrCpu == 1 .. RrCpus
RrThread == RrProc \cup {0 - c : c \in RrCpu}
RrInit == 1
RrNobody == 0
RrTicks == 0 - 1    \* channels: &ticks, and a process for wait()
NoChan == 0


Place(pc) == [pc |-> pc]
Acquire(lk, next) == [pc |-> "acquire", lk |-> lk, next |-> next]
Release(lk, next) == [pc |-> "release", lk |-> lk, next |-> next]

(* userinit() has run, and every CPU enters scheduler().                   *)
RoundRobinInit ==
  /\ rproc = [p \in RrProc |->
                [state |-> IF p = RrInit THEN "RUNNABLE" ELSE "UNUSED", parent |-> 0,
                 chan |-> NoChan, killed |-> FALSE, pid |-> p = RrInit]]
  /\ rcpu = [c \in RrCpu |-> [proc |-> 0, ncli |-> 0, intena |-> FALSE, iflag |-> FALSE]]
  /\ rlock = [l \in {"ptable", "tickslock"} |-> RrNobody]
  /\ rthread = [t \in RrThread |->
                  [at |-> Place(IF t = RrInit THEN "forkret" ELSE "sti"),
                   irq |-> Place("none"), arg |-> 1, intena |-> FALSE]]
  /\ rleft = [p \in RrProc |-> 0]
  /\ rpanic = FALSE

On(c) == IF rcpu[c].proc = 0 THEN 0 - c ELSE rcpu[c].proc
RrAt(c, pc) == ~rpanic /\ rthread[On(c)].at.pc = pc
RrGo(c, at) == rthread' = [rthread EXCEPT ![On(c)].at = at]

-----------------------------------------------------------------------------
(* spinlock.c.  Mutant: acquire() leaves interrupts on.                    *)

PushcliOpen(cpu) ==
  [cpu EXCEPT !.ncli = @ + 1, !.intena = IF cpu.ncli = 0 THEN cpu.iflag ELSE @]
Pushcli(cpu) ==
  [cpu EXCEPT !.iflag = FALSE, !.ncli = @ + 1,
              !.intena = IF cpu.ncli = 0 THEN cpu.iflag ELSE @]
Popcli(cpu) == [cpu EXCEPT !.ncli = @ - 1, !.iflag = cpu.ncli = 1 /\ cpu.intena]

AcquireStep(c) ==
  LET at == rthread[On(c)].at
  IN  /\ RrAt(c, "acquire")
      /\ \/ /\ rlock[at.lk] = RrNobody
            /\ rlock' = [rlock EXCEPT ![at.lk] = c]
            /\ rcpu' = [rcpu EXCEPT ![c] = Pushcli(@)]
            /\ RrGo(c, at.next) /\ UNCHANGED rpanic
         \/ /\ rlock[at.lk] = c
            /\ rpanic' = TRUE /\ UNCHANGED <<rlock, rcpu, rthread>>
      /\ UNCHANGED <<rproc, rleft>>

ReleaseStep(c) ==
  LET at == rthread[On(c)].at
  IN  /\ RrAt(c, "release")
      /\ rpanic' = (rlock[at.lk] # c \/ rcpu[c].iflag \/ rcpu[c].ncli < 1)
      /\ rlock' = [rlock EXCEPT ![at.lk] = RrNobody]
      /\ rcpu' = [rcpu EXCEPT ![c] = Popcli(@)]
      /\ RrGo(c, at.next)
      /\ UNCHANGED <<rproc, rleft>>

-----------------------------------------------------------------------------
(* scheduler() and sched().                                                *)

SchedulerLoop(c) ==
  /\ RrAt(c, "sti")
  /\ rcpu' = [rcpu EXCEPT ![c].iflag = TRUE]
  /\ RrGo(c, Acquire("ptable", Place("scan")))
  /\ UNCHANGED <<rproc, rlock, rleft, rpanic>>

(* swtch() to the next RUNNABLE process of the table.  There sched() puts  *)
(* its intena back, which forkret() does not.                              *)
RunnableFrom(i) == {p \in RrProc : p >= i /\ rproc[p].state = "RUNNABLE"}
IntenaOf(c, p) == IF rthread[p].at.pc = "forkret" THEN rcpu[c].intena ELSE rthread[p].intena

SchedulerRuns(c) ==
  LET next == RunnableFrom(rthread[0 - c].arg)
      p == Min(next)
  IN  /\ RrAt(c, "scan") /\ next # {}
      /\ rproc' = [rproc EXCEPT ![p].state = "RUNNING"]
      /\ rcpu' = [rcpu EXCEPT ![c].proc = p, ![c].intena = IntenaOf(c, p)]
      /\ rthread' = [rthread EXCEPT ![0 - c].arg = p + 1]
      /\ UNCHANGED <<rlock, rleft, rpanic>>

SchedulerDone(c) ==
  /\ RrAt(c, "scan") /\ RunnableFrom(rthread[0 - c].arg) = {}
  /\ rthread' = [rthread EXCEPT ![0 - c].at = Release("ptable", Place("sti")), ![0 - c].arg = 1]
  /\ UNCHANGED <<rproc, rcpu, rlock, rleft, rpanic>>

(* The process is RUNNABLE, SLEEPING or ZOMBIE in procs; it goes on at at. *)
Sched(c, procs, at) ==
  LET p == rcpu[c].proc
  IN  /\ rproc' = procs
      /\ rpanic' = (rlock.ptable # c \/ rcpu[c].ncli # 1 \/ rcpu[c].iflag)
      /\ rthread' = [rthread EXCEPT ![p].at = at, ![p].intena = rcpu[c].intena]
      /\ rcpu' = [rcpu EXCEPT ![c].proc = 0]

Forkret(c) ==
  /\ RrAt(c, "forkret")
  /\ RrGo(c, Release("ptable", Place("trapret")))
  /\ UNCHANGED <<rproc, rcpu, rlock, rleft, rpanic>>

(* wakeup1() of chan in a table.                                           *)
Woke(procs, chan) ==
  [p \in RrProc |-> IF procs[p].state = "SLEEPING" /\ procs[p].chan = chan
                    THEN [procs[p] EXCEPT !.state = "RUNNABLE"] ELSE procs[p]]
Asleep(p, chan) == [rproc EXCEPT ![p].state = "SLEEPING", ![p].chan = chan]

-----------------------------------------------------------------------------
(* trap(): the timer interrupts any thread that has interrupts on; CPU 1,  *)
(* cpuid() 0 in the code, counts the tick.                                 *)

Timer(c) ==
  /\ rcpu[c].iflag /\ ~rpanic
  /\ rcpu' = [rcpu EXCEPT ![c].iflag = FALSE]
  /\ rthread' = [rthread EXCEPT
       ![On(c)].irq = rthread[On(c)].at,
       ![On(c)].at = IF c = 1 THEN Acquire("tickslock", Place("tick")) ELSE Place("ticked")]
  /\ UNCHANGED <<rproc, rlock, rleft, rpanic>>

Tick(c) ==
  /\ RrAt(c, "tick")
  /\ rleft' = [p \in RrProc |-> IF rleft[p] = 0 THEN 0 ELSE rleft[p] - 1]
  /\ RrGo(c, Acquire("ptable", Place("tickwakes")))
  /\ UNCHANGED <<rproc, rcpu, rlock, rpanic>>

TickWakes(c) ==
  /\ RrAt(c, "tickwakes")
  /\ rproc' = Woke(rproc, RrTicks)
  /\ RrGo(c, Release("ptable", Release("tickslock", Place("ticked"))))
  /\ UNCHANGED <<rcpu, rlock, rleft, rpanic>>

(* A killed process in user space exits; others yield().                   *)
KilledInUser(p) == p > 0 /\ rproc[p].killed /\ rthread[p].irq.pc = "user"
Ticked(c) ==
  LET t == On(c)
  IN  /\ RrAt(c, "ticked")
      /\ RrGo(c, CASE t < 0 -> Place("iret")
                   [] KilledInUser(t) -> Acquire("ptable", Place("exit"))
                   [] t > 0 /\ ~KilledInUser(t) -> Acquire("ptable", Place("yield")))
      /\ UNCHANGED <<rproc, rcpu, rlock, rleft, rpanic>>

(* A fault in user space, of a process that is not init.                   *)
Fault(c) ==
  LET p == rcpu[c].proc
  IN  /\ RrAt(c, "user") /\ p # RrInit
      /\ rproc' = [rproc EXCEPT ![p].killed = TRUE]
      /\ rcpu' = [rcpu EXCEPT ![c].iflag = FALSE]
      /\ rthread' = [rthread EXCEPT ![p].irq = rthread[p].at,
                                    ![p].at = Acquire("ptable", Place("exit"))]
      /\ UNCHANGED <<rlock, rleft, rpanic>>

Yield(c) ==
  LET p == rcpu[c].proc
  IN  /\ RrAt(c, "yield")
      /\ Sched(c, [rproc EXCEPT ![p].state = "RUNNABLE"], Release("ptable", Place("yielded")))
      /\ UNCHANGED <<rlock, rleft>>

Yielded(c) ==
  /\ RrAt(c, "yielded")
  /\ RrGo(c, IF KilledInUser(On(c)) THEN Acquire("ptable", Place("exit")) ELSE Place("iret"))
  /\ UNCHANGED <<rproc, rcpu, rlock, rleft, rpanic>>

Iret(c) ==
  /\ RrAt(c, "iret")
  /\ rcpu' = [rcpu EXCEPT ![c].iflag = TRUE]
  /\ rthread' = [rthread EXCEPT ![On(c)].at = rthread[On(c)].irq, ![On(c)].irq = Place("none")]
  /\ UNCHANGED <<rproc, rlock, rleft, rpanic>>

-----------------------------------------------------------------------------
(* System calls.  A killed process exits before one and after it.          *)

RrCalls == {"alloc", "waitscan", "sleepstart", "kill", "exit"}
SyscallEnter(c) ==
  LET p == rcpu[c].proc
  IN  /\ RrAt(c, "user")
      /\ \E call \in RrCalls, q \in RrProc :
           /\ rproc[p].killed => call = "exit"
           /\ call = "exit" => p # RrInit       \* init does not exit
           /\ call # "kill" => q = RrInit
           /\ call = "kill" => q # RrInit       \* and is not killed
           /\ rthread' = [rthread EXCEPT ![p].arg = q, ![p].at =
                Acquire(IF call = "sleepstart" THEN "tickslock" ELSE "ptable", Place(call))]
      /\ UNCHANGED <<rproc, rcpu, rlock, rleft, rpanic>>

SyscallReturn(c) ==
  LET p == rcpu[c].proc
  IN  /\ \/ /\ RrAt(c, "ret") /\ rproc[p].killed
            /\ RrGo(c, Acquire("ptable", Place("exit"))) /\ UNCHANGED rcpu
         \/ /\ (RrAt(c, "ret") /\ ~rproc[p].killed) \/ RrAt(c, "trapret")
            /\ rcpu' = [rcpu EXCEPT ![c].iflag = TRUE]
            /\ RrGo(c, Place("user"))
      /\ UNCHANGED <<rproc, rlock, rleft, rpanic>>

(* allocproc(), with kalloc() and copyuvm() that may fail: only the state  *)
(* is then set back, without the lock.                                     *)
RrUnused == {p \in RrProc : rproc[p].state = "UNUSED"}
RrForkAlloc(c) ==
  LET p == rcpu[c].proc
      np == Min(RrUnused)
  IN  /\ RrAt(c, "alloc")
      /\ \/ /\ RrUnused # {}
            /\ rproc' = [rproc EXCEPT ![np].state = "EMBRYO", ![np].pid = TRUE]
            /\ rthread' = [rthread EXCEPT ![p].arg = np, ![p].at = Release("ptable", Place("copy"))]
         \/ /\ RrUnused = {}
            /\ RrGo(c, Release("ptable", Place("ret"))) /\ UNCHANGED rproc
      /\ UNCHANGED <<rcpu, rlock, rleft, rpanic>>

RrForkCopy(c) ==
  LET p == rcpu[c].proc
      np == rthread[p].arg
  IN  /\ RrAt(c, "copy")
      /\ \/ /\ rproc' = [rproc EXCEPT ![np].state = "UNUSED"]
            /\ RrGo(c, Place("ret"))
         \/ /\ rproc' = [rproc EXCEPT ![np].parent = p]
            /\ rthread' = [rthread EXCEPT ![p].at = Acquire("ptable", Place("forkdone")),
                                          ![np].at = Place("forkret"), ![np].irq = Place("none")]
      /\ UNCHANGED <<rcpu, rlock, rleft, rpanic>>

RrForkDone(c) ==
  /\ RrAt(c, "forkdone")
  /\ rproc' = [rproc EXCEPT ![rthread[On(c)].arg].state = "RUNNABLE"]
  /\ RrGo(c, Release("ptable", Place("ret")))
  /\ UNCHANGED <<rcpu, rlock, rleft, rpanic>>

(* exit(): the parent is woken, the children go to init.                   *)
RrChildren(p) == {q \in RrProc : rproc[q].parent = p}
Exited(p) ==
  LET woke == Woke(rproc, rproc[p].parent)
      all == IF \E q \in RrChildren(p) : rproc[q].state = "ZOMBIE" THEN Woke(woke, RrInit) ELSE woke
  IN  [q \in RrProc |-> IF q \in RrChildren(p) THEN [all[q] EXCEPT !.parent = RrInit] ELSE all[q]]

RrExit(c) ==
  LET p == rcpu[c].proc
  IN  /\ RrAt(c, "exit")
      /\ Sched(c, [Exited(p) EXCEPT ![p].state = "ZOMBIE"], Place("zombie"))
      /\ UNCHANGED <<rlock, rleft>>

WaitScan(c) ==
  LET p == rcpu[c].proc
      zombies == {q \in RrChildren(p) : rproc[q].state = "ZOMBIE"}
      z == Min(zombies)
      awake == [rproc EXCEPT ![p].chan = NoChan]
  IN  /\ RrAt(c, "waitscan")
      /\ \/ /\ zombies # {}
            /\ rproc' = [awake EXCEPT ![z] = [state |-> "UNUSED", parent |-> 0,
                                              chan |-> @.chan, killed |-> FALSE, pid |-> FALSE]]
            /\ RrGo(c, Release("ptable", Place("ret"))) /\ UNCHANGED <<rcpu, rpanic>>
         \/ /\ zombies = {} /\ (RrChildren(p) = {} \/ rproc[p].killed)
            /\ rproc' = awake
            /\ RrGo(c, Release("ptable", Place("ret"))) /\ UNCHANGED <<rcpu, rpanic>>
         \/ /\ zombies = {} /\ RrChildren(p) # {} /\ ~rproc[p].killed
            /\ Sched(c, Asleep(p, p), Place("waitscan"))
      /\ UNCHANGED <<rlock, rleft>>

(* The process with the pid, in whatever state its slot is.                *)
RrKill(c) ==
  LET q == rthread[On(c)].arg
  IN  /\ RrAt(c, "kill")
      /\ rproc' = IF ~rproc[q].pid THEN rproc
                  ELSE [rproc EXCEPT ![q].killed = TRUE,
                          ![q].state = IF @ = "SLEEPING" THEN "RUNNABLE" ELSE @]
      /\ RrGo(c, Release("ptable", Place("ret")))
      /\ UNCHANGED <<rcpu, rlock, rleft, rpanic>>

(* sys_sleep() and sleep(&ticks, &tickslock).                              *)
SleepStart(c) ==
  LET p == rcpu[c].proc
  IN  /\ RrAt(c, "sleepstart")
      /\ rleft' = [rleft EXCEPT ![p] = RrSleep]
      /\ RrGo(c, Place("sleeptest"))
      /\ UNCHANGED <<rproc, rcpu, rlock, rpanic>>

SleepNow == Acquire("ptable", Release("tickslock", Place("sleep")))

SleepTest(c) ==
  LET p == rcpu[c].proc
      done == rleft[p] = 0 \/ rproc[p].killed
  IN  /\ RrAt(c, "sleeptest")
      /\ RrGo(c, IF done THEN Release("tickslock", Place("ret")) ELSE SleepNow)
      /\ rleft' = IF done THEN [rleft EXCEPT ![p] = 0] ELSE rleft
      /\ UNCHANGED <<rproc, rcpu, rlock, rpanic>>

RrSleeps(c) ==
  LET p == rcpu[c].proc
  IN  /\ RrAt(c, "sleep")
      /\ Sched(c, Asleep(p, RrTicks), Place("slept"))
      /\ UNCHANGED <<rlock, rleft>>

Slept(c) ==
  /\ RrAt(c, "slept")
  /\ rproc' = [rproc EXCEPT ![rcpu[c].proc].chan = NoChan]
  /\ RrGo(c, Release("ptable", Acquire("tickslock", Place("sleeptest"))))
  /\ UNCHANGED <<rcpu, rlock, rleft, rpanic>>

-----------------------------------------------------------------------------
(* What a thread does between two locks: in scheduler(), in trap(), as a   *)
(* process in the kernel.                                                  *)
Section(c) ==
  /\ rthread[On(c)].at.pc \notin {"acquire", "release", "user"}
  /\ \/ /\ rcpu[c].proc = 0
        /\ SchedulerLoop(c) \/ SchedulerRuns(c) \/ SchedulerDone(c)
     \/ Tick(c) \/ TickWakes(c) \/ Ticked(c) \/ Iret(c)
     \/ /\ rcpu[c].proc # 0
        /\ \/ Forkret(c) \/ Yield(c) \/ Yielded(c)
           \/ SyscallReturn(c) \/ RrForkAlloc(c) \/ RrForkCopy(c) \/ RrForkDone(c)
           \/ RrExit(c) \/ WaitScan(c) \/ RrKill(c)
           \/ SleepStart(c) \/ SleepTest(c) \/ RrSleeps(c) \/ Slept(c)
CpuStep(c) == AcquireStep(c) \/ ReleaseStep(c) \/ Section(c)

RoundRobinNext == \E c \in RrCpu : CpuStep(c) \/ SyscallEnter(c) \/ Timer(c) \/ Fault(c)

RoundRobinSpec == RoundRobinInit /\ [][RoundRobinNext]_rrvars

-----------------------------------------------------------------------------
(* Properties.                                                             *)

(* A CPU holds as many locks as ncli says, has interrupts off as long as   *)
(* it holds one, and none of the locking panics is reached: what makes it  *)
(* safe that an interrupt handler takes the locks the kernel takes, and    *)
(* that ptable.lock is taken by one thread and given back by another.      *)
LocksNested ==
  /\ ~rpanic
  /\ \A c \in RrCpu :
       /\ rcpu[c].ncli = Cardinality({l \in DOMAIN rlock : rlock[l] = c})
       /\ rcpu[c].ncli > 0 => ~rcpu[c].iflag

(* A process runs on one CPU, and exactly while it is RUNNING, save in the *)
(* section that changes its state: nobody runs on the stack of another.    *)
RunsOnce ==
  /\ \A c, d \in RrCpu : rcpu[c].proc = rcpu[d].proc /\ rcpu[c].proc # 0 => c = d
  /\ \A p \in RrProc : rproc[p].state = "RUNNING" <=> \E c \in RrCpu : rcpu[c].proc = p

(* intena belongs to the thread although it is kept in the CPU: between    *)
(* its locks a system call has interrupts on, wherever it was resumed, and *)
(* the handler of an interrupt has them off.                               *)
IntenaKept ==
  \A c \in RrCpu :
    LET t == On(c)
        at == rthread[t].at.pc
    IN  t > 0 /\ rcpu[c].ncli = 0 =>
          /\ rthread[t].irq.pc # "none" => ~rcpu[c].iflag
          /\ rthread[t].irq.pc = "none" /\ at \in {"acquire", "copy"} => rcpu[c].iflag

(* With no tick being counted, whoever sleeps in sys_sleep() has ticks to  *)
(* wait for; with ptable.lock free, whoever sleeps in wait() has a child   *)
(* that still lives, and was not killed: no wakeup is lost.                *)
NoLostWakeup ==
  \A p \in RrProc : rproc[p].state = "SLEEPING" =>
    /\ rproc[p].chan = RrTicks /\ rlock.tickslock = RrNobody => rleft[p] > 0
    /\ rproc[p].chan = p /\ rlock.ptable = RrNobody =>
         /\ ~rproc[p].killed
         /\ RrChildren(p) # {} /\ \A q \in RrChildren(p) : rproc[q].state # "ZOMBIE"

(* proc.c, spinlock.c, trap.c with several processors: locks nest and the  *)
(* interrupt state is kept, a process runs on one processor at a time, and *)
(* no wakeup is lost between a test and the sleep.                         *)
RoundRobinSafe == LocksNested /\ RunsOnce /\ IntenaKept /\ NoLostWakeup

=============================================================================
