-------------------------- MODULE RoundRobinProofs --------------------------
(***************************************************************************)
(* Proofs about RoundRobin, for any number of processes and processors:    *)
(* locks, interrupts, who runs where, and that no wakeup is lost.          *)
(***************************************************************************)
EXTENDS RoundRobin, FiniteSetTheorems, WellFoundedInduction, TLAPS

NotThere == Place("none")

(* Where a process is between two locks, in one, and in the handler of a   *)
(* timer interrupt; where a scheduler is.                                  *)
OpenAts ==
  {Place("user"), Place("copy"), Place("ret"), Place("trapret"),
   Acquire("ptable", Place("alloc")), Acquire("ptable", Place("waitscan")), Acquire("ptable", Place("kill")),
   Acquire("ptable", Place("exit")), Acquire("ptable", Place("forkdone")),
   Acquire("tickslock", Place("sleepstart")), Acquire("tickslock", Place("sleeptest"))}
InsideAts ==
  {Place("alloc"), Place("waitscan"), Place("kill"), Place("exit"), Place("forkdone"), Place("forkret"),
   Place("sleep"), Place("slept"), Place("sleepstart"), Place("sleeptest"),
   Release("ptable", Place("ret")), Release("ptable", Place("copy")), Release("ptable", Place("trapret")),
   Release("tickslock", Place("ret")), SleepNow, Release("tickslock", Place("sleep")),
   Release("ptable", Acquire("tickslock", Place("sleeptest")))}
ExitAts == {Acquire("ptable", Place("exit")), Place("exit")}
TickAts ==
  {Acquire("tickslock", Place("tick")), Place("tick"), Acquire("ptable", Place("tickwakes")), Place("tickwakes"),
   Release("ptable", Release("tickslock", Place("ticked"))), Release("tickslock", Place("ticked")),
   Place("ticked"), Place("iret")}
YieldAts ==
  {Acquire("ptable", Place("yield")), Place("yield"), Release("ptable", Place("yielded")), Place("yielded")}
SchedulerAts == {Place("sti"), Acquire("ptable", Place("scan")), Place("scan"), Release("ptable", Place("sti"))}
SchedulerOpen == {Place("sti"), Acquire("ptable", Place("scan"))}
AllAts == OpenAts \cup InsideAts \cup TickAts \cup YieldAts \cup SchedulerAts \cup {Place("zombie")}

(* The places at which a thread has each of the locks.                     *)
PtableAts ==
  {Place("scan"), Place("tickwakes"), Place("yield"), Place("alloc"), Place("waitscan"), Place("kill"),
   Place("exit"), Place("forkdone"), Place("forkret"), Place("sleep"), Place("slept"),
   Release("ptable", Place("sti")), Release("ptable", Release("tickslock", Place("ticked"))),
   Release("ptable", Place("yielded")), Release("ptable", Place("ret")), Release("ptable", Place("copy")),
   Release("ptable", Place("trapret")), Release("tickslock", Place("sleep")),
   Release("ptable", Acquire("tickslock", Place("sleeptest")))}
TicksAts ==
  {Place("tick"), Acquire("ptable", Place("tickwakes")), Place("tickwakes"),
   Release("ptable", Release("tickslock", Place("ticked"))), Release("tickslock", Place("ticked")),
   Place("sleepstart"), Place("sleeptest"), Release("tickslock", Place("ret")), SleepNow,
   Release("tickslock", Place("sleep"))}

(* What the variables hold.                                                *)
ProcRecord ==
  [state : {"UNUSED", "EMBRYO", "SLEEPING", "RUNNABLE", "RUNNING", "ZOMBIE"}, parent : 0 .. RrProcs,
   chan : {RrTicks} \cup 0 .. RrProcs, killed : BOOLEAN, pid : BOOLEAN]
CpuRecord == [proc : 0 .. RrProcs, ncli : 0 .. 2, intena : BOOLEAN, iflag : BOOLEAN]
ThreadRecord == [at : AllAts, irq : AllAts \cup {NotThere}, arg : 1 .. RrProcs + 1, intena : BOOLEAN]
RrTypeOK ==
  /\ rproc \in [RrProc -> ProcRecord] /\ rcpu \in [RrCpu -> CpuRecord]
  /\ rlock \in [{"ptable", "tickslock"} -> 0 .. RrCpus]
  /\ rthread \in [RrThread -> ThreadRecord]
  /\ \A p \in RrProc : rthread[p].arg \in RrProc
  /\ rleft \in [RrProc -> Nat]

(* A thread is in its own code, or has put it aside for the timer's.       *)
ProcessPlace(r) ==
  \/ r.irq = NotThere /\ r.at \in OpenAts \cup InsideAts
  \/ r.irq \in OpenAts /\ r.at \in TickAts \cup YieldAts
  \/ r.irq = Place("user") /\ r.at \in ExitAts
SchedulerPlace(r) ==
  \/ r.irq = NotThere /\ r.at \in SchedulerAts
  \/ r.irq \in SchedulerOpen /\ r.at \in TickAts

(* What the thread r does with the processor u, which holds ptable.lock if *)
(* hp and tickslock if ht: ncli counts them, and iflag, or intena once one *)
(* is held, says whether the thread has interrupts on.                     *)
Locks(r, u, hp, ht) ==
  /\ hp <=> r.at \in PtableAts
  /\ ht <=> r.at \in TicksAts
  /\ u.ncli = (IF hp THEN 1 ELSE 0) + (IF ht THEN 1 ELSE 0)
Interrupts(r, u) ==
  /\ u.ncli > 0 => ~u.iflag
  /\ r.irq # NotThere => IF u.ncli = 0 THEN ~u.iflag ELSE ~u.intena
  /\ u.proc # 0 /\ r.irq = NotThere =>
       IF u.ncli = 0 THEN r.at # Place("trapret") => u.iflag
       ELSE r.at \notin {Place("forkret"), Release("ptable", Place("trapret"))} => u.intena
Fits(r, u, hp, ht) ==
  /\ IF u.proc = 0 THEN SchedulerPlace(r) ELSE ProcessPlace(r)
  /\ Locks(r, u, hp, ht) /\ Interrupts(r, u)

CpusInv == \A c \in RrCpu : Fits(rthread[On(c)], rcpu[c], rlock.ptable = c, rlock.tickslock = c)

(* A process is on one processor, exactly while it is RUNNING; the         *)
(* scheduler that runs it is in its loop.                                  *)
RunningInv ==
  /\ RunsOnce
  /\ \A c \in RrCpu : rcpu[c].proc # 0 => rthread[0 - c].at = Place("scan") /\ rthread[0 - c].irq = NotThere

(* Where sched() left a process that does not run.                         *)
Left(s, r) ==
  /\ ProcessPlace(r)
  /\ s.state = "RUNNABLE" => r.at \in {Place("forkret"), Release("ptable", Place("yielded")), Place("waitscan"), Place("slept")}
  /\ s.state = "SLEEPING" => r.at \in {Place("waitscan"), Place("slept")}
  /\ r.irq # NotThere => ~r.intena
  /\ r.irq = NotThere => r.at = Place("forkret") \/ r.intena
LeftInv == \A p \in RrProc : rproc[p].state \in {"RUNNABLE", "SLEEPING"} => Left(rproc[p], rthread[p])

(* A process in fork() has an EMBRYO of its own, which has no parent until *)
(* it is copied and then is ready to start.                                *)
Live(p) == rproc[p].state \in {"RUNNABLE", "SLEEPING", "RUNNING"}
Base(r) == IF r.irq = NotThere THEN r.at ELSE r.irq
Copying == {Release("ptable", Place("copy")), Place("copy")}
Copied == {Acquire("ptable", Place("forkdone")), Place("forkdone")}
Forks(p) == Live(p) /\ Base(rthread[p]) \in Copying \cup Copied
ForksInv ==
  /\ \A p \in RrProc : Forks(p) =>
       LET n == rthread[p].arg
       IN  /\ rproc[n].state = "EMBRYO"
           /\ \A q \in RrProc \ {p} : Forks(q) => rthread[q].arg # n
           /\ Base(rthread[p]) \in Copying => rproc[n].parent = 0
           /\ Base(rthread[p]) \in Copied =>
                rproc[n].parent = p /\ rthread[n].at = Place("forkret") /\ rthread[n].irq = NotThere
  /\ \A n \in RrProc : rproc[n].state = "UNUSED" => rproc[n].parent = 0

(* init stays, at the root of the tree.                                    *)
TreeInv ==
  /\ rproc[RrInit].parent = 0 /\ rproc[RrInit].state \notin {"UNUSED", "EMBRYO"}
  /\ \A p \in RrProc : rproc[p].parent # p

(* Who sleeps, or has made up its mind to, has something to wait for.      *)
TickWaits == {Acquire("ptable", Place("tickwakes")), Place("tickwakes")}
GoesToSleep == {SleepNow, Release("tickslock", Place("sleep"))}
TickPending == \E c \in RrCpu : rthread[On(c)].at \in TickWaits
Sleeper(p) ==
  /\ rproc[p].state = "SLEEPING" /\ rthread[p].at = Place("slept") =>
       rproc[p].chan = RrTicks /\ (rleft[p] > 0 \/ TickPending)
  /\ rproc[p].state = "SLEEPING" /\ rthread[p].at = Place("waitscan") =>
       /\ rproc[p].chan = p /\ ~rproc[p].killed
       /\ RrChildren(p) # {} /\ \A q \in RrChildren(p) : rproc[q].state # "ZOMBIE"
  /\ rproc[p].state = "RUNNING" /\ rthread[p].at \in GoesToSleep => rleft[p] > 0
  /\ rproc[p].state = "RUNNING" /\ rthread[p].at = Place("sleep") => rleft[p] > 0 \/ TickPending
SleepersInv == \A p \in RrProc : Sleeper(p)

RrInv == RrTypeOK /\ ~rpanic /\ CpusInv /\ RunningInv /\ LeftInv /\ ForksInv /\ TreeInv /\ SleepersInv
-----------------------------------------------------------------------------
(* Places, and threads that go from one to the next.                       *)

LEMMA ThreadGoes ==
  ASSUME NEW r \in ThreadRecord, NEW at \in AllAts
  PROVE  /\ [r EXCEPT !.at = at] \in ThreadRecord
         /\ [r EXCEPT !.at = at].at = at /\ [r EXCEPT !.at = at].irq = r.irq
         /\ [r EXCEPT !.at = at].arg = r.arg /\ [r EXCEPT !.at = at].intena = r.intena
BY DEF ThreadRecord

(* On an open place interrupts are on only outside the handler.            *)
LEMMA OpenOrLocked ==
  ASSUME NEW r \in ThreadRecord, NEW u \in CpuRecord, NEW hp \in BOOLEAN, NEW ht \in BOOLEAN,
         Fits(r, u, hp, ht), u.iflag
  PROVE  /\ r.irq = NotThere /\ ~hp /\ ~ht /\ u.ncli = 0
         /\ IF u.proc = 0 THEN r.at \in SchedulerOpen ELSE r.at \in OpenAts
<1>1. u.ncli = 0 /\ r.irq = NotThere /\ ~hp /\ ~ht BY DEF Fits, Locks, Interrupts, CpuRecord
<1>2. r.at \notin PtableAts /\ r.at \notin TicksAts BY <1>1 DEF Fits, Locks
<1>3. CASE u.proc = 0
  <2>1. r.at \in SchedulerAts
    BY <1>1, <1>3 DEF Fits, SchedulerPlace, SchedulerOpen, Place, NotThere, Acquire
  <2> QED BY <1>1, <1>2, <1>3, <2>1 DEF SchedulerAts, SchedulerOpen, PtableAts
<1>4. CASE u.proc # 0
  <2>1. r.at \in OpenAts \cup InsideAts
    BY <1>1, <1>4 DEF Fits, ProcessPlace, OpenAts, Place, NotThere, Acquire
  <2>2. \A a \in InsideAts : a \in PtableAts \/ a \in TicksAts
    BY DEF InsideAts, PtableAts, TicksAts
  <2> QED BY <1>1, <1>2, <1>4, <2>1, <2>2
<1> QED BY <1>3, <1>4

-----------------------------------------------------------------------------
(* The threads and processors of a state.                                  *)

LEMMA Threads ==
  ASSUME RrInv
  PROVE  /\ \A c \in RrCpu : rcpu[c] \in CpuRecord /\ On(c) \in RrThread /\ 0 - c \in RrThread
         /\ \A c \in RrCpu : rthread[On(c)] \in ThreadRecord
         /\ \A c \in RrCpu : IF rcpu[c].proc = 0 THEN On(c) = 0 - c /\ On(c) \notin RrProc
                             ELSE On(c) = rcpu[c].proc /\ On(c) \in RrProc
         /\ \A c \in RrCpu : 0 - c \notin RrProc
         /\ \A c, d \in RrCpu : On(c) = On(d) => c = d
         /\ \A p \in RrProc : rproc[p] \in ProcRecord /\ rthread[p] \in ThreadRecord /\ p \in RrThread
<1> USE RrAssumption
<1>1. \A c \in RrCpu : c \in Nat \ {0} /\ rcpu[c] \in CpuRecord /\ rcpu[c].proc \in 0 .. RrProcs
  BY DEF RrInv, RrTypeOK, CpuRecord, RrCpu
<1>2. \A c \in RrCpu : 0 - c \in RrThread /\ 0 - c \notin RrProc
  BY <1>1 DEF RrThread, RrProc
<1>3. \A c \in RrCpu : IF rcpu[c].proc = 0 THEN On(c) = 0 - c /\ On(c) \notin RrProc
                       ELSE On(c) = rcpu[c].proc /\ On(c) \in RrProc
  BY <1>1, <1>2 DEF On, RrProc
<1>4. \A c \in RrCpu : On(c) \in RrThread
  BY <1>2, <1>3 DEF RrThread
<1>5. \A c, d \in RrCpu : On(c) = On(d) => c = d
  BY <1>1, <1>2, <1>3 DEF RrInv, RunningInv, RunsOnce
<1> QED
  BY <1>1, <1>2, <1>3, <1>4, <1>5 DEF RrInv, RrTypeOK, RrThread

(* A process on a processor is RUNNING.                                    *)
LEMMA OnRuns ==
  ASSUME RrInv
  PROVE  \A c \in RrCpu : On(c) \in RrProc => rproc[On(c)].state = "RUNNING"
BY Threads DEF RrInv, RunningInv, RunsOnce

(* A step of one processor that neither takes a process nor gives one up.  *)
LEMMA CoreStep ==
  ASSUME RrInv, RrTypeOK', NEW c \in RrCpu,
         \A d \in RrCpu \ {c} : rcpu'[d] = rcpu[d],
         rcpu'[c].proc = rcpu[c].proc,
         \A d \in RrCpu \ {c} : rlock'.ptable = d <=> rlock.ptable = d,
         \A d \in RrCpu \ {c} : rlock'.tickslock = d <=> rlock.tickslock = d,
         Fits(rthread'[On(c)], rcpu'[c], rlock'.ptable = c, rlock'.tickslock = c),
         \A x \in RrThread : x # On(c) /\ rthread'[x] # rthread[x] =>
           x \in RrProc /\ rproc[x].state = "EMBRYO" /\ rproc'[x].state = "EMBRYO",
         \A p \in RrProc : rproc'[p].state = "RUNNING" <=> rproc[p].state = "RUNNING",
         \A p \in RrProc : rproc'[p].state \in {"RUNNABLE", "SLEEPING"} =>
           \/ rproc[p].state \in {"RUNNABLE", "SLEEPING"}
              /\ (rproc'[p].state = "SLEEPING" => rproc[p].state = "SLEEPING")
           \/ Left(rproc'[p], rthread'[p])
  PROVE  CpusInv' /\ RunningInv' /\ LeftInv' /\ \A d \in RrCpu : On(d)' = On(d)
<1>1. \A d \in RrCpu : rcpu'[d].proc = rcpu[d].proc
  OBVIOUS
<1>2. \A d \in RrCpu : On(d)' = On(d)
  BY <1>1 DEF On
<1>3. ASSUME NEW d \in RrCpu \ {c} PROVE rthread'[On(d)] = rthread[On(d)]
  <2>1. On(d) # On(c) /\ On(d) \in RrThread
    BY Threads
  <2>2. On(d) \in RrProc => rproc[On(d)].state # "EMBRYO"
    BY OnRuns
  <2> QED
    BY <2>1, <2>2
<1>4. CpusInv'
  <2> SUFFICES ASSUME NEW d \in RrCpu
               PROVE  Fits(rthread'[On(d)], rcpu'[d], rlock'.ptable = d, rlock'.tickslock = d)
    BY <1>2 DEF CpusInv
  <2>1. CASE d = c
    BY <2>1
  <2>2. CASE d # c
    <3>1. Fits(rthread[On(d)], rcpu[d], rlock.ptable = d, rlock.tickslock = d)
      BY DEF RrInv, CpusInv
    <3>2. (rlock'.ptable = d) = (rlock.ptable = d) /\ (rlock'.tickslock = d) = (rlock.tickslock = d)
      BY <2>2
    <3>3. rcpu'[d] = rcpu[d] /\ rthread'[On(d)] = rthread[On(d)]
      BY <2>2, <1>3
    <3> QED
      BY <3>1, <3>2, <3>3
  <2> QED
    BY <2>1, <2>2
<1>5. RunningInv'
  <2>1. RunsOnce'
    <3>1. \A d, e \in RrCpu : rcpu'[d].proc = rcpu'[e].proc /\ rcpu'[d].proc # 0 => d = e
      BY <1>1 DEF RrInv, RunningInv, RunsOnce
    <3>2. \A p \in RrProc : rproc'[p].state = "RUNNING" <=> \E d \in RrCpu : rcpu'[d].proc = p
      BY <1>1 DEF RrInv, RunningInv, RunsOnce
    <3> QED
      BY <3>1, <3>2 DEF RunsOnce
  <2>2. ASSUME NEW d \in RrCpu, rcpu'[d].proc # 0
        PROVE  rthread'[0 - d].at = Place("scan") /\ rthread'[0 - d].irq = NotThere
    <3>1. rcpu[d].proc # 0
      BY <2>2, <1>1
    <3>2. rthread[0 - d].at = Place("scan") /\ rthread[0 - d].irq = NotThere
      BY <3>1 DEF RrInv, RunningInv
    <3>3. 0 - d # On(c)
      <4>1. CASE d = c
        BY <3>1, <4>1, Threads
      <4>2. CASE d # c
        <5>1. rcpu[c].proc = 0 => On(c) = 0 - c /\ c \in Int /\ d \in Int
          BY Threads DEF RrCpu
        <5>2. rcpu[c].proc # 0 => On(c) \in RrProc /\ 0 - d \notin RrProc
          BY Threads
        <5> QED
          BY <5>1, <5>2, <4>2
      <4> QED
        BY <4>1, <4>2
    <3>4. rthread'[0 - d] = rthread[0 - d]
      BY <3>3, Threads
    <3> QED
      BY <3>2, <3>4
  <2> QED
    BY <2>1, <2>2 DEF RunningInv
<1>6. LeftInv'
  <2> SUFFICES ASSUME NEW p \in RrProc, rproc'[p].state \in {"RUNNABLE", "SLEEPING"}
               PROVE  Left(rproc'[p], rthread'[p])
    BY DEF LeftInv
  <2>1. CASE /\ rproc[p].state \in {"RUNNABLE", "SLEEPING"}
             /\ rproc'[p].state = "SLEEPING" => rproc[p].state = "SLEEPING"
    <3>1. Left(rproc[p], rthread[p])
      BY <2>1 DEF RrInv, LeftInv
    <3>2. p # On(c)
      BY <2>1, OnRuns
    <3>3. rthread'[p] = rthread[p]
      BY <2>1, <3>2, Threads
    <3> QED
      BY <2>1, <3>1, <3>3 DEF Left
  <2> QED
    BY <2>1
<1> QED
  BY <1>2, <1>4, <1>5, <1>6

-----------------------------------------------------------------------------
(* Steps that leave ptable and the ticks alone.                            *)

(* A thread stays in fork(), on its way to sleep, or in the tick.          *)
Steady(r, e) ==
  /\ Base(e) \in Copying => Base(r) \in Copying
  /\ Base(e) \in Copied => Base(r) \in Copied
  /\ Base(e) \in Copying \cup Copied => e.arg = r.arg
  /\ e.at \in GoesToSleep => r.at \in GoesToSleep
  /\ e.at = Place("sleep") => r.at \in GoesToSleep \cup {Place("sleep")}
  /\ r.at \in TickWaits => e.at \in TickWaits

LEMMA PendingKept ==
  ASSUME RrInv, NEW c \in RrCpu, TickPending,
         \A d \in RrCpu : On(d)' = On(d),
         \A d \in RrCpu \ {c} : rthread'[On(d)] = rthread[On(d)],
         rthread[On(c)].at \in TickWaits => rthread'[On(c)].at \in TickWaits
  PROVE  TickPending'
<1>1. PICK d \in RrCpu : rthread[On(d)].at \in TickWaits
  BY DEF TickPending
<1>2. rthread'[On(d)].at \in TickWaits
  BY <1>1
<1> QED
  BY <1>2 DEF TickPending

(* fork() as before, but perhaps for its end.                              *)
LEMMA ForksKept ==
  ASSUME RrInv, RrTypeOK',
         \A p \in RrProc : Forks(p)' =>
           /\ Forks(p) /\ rthread'[p].arg = rthread[p].arg
           /\ Base(rthread'[p]) \in Copying => Base(rthread[p]) \in Copying
           /\ Base(rthread'[p]) \in Copied => Base(rthread[p]) \in Copied
           /\ LET n == rthread[p].arg
              IN  /\ rproc'[n].state = "EMBRYO" /\ rproc'[n].parent = rproc[n].parent
                  /\ rthread'[n] = rthread[n],
         \A n \in RrProc : rproc'[n].state = "UNUSED" =>
           rproc'[n].parent = 0 \/ (rproc[n].state = "UNUSED" /\ rproc'[n].parent = rproc[n].parent)
  PROVE  ForksInv'
<1>1. \A p \in RrProc : Forks(p) =>
        LET n == rthread[p].arg
        IN  /\ rproc[n].state = "EMBRYO"
            /\ \A q \in RrProc \ {p} : Forks(q) => rthread[q].arg # n
            /\ Base(rthread[p]) \in Copying => rproc[n].parent = 0
            /\ Base(rthread[p]) \in Copied =>
                 rproc[n].parent = p /\ rthread[n].at = Place("forkret") /\ rthread[n].irq = NotThere
  BY DEF RrInv, ForksInv
<1>2. ASSUME NEW p \in RrProc, Forks(p)', NEW n, n = rthread'[p].arg
      PROVE  /\ rproc'[n].state = "EMBRYO"
             /\ \A q \in RrProc \ {p} : Forks(q)' => rthread'[q].arg # n
             /\ Base(rthread'[p]) \in Copying => rproc'[n].parent = 0
             /\ Base(rthread'[p]) \in Copied =>
                  rproc'[n].parent = p /\ rthread'[n].at = Place("forkret") /\ rthread'[n].irq = NotThere
  <2>1. Forks(p) /\ n = rthread[p].arg
    BY <1>2
  <2>2. /\ rproc[n].state = "EMBRYO"
        /\ \A q \in RrProc \ {p} : Forks(q) => rthread[q].arg # n
        /\ Base(rthread[p]) \in Copying => rproc[n].parent = 0
        /\ Base(rthread[p]) \in Copied =>
             rproc[n].parent = p /\ rthread[n].at = Place("forkret") /\ rthread[n].irq = NotThere
    BY <1>1, <2>1
  <2>3. /\ rproc'[n].state = "EMBRYO" /\ rproc'[n].parent = rproc[n].parent
        /\ rthread'[n] = rthread[n]
        /\ Base(rthread'[p]) \in Copying => Base(rthread[p]) \in Copying
        /\ Base(rthread'[p]) \in Copied => Base(rthread[p]) \in Copied
    BY <1>2, <2>1
  <2>4. \A q \in RrProc \ {p} : Forks(q)' => rthread'[q].arg # n
    BY <2>2
  <2> QED
    BY <2>2, <2>3, <2>4
<1>3. \A n \in RrProc : rproc'[n].state = "UNUSED" => rproc'[n].parent = 0
  BY DEF RrInv, ForksInv
<1> HIDE DEF Forks
<1> QED
  BY <1>2, <1>3 DEF ForksInv, Base

(* Only threads on their way to sleep get nearer to it.                    *)
LEMMA SleepersKept ==
  ASSUME RrInv, rproc' = rproc, rleft' = rleft, NEW c \in RrCpu,
         TickPending => TickPending',
         \A p \in RrProc : p # On(c) /\ rproc[p].state # "EMBRYO" => rthread'[p] = rthread[p],
         Steady(rthread[On(c)], rthread'[On(c)])
  PROVE  SleepersInv'
<1>1. \A p \in RrProc :
        /\ rproc[p].state = "SLEEPING" /\ rthread[p].at = Place("slept") =>
             rproc[p].chan = RrTicks /\ (rleft[p] > 0 \/ TickPending)
        /\ rproc[p].state = "SLEEPING" /\ rthread[p].at = Place("waitscan") =>
             /\ rproc[p].chan = p /\ ~rproc[p].killed
             /\ RrChildren(p) # {} /\ \A q \in RrChildren(p) : rproc[q].state # "ZOMBIE"
        /\ rproc[p].state = "RUNNING" /\ rthread[p].at \in GoesToSleep => rleft[p] > 0
        /\ rproc[p].state = "RUNNING" /\ rthread[p].at = Place("sleep") => rleft[p] > 0 \/ TickPending
  BY DEF RrInv, SleepersInv, Sleeper
<1>2. \A p \in RrProc : RrChildren(p)' = RrChildren(p)
  BY DEF RrChildren
<1>3. ASSUME NEW p \in RrProc
      PROVE  /\ rproc'[p].state = "SLEEPING" /\ rthread'[p].at = Place("slept") =>
                  rproc'[p].chan = RrTicks /\ (rleft'[p] > 0 \/ TickPending')
             /\ rproc'[p].state = "SLEEPING" /\ rthread'[p].at = Place("waitscan") =>
                  /\ rproc'[p].chan = p /\ ~rproc'[p].killed
                  /\ RrChildren(p)' # {} /\ \A q \in RrChildren(p)' : rproc'[q].state # "ZOMBIE"
             /\ rproc'[p].state = "RUNNING" /\ rthread'[p].at \in GoesToSleep => rleft'[p] > 0
             /\ rproc'[p].state = "RUNNING" /\ rthread'[p].at = Place("sleep") => rleft'[p] > 0 \/ TickPending'
  <2>1. CASE p = On(c)
    <3>1. rproc[p].state = "RUNNING"
      BY <2>1, OnRuns
    <3>2. rthread'[p].at \in GoesToSleep => rthread[p].at \in GoesToSleep
      BY <2>1 DEF Steady
    <3>3. rthread'[p].at = Place("sleep") => rthread[p].at \in GoesToSleep \cup {Place("sleep")}
      BY <2>1 DEF Steady
    <3> QED
      BY <1>1, <3>1, <3>2, <3>3
  <2>2. CASE p # On(c) /\ rproc[p].state = "EMBRYO"
    BY <2>2
  <2>3. CASE p # On(c) /\ rproc[p].state # "EMBRYO"
    BY <1>1, <1>2, <2>3
  <2> QED
    BY <2>1, <2>2, <2>3
<1> HIDE DEF RrChildren, TickPending
<1> QED
  BY <1>3 DEF SleepersInv, Sleeper

LEMMA InnerInv ==
  ASSUME RrInv, NEW c \in RrCpu, NEW r, NEW e \in ThreadRecord, NEW u \in CpuRecord,
         r = rthread[On(c)], On(c) \in RrProc => e.arg \in RrProc,
         rthread' = [rthread EXCEPT ![On(c)] = e],
         rcpu' = [rcpu EXCEPT ![c] = u], u.proc = rcpu[c].proc,
         rlock' \in [{"ptable", "tickslock"} -> 0 .. RrCpus],
         \A d \in RrCpu \ {c} : rlock'.ptable = d <=> rlock.ptable = d,
         \A d \in RrCpu \ {c} : rlock'.tickslock = d <=> rlock.tickslock = d,
         UNCHANGED <<rproc, rleft>>, ~rpanic',
         Fits(e, u, rlock'.ptable = c, rlock'.tickslock = c), Steady(r, e)
  PROVE  RrInv'
<1>1. RrTypeOK /\ rthread \in [RrThread -> ThreadRecord] /\ rcpu \in [RrCpu -> CpuRecord] /\ On(c) \in RrThread
  BY Threads DEF RrInv, RrTypeOK
<1>2. \A x \in RrThread : rthread'[x] = IF x = On(c) THEN e ELSE rthread[x]
  BY <1>1
<1>3. \A d \in RrCpu : rcpu'[d] = IF d = c THEN u ELSE rcpu[d]
  BY <1>1
<1>4. RrTypeOK'
  <2>1. rthread' \in [RrThread -> ThreadRecord] /\ rcpu' \in [RrCpu -> CpuRecord]
    BY <1>1
  <2>2. \A p \in RrProc : rthread'[p].arg \in RrProc
    <3>1. \A p \in RrProc : p \in RrThread
      BY DEF RrThread
    <3> QED
      BY <1>1, <1>2, <3>1 DEF RrTypeOK
  <2> QED
    BY <1>1, <2>1, <2>2 DEF RrTypeOK
<1>5. CpusInv' /\ RunningInv' /\ LeftInv' /\ \A d \in RrCpu : On(d)' = On(d)
  <2>1. rcpu'[c].proc = rcpu[c].proc /\ \A d \in RrCpu \ {c} : rcpu'[d] = rcpu[d]
    BY <1>3
  <2>2. Fits(rthread'[On(c)], rcpu'[c], rlock'.ptable = c, rlock'.tickslock = c)
    BY <1>1, <1>2, <1>3
  <2>3. \A x \in RrThread : x # On(c) => rthread'[x] = rthread[x]
    BY <1>2
  <2>4. \A p \in RrProc : rproc'[p] = rproc[p]
    OBVIOUS
  <2> QED
    BY <1>4, <2>1, <2>2, <2>3, <2>4, CoreStep
<1>6. \A p \in RrProc : p \in RrThread /\ rthread'[p] = IF p = On(c) THEN e ELSE rthread[p]
  BY <1>2 DEF RrThread
<1>7. rthread'[On(c)] = e
  BY <1>1, <1>2
<1>8. ForksInv'
  <2>1. ASSUME NEW p \in RrProc, Forks(p)'
        PROVE  /\ Forks(p) /\ rthread'[p].arg = rthread[p].arg
               /\ Base(rthread'[p]) \in Copying => Base(rthread[p]) \in Copying
               /\ Base(rthread'[p]) \in Copied => Base(rthread[p]) \in Copied
    <3>1. CASE p = On(c)
      BY <2>1, <3>1, <1>7 DEF Forks, Live, Steady
    <3>2. CASE p # On(c)
      BY <2>1, <3>2, <1>6 DEF Forks, Live
    <3> QED
      BY <3>1, <3>2
  <2>2. ASSUME NEW p \in RrProc, Forks(p), NEW n, n = rthread[p].arg
        PROVE  /\ rproc'[n].state = "EMBRYO" /\ rproc'[n].parent = rproc[n].parent
               /\ rthread'[n] = rthread[n]
    <3>1. rproc[n].state = "EMBRYO" /\ n \in RrProc
      BY <2>2 DEF RrInv, ForksInv, RrTypeOK
    <3>2. n # On(c)
      BY <3>1, OnRuns
    <3> QED
      BY <3>1, <3>2, <1>6
  <2>3. \A n \in RrProc : rproc'[n].state = "UNUSED" => rproc[n].state = "UNUSED" /\ rproc'[n].parent = rproc[n].parent
    OBVIOUS
  <2> HIDE DEF Forks
  <2> QED
    BY <1>4, <2>1, <2>2, <2>3, ForksKept
<1>9. TickPending => TickPending'
  <2>1. \A d \in RrCpu \ {c} : rthread'[On(d)] = rthread[On(d)]
    BY <1>2, Threads
  <2>2. rthread[On(c)].at \in TickWaits => rthread'[On(c)].at \in TickWaits
    BY <1>7 DEF Steady
  <2> QED
    BY <1>5, <2>1, <2>2, PendingKept
<1>10. SleepersInv'
  BY <1>6, <1>7, <1>9, SleepersKept
<1>11. TreeInv'
  BY DEF RrInv, TreeInv
<1> QED
  BY <1>4, <1>5, <1>8, <1>10, <1>11 DEF RrInv
-----------------------------------------------------------------------------
(* spinlock.c.                                                             *)

LEMMA CpuGoes ==
  ASSUME NEW u \in CpuRecord, NEW n \in 0 .. 2, NEW a \in BOOLEAN, NEW i \in BOOLEAN
  PROVE  /\ [u EXCEPT !.iflag = i, !.ncli = n, !.intena = a] \in CpuRecord
         /\ [u EXCEPT !.ncli = n, !.iflag = i] \in CpuRecord
BY DEF CpuRecord

(* Acquiring brings a thread to where it has the lock.                     *)
LEMMA AcquireFits ==
  ASSUME NEW r \in ThreadRecord, NEW e \in ThreadRecord, NEW u \in CpuRecord,
         NEW hp \in BOOLEAN, NEW ht \in BOOLEAN, Fits(r, u, hp, ht), r.at.pc = "acquire",
         e.at = r.at.next, e.irq = r.irq, e.arg = r.arg
  PROVE  /\ r.at.lk \in {"ptable", "tickslock"} /\ r.at.next \in AllAts
         /\ IF r.at.lk = "ptable" THEN ~hp ELSE ~ht
         /\ Pushcli(u) \in CpuRecord /\ Pushcli(u).proc = u.proc
         /\ Fits(e, Pushcli(u), hp \/ r.at.lk = "ptable", ht \/ r.at.lk = "tickslock")
         /\ Steady(r, e)
<1> USE DEF Place, Acquire, Release, SleepNow, NotThere
<1>1. r.at \in {Acquire("ptable", Place(q)) : q \in {"alloc", "waitscan", "kill", "exit", "forkdone", "tickwakes", "yield", "scan"}}
               \cup {Acquire("tickslock", Place(q)) : q \in {"sleepstart", "sleeptest", "tick"}} \cup {SleepNow}
  BY DEF ThreadRecord, AllAts, OpenAts, InsideAts, TickAts, YieldAts, SchedulerAts
<1>2. /\ r.at.lk \in {"ptable", "tickslock"} /\ r.at.next \in AllAts
      /\ IF r.at.lk = "ptable" THEN ~hp ELSE ~ht
  BY <1>1 DEF Fits, Locks, AllAts, OpenAts, InsideAts, TickAts, YieldAts, SchedulerAts, PtableAts, TicksAts
<1> DEFINE i == IF u.ncli = 0 THEN u.iflag ELSE u.intena
<1>i. i \in BOOLEAN /\ u.ncli + 1 \in Int
  BY DEF CpuRecord
<1>3. PICK v : v = Pushcli(u) OBVIOUS
<1>v. v = [u EXCEPT !.iflag = FALSE, !.ncli = @ + 1, !.intena = i]
  BY <1>3, Zenon DEF Pushcli
<1>4. /\ v.proc = u.proc /\ v.ncli = u.ncli + 1 /\ ~v.iflag
      /\ v.intena = IF u.ncli = 0 THEN u.iflag ELSE u.intena
  BY <1>3 DEF Pushcli, CpuRecord
<1>5. u.ncli = (IF hp THEN 1 ELSE 0) + (IF ht THEN 1 ELSE 0) /\ u.ncli \in {0, 1}
  BY <1>2 DEF Fits, Locks
<1>6. v \in CpuRecord
  <2>1. PICK n \in 0 .. 2 : n = u.ncli + 1
    BY <1>5
  <2> HIDE DEF i
  <2>2. v = [u EXCEPT !.iflag = FALSE, !.ncli = n, !.intena = i]
    BY <1>v, <2>1
  <2> QED BY <1>i, <2>2, CpuGoes
<1>7. Locks(e, v, hp \/ r.at.lk = "ptable", ht \/ r.at.lk = "tickslock")
  <2>1. hp \/ r.at.lk = "ptable" <=> e.at \in PtableAts
    BY <1>1 DEF Fits, Locks, PtableAts
  <2>2. ht \/ r.at.lk = "tickslock" <=> e.at \in TicksAts
    BY <1>1 DEF Fits, Locks, TicksAts
  <2> QED
    BY <1>2, <1>4, <1>5, <2>1, <2>2 DEF Locks
<1>8. IF u.proc = 0 THEN SchedulerPlace(e) ELSE ProcessPlace(e)
  BY <1>1 DEF Fits, SchedulerPlace, ProcessPlace, OpenAts, InsideAts, TickAts, YieldAts, ExitAts, SchedulerAts, SchedulerOpen
<1>9. Interrupts(e, v)
  <2>1. r.irq # NotThere => ~v.intena
    BY <1>4, <1>5 DEF Fits, Interrupts
  <2>2. v.proc # 0 /\ r.irq = NotThere => v.intena
    <3>1. r.at \notin {Place("trapret"), Place("forkret"), Release("ptable", Place("trapret"))}
      BY <1>1
    <3> QED
      BY <1>4, <1>5, <3>1 DEF Fits, Interrupts
  <2>3. v.ncli # 0 /\ ~v.iflag
    BY <1>4, <1>5
  <2> QED
    BY <2>1, <2>2, <2>3 DEF Interrupts
<1>10. Steady(r, e)
  BY <1>1 DEF Steady, Base, Copying, Copied, GoesToSleep, TickWaits, ThreadRecord
<1> QED
  BY <1>2, <1>3, <1>4, <1>6, <1>7, <1>8, <1>9, <1>10 DEF Fits

Releases ==
  {Release("ptable", Place("ret")), Release("ptable", Place("copy")), Release("ptable", Place("trapret")),
   Release("ptable", Place("yielded")), Release("ptable", Place("sti")),
   Release("tickslock", Place("ret")), Release("tickslock", Place("sleep")), Release("tickslock", Place("ticked")),
   Release("ptable", Acquire("tickslock", Place("sleeptest"))),
   Release("ptable", Release("tickslock", Place("ticked")))}

LEMMA ReleaseBefore ==
  ASSUME NEW a \in Releases, a.next = Place("trapret")
  PROVE  a = Release("ptable", Place("trapret"))
BY DEF Releases, Place, Acquire, Release

LEMMA ReleaseFits ==
  ASSUME NEW r \in ThreadRecord, NEW e \in ThreadRecord, NEW u \in CpuRecord,
         NEW hp \in BOOLEAN, NEW ht \in BOOLEAN, Fits(r, u, hp, ht), r.at.pc = "release",
         e.at = r.at.next, e.irq = r.irq, e.arg = r.arg
  PROVE  /\ r.at.lk \in {"ptable", "tickslock"} /\ r.at.next \in AllAts
         /\ IF r.at.lk = "ptable" THEN hp ELSE ht
         /\ ~u.iflag /\ u.ncli \in {1, 2}
         /\ Popcli(u) \in CpuRecord /\ Popcli(u).proc = u.proc
         /\ Fits(e, Popcli(u), hp /\ r.at.lk # "ptable", ht /\ r.at.lk # "tickslock")
         /\ Steady(r, e)
<1> USE DEF Place, Acquire, Release, SleepNow, NotThere
<1> USE DEF Releases
<1>1. r.at \in Releases
  BY DEF ThreadRecord, AllAts, OpenAts, InsideAts, TickAts, YieldAts, SchedulerAts
<1>2. /\ r.at.lk \in {"ptable", "tickslock"} /\ r.at.next \in AllAts
      /\ IF r.at.lk = "ptable" THEN hp ELSE ht
  BY <1>1 DEF Fits, Locks, AllAts, OpenAts, InsideAts, TickAts, YieldAts, SchedulerAts, PtableAts, TicksAts
<1> DEFINE i == u.ncli = 1 /\ u.intena
<1>3. PICK v : v = Popcli(u) OBVIOUS
<1>v. v = [u EXCEPT !.ncli = @ - 1, !.iflag = i]
  BY <1>3, Zenon DEF Popcli
<1>4. u.ncli = (IF hp THEN 1 ELSE 0) + (IF ht THEN 1 ELSE 0) /\ u.ncli \in {1, 2} /\ ~u.iflag
  BY <1>2 DEF Fits, Locks, Interrupts, CpuRecord
<1>5. /\ v.proc = u.proc /\ v.ncli = u.ncli - 1 /\ v.intena = u.intena
      /\ v.iflag <=> u.ncli = 1 /\ u.intena
  BY <1>3 DEF Popcli, CpuRecord
<1>6. v \in CpuRecord
  <2>1. i \in BOOLEAN OBVIOUS
  <2>2. PICK n \in 0 .. 2 : n = u.ncli - 1
    BY <1>4
  <2> HIDE DEF i
  <2>3. v = [u EXCEPT !.ncli = n, !.iflag = i]
    BY <1>v, <2>2
  <2> QED BY <2>1, <2>3, CpuGoes
<1>7. Locks(e, v, hp /\ r.at.lk # "ptable", ht /\ r.at.lk # "tickslock")
  <2>1. hp /\ r.at.lk # "ptable" <=> e.at \in PtableAts
    BY <1>1 DEF Fits, Locks, PtableAts
  <2>2. ht /\ r.at.lk # "tickslock" <=> e.at \in TicksAts
    BY <1>1 DEF Fits, Locks, TicksAts
  <2> QED
    BY <1>2, <1>4, <1>5, <2>1, <2>2 DEF Locks
<1>8. IF u.proc = 0 THEN SchedulerPlace(e) ELSE ProcessPlace(e)
  BY <1>1 DEF Fits, SchedulerPlace, ProcessPlace, OpenAts, InsideAts, TickAts, YieldAts, ExitAts, SchedulerAts, SchedulerOpen
<1>9. Interrupts(e, v)
  <2>1. r.irq # NotThere => ~u.intena
    BY <1>4 DEF Fits, Interrupts
  <2>2. u.proc # 0 /\ r.irq = NotThere => e.at = Place("trapret") \/ u.intena
    BY <1>1, <1>4 DEF Fits, Interrupts
  <2>3. e.at \notin {Place("forkret"), Release("ptable", Place("trapret"))}
    BY <1>1
  <2>4. v.ncli \in {0, 1} /\ (v.ncli = 0 <=> u.ncli = 1) /\ (v.ncli > 0 <=> v.ncli # 0)
    BY <1>4, <1>5
  <2> QED
    <3>1. v.ncli > 0 => ~v.iflag
      BY <1>5, <2>4
    <3>2. e.irq # NotThere => IF v.ncli = 0 THEN ~v.iflag ELSE ~v.intena
      BY <1>5, <2>1
    <3>3. v.proc # 0 /\ e.irq = NotThere =>
            IF v.ncli = 0 THEN e.at # Place("trapret") => v.iflag
            ELSE e.at \notin {Place("forkret"), Release("ptable", Place("trapret"))} => v.intena
      <4>1. e.at = Place("trapret") => v.ncli = 0
        <5> SUFFICES ASSUME e.at = Place("trapret") PROVE v.ncli = 0
          OBVIOUS
        <5>1. r.at = Release("ptable", Place("trapret"))
          <6> HIDE DEF Releases, Place, Release
          <6> QED BY <1>1, ReleaseBefore
        <5>2. ~ht
          BY <5>1 DEF Fits, Locks, TicksAts
        <5> QED
          BY <1>4, <1>5, <5>2
      <4> QED
        BY <1>5, <2>2, <2>3, <2>4, <4>1
    <3> QED
      BY <3>1, <3>2, <3>3 DEF Interrupts
<1>10. Steady(r, e)
  BY <1>1 DEF Steady, Base, Copying, Copied, GoesToSleep, TickWaits, ThreadRecord
<1> QED
  BY <1>2, <1>3, <1>4, <1>5, <1>6, <1>7, <1>8, <1>9, <1>10 DEF Fits

(* The lock lk as it was for the other processors.                         *)
LEMMA LockSet ==
  ASSUME RrInv, NEW c \in RrCpu, NEW lk \in {"ptable", "tickslock"}, NEW v \in {c, RrNobody},
         rlock[lk] \in {c, RrNobody}, rlock' = [rlock EXCEPT ![lk] = v]
  PROVE  /\ rlock' \in [{"ptable", "tickslock"} -> 0 .. RrCpus]
         /\ \A d \in RrCpu \ {c} : rlock'.ptable = d <=> rlock.ptable = d
         /\ \A d \in RrCpu \ {c} : rlock'.tickslock = d <=> rlock.tickslock = d
         /\ rlock'.ptable = IF lk = "ptable" THEN v ELSE rlock.ptable
         /\ rlock'.tickslock = IF lk = "tickslock" THEN v ELSE rlock.tickslock
<1>1. rlock \in [{"ptable", "tickslock"} -> 0 .. RrCpus] /\ RrCpus \in Nat
  BY RrAssumption DEF RrInv, RrTypeOK
<1>2. \A d \in RrCpu : d \in 0 .. RrCpus /\ d # RrNobody
  BY <1>1 DEF RrCpu, RrNobody
<1>3. RrNobody \in 0 .. RrCpus
  BY <1>1 DEF RrNobody
<1>4. rlock'.ptable = IF lk = "ptable" THEN v ELSE rlock.ptable
  BY <1>1
<1>5. rlock'.tickslock = IF lk = "tickslock" THEN v ELSE rlock.tickslock
  BY <1>1
<1>6. rlock.ptable = rlock["ptable"] /\ rlock.tickslock = rlock["tickslock"]
  OBVIOUS
<1> QED
  BY <1>1, <1>2, <1>3, <1>4, <1>5, <1>6

LEMMA NextPlace ==
  ASSUME NEW at \in AllAts, at.pc \in {"acquire", "release"}
  PROVE  at.next \in AllAts
<1>1. CASE at \in OpenAts
  BY <1>1 DEF AllAts, OpenAts, InsideAts, Place, Acquire
<1>2. CASE at \in InsideAts
  BY <1>2 DEF AllAts, OpenAts, InsideAts, Place, Acquire, Release, SleepNow
<1>3. CASE at \in TickAts
  BY <1>3 DEF AllAts, TickAts, Place, Acquire, Release
<1>4. CASE at \in YieldAts \cup SchedulerAts
  BY <1>4 DEF AllAts, YieldAts, SchedulerAts, Place, Acquire, Release
<1>5. CASE at = Place("zombie")
  BY <1>5 DEF Place
<1> QED
  BY <1>1, <1>2, <1>3, <1>4, <1>5 DEF AllAts

LEMMA AcquireInv == ASSUME RrInv, NEW c \in RrCpu, AcquireStep(c) PROVE RrInv'
<1>1. PICK r \in ThreadRecord, u \in CpuRecord : r = rthread[On(c)] /\ u = rcpu[c]
  BY Threads
<1>2. Fits(r, u, rlock.ptable = c, rlock.tickslock = c)
  BY <1>1 DEF RrInv, CpusInv
<1>3. r.at.pc = "acquire" /\ UNCHANGED <<rproc, rleft>>
  BY <1>1 DEF AcquireStep, RrAt
<1>4. r.at \in AllAts
  BY DEF ThreadRecord
<1>5. PICK lk, next : lk = r.at.lk /\ next = r.at.next
  OBVIOUS
<1>6. PICK e : e = [r EXCEPT !.at = next]
  OBVIOUS
<1>7. next \in AllAts /\ lk \in {"ptable", "tickslock"}
      /\ IF lk = "ptable" THEN rlock.ptable # c ELSE rlock.tickslock # c
  <2>1. \A f \in ThreadRecord : f.at = r.at.next /\ f.irq = r.irq /\ f.arg = r.arg =>
          r.at.next \in AllAts /\ r.at.lk \in {"ptable", "tickslock"}
          /\ IF r.at.lk = "ptable" THEN rlock.ptable # c ELSE rlock.tickslock # c
    BY <1>2, <1>3, AcquireFits
  <2>2. r.at.next \in AllAts
    <3>1. PICK a \in AllAts : a = r.at
      BY <1>4
    <3>2. a.pc \in {"acquire", "release"}
      BY <1>3, <3>1
    <3>3. a.next \in AllAts
      BY <3>2, NextPlace
    <3> QED
      BY <3>1, <3>3
  <2>3. PICK f \in ThreadRecord : f.at = r.at.next /\ f.irq = r.irq /\ f.arg = r.arg
    BY <2>2, ThreadGoes
  <2> QED
    BY <1>5, <2>1, <2>3
<1>8. e \in ThreadRecord /\ e.at = next /\ e.irq = r.irq /\ e.arg = r.arg
  BY <1>6, <1>7, ThreadGoes
<1>9. PICK v : v = Pushcli(u)
  OBVIOUS
<1>10. /\ v \in CpuRecord /\ v.proc = u.proc /\ Steady(r, e)
       /\ Fits(e, v, rlock.ptable = c \/ lk = "ptable", rlock.tickslock = c \/ lk = "tickslock")
  <2>1. PICK hp \in BOOLEAN, ht \in BOOLEAN : hp = (rlock.ptable = c) /\ ht = (rlock.tickslock = c)
    OBVIOUS
  <2>2. Fits(r, u, hp, ht)
    BY <1>2, <2>1
  <2>3. /\ Pushcli(u) \in CpuRecord /\ Pushcli(u).proc = u.proc /\ Steady(r, e)
        /\ Fits(e, Pushcli(u), hp \/ r.at.lk = "ptable", ht \/ r.at.lk = "tickslock")
    BY <1>3, <1>5, <1>8, <2>2, AcquireFits
  <2> QED
    BY <1>5, <1>9, <2>1, <2>3
<1>11. rlock[lk] # c
  BY <1>7
<1>12. /\ rlock[lk] = RrNobody /\ rlock' = [rlock EXCEPT ![lk] = c]
       /\ rcpu' = [rcpu EXCEPT ![c] = Pushcli(rcpu[c])]
       /\ rthread' = [rthread EXCEPT ![On(c)].at = next] /\ ~rpanic'
  BY <1>1, <1>5, <1>11 DEF AcquireStep, RrGo, RrInv
<1>13. rcpu' = [rcpu EXCEPT ![c] = v] /\ rthread' = [rthread EXCEPT ![On(c)] = e]
  BY <1>1, <1>6, <1>9, <1>12
<1>14. /\ rlock' \in [{"ptable", "tickslock"} -> 0 .. RrCpus]
       /\ \A d \in RrCpu \ {c} : rlock'.ptable = d <=> rlock.ptable = d
       /\ \A d \in RrCpu \ {c} : rlock'.tickslock = d <=> rlock.tickslock = d
       /\ rlock'.ptable = IF lk = "ptable" THEN c ELSE rlock.ptable
       /\ rlock'.tickslock = IF lk = "tickslock" THEN c ELSE rlock.tickslock
  BY <1>7, <1>12, LockSet
<1>15. Fits(e, v, rlock'.ptable = c, rlock'.tickslock = c)
  <2>1. (rlock'.ptable = c) = (rlock.ptable = c \/ lk = "ptable")
    BY <1>14
  <2>2. (rlock'.tickslock = c) = (rlock.tickslock = c \/ lk = "tickslock")
    BY <1>14
  <2> QED
    BY <1>10, <2>1, <2>2
<1>16. On(c) \in RrProc => e.arg \in RrProc
  BY <1>1, <1>8 DEF RrInv, RrTypeOK
<1> QED
  BY <1>1, <1>3, <1>8, <1>10, <1>12, <1>13, <1>14, <1>15, <1>16, InnerInv

LEMMA ReleaseInv == ASSUME RrInv, NEW c \in RrCpu, ReleaseStep(c) PROVE RrInv'
<1>1. PICK r \in ThreadRecord, u \in CpuRecord : r = rthread[On(c)] /\ u = rcpu[c]
  BY Threads
<1>2. Fits(r, u, rlock.ptable = c, rlock.tickslock = c)
  BY <1>1 DEF RrInv, CpusInv
<1>3. r.at.pc = "release" /\ UNCHANGED <<rproc, rleft>>
  BY <1>1 DEF ReleaseStep, RrAt
<1>4. r.at \in AllAts
  BY DEF ThreadRecord
<1>5. PICK lk, next : lk = r.at.lk /\ next = r.at.next
  OBVIOUS
<1>6. PICK e : e = [r EXCEPT !.at = next]
  OBVIOUS
<1>7. next \in AllAts
  <2>1. PICK a \in AllAts : a = r.at
    BY <1>4
  <2>2. a.pc \in {"acquire", "release"}
    BY <1>3, <2>1
  <2>3. a.next \in AllAts
    BY <2>2, NextPlace
  <2> QED
    BY <1>5, <2>1, <2>3
<1>8. e \in ThreadRecord /\ e.at = next /\ e.irq = r.irq /\ e.arg = r.arg
  BY <1>6, <1>7, ThreadGoes
<1>9. PICK v : v = Popcli(u)
  OBVIOUS
<1>10. /\ v \in CpuRecord /\ v.proc = u.proc /\ Steady(r, e)
       /\ lk \in {"ptable", "tickslock"}
       /\ IF lk = "ptable" THEN rlock.ptable = c ELSE rlock.tickslock = c
       /\ ~u.iflag /\ u.ncli \in {1, 2}
       /\ Fits(e, v, rlock.ptable = c /\ lk # "ptable", rlock.tickslock = c /\ lk # "tickslock")
  <2>1. PICK hp \in BOOLEAN, ht \in BOOLEAN : hp = (rlock.ptable = c) /\ ht = (rlock.tickslock = c)
    OBVIOUS
  <2>2. Fits(r, u, hp, ht)
    BY <1>2, <2>1
  <2>3. /\ Popcli(u) \in CpuRecord /\ Popcli(u).proc = u.proc /\ Steady(r, e)
        /\ Fits(e, Popcli(u), hp /\ r.at.lk # "ptable", ht /\ r.at.lk # "tickslock")
        /\ r.at.lk \in {"ptable", "tickslock"} /\ IF r.at.lk = "ptable" THEN hp ELSE ht
        /\ ~u.iflag /\ u.ncli \in {1, 2}
    BY <1>3, <1>5, <1>8, <2>2, ReleaseFits
  <2> QED
    BY <1>5, <1>9, <2>1, <2>3
<1>11. rlock[lk] = c
  BY <1>10
<1>12. /\ rlock' = [rlock EXCEPT ![lk] = RrNobody]
       /\ rcpu' = [rcpu EXCEPT ![c] = Popcli(rcpu[c])]
       /\ rthread' = [rthread EXCEPT ![On(c)].at = next]
  BY <1>1, <1>5 DEF ReleaseStep, RrGo
<1>13. ~rpanic'
  <2>1. rpanic' <=> (rlock[lk] # c \/ u.iflag \/ u.ncli < 1)
    BY <1>1, <1>5 DEF ReleaseStep
  <2> QED
    BY <1>10, <1>11, <2>1
<1>14. rcpu' = [rcpu EXCEPT ![c] = v] /\ rthread' = [rthread EXCEPT ![On(c)] = e]
  BY <1>1, <1>6, <1>9, <1>12
<1>15. /\ rlock' \in [{"ptable", "tickslock"} -> 0 .. RrCpus]
       /\ \A d \in RrCpu \ {c} : rlock'.ptable = d <=> rlock.ptable = d
       /\ \A d \in RrCpu \ {c} : rlock'.tickslock = d <=> rlock.tickslock = d
       /\ rlock'.ptable = IF lk = "ptable" THEN RrNobody ELSE rlock.ptable
       /\ rlock'.tickslock = IF lk = "tickslock" THEN RrNobody ELSE rlock.tickslock
  BY <1>10, <1>11, <1>12, LockSet
<1>16. Fits(e, v, rlock'.ptable = c, rlock'.tickslock = c)
  <2>1. c # RrNobody
    BY DEF RrCpu, RrNobody
  <2>2. (rlock'.ptable = c) = (rlock.ptable = c /\ lk # "ptable")
    BY <1>15, <2>1
  <2>3. (rlock'.tickslock = c) = (rlock.tickslock = c /\ lk # "tickslock")
    BY <1>15, <2>1
  <2> QED
    BY <1>10, <2>2, <2>3
<1>17. On(c) \in RrProc => e.arg \in RrProc
  BY <1>1, <1>8 DEF RrInv, RrTypeOK
<1> QED
  BY <1>1, <1>3, <1>8, <1>10, <1>13, <1>14, <1>15, <1>16, <1>17, InnerInv

-----------------------------------------------------------------------------
(* Steps that take and give back no lock.                                  *)

(* From where to where, by the code of each place.                         *)
Turns(a, b) ==
  \/ a = Place("forkret") /\ b = Release("ptable", Place("trapret"))
  \/ a = Place("scan") /\ b = Release("ptable", Place("sti"))
  \/ a = Place("yielded") /\ b = Place("iret")
  \/ a = Place("user") /\ b \in {Acquire("ptable", Place("alloc")), Acquire("ptable", Place("waitscan")),
       Acquire("ptable", Place("kill")), Acquire("ptable", Place("exit")), Acquire("tickslock", Place("sleepstart"))}
  \/ a = Place("ret") /\ b = Acquire("ptable", Place("exit"))
  \/ a = Place("alloc") /\ b \in {Release("ptable", Place("ret")), Release("ptable", Place("copy"))}
  \/ a = Place("copy") /\ b \in {Place("ret"), Acquire("ptable", Place("forkdone"))}
  \/ a \in {Place("forkdone"), Place("waitscan"), Place("kill")} /\ b = Release("ptable", Place("ret"))
  \/ a = Place("sleepstart") /\ b = Place("sleeptest")
  \/ a = Place("sleeptest") /\ b \in {Release("tickslock", Place("ret")), SleepNow}
  \/ a = Place("slept") /\ b = Release("ptable", Acquire("tickslock", Place("sleeptest")))
  \/ a = Place("tick") /\ b = Acquire("ptable", Place("tickwakes"))
  \/ a = Place("tickwakes") /\ b = Release("ptable", Release("tickslock", Place("ticked")))

LEMMA TurnFits ==
  ASSUME NEW r \in ThreadRecord, NEW e \in ThreadRecord, NEW u \in CpuRecord,
         NEW hp \in BOOLEAN, NEW ht \in BOOLEAN, Fits(r, u, hp, ht),
         e.irq = r.irq, Turns(r.at, e.at)
  PROVE  Fits(e, u, hp, ht)
<1> USE DEF Place, Acquire, Release, SleepNow, NotThere, Turns
<1>1. IF u.proc = 0 THEN SchedulerPlace(e) ELSE ProcessPlace(e)
  BY DEF Fits, SchedulerPlace, ProcessPlace, OpenAts, InsideAts, TickAts, YieldAts, ExitAts, SchedulerAts, SchedulerOpen
<1>2. r.at \in PtableAts <=> e.at \in PtableAts
  BY DEF PtableAts
<1>3. r.at \in TicksAts <=> e.at \in TicksAts
  BY DEF TicksAts
<1>4. Locks(e, u, hp, ht)
  BY <1>2, <1>3 DEF Fits, Locks
<1>5. Interrupts(e, u)
  <2>1. e.at # Place("trapret") /\ (r.at = Place("trapret") => FALSE)
    OBVIOUS
  <2>2. r.at \in {Place("forkret"), Release("ptable", Place("trapret"))} =>
          e.at = Release("ptable", Place("trapret")) /\ u.ncli # 0
    <3>1. Place("forkret") \in PtableAts
      BY DEF PtableAts
    <3> QED
      BY <3>1 DEF Fits, Locks
  <2> QED
    BY <2>1, <2>2 DEF Fits, Interrupts
<1> QED
  BY <1>1, <1>4, <1>5 DEF Fits

(* ticked and yielded, in the handler.                                     *)
LEMMA HandlerFits ==
  ASSUME NEW r \in ThreadRecord, NEW e \in ThreadRecord, NEW u \in CpuRecord,
         NEW hp \in BOOLEAN, NEW ht \in BOOLEAN, Fits(r, u, hp, ht), e.irq = r.irq,
         \/ r.at = Place("ticked") /\ u.proc = 0 /\ e.at = Place("iret")
         \/ r.at = Place("ticked") /\ u.proc # 0 /\ e.at = Acquire("ptable", Place("yield"))
         \/ /\ r.at \in {Place("ticked"), Place("yielded")} /\ u.proc # 0
            /\ r.irq.pc = "user" /\ e.at = Acquire("ptable", Place("exit"))
  PROVE  Fits(e, u, hp, ht)
<1> USE DEF Place, Acquire, Release, SleepNow, NotThere
<1>1. IF u.proc = 0 THEN SchedulerPlace(e) ELSE ProcessPlace(e)
  BY DEF Fits, SchedulerPlace, ProcessPlace, OpenAts, InsideAts, TickAts, YieldAts, ExitAts, SchedulerAts, SchedulerOpen
<1>2. r.at \notin PtableAts /\ e.at \notin PtableAts
  BY DEF PtableAts
<1>3. r.at \notin TicksAts /\ e.at \notin TicksAts
  BY DEF TicksAts
<1>4. Locks(e, u, hp, ht)
  BY <1>2, <1>3 DEF Fits, Locks
<1>5. r.irq # NotThere
  BY DEF Fits, SchedulerPlace, ProcessPlace, OpenAts, InsideAts, ExitAts, SchedulerAts, SchedulerOpen
<1>6. Interrupts(e, u)
  BY <1>5 DEF Fits, Interrupts
<1> QED
  BY <1>1, <1>4, <1>6 DEF Fits

(* What is here: the thread, its processor, its locks.                     *)
LEMMA Here ==
  ASSUME RrInv, NEW c \in RrCpu
  PROVE  \E r \in ThreadRecord, u \in CpuRecord, hp \in BOOLEAN, ht \in BOOLEAN :
           /\ r = rthread[On(c)] /\ u = rcpu[c]
           /\ hp = (rlock.ptable = c) /\ ht = (rlock.tickslock = c) /\ Fits(r, u, hp, ht)
<1>1. PICK r \in ThreadRecord, u \in CpuRecord : r = rthread[On(c)] /\ u = rcpu[c]
  BY Threads
<1>2. PICK hp \in BOOLEAN, ht \in BOOLEAN : hp = (rlock.ptable = c) /\ ht = (rlock.tickslock = c)
  OBVIOUS
<1>3. Fits(r, u, hp, ht)
  BY <1>1, <1>2 DEF RrInv, CpusInv
<1> QED
  BY <1>1, <1>2, <1>3

LEMMA GoInv ==
  ASSUME RrInv, NEW c \in RrCpu, NEW e \in ThreadRecord,
         On(c) \in RrProc => e.arg \in RrProc,
         rthread' = [rthread EXCEPT ![On(c)] = e],
         UNCHANGED <<rproc, rcpu, rlock, rleft, rpanic>>,
         Fits(e, rcpu[c], rlock.ptable = c, rlock.tickslock = c), Steady(rthread[On(c)], e)
  PROVE  RrInv'
<1>1. PICK r : r = rthread[On(c)]
  OBVIOUS
<1>2. PICK u \in CpuRecord : u = rcpu[c]
  BY Threads
<1>3. rcpu' = [rcpu EXCEPT ![c] = u]
  BY <1>2 DEF RrInv, RrTypeOK
<1>4. rlock' \in [{"ptable", "tickslock"} -> 0 .. RrCpus] /\ ~rpanic'
  BY DEF RrInv, RrTypeOK
<1>5. Fits(e, u, rlock'.ptable = c, rlock'.tickslock = c)
  BY <1>2
<1> QED
  BY <1>1, <1>2, <1>3, <1>4, <1>5, InnerInv

(* A step along Turns.                                                     *)
LEMMA TurnInv ==
  ASSUME RrInv, NEW c \in RrCpu, NEW b \in AllAts, NEW e,
         e = [rthread[On(c)] EXCEPT !.at = b],
         rthread' = [rthread EXCEPT ![On(c)] = e],
         UNCHANGED <<rproc, rcpu, rlock, rleft, rpanic>>,
         Turns(rthread[On(c)].at, b), Steady(rthread[On(c)], e)
  PROVE  RrInv'
<1>1. PICK r \in ThreadRecord, u \in CpuRecord, hp \in BOOLEAN, ht \in BOOLEAN :
        /\ r = rthread[On(c)] /\ u = rcpu[c]
        /\ hp = (rlock.ptable = c) /\ ht = (rlock.tickslock = c) /\ Fits(r, u, hp, ht)
  BY Here
<1>2. e \in ThreadRecord /\ e.at = b /\ e.irq = r.irq /\ e.arg = r.arg
  BY <1>1, ThreadGoes
<1>3. Turns(r.at, e.at)
  BY <1>1, <1>2
<1>4. Fits(e, u, hp, ht)
  <2>1. PICK f \in ThreadRecord : f = e
    BY <1>2
  <2>2. f.irq = r.irq /\ Turns(r.at, f.at) /\ Fits(r, u, hp, ht)
    BY <1>1, <1>2, <1>3, <2>1
  <2>3. Fits(f, u, hp, ht)
    BY <2>2, TurnFits
  <2> QED
    BY <2>1, <2>3
<1>5. On(c) \in RrProc => e.arg \in RrProc
  BY <1>1, <1>2 DEF RrInv, RrTypeOK
<1>6. Fits(e, rcpu[c], rlock.ptable = c, rlock.tickslock = c)
  BY <1>1, <1>4
<1> QED
  BY <1>2, <1>5, <1>6, GoInv

LEMMA PlaceIs ==
  ASSUME NEW at \in AllAts, at.pc \notin {"acquire", "release"}
  PROVE  at = Place(at.pc)
BY DEF AllAts, OpenAts, InsideAts, TickAts, YieldAts, SchedulerAts, Place, Acquire, Release, SleepNow

LEMMA TurnSteady ==
  ASSUME NEW r \in ThreadRecord, NEW e \in ThreadRecord, e.irq = r.irq, e.arg = r.arg,
         Turns(r.at, e.at), r.at # Place("tickwakes"),
         e.at \notin {SleepNow, Release("ptable", Place("copy")), Acquire("ptable", Place("forkdone"))}
  PROVE  Steady(r, e)
<1> USE DEF Place, Acquire, Release, SleepNow
<1>1. e.at \notin Copying \cup Copied \cup GoesToSleep \cup {Place("sleep")}
  BY DEF Turns, Copying, Copied, GoesToSleep
<1>2. r.at \in TickWaits => e.at \in TickWaits
  BY DEF Turns, TickWaits
<1> QED
  BY <1>1, <1>2 DEF Steady, Base

LEMMA TurnStep ==
  ASSUME RrInv, NEW c \in RrCpu, NEW pc, RrAt(c, pc), pc \notin {"acquire", "release", "tickwakes"},
         NEW b \in AllAts, RrGo(c, b), UNCHANGED <<rproc, rcpu, rlock, rleft, rpanic>>,
         Turns(Place(pc), b),
         b \notin {SleepNow, Release("ptable", Place("copy")), Acquire("ptable", Place("forkdone"))}
  PROVE  RrInv'
<1>1. PICK r \in ThreadRecord : r = rthread[On(c)]
  BY Here
<1>2. r.at = Place(pc)
  <2>1. PICK a \in AllAts : a = r.at
    BY DEF ThreadRecord
  <2>2. a.pc = pc
    BY <1>1, <2>1 DEF RrAt
  <2> QED
    BY <2>1, <2>2, PlaceIs
<1>3. PICK e \in ThreadRecord : e = [r EXCEPT !.at = b]
  BY ThreadGoes
<1>4. e.at = b /\ e.irq = r.irq /\ e.arg = r.arg
  BY <1>3, ThreadGoes
<1>5. r.at # Place("tickwakes")
  BY <1>2 DEF Place
<1>6. Turns(r.at, e.at)
  BY <1>2, <1>4
<1>7. e.at \notin {SleepNow, Release("ptable", Place("copy")), Acquire("ptable", Place("forkdone"))}
  BY <1>4
<1>8. Steady(r, e)
  BY <1>4, <1>5, <1>6, <1>7, TurnSteady
<1>9. rthread' = [rthread EXCEPT ![On(c)] = e]
  BY <1>1, <1>3 DEF RrGo
<1>10. Turns(r.at, b)
  BY <1>2
<1> QED
  BY <1>1, <1>3, <1>8, <1>9, <1>10, TurnInv

LEMMA ForkretInv == ASSUME RrInv, NEW c \in RrCpu, Forkret(c) PROVE RrInv'
<1>1. PICK b : b = Release("ptable", Place("trapret"))
  OBVIOUS
<1>2. b \in AllAts /\ Turns(Place("forkret"), b)
  BY <1>1 DEF AllAts, InsideAts, Turns
<1>3. b \notin {SleepNow, Release("ptable", Place("copy")), Acquire("ptable", Place("forkdone"))}
  BY <1>1 DEF Place, Acquire, Release, SleepNow
<1> QED
  BY <1>1, <1>2, <1>3, TurnStep DEF Forkret

(* Where a thread is, by the guard of the action.                          *)
LEMMA At ==
  ASSUME RrInv, NEW c \in RrCpu, NEW pc, RrAt(c, pc), pc \notin {"acquire", "release"}
  PROVE  \E r \in ThreadRecord, u \in CpuRecord, hp \in BOOLEAN, ht \in BOOLEAN :
           /\ r = rthread[On(c)] /\ u = rcpu[c] /\ r.at = Place(pc)
           /\ hp = (rlock.ptable = c) /\ ht = (rlock.tickslock = c) /\ Fits(r, u, hp, ht)
<1>1. PICK r \in ThreadRecord, u \in CpuRecord, hp \in BOOLEAN, ht \in BOOLEAN :
        /\ r = rthread[On(c)] /\ u = rcpu[c]
        /\ hp = (rlock.ptable = c) /\ ht = (rlock.tickslock = c) /\ Fits(r, u, hp, ht)
  BY Here
<1>2. r.at = Place(pc)
  <2>1. PICK a \in AllAts : a = r.at
    BY DEF ThreadRecord
  <2>2. a.pc = pc
    BY <1>1, <2>1 DEF RrAt
  <2> QED
    BY <2>1, <2>2, PlaceIs
<1> QED
  BY <1>1, <1>2

(* An action of the handler along HandlerFits.                             *)
LEMMA HandlerStep ==
  ASSUME RrInv, NEW c \in RrCpu, NEW pc \in {"ticked", "yielded"}, RrAt(c, pc),
         NEW b \in AllAts, RrGo(c, b), UNCHANGED <<rproc, rcpu, rlock, rleft, rpanic>>,
         \/ pc = "ticked" /\ rcpu[c].proc = 0 /\ b = Place("iret")
         \/ pc = "ticked" /\ rcpu[c].proc # 0 /\ b = Acquire("ptable", Place("yield"))
         \/ rcpu[c].proc # 0 /\ rthread[On(c)].irq.pc = "user" /\ b = Acquire("ptable", Place("exit"))
  PROVE  RrInv'
<1>1. PICK r \in ThreadRecord, u \in CpuRecord, hp \in BOOLEAN, ht \in BOOLEAN :
        /\ r = rthread[On(c)] /\ u = rcpu[c] /\ r.at = Place(pc)
        /\ hp = (rlock.ptable = c) /\ ht = (rlock.tickslock = c) /\ Fits(r, u, hp, ht)
  BY At
<1>2. PICK e \in ThreadRecord : e = [r EXCEPT !.at = b]
  BY ThreadGoes
<1>3. e.at = b /\ e.irq = r.irq /\ e.arg = r.arg
  BY <1>2, ThreadGoes
<1>4. Fits(e, u, hp, ht)
  <2>1. \/ r.at = Place("ticked") /\ u.proc = 0 /\ e.at = Place("iret")
        \/ r.at = Place("ticked") /\ u.proc # 0 /\ e.at = Acquire("ptable", Place("yield"))
        \/ /\ r.at \in {Place("ticked"), Place("yielded")} /\ u.proc # 0
           /\ r.irq.pc = "user" /\ e.at = Acquire("ptable", Place("exit"))
    BY <1>1, <1>3
  <2> QED
    BY <1>1, <1>3, <2>1, HandlerFits
<1>5. Steady(r, e)
  <2>1. e.at \notin Copying \cup Copied \cup GoesToSleep \cup {Place("sleep")}
    BY <1>3 DEF Copying, Copied, GoesToSleep, Place, Acquire, Release, SleepNow
  <2>2. r.at \notin TickWaits
    BY <1>1 DEF TickWaits, Place, Acquire
  <2> QED
    BY <1>3, <2>1, <2>2 DEF Steady, Base
<1>6. rthread' = [rthread EXCEPT ![On(c)] = e]
  BY <1>1, <1>2 DEF RrGo
<1>7. On(c) \in RrProc => e.arg \in RrProc
  BY <1>1, <1>3 DEF RrInv, RrTypeOK
<1>8. Fits(e, rcpu[c], rlock.ptable = c, rlock.tickslock = c)
  BY <1>1, <1>4
<1> QED
  BY <1>1, <1>5, <1>6, <1>7, <1>8, GoInv

LEMMA TickedInv == ASSUME RrInv, NEW c \in RrCpu, Ticked(c) PROVE RrInv'
<1>1. PICK t : t = On(c)
  OBVIOUS
<1>2. t \in Int /\ IF rcpu[c].proc = 0 THEN t < 0 /\ ~(t > 0) ELSE t > 0 /\ ~(t < 0)
  <2>1. c \in Nat \ {0} /\ rcpu[c].proc \in 0 .. RrProcs /\ RrProcs \in Nat
    BY Threads, RrAssumption DEF RrCpu, CpuRecord
  <2> QED
    BY <1>1, <2>1 DEF On
<1>3. RrAt(c, "ticked") /\ UNCHANGED <<rproc, rcpu, rlock, rleft, rpanic>>
  BY DEF Ticked
<1>4. CASE rcpu[c].proc = 0
  <2>1. PICK b : b = Place("iret")
    OBVIOUS
  <2>2. RrGo(c, b)
    BY <1>1, <1>2, <1>4, <2>1 DEF Ticked, KilledInUser
  <2>3. b \in AllAts
    BY <2>1 DEF AllAts, TickAts
  <2> QED
    BY <1>3, <1>4, <2>1, <2>2, <2>3, HandlerStep
<1>5. CASE rcpu[c].proc # 0 /\ KilledInUser(t)
  <2>1. PICK b : b = Acquire("ptable", Place("exit"))
    OBVIOUS
  <2>2. RrGo(c, b)
    BY <1>1, <1>2, <1>5, <2>1 DEF Ticked
  <2>3. b \in AllAts /\ rthread[On(c)].irq.pc = "user"
    BY <1>1, <1>5, <2>1 DEF AllAts, OpenAts, KilledInUser
  <2> QED
    BY <1>3, <1>5, <2>1, <2>2, <2>3, HandlerStep
<1>6. CASE rcpu[c].proc # 0 /\ ~KilledInUser(t)
  <2>1. PICK b : b = Acquire("ptable", Place("yield"))
    OBVIOUS
  <2>2. RrGo(c, b)
    BY <1>1, <1>2, <1>6, <2>1 DEF Ticked
  <2>3. b \in AllAts
    BY <2>1 DEF AllAts, YieldAts
  <2> QED
    BY <1>3, <1>6, <2>1, <2>2, <2>3, HandlerStep
<1> QED
  BY <1>4, <1>5, <1>6

LEMMA YieldedInv == ASSUME RrInv, NEW c \in RrCpu, rcpu[c].proc # 0, Yielded(c) PROVE RrInv'
<1>1. RrAt(c, "yielded") /\ UNCHANGED <<rproc, rcpu, rlock, rleft, rpanic>>
  BY DEF Yielded
<1>2. CASE KilledInUser(On(c))
  <2>1. PICK b : b = Acquire("ptable", Place("exit"))
    OBVIOUS
  <2>2. RrGo(c, b) /\ b \in AllAts /\ rthread[On(c)].irq.pc = "user"
    BY <1>2, <2>1 DEF Yielded, AllAts, OpenAts, KilledInUser
  <2> QED
    BY <1>1, <2>1, <2>2, HandlerStep
<1>3. CASE ~KilledInUser(On(c))
  <2>1. PICK b : b = Place("iret")
    OBVIOUS
  <2>2. RrGo(c, b) /\ b \in AllAts /\ Turns(Place("yielded"), b)
    BY <1>3, <2>1 DEF Yielded, AllAts, TickAts, Turns
  <2>3. b \notin {SleepNow, Release("ptable", Place("copy")), Acquire("ptable", Place("forkdone"))}
    BY <2>1 DEF Place, Acquire, Release, SleepNow
  <2> QED
    BY <1>1, <2>2, <2>3, TurnStep
<1> QED
  BY <1>2, <1>3

-----------------------------------------------------------------------------
(* Interrupts on and off.                                                  *)

LEMMA CpuFlag ==
  ASSUME NEW u \in CpuRecord, NEW i \in BOOLEAN
  PROVE  /\ [u EXCEPT !.iflag = i] \in CpuRecord /\ [u EXCEPT !.iflag = i].proc = u.proc
         /\ [u EXCEPT !.iflag = i].ncli = u.ncli /\ [u EXCEPT !.iflag = i].intena = u.intena
         /\ [u EXCEPT !.iflag = i].iflag = i
BY DEF CpuRecord

(* A step of a thread and its processor's flag.                            *)
LEMMA FlagInv ==
  ASSUME RrInv, NEW c \in RrCpu, NEW r \in ThreadRecord, NEW e \in ThreadRecord,
         NEW u \in CpuRecord, NEW v \in CpuRecord, NEW hp \in BOOLEAN, NEW ht \in BOOLEAN,
         r = rthread[On(c)], u = rcpu[c], hp = (rlock.ptable = c), ht = (rlock.tickslock = c),
         e.arg \in RrProc \/ e.arg = r.arg, v.proc = u.proc, Fits(e, v, hp, ht), Steady(r, e),
         rthread' = [rthread EXCEPT ![On(c)] = e], rcpu' = [rcpu EXCEPT ![c] = v],
         UNCHANGED <<rproc, rlock, rleft, rpanic>>
  PROVE  RrInv'
<1>1. rlock' \in [{"ptable", "tickslock"} -> 0 .. RrCpus] /\ ~rpanic'
  BY DEF RrInv, RrTypeOK
<1>2. On(c) \in RrProc => e.arg \in RrProc
  BY DEF RrInv, RrTypeOK
<1>3. Fits(e, v, rlock'.ptable = c, rlock'.tickslock = c)
  OBVIOUS
<1>4. v.proc = rcpu[c].proc
  OBVIOUS
<1> QED
  BY <1>1, <1>2, <1>3, <1>4, InnerInv

LEMMA TimerFits ==
  ASSUME NEW r \in ThreadRecord, NEW e \in ThreadRecord, NEW u \in CpuRecord, NEW v \in CpuRecord,
         NEW hp \in BOOLEAN, NEW ht \in BOOLEAN, Fits(r, u, hp, ht), u.iflag,
         e.irq = r.at, e.arg = r.arg, e.at \in {Acquire("tickslock", Place("tick")), Place("ticked")},
         v.proc = u.proc, v.ncli = u.ncli, ~v.iflag
  PROVE  Fits(e, v, hp, ht) /\ Steady(r, e)
<1>1. /\ r.irq = NotThere /\ ~hp /\ ~ht /\ u.ncli = 0
      /\ IF u.proc = 0 THEN r.at \in SchedulerOpen ELSE r.at \in OpenAts
  BY OpenOrLocked
<1>2. IF v.proc = 0 THEN SchedulerPlace(e) ELSE ProcessPlace(e)
  BY <1>1 DEF SchedulerPlace, ProcessPlace, TickAts
<1>3. e.at \notin PtableAts /\ e.at \notin TicksAts
  BY DEF PtableAts, TicksAts, Place, Acquire, Release, SleepNow
<1>4. e.irq # NotThere
  BY <1>1 DEF OpenAts, SchedulerOpen, NotThere, Place, Acquire
<1>5. Locks(e, v, hp, ht) /\ Interrupts(e, v)
  BY <1>1, <1>3, <1>4 DEF Locks, Interrupts
<1>6. Base(e) = Base(r)
  BY <1>1, <1>4 DEF Base
<1>7. e.at \notin GoesToSleep \cup {Place("sleep")}
  BY DEF GoesToSleep, Place, Acquire, Release, SleepNow
<1>8. r.at \notin TickWaits
  BY <1>1 DEF TickWaits, OpenAts, SchedulerOpen, Place, Acquire
<1> QED
  BY <1>2, <1>5, <1>6, <1>7, <1>8 DEF Fits, Steady

LEMMA TimerInv == ASSUME RrInv, NEW c \in RrCpu, Timer(c) PROVE RrInv'
<1>1. PICK r \in ThreadRecord, u \in CpuRecord, hp \in BOOLEAN, ht \in BOOLEAN :
        /\ r = rthread[On(c)] /\ u = rcpu[c]
        /\ hp = (rlock.ptable = c) /\ ht = (rlock.tickslock = c) /\ Fits(r, u, hp, ht)
  BY Here
<1>2. PICK b : b = IF c = 1 THEN Acquire("tickslock", Place("tick")) ELSE Place("ticked")
  OBVIOUS
<1>3. b \in AllAts /\ b \in {Acquire("tickslock", Place("tick")), Place("ticked")}
  BY <1>2 DEF AllAts, TickAts
<1>4. PICK e : e = [r EXCEPT !.irq = r.at, !.at = b]
  OBVIOUS
<1>5. e \in ThreadRecord /\ e.at = b /\ e.irq = r.at /\ e.arg = r.arg
  BY <1>3, <1>4 DEF ThreadRecord
<1>6. PICK v : v = [u EXCEPT !.iflag = FALSE]
  OBVIOUS
<1>7. v \in CpuRecord /\ v.proc = u.proc /\ v.ncli = u.ncli /\ ~v.iflag
  BY <1>6, CpuFlag
<1>8. u.iflag /\ UNCHANGED <<rproc, rlock, rleft, rpanic>>
  BY <1>1 DEF Timer
<1>9. Fits(e, v, hp, ht) /\ Steady(r, e)
  BY <1>1, <1>3, <1>5, <1>7, <1>8, TimerFits
<1>10. rcpu' = [rcpu EXCEPT ![c] = v]
  BY <1>1, <1>6 DEF Timer
<1>11. rthread' = [rthread EXCEPT ![On(c)] = e]
  <2>1. rthread' = [rthread EXCEPT ![On(c)].irq = rthread[On(c)].at, ![On(c)].at = b]
    BY <1>2 DEF Timer
  <2>2. rthread \in [RrThread -> ThreadRecord] /\ On(c) \in RrThread
    BY Threads DEF RrInv, RrTypeOK
  <2> QED
    BY <1>1, <1>4, <2>1, <2>2
<1> QED
  BY <1>1, <1>5, <1>7, <1>8, <1>9, <1>10, <1>11, FlagInv

LEMMA IretFits ==
  ASSUME NEW r \in ThreadRecord, NEW e \in ThreadRecord, NEW u \in CpuRecord, NEW v \in CpuRecord,
         NEW hp \in BOOLEAN, NEW ht \in BOOLEAN, Fits(r, u, hp, ht), r.at = Place("iret"),
         e.irq = NotThere, e.arg = r.arg, e.at = r.irq,
         v.proc = u.proc, v.ncli = u.ncli, v.iflag
  PROVE  Fits(e, v, hp, ht) /\ Steady(r, e)
<1>1. r.at \notin OpenAts \cup InsideAts \cup SchedulerAts \cup ExitAts
  BY DEF OpenAts, InsideAts, SchedulerAts, ExitAts, Place, Acquire, Release, SleepNow
<1>2. IF u.proc = 0 THEN r.irq \in SchedulerOpen ELSE r.irq \in OpenAts
  BY <1>1 DEF Fits, SchedulerPlace, ProcessPlace
<1>3. IF v.proc = 0 THEN SchedulerPlace(e) ELSE ProcessPlace(e)
  BY <1>2 DEF SchedulerPlace, ProcessPlace, SchedulerOpen, SchedulerAts
<1>4. r.at \notin PtableAts /\ r.at \notin TicksAts
  BY DEF PtableAts, TicksAts, Place, Acquire, Release, SleepNow
<1>5. ~hp /\ ~ht /\ u.ncli = 0
  BY <1>4 DEF Fits, Locks
<1>6. e.at \notin PtableAts
  BY <1>2 DEF PtableAts, OpenAts, SchedulerOpen, Place, Acquire, Release
<1>7. e.at \notin TicksAts
  BY <1>2 DEF TicksAts, OpenAts, SchedulerOpen, Place, Acquire, Release, SleepNow
<1>8. Locks(e, v, hp, ht) /\ Interrupts(e, v)
  BY <1>5, <1>6, <1>7 DEF Locks, Interrupts
<1>9. r.irq # NotThere
  BY <1>2 DEF OpenAts, SchedulerOpen, NotThere, Place, Acquire
<1>10. Base(e) = Base(r)
  BY <1>9 DEF Base
<1>11. e.at \notin GoesToSleep \cup {Place("sleep")}
  BY <1>2 DEF GoesToSleep, OpenAts, SchedulerOpen, Place, Acquire, Release, SleepNow
<1>12. r.at \notin TickWaits
  BY DEF TickWaits, Place, Acquire
<1> QED
  BY <1>3, <1>8, <1>10, <1>11, <1>12 DEF Fits, Steady

LEMMA IretInv == ASSUME RrInv, NEW c \in RrCpu, Iret(c) PROVE RrInv'
<1>1. PICK r \in ThreadRecord, u \in CpuRecord, hp \in BOOLEAN, ht \in BOOLEAN :
        /\ r = rthread[On(c)] /\ u = rcpu[c] /\ r.at = Place("iret")
        /\ hp = (rlock.ptable = c) /\ ht = (rlock.tickslock = c) /\ Fits(r, u, hp, ht)
  BY At DEF Iret
<1>2. r.irq \in AllAts
  <2>1. r.irq \in SchedulerOpen \cup OpenAts
    <3>1. r.at \notin OpenAts \cup InsideAts \cup SchedulerAts \cup ExitAts
      BY <1>1 DEF OpenAts, InsideAts, SchedulerAts, ExitAts, Place, Acquire, Release, SleepNow
    <3> QED
      BY <1>1, <3>1 DEF Fits, SchedulerPlace, ProcessPlace
  <2> QED
    BY <2>1 DEF AllAts, SchedulerOpen, SchedulerAts
<1>3. PICK e : e = [r EXCEPT !.at = r.irq, !.irq = NotThere]
  OBVIOUS
<1>4. e \in ThreadRecord /\ e.at = r.irq /\ e.irq = NotThere /\ e.arg = r.arg
  BY <1>2, <1>3 DEF ThreadRecord
<1>5. PICK v : v = [u EXCEPT !.iflag = TRUE]
  OBVIOUS
<1>6. v \in CpuRecord /\ v.proc = u.proc /\ v.ncli = u.ncli /\ v.iflag
  BY <1>5, CpuFlag
<1>7. Fits(e, v, hp, ht) /\ Steady(r, e)
  BY <1>1, <1>4, <1>6, IretFits
<1>8. rcpu' = [rcpu EXCEPT ![c] = v] /\ UNCHANGED <<rproc, rlock, rleft, rpanic>>
  BY <1>1, <1>5 DEF Iret
<1>9. rthread' = [rthread EXCEPT ![On(c)] = e]
  <2>1. rthread' = [rthread EXCEPT ![On(c)].at = rthread[On(c)].irq, ![On(c)].irq = NotThere]
    BY DEF Iret, NotThere
  <2>2. rthread \in [RrThread -> ThreadRecord] /\ On(c) \in RrThread
    BY Threads DEF RrInv, RrTypeOK
  <2> QED
    BY <1>1, <1>3, <2>1, <2>2
<1> QED
  BY <1>1, <1>4, <1>6, <1>7, <1>8, <1>9, FlagInv

(* sti() in scheduler(), and the way back to user space.                   *)
LEMMA StiFits ==
  ASSUME NEW r \in ThreadRecord, NEW e \in ThreadRecord, NEW u \in CpuRecord, NEW v \in CpuRecord,
         NEW hp \in BOOLEAN, NEW ht \in BOOLEAN, Fits(r, u, hp, ht),
         \/ r.at = Place("sti") /\ e.at = Acquire("ptable", Place("scan"))
         \/ r.at \in {Place("ret"), Place("trapret")} /\ e.at = Place("user"),
         e.irq = r.irq, e.arg = r.arg, v.proc = u.proc, v.ncli = u.ncli, v.iflag
  PROVE  Fits(e, v, hp, ht) /\ Steady(r, e)
<1> USE DEF Place, Acquire, Release, SleepNow
<1>1. r.irq = NotThere /\ IF v.proc = 0 THEN SchedulerPlace(e) ELSE ProcessPlace(e)
  BY DEF Fits, SchedulerPlace, ProcessPlace, OpenAts, InsideAts, SchedulerAts, TickAts, YieldAts, ExitAts
<1>2. r.at \notin PtableAts /\ e.at \notin PtableAts
  BY DEF PtableAts
<1>3. r.at \notin TicksAts /\ e.at \notin TicksAts
  BY DEF TicksAts
<1>4. ~hp /\ ~ht /\ u.ncli = 0
  BY <1>2, <1>3 DEF Fits, Locks
<1>5. Locks(e, v, hp, ht) /\ Interrupts(e, v)
  BY <1>1, <1>2, <1>3, <1>4 DEF Locks, Interrupts
<1>6. e.at \notin Copying \cup Copied \cup GoesToSleep \cup {Place("sleep")}
  BY DEF Copying, Copied, GoesToSleep
<1>7. r.at \notin TickWaits
  BY DEF TickWaits
<1> QED
  BY <1>1, <1>5, <1>6, <1>7 DEF Fits, Steady, Base

LEMMA StiStep ==
  ASSUME RrInv, NEW c \in RrCpu, NEW pc, RrAt(c, pc), NEW b \in AllAts, RrGo(c, b),
         \/ pc = "sti" /\ b = Acquire("ptable", Place("scan"))
         \/ pc \in {"ret", "trapret"} /\ b = Place("user"),
         rcpu' = [rcpu EXCEPT ![c].iflag = TRUE], UNCHANGED <<rproc, rlock, rleft, rpanic>>
  PROVE  RrInv'
<1>1. PICK r \in ThreadRecord, u \in CpuRecord, hp \in BOOLEAN, ht \in BOOLEAN :
        /\ r = rthread[On(c)] /\ u = rcpu[c] /\ r.at = Place(pc)
        /\ hp = (rlock.ptable = c) /\ ht = (rlock.tickslock = c) /\ Fits(r, u, hp, ht)
  BY At
<1>2. PICK e : e = [r EXCEPT !.at = b]
  OBVIOUS
<1>3. e \in ThreadRecord /\ e.at = b /\ e.irq = r.irq /\ e.arg = r.arg
  BY <1>2, ThreadGoes
<1>4. PICK v : v = [u EXCEPT !.iflag = TRUE]
  OBVIOUS
<1>5. v \in CpuRecord /\ v.proc = u.proc /\ v.ncli = u.ncli /\ v.iflag
  BY <1>4, CpuFlag
<1>6. \/ r.at = Place("sti") /\ e.at = Acquire("ptable", Place("scan"))
      \/ r.at \in {Place("ret"), Place("trapret")} /\ e.at = Place("user")
  BY <1>1, <1>3
<1>7. Fits(e, v, hp, ht) /\ Steady(r, e)
  BY <1>1, <1>3, <1>5, <1>6, StiFits
<1>8. rcpu' = [rcpu EXCEPT ![c] = v] /\ rthread' = [rthread EXCEPT ![On(c)] = e]
  BY <1>1, <1>2, <1>4 DEF RrGo
<1> QED
  BY <1>1, <1>3, <1>5, <1>7, <1>8, FlagInv

LEMMA SchedulerLoopInv == ASSUME RrInv, NEW c \in RrCpu, SchedulerLoop(c) PROVE RrInv'
<1>1. PICK b : b = Acquire("ptable", Place("scan"))
  OBVIOUS
<1>2. b \in AllAts
  BY <1>1 DEF AllAts, SchedulerAts
<1>3. /\ RrAt(c, "sti") /\ RrGo(c, b)
      /\ rcpu' = [rcpu EXCEPT ![c].iflag = TRUE] /\ UNCHANGED <<rproc, rlock, rleft, rpanic>>
  BY <1>1 DEF SchedulerLoop
<1> QED
  BY <1>1, <1>2, <1>3, StiStep

LEMMA SyscallReturnInv == ASSUME RrInv, NEW c \in RrCpu, SyscallReturn(c) PROVE RrInv'
<1>1. CASE /\ RrAt(c, "ret") /\ RrGo(c, Acquire("ptable", Place("exit")))
           /\ UNCHANGED <<rproc, rcpu, rlock, rleft, rpanic>>
  <2>1. PICK b : b = Acquire("ptable", Place("exit"))
    OBVIOUS
  <2>2. b \in AllAts /\ Turns(Place("ret"), b)
    BY <2>1 DEF AllAts, OpenAts, Turns
  <2>3. b \notin {SleepNow, Release("ptable", Place("copy")), Acquire("ptable", Place("forkdone"))}
    BY <2>1 DEF Place, Acquire, Release, SleepNow
  <2> QED
    BY <1>1, <2>1, <2>2, <2>3, TurnStep
<1>2. CASE /\ RrAt(c, "ret") \/ RrAt(c, "trapret")
           /\ rcpu' = [rcpu EXCEPT ![c].iflag = TRUE] /\ RrGo(c, Place("user"))
           /\ UNCHANGED <<rproc, rlock, rleft, rpanic>>
  <2>1. PICK b : b = Place("user")
    OBVIOUS
  <2>2. b \in AllAts
    BY <2>1 DEF AllAts, OpenAts
  <2>3. RrGo(c, b)
    BY <1>2, <2>1
  <2>4. CASE RrAt(c, "ret")
    BY <1>2, <2>1, <2>2, <2>3, <2>4, StiStep
  <2>5. CASE RrAt(c, "trapret")
    BY <1>2, <2>1, <2>2, <2>3, <2>5, StiStep
  <2> QED
    BY <1>2, <2>4, <2>5
<1> QED
  BY <1>1, <1>2 DEF SyscallReturn


-----------------------------------------------------------------------------
(* Steps that set the argument of the thread.                              *)

LEMMA TurnToFits ==
  ASSUME NEW r \in ThreadRecord, NEW e \in ThreadRecord, NEW u \in CpuRecord,
         NEW hp \in BOOLEAN, NEW ht \in BOOLEAN, Fits(r, u, hp, ht), e.irq = r.irq,
         \/ r.at = Place("scan") /\ e.at = Release("ptable", Place("sti"))
         \/ r.at = Place("user") /\ e.at \in {Acquire("ptable", Place("alloc")), Acquire("ptable", Place("waitscan")),
              Acquire("ptable", Place("kill")), Acquire("ptable", Place("exit")), Acquire("tickslock", Place("sleepstart"))}
  PROVE  Fits(e, u, hp, ht) /\ Steady(r, e)
<1>1. Turns(r.at, e.at)
  BY DEF Turns
<1>2. Fits(e, u, hp, ht)
  BY <1>1, TurnFits
<1> USE DEF Place, Acquire, Release, SleepNow
<1>3. r.irq = NotThere
  BY DEF Fits, SchedulerPlace, ProcessPlace, OpenAts, InsideAts, TickAts, YieldAts, ExitAts, SchedulerAts, SchedulerOpen
<1>4. e.at \notin Copying \cup Copied \cup GoesToSleep \cup {Place("sleep")}
  BY DEF Copying, Copied, GoesToSleep
<1>5. r.at \notin TickWaits
  BY DEF TickWaits
<1> QED
  BY <1>2, <1>3, <1>4, <1>5 DEF Steady, Base

LEMMA ArgStep ==
  ASSUME RrInv, NEW c \in RrCpu, NEW pc \in {"scan", "user"}, RrAt(c, pc), NEW b \in AllAts,
         NEW a \in 1 .. RrProcs + 1, On(c) \in RrProc => a \in RrProc,
         rthread' = [rthread EXCEPT ![On(c)].arg = a, ![On(c)].at = b],
         UNCHANGED <<rproc, rcpu, rlock, rleft, rpanic>>,
         \/ pc = "scan" /\ b = Release("ptable", Place("sti"))
         \/ pc = "user" /\ b \in {Acquire("ptable", Place("alloc")), Acquire("ptable", Place("waitscan")),
              Acquire("ptable", Place("kill")), Acquire("ptable", Place("exit")), Acquire("tickslock", Place("sleepstart"))}
  PROVE  RrInv'
<1>1. PICK r \in ThreadRecord, u \in CpuRecord, hp \in BOOLEAN, ht \in BOOLEAN :
        /\ r = rthread[On(c)] /\ u = rcpu[c] /\ r.at = Place(pc)
        /\ hp = (rlock.ptable = c) /\ ht = (rlock.tickslock = c) /\ Fits(r, u, hp, ht)
  BY At
<1>2. PICK e : e = [r EXCEPT !.arg = a, !.at = b]
  OBVIOUS
<1>3. e \in ThreadRecord /\ e.at = b /\ e.irq = r.irq /\ e.arg = a
  BY <1>2 DEF ThreadRecord
<1>4. \/ r.at = Place("scan") /\ e.at = Release("ptable", Place("sti"))
      \/ r.at = Place("user") /\ e.at \in {Acquire("ptable", Place("alloc")), Acquire("ptable", Place("waitscan")),
           Acquire("ptable", Place("kill")), Acquire("ptable", Place("exit")), Acquire("tickslock", Place("sleepstart"))}
  BY <1>1, <1>3
<1>5. Fits(e, u, hp, ht) /\ Steady(r, e)
  BY <1>1, <1>3, <1>4, TurnToFits
<1>6. Fits(e, rcpu[c], rlock.ptable = c, rlock.tickslock = c) /\ Steady(rthread[On(c)], e)
  BY <1>1, <1>5
<1>7. rthread' = [rthread EXCEPT ![On(c)] = e]
  <2>1. rthread \in [RrThread -> ThreadRecord] /\ On(c) \in RrThread
    BY Threads DEF RrInv, RrTypeOK
  <2> QED
    BY <1>1, <1>2, <2>1
<1> QED
  BY <1>3, <1>6, <1>7, GoInv

LEMMA SchedulerDoneInv ==
  ASSUME RrInv, NEW c \in RrCpu, rcpu[c].proc = 0, SchedulerDone(c) PROVE RrInv'
<1>1. PICK b : b = Release("ptable", Place("sti"))
  OBVIOUS
<1>2. b \in AllAts
  BY <1>1 DEF AllAts, SchedulerAts
<1>3. On(c) = 0 - c /\ On(c) \notin RrProc
  BY Threads
<1>4. 1 \in 1 .. RrProcs + 1
  BY RrAssumption
<1>5. rthread' = [rthread EXCEPT ![On(c)].arg = 1, ![On(c)].at = b]
  <2>1. rthread' = [rthread EXCEPT ![On(c)].at = b, ![On(c)].arg = 1]
    BY <1>1, <1>3 DEF SchedulerDone
  <2>2. rthread \in [RrThread -> ThreadRecord] /\ On(c) \in RrThread
    BY Threads DEF RrInv, RrTypeOK
  <2>3. PICK r \in ThreadRecord : r = rthread[On(c)]
    BY <2>2
  <2>4. [r EXCEPT !.at = b, !.arg = 1] = [r EXCEPT !.arg = 1, !.at = b]
    BY DEF ThreadRecord
  <2> QED
    BY <2>1, <2>2, <2>3, <2>4
<1>6. RrAt(c, "scan") /\ UNCHANGED <<rproc, rcpu, rlock, rleft, rpanic>>
  BY DEF SchedulerDone
<1> QED
  BY <1>1, <1>2, <1>3, <1>4, <1>5, <1>6, ArgStep

(* Only a process is in user space.                                        *)
LEMMA UserRuns ==
  ASSUME RrInv, NEW c \in RrCpu, RrAt(c, "user")
  PROVE  rcpu[c].proc \in RrProc /\ On(c) = rcpu[c].proc
<1>1. PICK r \in ThreadRecord, u \in CpuRecord, hp \in BOOLEAN, ht \in BOOLEAN :
        /\ r = rthread[On(c)] /\ u = rcpu[c] /\ r.at = Place("user")
        /\ hp = (rlock.ptable = c) /\ ht = (rlock.tickslock = c) /\ Fits(r, u, hp, ht)
  BY At
<1>2. r.at \notin SchedulerAts \cup TickAts
  BY <1>1 DEF SchedulerAts, TickAts, Place, Acquire, Release
<1>3. u.proc # 0
  BY <1>1, <1>2 DEF Fits, SchedulerPlace
<1> QED
  BY <1>1, <1>3, Threads

LEMMA SyscallEnterInv == ASSUME RrInv, NEW c \in RrCpu, SyscallEnter(c) PROVE RrInv'
<1>1. RrAt(c, "user") /\ UNCHANGED <<rproc, rcpu, rlock, rleft, rpanic>>
  BY DEF SyscallEnter
<1>2. On(c) = rcpu[c].proc
  BY <1>1, UserRuns
<1>3. PICK call \in RrCalls, q \in RrProc : rthread' = [rthread EXCEPT ![On(c)].arg = q, ![On(c)].at =
        Acquire(IF call = "sleepstart" THEN "tickslock" ELSE "ptable", Place(call))]
  BY <1>2 DEF SyscallEnter
<1>4. PICK b : b = Acquire(IF call = "sleepstart" THEN "tickslock" ELSE "ptable", Place(call))
  OBVIOUS
<1>5. b \in {Acquire("ptable", Place("alloc")), Acquire("ptable", Place("waitscan")),
             Acquire("ptable", Place("kill")), Acquire("ptable", Place("exit")), Acquire("tickslock", Place("sleepstart"))}
  BY <1>4 DEF RrCalls
<1>6. b \in AllAts
  BY <1>5 DEF AllAts, OpenAts
<1>7. q \in 1 .. RrProcs + 1
  BY RrAssumption DEF RrProc
<1>8. rthread' = [rthread EXCEPT ![On(c)].arg = q, ![On(c)].at = b]
  BY <1>3, <1>4
<1> QED
  BY <1>1, <1>5, <1>6, <1>7, <1>8, ArgStep

-----------------------------------------------------------------------------
(* Steps that change ptable, on the processor that has it.                 *)

(* The threads after a step of the one on c, which may have reset embryos. *)
LEMMA TableStep ==
  ASSUME RrInv, NEW c \in RrCpu, NEW r \in ThreadRecord, NEW e \in ThreadRecord,
         r = rthread[On(c)], On(c) \in RrProc => e.arg \in RrProc, e.irq = r.irq, Turns(r.at, e.at),
         rthread' \in [RrThread -> ThreadRecord], rthread'[On(c)] = e,
         \A x \in RrThread : x # On(c) /\ rthread'[x] # rthread[x] =>
           /\ x \in RrProc /\ rproc[x].state = "EMBRYO" /\ rproc'[x].state = "EMBRYO"
           /\ rthread'[x].arg = rthread[x].arg,
         UNCHANGED <<rcpu, rlock, rpanic>>,
         rproc' \in [RrProc -> ProcRecord], rleft' \in [RrProc -> Nat],
         \A p \in RrProc : rproc'[p].state = "RUNNING" <=> rproc[p].state = "RUNNING",
         \A p \in RrProc : rproc'[p].state \in {"RUNNABLE", "SLEEPING"} =>
           \/ rproc[p].state \in {"RUNNABLE", "SLEEPING"}
              /\ (rproc'[p].state = "SLEEPING" => rproc[p].state = "SLEEPING")
           \/ Left(rproc'[p], rthread'[p])
  PROVE  RrTypeOK' /\ ~rpanic' /\ CpusInv' /\ RunningInv' /\ LeftInv' /\ \A d \in RrCpu : On(d)' = On(d)
<1>1. RrTypeOK'
  <2>1. \A p \in RrProc : p \in RrThread
    BY DEF RrThread
  <2>2. \A p \in RrProc : rthread'[p].arg \in RrProc
    BY <2>1 DEF RrInv, RrTypeOK
  <2> QED
    BY <2>2 DEF RrInv, RrTypeOK
<1>2. PICK u \in CpuRecord, hp \in BOOLEAN, ht \in BOOLEAN :
        /\ u = rcpu[c] /\ hp = (rlock.ptable = c) /\ ht = (rlock.tickslock = c) /\ Fits(r, u, hp, ht)
  BY Here
<1>3. Fits(e, u, hp, ht)
  BY <1>2, TurnFits
<1>4. Fits(rthread'[On(c)], rcpu'[c], rlock'.ptable = c, rlock'.tickslock = c)
  BY <1>2, <1>3
<1>5. \A x \in RrThread : x # On(c) /\ rthread'[x] # rthread[x] =>
        x \in RrProc /\ rproc[x].state = "EMBRYO" /\ rproc'[x].state = "EMBRYO"
  OBVIOUS
<1>6. ~rpanic'
  BY DEF RrInv
<1>7. CpusInv' /\ RunningInv' /\ LeftInv' /\ \A d \in RrCpu : On(d)' = On(d)
  BY <1>1, <1>4, <1>5, CoreStep
<1> QED
  BY <1>1, <1>6, <1>7

(* Nobody enters or gets on in fork(), and its embryos stay as they are.   *)
LEMMA ForksStay ==
  ASSUME RrInv, RrTypeOK', NEW t \in RrThread,
         \A p \in RrProc : p # t => rthread'[p] = rthread[p],
         t \in RrProc /\ Base(rthread'[t]) \in Copying \cup Copied => rthread'[t].arg = rthread[t].arg,
         t \in RrProc /\ Base(rthread'[t]) \in Copying => Base(rthread[t]) \in Copying,
         t \in RrProc /\ Base(rthread'[t]) \in Copied => Base(rthread[t]) \in Copied,
         t \in RrProc => rproc[t].state # "EMBRYO",
         \A p \in RrProc : Live(p)' /\ Base(rthread'[p]) \in Copying \cup Copied => Live(p),
         \A p \in RrProc : Forks(p) /\ Forks(p)' =>
           /\ rproc'[rthread[p].arg].state = "EMBRYO"
           /\ rproc'[rthread[p].arg].parent = rproc[rthread[p].arg].parent,
         \A n \in RrProc : rproc'[n].state = "UNUSED" =>
           rproc'[n].parent = 0 \/ (rproc[n].state = "UNUSED" /\ rproc'[n].parent = rproc[n].parent)
  PROVE  ForksInv'
<1>1. ASSUME NEW p \in RrProc, Forks(p)'
      PROVE  /\ Forks(p) /\ rthread'[p].arg = rthread[p].arg
             /\ Base(rthread'[p]) \in Copying => Base(rthread[p]) \in Copying
             /\ Base(rthread'[p]) \in Copied => Base(rthread[p]) \in Copied
             /\ LET n == rthread[p].arg
                IN  /\ rproc'[n].state = "EMBRYO" /\ rproc'[n].parent = rproc[n].parent
                    /\ rthread'[n] = rthread[n]
  <2>1. /\ rthread'[p].arg = rthread[p].arg
        /\ Base(rthread'[p]) \in Copying => Base(rthread[p]) \in Copying
        /\ Base(rthread'[p]) \in Copied => Base(rthread[p]) \in Copied
    <3>1. CASE p = t
      BY <1>1, <3>1 DEF Forks
    <3>2. CASE p # t
      BY <3>2
    <3> QED
      BY <3>1, <3>2
  <2>2. Forks(p)
    BY <1>1, <2>1 DEF Forks
  <2>3. rproc[rthread[p].arg].state = "EMBRYO" /\ rthread[p].arg \in RrProc
    BY <2>2 DEF RrInv, ForksInv, RrTypeOK
  <2>4. rthread'[rthread[p].arg] = rthread[rthread[p].arg]
    BY <2>3
  <2> HIDE DEF Forks
  <2> QED
    BY <1>1, <2>1, <2>2, <2>3, <2>4
<1> HIDE DEF Forks
<1> QED
  BY <1>1, ForksKept

(* Who sleeps goes on sleeping for the same reason.                        *)
LEMMA SleepersStay ==
  ASSUME RrInv, RrTypeOK', NEW t \in RrThread, t \in RrProc => Sleeper(t)',
         TickPending => TickPending',
         \A p \in RrProc : p # t => rleft'[p] = rleft[p],
         \A p \in RrProc : p # t /\ rthread'[p] # rthread[p] => rproc'[p].state \notin {"SLEEPING", "RUNNING"},
         \A p \in RrProc : p # t /\ rproc'[p].state = "SLEEPING" =>
           rproc[p].state = "SLEEPING" /\ rproc'[p].chan = rproc[p].chan /\ rproc'[p].killed = rproc[p].killed,
         \A p \in RrProc : p # t /\ rproc'[p].state = "RUNNING" =>
           \/ rproc[p].state = "RUNNING"
           \/ rthread'[p].at \notin GoesToSleep \cup {Place("sleep")},
         \A p, q \in RrProc : p # t /\ rproc'[p].state = "SLEEPING" /\ rproc'[p].chan = p =>
           /\ rproc[q].parent = p /\ rproc[q].state # "ZOMBIE" => rproc'[q].parent = p
           /\ rproc'[q].parent = p /\ rproc'[q].state = "ZOMBIE" => rproc[q].parent = p /\ rproc[q].state = "ZOMBIE"
  PROVE  SleepersInv'
<1> SUFFICES ASSUME NEW p \in RrProc, p # t PROVE Sleeper(p)'
  BY DEF SleepersInv
<1>1. Sleeper(p)
  BY DEF RrInv, SleepersInv
<1>2. ASSUME rproc'[p].state = "SLEEPING", rthread'[p].at = Place("slept")
      PROVE  rproc'[p].chan = RrTicks /\ (rleft'[p] > 0 \/ TickPending')
  BY <1>1, <1>2 DEF Sleeper
<1>3. ASSUME rproc'[p].state = "SLEEPING", rthread'[p].at = Place("waitscan")
      PROVE  /\ rproc'[p].chan = p /\ ~rproc'[p].killed
             /\ RrChildren(p)' # {} /\ \A q \in RrChildren(p)' : rproc'[q].state # "ZOMBIE"
  <2>1. /\ rproc'[p].chan = p /\ ~rproc'[p].killed
        /\ RrChildren(p) # {} /\ \A q \in RrChildren(p) : rproc[q].state # "ZOMBIE"
    BY <1>1, <1>3 DEF Sleeper
  <2>2. PICK q \in RrProc : rproc[q].parent = p /\ rproc[q].state # "ZOMBIE"
    BY <2>1 DEF RrChildren
  <2>3. q \in RrChildren(p)'
    BY <1>3, <2>1, <2>2 DEF RrChildren
  <2>4. ASSUME NEW x \in RrChildren(p)' PROVE rproc'[x].state # "ZOMBIE"
    BY <1>3, <2>1, <2>4 DEF RrChildren
  <2> QED
    BY <2>1, <2>3, <2>4
<1>4. ASSUME rproc'[p].state = "RUNNING", rthread'[p].at \in GoesToSleep
      PROVE  rleft'[p] > 0
  BY <1>1, <1>4 DEF Sleeper
<1>5. ASSUME rproc'[p].state = "RUNNING", rthread'[p].at = Place("sleep")
      PROVE  rleft'[p] > 0 \/ TickPending'
  BY <1>1, <1>5 DEF Sleeper
<1> HIDE DEF RrChildren, TickPending
<1> QED
  BY <1>2, <1>3, <1>4, <1>5 DEF Sleeper

(* A process in its own section of ptable.lock or of tickslock.            *)
LEMMA SectionStep ==
  ASSUME RrInv, NEW c \in RrCpu, NEW pc, RrAt(c, pc), pc \notin {"acquire", "release", "tickwakes"},
         NEW b \in AllAts, RrGo(c, b), Turns(Place(pc), b),
         b \notin Copying \cup Copied \cup TickWaits \cup {Place("sleep")},
         On(c) \in RrProc /\ b \in GoesToSleep => rleft'[On(c)] > 0,
         UNCHANGED <<rcpu, rlock, rpanic>>,
         rproc' \in [RrProc -> ProcRecord], rleft' \in [RrProc -> Nat],
         \A p \in RrProc : p # On(c) => rleft'[p] = rleft[p],
         \A p \in RrProc : rproc'[p].state = "RUNNING" <=> rproc[p].state = "RUNNING",
         \A p \in RrProc : rproc'[p].state \in {"RUNNABLE", "SLEEPING"} =>
           \/ /\ rproc[p].state \in {"RUNNABLE", "SLEEPING"}
              /\ rproc'[p].state = "SLEEPING" =>
                   rproc[p].state = "SLEEPING" /\ rproc'[p].chan = rproc[p].chan /\ rproc'[p].killed = rproc[p].killed
           \/ /\ rproc'[p].state = "RUNNABLE" /\ p # On(c)
              /\ rthread[p].at = Place("forkret") /\ rthread[p].irq = NotThere,
         \A p \in RrProc : p # On(c) /\ Forks(p) =>
           /\ rproc'[rthread[p].arg].state = "EMBRYO"
           /\ rproc'[rthread[p].arg].parent = rproc[rthread[p].arg].parent,
         On(c) \in RrProc /\ rthread[On(c)].irq \in Copying \cup Copied => rproc' = rproc,
         \A n \in RrProc : rproc'[n].state = "UNUSED" =>
           rproc'[n].parent = 0 \/ (rproc[n].state = "UNUSED" /\ rproc'[n].parent = rproc[n].parent),
         \A p, q \in RrProc : rproc'[p].state = "SLEEPING" =>
           /\ rproc[q].parent = p /\ rproc[q].state # "ZOMBIE" => rproc'[q].parent = p
           /\ rproc'[q].parent = p /\ rproc'[q].state = "ZOMBIE" => rproc[q].parent = p /\ rproc[q].state = "ZOMBIE",
         TreeInv'
  PROVE  RrInv'
<1>1. PICK r \in ThreadRecord : r = rthread[On(c)] /\ r.at = Place(pc)
  BY At
<1>2. PICK e \in ThreadRecord : e = [r EXCEPT !.at = b]
  BY ThreadGoes
<1>3. e.at = b /\ e.irq = r.irq /\ e.arg = r.arg
  BY <1>2, ThreadGoes
<1>4. rthread' = [rthread EXCEPT ![On(c)] = e]
  BY <1>1, <1>2 DEF RrGo
<1>5. /\ rthread' \in [RrThread -> ThreadRecord] /\ rthread'[On(c)] = e /\ On(c) \in RrThread
      /\ \A x \in RrThread : x # On(c) => rthread'[x] = rthread[x]
  BY <1>4, Threads DEF RrInv, RrTypeOK
<1>6. On(c) \in RrProc => e.arg \in RrProc
  BY <1>1, <1>3 DEF RrInv, RrTypeOK
<1>7. \A p \in RrProc : p \in RrThread
  BY DEF RrThread
<1>8. Turns(r.at, e.at)
  BY <1>1, <1>3
<1>9. RrTypeOK' /\ ~rpanic' /\ CpusInv' /\ RunningInv' /\ LeftInv' /\ \A d \in RrCpu : On(d)' = On(d)
  <2>1. ASSUME NEW p \in RrProc, rproc'[p].state \in {"RUNNABLE", "SLEEPING"}
        PROVE  \/ rproc[p].state \in {"RUNNABLE", "SLEEPING"}
                  /\ (rproc'[p].state = "SLEEPING" => rproc[p].state = "SLEEPING")
               \/ Left(rproc'[p], rthread'[p])
    <3>1. CASE rproc[p].state \in {"RUNNABLE", "SLEEPING"}
      BY <2>1, <3>1
    <3>2. CASE rproc[p].state \notin {"RUNNABLE", "SLEEPING"}
      <4>1. /\ rproc'[p].state = "RUNNABLE" /\ p # On(c)
            /\ rthread[p].at = Place("forkret") /\ rthread[p].irq = NotThere
        BY <2>1, <3>2
      <4>2. rthread'[p] = rthread[p]
        BY <4>1, <1>5, <1>7
      <4>3. Place("forkret") \in InsideAts
        BY DEF InsideAts
      <4> QED
        BY <4>1, <4>2, <4>3 DEF Left, ProcessPlace
    <3> QED
      BY <3>1, <3>2
  <2>2. \A x \in RrThread : x # On(c) /\ rthread'[x] # rthread[x] =>
          /\ x \in RrProc /\ rproc[x].state = "EMBRYO" /\ rproc'[x].state = "EMBRYO"
          /\ rthread'[x].arg = rthread[x].arg
    BY <1>5
  <2> QED
    BY <1>1, <1>3, <1>5, <1>6, <1>8, <2>1, <2>2, TableStep
<1>10. On(c) \in RrProc => rproc[On(c)].state = "RUNNING"
  BY OnRuns
<1>11. ForksInv'
  <2>1. Base(e) \in Copying \cup Copied => e.irq # NotThere /\ Base(e) = Base(r) /\ r.irq \in Copying \cup Copied
    BY <1>3 DEF Base
  <2>2. \A p \in RrProc : Live(p)' /\ Base(rthread'[p]) \in Copying \cup Copied => Live(p)
    <3> SUFFICES ASSUME NEW p \in RrProc, Live(p)', Base(rthread'[p]) \in Copying \cup Copied PROVE Live(p)
      OBVIOUS
    <3>1. CASE rproc'[p].state = "RUNNING"
      BY <3>1 DEF Live
    <3>2. CASE rproc[p].state \in {"RUNNABLE", "SLEEPING"}
      BY <3>2 DEF Live
    <3>3. CASE p # On(c) /\ rthread[p].at = Place("forkret") /\ rthread[p].irq = NotThere
      <4>1. rthread'[p] = rthread[p]
        BY <3>3, <1>5, <1>7
      <4>2. Base(rthread'[p]) = Place("forkret")
        BY <3>3, <4>1 DEF Base
      <4> QED
        BY <4>2 DEF Copying, Copied, Place, Acquire, Release
    <3> QED
      BY <3>1, <3>2, <3>3 DEF Live
  <2>3. ASSUME NEW p \in RrProc, Forks(p), Forks(p)'
        PROVE  /\ rproc'[rthread[p].arg].state = "EMBRYO"
               /\ rproc'[rthread[p].arg].parent = rproc[rthread[p].arg].parent
    <3>1. CASE p = On(c)
      <4>1. Base(e) \in Copying \cup Copied
        BY <2>3, <3>1, <1>5 DEF Forks
      <4>2. rproc' = rproc
        BY <4>1, <2>1, <1>1, <3>1
      <4>3. rproc[rthread[p].arg].state = "EMBRYO"
        BY <2>3 DEF RrInv, ForksInv
      <4> QED
        BY <4>2, <4>3
    <3>2. CASE p # On(c)
      BY <2>3, <3>2
    <3> QED
      BY <3>1, <3>2
  <2>4. \A p \in RrProc : p # On(c) => rthread'[p] = rthread[p]
    BY <1>5, <1>7
  <2>5. On(c) \in RrProc => rproc[On(c)].state # "EMBRYO"
    BY <1>10
  <2>6. /\ On(c) \in RrProc /\ Base(rthread'[On(c)]) \in Copying \cup Copied => rthread'[On(c)].arg = rthread[On(c)].arg
        /\ On(c) \in RrProc /\ Base(rthread'[On(c)]) \in Copying => Base(rthread[On(c)]) \in Copying
        /\ On(c) \in RrProc /\ Base(rthread'[On(c)]) \in Copied => Base(rthread[On(c)]) \in Copied
    BY <1>1, <1>3, <1>5, <2>1
  <2> HIDE DEF Forks, Live
  <2> QED
    BY <1>5, <1>9, <2>2, <2>3, <2>4, <2>5, <2>6, ForksStay
<1>12. TickPending => TickPending'
  <2>1. \A d \in RrCpu \ {c} : rthread'[On(d)] = rthread[On(d)]
    BY <1>5, Threads
  <2>2. r.at \notin TickWaits
    BY <1>1 DEF TickWaits, Place, Acquire
  <2> QED
    BY <1>1, <1>9, <2>1, <2>2, PendingKept
<1>13. SleepersInv'
  <2>t. PICK t \in RrThread : t = On(c)
    BY <1>5
  <2>1. t \in RrProc => Sleeper(t)'
    <3> SUFFICES ASSUME t \in RrProc PROVE Sleeper(t)'
      OBVIOUS
    <3>1. rproc'[t].state = "RUNNING" /\ rthread'[t].at = b
      BY <1>3, <1>5, <1>10, <2>t
    <3>2. b \in GoesToSleep => rleft'[t] > 0
      BY <2>t
    <3> QED
      BY <3>1, <3>2 DEF Sleeper
  <2>2. \A p \in RrProc : p # t => rthread'[p] = rthread[p]
    BY <1>5, <1>7, <2>t
  <2>3. \A p \in RrProc : p # t /\ rproc'[p].state = "SLEEPING" =>
          rproc[p].state = "SLEEPING" /\ rproc'[p].chan = rproc[p].chan /\ rproc'[p].killed = rproc[p].killed
    BY <2>t
  <2>4. \A p \in RrProc : p # t => rleft'[p] = rleft[p]
    BY <2>t
  <2> HIDE DEF TickPending, Sleeper
  <2> QED
    BY <1>9, <1>12, <2>1, <2>2, <2>3, <2>4, SleepersStay
<1> QED
  BY <1>9, <1>11, <1>13 DEF RrInv

-----------------------------------------------------------------------------
(* fork(), wait(), kill() and sleep() under their locks.                   *)

States == {"UNUSED", "EMBRYO", "SLEEPING", "RUNNABLE", "RUNNING", "ZOMBIE"}

LEMMA ProcGoes ==
  ASSUME NEW s \in ProcRecord
  PROVE  /\ \A v \in States :
              /\ [s EXCEPT !.state = v] \in ProcRecord /\ [s EXCEPT !.state = v].state = v
              /\ [s EXCEPT !.state = v].parent = s.parent /\ [s EXCEPT !.state = v].chan = s.chan
              /\ [s EXCEPT !.state = v].killed = s.killed
         /\ \A q \in 0 .. RrProcs :
              /\ [s EXCEPT !.parent = q] \in ProcRecord /\ [s EXCEPT !.parent = q].parent = q
              /\ [s EXCEPT !.parent = q].state = s.state /\ [s EXCEPT !.parent = q].chan = s.chan
              /\ [s EXCEPT !.parent = q].killed = s.killed
         /\ \A q \in {RrTicks} \cup 0 .. RrProcs :
              /\ [s EXCEPT !.chan = q] \in ProcRecord /\ [s EXCEPT !.chan = q].chan = q
              /\ [s EXCEPT !.chan = q].state = s.state /\ [s EXCEPT !.chan = q].parent = s.parent
              /\ [s EXCEPT !.chan = q].killed = s.killed
         /\ /\ [s EXCEPT !.killed = TRUE] \in ProcRecord /\ [s EXCEPT !.killed = TRUE].killed
            /\ [s EXCEPT !.killed = TRUE].state = s.state /\ [s EXCEPT !.killed = TRUE].parent = s.parent
            /\ [s EXCEPT !.killed = TRUE].chan = s.chan
BY DEF ProcRecord, States

(* A process in a system call, between its interrupts.                     *)
LEMMA InKernel ==
  ASSUME RrInv, NEW c \in RrCpu, NEW pc, RrAt(c, pc),
         pc \in {"alloc", "copy", "forkdone", "waitscan", "kill", "sleepstart", "sleeptest", "sleep", "slept"}
  PROVE  /\ On(c) \in RrProc /\ rcpu[c].proc = On(c) /\ rproc[On(c)].state = "RUNNING"
         /\ rthread[On(c)].at = Place(pc) /\ rthread[On(c)].irq = NotThere
<1>1. PICK r \in ThreadRecord, u \in CpuRecord, hp \in BOOLEAN, ht \in BOOLEAN :
        /\ r = rthread[On(c)] /\ u = rcpu[c] /\ r.at = Place(pc)
        /\ hp = (rlock.ptable = c) /\ ht = (rlock.tickslock = c) /\ Fits(r, u, hp, ht)
  BY At
<1>2. r.at \notin SchedulerAts \cup TickAts \cup YieldAts \cup ExitAts
  BY <1>1 DEF SchedulerAts, TickAts, YieldAts, ExitAts, Place, Acquire, Release
<1>3. u.proc # 0 /\ r.irq = NotThere
  BY <1>1, <1>2 DEF Fits, SchedulerPlace, ProcessPlace
<1> QED
  BY <1>1, <1>3, Threads, OnRuns

LEMMA ForkDoneInv == ASSUME RrInv, NEW c \in RrCpu, RrForkDone(c) PROVE RrInv'
<1>1. RrAt(c, "forkdone") /\ UNCHANGED <<rcpu, rlock, rleft, rpanic>>
  BY DEF RrForkDone
<1>2. PICK p \in RrProc : p = On(c) /\ rproc[p].state = "RUNNING"
        /\ rthread[p].at = Place("forkdone") /\ rthread[p].irq = NotThere
  BY <1>1, InKernel
<1>3. PICK n \in RrProc : n = rthread[p].arg
  BY DEF RrInv, RrTypeOK
<1>4. Forks(p) /\ Base(rthread[p]) \in Copied
  BY <1>2 DEF Forks, Live, Base, Copied
<1>5. /\ rproc[n].state = "EMBRYO" /\ rproc[n].parent = p /\ n # p
      /\ rthread[n].at = Place("forkret") /\ rthread[n].irq = NotThere
      /\ \A q \in RrProc \ {p} : Forks(q) => rthread[q].arg # n
  BY <1>2, <1>3, <1>4 DEF RrInv, ForksInv
<1>6. \A q \in RrProc : rproc[q] \in ProcRecord
  BY Threads
<1>7. PICK f \in ProcRecord : f = [rproc[n] EXCEPT !.state = "RUNNABLE"]
  BY <1>6, ProcGoes DEF States
<1>8. f.state = "RUNNABLE" /\ f.parent = p
  BY <1>5, <1>6, <1>7, ProcGoes DEF States
<1>9. rproc' \in [RrProc -> ProcRecord] /\ \A q \in RrProc : rproc'[q] = IF q = n THEN f ELSE rproc[q]
  <2>1. rproc' = [rproc EXCEPT ![n] = f]
    BY <1>2, <1>3, <1>7 DEF RrForkDone
  <2> QED
    BY <2>1 DEF RrInv, RrTypeOK
<1>10. PICK b : b = Release("ptable", Place("ret"))
  OBVIOUS
<1>11. /\ b \in AllAts /\ RrGo(c, b) /\ Turns(Place("forkdone"), b)
       /\ b \notin Copying \cup Copied \cup TickWaits \cup GoesToSleep \cup {Place("sleep")}
  BY <1>10 DEF AllAts, InsideAts, RrForkDone, Turns, Copying, Copied, TickWaits, GoesToSleep, Place, Acquire, Release, SleepNow
<1>12. /\ rleft' \in [RrProc -> Nat]
       /\ \A q \in RrProc : rleft'[q] = rleft[q]
  BY <1>1 DEF RrInv, RrTypeOK
<1>13. \A q \in RrProc : q # On(c) /\ Forks(q) =>
         /\ rproc'[rthread[q].arg].state = "EMBRYO"
         /\ rproc'[rthread[q].arg].parent = rproc[rthread[q].arg].parent
  <2> SUFFICES ASSUME NEW q \in RrProc, q # On(c), Forks(q)
               PROVE  /\ rproc'[rthread[q].arg].state = "EMBRYO"
                      /\ rproc'[rthread[q].arg].parent = rproc[rthread[q].arg].parent
    OBVIOUS
  <2>1. rthread[q].arg # n /\ rthread[q].arg \in RrProc /\ rproc[rthread[q].arg].state = "EMBRYO"
    BY <1>2, <1>5 DEF RrInv, ForksInv, RrTypeOK
  <2> QED
    BY <2>1, <1>9
<1>14. TreeInv'
  BY <1>5, <1>8, <1>9, RrAssumption DEF RrInv, TreeInv, RrProc, RrInit
<1>15. On(c) \in RrProc /\ rthread[On(c)].irq \in Copying \cup Copied => rproc' = rproc
  BY <1>2 DEF NotThere, Copying, Copied, Place, Acquire, Release
<1>16. \A q \in RrProc : rproc'[q].state = "RUNNING" <=> rproc[q].state = "RUNNING"
  BY <1>5, <1>8, <1>9
<1>17. \A q \in RrProc : rproc'[q].state \in {"RUNNABLE", "SLEEPING"} =>
         \/ /\ rproc[q].state \in {"RUNNABLE", "SLEEPING"}
            /\ rproc'[q].state = "SLEEPING" =>
                 rproc[q].state = "SLEEPING" /\ rproc'[q].chan = rproc[q].chan /\ rproc'[q].killed = rproc[q].killed
         \/ /\ rproc'[q].state = "RUNNABLE" /\ q # On(c)
            /\ rthread[q].at = Place("forkret") /\ rthread[q].irq = NotThere
  BY <1>2, <1>5, <1>8, <1>9
<1>18. \A q \in RrProc : rproc'[q].state = "UNUSED" => rproc[q].state = "UNUSED" /\ rproc'[q].parent = rproc[q].parent
  BY <1>8, <1>9
<1>19. \A s, q \in RrProc : rproc'[s].state = "SLEEPING" =>
         /\ rproc[q].parent = s /\ rproc[q].state # "ZOMBIE" => rproc'[q].parent = s
         /\ rproc'[q].parent = s /\ rproc'[q].state = "ZOMBIE" => rproc[q].parent = s /\ rproc[q].state = "ZOMBIE"
  BY <1>5, <1>8, <1>9
<1> HIDE DEF Forks
<1> QED
  BY <1>1, <1>9, <1>11, <1>12, <1>13, <1>14, <1>15, <1>16, <1>17, <1>18, <1>19, SectionStep

(* A section that leaves ptable alone, but for the process itself.         *)
LEMMA OwnStep ==
  ASSUME RrInv, NEW c \in RrCpu, NEW pc \in {"waitscan", "sleepstart", "sleeptest", "slept"}, RrAt(c, pc),
         NEW b \in AllAts, RrGo(c, b), Turns(Place(pc), b),
         b \notin Copying \cup Copied \cup TickWaits \cup {Place("sleep")},
         b \in GoesToSleep => rleft'[On(c)] > 0,
         UNCHANGED <<rcpu, rlock, rpanic>>, rleft' \in [RrProc -> Nat],
         \A p \in RrProc : p # On(c) => rleft'[p] = rleft[p],
         rproc' \in [RrProc -> ProcRecord],
         \A p \in RrProc : p # On(c) => rproc'[p] = rproc[p],
         On(c) \in RrProc => rproc'[On(c)].state = rproc[On(c)].state /\ rproc'[On(c)].parent = rproc[On(c)].parent
  PROVE  RrInv'
<1>1. PICK p \in RrProc : p = On(c) /\ rproc[p].state = "RUNNING"
        /\ rthread[p].at = Place(pc) /\ rthread[p].irq = NotThere
  BY InKernel
<1>2. \A q \in RrProc : /\ rproc'[q].state = rproc[q].state /\ rproc'[q].parent = rproc[q].parent
                        /\ q # p => rproc'[q] = rproc[q]
  BY <1>1
<1>3. \A q \in RrProc : rproc'[q].state = "RUNNING" <=> rproc[q].state = "RUNNING"
  BY <1>2
<1>4. \A q \in RrProc : rproc'[q].state \in {"RUNNABLE", "SLEEPING"} =>
         \/ /\ rproc[q].state \in {"RUNNABLE", "SLEEPING"}
            /\ rproc'[q].state = "SLEEPING" =>
                 rproc[q].state = "SLEEPING" /\ rproc'[q].chan = rproc[q].chan /\ rproc'[q].killed = rproc[q].killed
         \/ /\ rproc'[q].state = "RUNNABLE" /\ q # On(c)
            /\ rthread[q].at = Place("forkret") /\ rthread[q].irq = NotThere
  BY <1>1, <1>2
<1>5. \A q \in RrProc : q # On(c) /\ Forks(q) =>
         /\ rproc'[rthread[q].arg].state = "EMBRYO"
         /\ rproc'[rthread[q].arg].parent = rproc[rthread[q].arg].parent
  <2> SUFFICES ASSUME NEW q \in RrProc, Forks(q)
               PROVE  /\ rproc'[rthread[q].arg].state = "EMBRYO"
                      /\ rproc'[rthread[q].arg].parent = rproc[rthread[q].arg].parent
    OBVIOUS
  <2>1. rthread[q].arg \in RrProc /\ rproc[rthread[q].arg].state = "EMBRYO"
    BY DEF RrInv, ForksInv, RrTypeOK
  <2> QED
    BY <2>1, <1>2
<1>6. On(c) \in RrProc /\ rthread[On(c)].irq \in Copying \cup Copied => rproc' = rproc
  BY <1>1 DEF NotThere, Copying, Copied, Place, Acquire, Release
<1>7. \A q \in RrProc : rproc'[q].state = "UNUSED" => rproc[q].state = "UNUSED" /\ rproc'[q].parent = rproc[q].parent
  BY <1>2
<1>8. \A s, q \in RrProc : rproc'[s].state = "SLEEPING" =>
         /\ rproc[q].parent = s /\ rproc[q].state # "ZOMBIE" => rproc'[q].parent = s
         /\ rproc'[q].parent = s /\ rproc'[q].state = "ZOMBIE" => rproc[q].parent = s /\ rproc[q].state = "ZOMBIE"
  BY <1>2
<1>9. TreeInv'
  BY <1>2, RrAssumption DEF RrInv, TreeInv, RrProc, RrInit
<1>10. pc \notin {"acquire", "release", "tickwakes"}
  OBVIOUS
<1> HIDE DEF Forks
<1> QED
  BY <1>3, <1>4, <1>5, <1>6, <1>7, <1>8, <1>9, <1>10, SectionStep

LEMMA SleepStartInv == ASSUME RrInv, NEW c \in RrCpu, SleepStart(c) PROVE RrInv'
<1>1. RrAt(c, "sleepstart") /\ UNCHANGED <<rproc, rcpu, rlock, rpanic>>
  BY DEF SleepStart
<1>2. PICK p \in RrProc : p = On(c) /\ p = rcpu[c].proc
  BY <1>1, InKernel
<1>3. PICK b : b = Place("sleeptest")
  OBVIOUS
<1>4. /\ b \in AllAts /\ RrGo(c, b) /\ Turns(Place("sleepstart"), b)
      /\ b \notin Copying \cup Copied \cup TickWaits \cup GoesToSleep \cup {Place("sleep")}
  BY <1>3 DEF AllAts, InsideAts, SleepStart, Turns, Copying, Copied, TickWaits, GoesToSleep, Place, Acquire, Release, SleepNow
<1>5. rleft' \in [RrProc -> Nat] /\ \A q \in RrProc : q # On(c) => rleft'[q] = rleft[q]
  BY <1>2, RrAssumption DEF SleepStart, RrInv, RrTypeOK
<1>6. rproc' \in [RrProc -> ProcRecord] /\ \A q \in RrProc : rproc'[q] = rproc[q]
  BY <1>1 DEF RrInv, RrTypeOK
<1> QED
  BY <1>1, <1>4, <1>5, <1>6, OwnStep

LEMMA SleepTestInv == ASSUME RrInv, NEW c \in RrCpu, SleepTest(c) PROVE RrInv'
<1>1. RrAt(c, "sleeptest") /\ UNCHANGED <<rproc, rcpu, rlock, rpanic>>
  BY DEF SleepTest
<1>2. PICK p \in RrProc : p = On(c) /\ p = rcpu[c].proc
  BY <1>1, InKernel
<1>3. PICK done \in BOOLEAN : done = (rleft[p] = 0 \/ rproc[p].killed)
  OBVIOUS
<1>4. PICK b : b = IF done THEN Release("tickslock", Place("ret")) ELSE SleepNow
  OBVIOUS
<1>5. RrGo(c, b) /\ rleft' = IF done THEN [rleft EXCEPT ![p] = 0] ELSE rleft
  BY <1>2, <1>3, <1>4 DEF SleepTest
<1>6. b \in AllAts /\ Turns(Place("sleeptest"), b)
  BY <1>4 DEF AllAts, InsideAts, Turns
<1>7. b \notin Copying \cup Copied \cup TickWaits \cup {Place("sleep")}
  BY <1>4 DEF Copying, Copied, TickWaits, Place, Acquire, Release, SleepNow
<1>8. rleft \in [RrProc -> Nat]
  BY DEF RrInv, RrTypeOK
<1>9. rleft' \in [RrProc -> Nat] /\ \A q \in RrProc : q # On(c) => rleft'[q] = rleft[q]
  BY <1>2, <1>5, <1>8
<1>10. b \in GoesToSleep => rleft'[On(c)] > 0
  <2>1. CASE done
    <3>1. b \notin GoesToSleep
      BY <1>4, <2>1 DEF GoesToSleep, Place, Acquire, Release, SleepNow
    <3> QED
      BY <3>1
  <2>2. CASE ~done
    <3>1. rleft[p] # 0
      BY <1>3, <2>2, Zenon
    <3> QED
      BY <1>2, <1>5, <1>8, <2>2, <3>1
  <2> QED
    BY <2>1, <2>2
<1>11. rproc' \in [RrProc -> ProcRecord] /\ \A q \in RrProc : rproc'[q] = rproc[q]
  BY <1>1 DEF RrInv, RrTypeOK
<1> QED
  BY <1>1, <1>5, <1>6, <1>7, <1>9, <1>10, <1>11, OwnStep

LEMMA SleptInv == ASSUME RrInv, NEW c \in RrCpu, Slept(c) PROVE RrInv'
<1>1. RrAt(c, "slept") /\ UNCHANGED <<rcpu, rlock, rleft, rpanic>>
  BY DEF Slept
<1>2. PICK p \in RrProc : p = On(c) /\ p = rcpu[c].proc
  BY <1>1, InKernel
<1>3. PICK b : b = Release("ptable", Acquire("tickslock", Place("sleeptest")))
  OBVIOUS
<1>4. /\ b \in AllAts /\ RrGo(c, b) /\ Turns(Place("slept"), b)
      /\ b \notin Copying \cup Copied \cup TickWaits \cup GoesToSleep \cup {Place("sleep")}
  BY <1>3 DEF AllAts, InsideAts, Slept, Turns, Copying, Copied, TickWaits, GoesToSleep, Place, Acquire, Release, SleepNow
<1>5. rleft' \in [RrProc -> Nat] /\ \A q \in RrProc : rleft'[q] = rleft[q]
  BY <1>1 DEF RrInv, RrTypeOK
<1>6. rproc[p] \in ProcRecord
  BY Threads
<1>c. NoChan \in {RrTicks} \cup 0 .. RrProcs
  BY RrAssumption DEF NoChan
<1>7. PICK f \in ProcRecord : f = [rproc[p] EXCEPT !.chan = NoChan]
  BY <1>6, <1>c, ProcGoes
<1>8. f.state = rproc[p].state /\ f.parent = rproc[p].parent
  BY <1>6, <1>7, <1>c, ProcGoes
<1>9. rproc' = [rproc EXCEPT ![p] = f]
  BY <1>2, <1>7 DEF Slept
<1>10. rproc' \in [RrProc -> ProcRecord] /\ rproc'[p] = f /\ \A q \in RrProc : q # p => rproc'[q] = rproc[q]
  BY <1>9 DEF RrInv, RrTypeOK
<1> QED
  BY <1>1, <1>2, <1>4, <1>5, <1>8, <1>10, OwnStep

(* The first of some processes.                                            *)
LEMMA MinIn ==
  ASSUME NEW S \in SUBSET RrProc, S # {}
  PROVE  Min(S) \in S
<1> DEFINE R == OpToRel(<, Nat)
<1>1. IsWellFoundedOn(R, Nat)
  BY NatLessThanWellFounded
<1>2. \A d, e \in Nat : e < d => <<e, d>> \in R
  BY DEF OpToRel
<1> HIDE DEF R
<1>3. \A d \in S : d \in Nat
  BY DEF RrProc
<1>4. PICK d \in S : \A e \in S : ~(<<e, d>> \in R)
  BY <1>1, <1>3, WFMin
<1>5. ASSUME NEW e \in S PROVE d <= e
  <2>1. e \in Nat /\ d \in Nat /\ ~(e < d)
    BY <1>2, <1>3, <1>4
  <2> QED
    BY <2>1
<1> QED
  BY <1>5 DEF Min

(* wait() that need not sleep.                                             *)
LEMMA WaitDoneInv ==
  ASSUME RrInv, NEW c \in RrCpu, RrAt(c, "waitscan"), NEW p, p = rcpu[c].proc,
         {q \in RrChildren(p) : rproc[q].state = "ZOMBIE"} = {}, rproc' = [rproc EXCEPT ![p].chan = NoChan],
         RrGo(c, Release("ptable", Place("ret"))), UNCHANGED <<rcpu, rlock, rleft, rpanic>>
  PROVE  RrInv'
<1>1. p = On(c) /\ p \in RrProc
  BY InKernel
<1>2. PICK b : b = Release("ptable", Place("ret"))
  OBVIOUS
<1>3. /\ b \in AllAts /\ RrGo(c, b) /\ Turns(Place("waitscan"), b)
      /\ b \notin Copying \cup Copied \cup TickWaits \cup GoesToSleep \cup {Place("sleep")}
  BY <1>2 DEF AllAts, InsideAts, Turns, Copying, Copied, TickWaits, GoesToSleep, Place, Acquire, Release, SleepNow
<1>4. rleft' \in [RrProc -> Nat] /\ \A q \in RrProc : rleft'[q] = rleft[q]
  BY DEF RrInv, RrTypeOK
<1>5. rproc[p] \in ProcRecord
  BY <1>1, Threads
<1>c. NoChan \in {RrTicks} \cup 0 .. RrProcs
  BY RrAssumption DEF NoChan
<1>6. PICK f \in ProcRecord : f = [rproc[p] EXCEPT !.chan = NoChan]
  BY <1>5, <1>c, ProcGoes
<1>7. f.state = rproc[p].state /\ f.parent = rproc[p].parent
  BY <1>5, <1>6, <1>c, ProcGoes
<1>8. rproc' = [rproc EXCEPT ![p] = f]
  BY <1>1, <1>6
<1>9. rproc' \in [RrProc -> ProcRecord] /\ rproc'[p] = f /\ \A q \in RrProc : q # p => rproc'[q] = rproc[q]
  BY <1>1, <1>8 DEF RrInv, RrTypeOK
<1> QED
  BY <1>1, <1>3, <1>4, <1>7, <1>9, OwnStep

(* wait() that frees a child.                                              *)
LEMMA WaitReapInv ==
  ASSUME RrInv, NEW c \in RrCpu, RrAt(c, "waitscan"), NEW p, p = rcpu[c].proc,
         NEW z \in RrChildren(p), rproc[z].state = "ZOMBIE",
         rproc' = [[rproc EXCEPT ![p].chan = NoChan] EXCEPT
                     ![z] = [state |-> "UNUSED", parent |-> 0, chan |-> @.chan, killed |-> FALSE, pid |-> FALSE]],
         RrGo(c, Release("ptable", Place("ret"))), UNCHANGED <<rcpu, rlock, rleft, rpanic>>
  PROVE  RrInv'
<1>1. /\ p = On(c) /\ p \in RrProc /\ rproc[p].state = "RUNNING"
      /\ rthread[p].at = Place("waitscan") /\ rthread[p].irq = NotThere
  BY InKernel
<1>2. z \in RrProc /\ z # p /\ rproc[z].parent = p
  BY <1>1 DEF RrChildren
<1>3. \A q \in RrProc : rproc[q] \in ProcRecord
  BY Threads
<1>c. NoChan \in {RrTicks} \cup 0 .. RrProcs
  BY RrAssumption DEF NoChan
<1>4. PICK f \in ProcRecord : f = [rproc[p] EXCEPT !.chan = NoChan]
  BY <1>1, <1>3, <1>c, ProcGoes
<1>5. f.state = "RUNNING" /\ f.parent = rproc[p].parent /\ f.killed = rproc[p].killed
  BY <1>1, <1>3, <1>4, <1>c, ProcGoes
<1>6. PICK g : g = [state |-> "UNUSED", parent |-> 0, chan |-> rproc[z].chan, killed |-> FALSE, pid |-> FALSE]
  OBVIOUS
<1>7. g \in ProcRecord /\ g.state = "UNUSED" /\ g.parent = 0
  <2>1. rproc[z].chan \in {RrTicks} \cup 0 .. RrProcs
    BY <1>2, <1>3 DEF ProcRecord
  <2>2. 0 \in 0 .. RrProcs
    BY RrAssumption
  <2> QED
    BY <1>6, <2>1, <2>2 DEF ProcRecord
<1>8. /\ rproc' \in [RrProc -> ProcRecord]
      /\ \A q \in RrProc : rproc'[q] = IF q = z THEN g ELSE IF q = p THEN f ELSE rproc[q]
  <2>1. rproc \in [RrProc -> ProcRecord]
    BY DEF RrInv, RrTypeOK
  <2>2. PICK awake : awake = [rproc EXCEPT ![p].chan = NoChan]
    OBVIOUS
  <2>3. awake = [rproc EXCEPT ![p] = f]
    BY <1>4, <2>2
  <2>4. rproc' = [awake EXCEPT ![z] = g]
    <3>1. awake[z] = rproc[z]
      BY <1>1, <1>2, <2>1, <2>3
    <3>2. rproc' = [awake EXCEPT ![z] = [state |-> "UNUSED", parent |-> 0, chan |-> awake[z].chan, killed |-> FALSE, pid |-> FALSE]]
      BY <2>2
    <3> QED
      BY <1>6, <3>1, <3>2
  <2>5. awake \in [RrProc -> ProcRecord] /\ \A q \in RrProc : awake[q] = IF q = p THEN f ELSE rproc[q]
    BY <1>1, <2>1, <2>3
  <2> QED
    BY <1>2, <1>7, <2>4, <2>5
<1>9. PICK b : b = Release("ptable", Place("ret"))
  OBVIOUS
<1>10. /\ b \in AllAts /\ RrGo(c, b) /\ Turns(Place("waitscan"), b)
       /\ b \notin Copying \cup Copied \cup TickWaits \cup GoesToSleep \cup {Place("sleep")}
  BY <1>9 DEF AllAts, InsideAts, Turns, Copying, Copied, TickWaits, GoesToSleep, Place, Acquire, Release, SleepNow
<1>11. rleft' \in [RrProc -> Nat] /\ \A q \in RrProc : rleft'[q] = rleft[q]
  BY DEF RrInv, RrTypeOK
<1>12. \A q \in RrProc : q # On(c) /\ Forks(q) =>
         /\ rproc'[rthread[q].arg].state = "EMBRYO"
         /\ rproc'[rthread[q].arg].parent = rproc[rthread[q].arg].parent
  <2> SUFFICES ASSUME NEW q \in RrProc, Forks(q)
               PROVE  /\ rproc'[rthread[q].arg].state = "EMBRYO"
                      /\ rproc'[rthread[q].arg].parent = rproc[rthread[q].arg].parent
    OBVIOUS
  <2>1. rthread[q].arg \in RrProc /\ rproc[rthread[q].arg].state = "EMBRYO"
    BY DEF RrInv, ForksInv, RrTypeOK
  <2> QED
    BY <2>1, <1>1, <1>8
<1>13. On(c) \in RrProc /\ rthread[On(c)].irq \in Copying \cup Copied => rproc' = rproc
  BY <1>1 DEF NotThere, Copying, Copied, Place, Acquire, Release
<1>14. \A q \in RrProc : rproc'[q].state = "RUNNING" <=> rproc[q].state = "RUNNING"
  BY <1>1, <1>5, <1>7, <1>8
<1>15. \A q \in RrProc : rproc'[q].state \in {"RUNNABLE", "SLEEPING"} => rproc'[q] = rproc[q]
  BY <1>5, <1>7, <1>8
<1>16. \A q \in RrProc : rproc'[q].state = "UNUSED" =>
         rproc'[q].parent = 0 \/ (rproc[q].state = "UNUSED" /\ rproc'[q].parent = rproc[q].parent)
  BY <1>5, <1>7, <1>8
<1>17. \A s, q \in RrProc : rproc'[s].state = "SLEEPING" =>
         /\ rproc[q].parent = s /\ rproc[q].state # "ZOMBIE" => rproc'[q].parent = s
         /\ rproc'[q].parent = s /\ rproc'[q].state = "ZOMBIE" => rproc[q].parent = s /\ rproc[q].state = "ZOMBIE"
  <2>1. \A s \in RrProc : s # 0
    BY DEF RrProc
  <2> QED
    BY <2>1, <1>5, <1>7, <1>8
<1>18. TreeInv'
  <2>1. RrInit \in RrProc /\ z # RrInit /\ \A s \in RrProc : s # 0
    BY <1>1, <1>2, RrAssumption DEF RrInv, TreeInv, RrProc, RrInit
  <2> QED
    BY <1>5, <1>7, <1>8, <1>1, <2>1 DEF RrInv, TreeInv
<1>19. \A q \in RrProc : rproc'[q].state \in {"RUNNABLE", "SLEEPING"} =>
         \/ /\ rproc[q].state \in {"RUNNABLE", "SLEEPING"}
            /\ rproc'[q].state = "SLEEPING" =>
                 rproc[q].state = "SLEEPING" /\ rproc'[q].chan = rproc[q].chan /\ rproc'[q].killed = rproc[q].killed
         \/ /\ rproc'[q].state = "RUNNABLE" /\ q # On(c)
            /\ rthread[q].at = Place("forkret") /\ rthread[q].irq = NotThere
  BY <1>15
<1> HIDE DEF Forks
<1> QED
  BY ZenonT(60), <1>8, <1>10, <1>11, <1>12, <1>13, <1>14, <1>16, <1>17, <1>18, <1>19, SectionStep

LEMMA RrKillInv == ASSUME RrInv, NEW c \in RrCpu, RrKill(c) PROVE RrInv'
<1>1. RrAt(c, "kill") /\ UNCHANGED <<rcpu, rlock, rleft, rpanic>>
  BY DEF RrKill
<1>2. PICK p \in RrProc : /\ p = On(c) /\ rproc[p].state = "RUNNING"
                          /\ rthread[p].at = Place("kill") /\ rthread[p].irq = NotThere
  BY <1>1, InKernel
<1>3. PICK n \in RrProc : n = rthread[p].arg
  BY DEF RrInv, RrTypeOK
<1>4. \A q \in RrProc : rproc[q] \in ProcRecord
  BY Threads
<1>5. PICK v : v = IF rproc[n].state = "SLEEPING" THEN "RUNNABLE" ELSE rproc[n].state
  OBVIOUS
<1>6. v \in States
  BY <1>4, <1>5 DEF ProcRecord, States
<1>7. PICK h : h = [rproc[n] EXCEPT !.killed = TRUE]
  OBVIOUS
<1>8. h \in ProcRecord /\ h.state = rproc[n].state /\ h.parent = rproc[n].parent /\ h.chan = rproc[n].chan
  BY <1>4, <1>7, ProcGoes
<1>9. PICK g : g = [h EXCEPT !.state = v]
  OBVIOUS
<1>10. g \in ProcRecord /\ g.state = v /\ g.parent = rproc[n].parent /\ g.chan = rproc[n].chan
  BY <1>6, <1>8, <1>9, ProcGoes
<1>11. rproc' \in [RrProc -> ProcRecord] /\ \A q \in RrProc : rproc'[q] = rproc[q] \/ (q = n /\ rproc'[q] = g)
  <2>1. rproc \in [RrProc -> ProcRecord]
    BY DEF RrInv, RrTypeOK
  <2>2. CASE ~rproc[n].pid
    <3>1. rproc' = rproc
      BY <1>2, <1>3, <2>2 DEF RrKill
    <3> QED
      BY <2>1, <3>1
  <2>3. CASE rproc[n].pid
    <3>1. rproc' = [rproc EXCEPT ![n].killed = TRUE, ![n].state = IF @ = "SLEEPING" THEN "RUNNABLE" ELSE @]
      BY <1>2, <1>3, <2>3 DEF RrKill
    <3>2. PICK mid : mid = [rproc EXCEPT ![n].killed = TRUE]
      OBVIOUS
    <3>3. mid = [rproc EXCEPT ![n] = h]
      BY <1>7, <3>2
    <3>4. mid \in [RrProc -> ProcRecord] /\ \A q \in RrProc : mid[q] = IF q = n THEN h ELSE rproc[q]
      BY <1>8, <2>1, <3>3
    <3>5. rproc' = [mid EXCEPT ![n] = g]
      <4>1. rproc' = [mid EXCEPT ![n].state = IF @ = "SLEEPING" THEN "RUNNABLE" ELSE @]
        BY <3>1, <3>2
      <4>2. mid[n] = h /\ mid[n].state = rproc[n].state
        BY <1>8, <3>4
      <4>3. rproc' = [mid EXCEPT ![n] = [mid[n] EXCEPT !.state = IF mid[n].state = "SLEEPING" THEN "RUNNABLE" ELSE mid[n].state]]
        BY <4>1
      <4> QED
        BY <1>5, <1>9, <4>2, <4>3
    <3> QED
      BY <1>10, <3>4, <3>5
  <2> QED
    BY <2>2, <2>3
<1>12. v # "SLEEPING" /\ (v = rproc[n].state \/ (v = "RUNNABLE" /\ rproc[n].state = "SLEEPING"))
  BY <1>5
<1>13. \A q \in RrProc : rproc'[q].parent = rproc[q].parent
  BY <1>10, <1>11
<1>14. \A q \in RrProc : rproc'[q].state = rproc[q].state
                         \/ (rproc'[q].state = "RUNNABLE" /\ rproc[q].state = "SLEEPING")
  BY <1>10, <1>11, <1>12
<1>15. PICK b : b = Release("ptable", Place("ret"))
  OBVIOUS
<1>16. /\ b \in AllAts /\ RrGo(c, b) /\ Turns(Place("kill"), b)
       /\ b \notin Copying \cup Copied \cup TickWaits \cup GoesToSleep \cup {Place("sleep")}
  BY <1>15 DEF AllAts, InsideAts, RrKill, Turns, Copying, Copied, TickWaits, GoesToSleep, Place, Acquire, Release, SleepNow
<1>17. rleft' \in [RrProc -> Nat] /\ \A q \in RrProc : rleft'[q] = rleft[q]
  BY <1>1 DEF RrInv, RrTypeOK
<1>18. \A q \in RrProc : q # On(c) /\ Forks(q) =>
         /\ rproc'[rthread[q].arg].state = "EMBRYO"
         /\ rproc'[rthread[q].arg].parent = rproc[rthread[q].arg].parent
  <2> SUFFICES ASSUME NEW q \in RrProc, Forks(q)
               PROVE  /\ rproc'[rthread[q].arg].state = "EMBRYO"
                      /\ rproc'[rthread[q].arg].parent = rproc[rthread[q].arg].parent
    OBVIOUS
  <2>1. rthread[q].arg \in RrProc /\ rproc[rthread[q].arg].state = "EMBRYO"
    BY DEF RrInv, ForksInv, RrTypeOK
  <2> QED
    BY <2>1, <1>13, <1>14
<1>19. On(c) \in RrProc /\ rthread[On(c)].irq \in Copying \cup Copied => rproc' = rproc
  BY <1>2 DEF NotThere, Copying, Copied, Place, Acquire, Release
<1>20. \A q \in RrProc : rproc'[q].state = "RUNNING" <=> rproc[q].state = "RUNNING"
  BY <1>14
<1>21. \A q \in RrProc : rproc'[q].state = "SLEEPING" =>
         rproc[q].state = "SLEEPING" /\ rproc'[q].chan = rproc[q].chan /\ rproc'[q].killed = rproc[q].killed
  BY <1>10, <1>11, <1>12
<1>22. \A q \in RrProc : rproc'[q].state \in {"RUNNABLE", "SLEEPING"} =>
         \/ /\ rproc[q].state \in {"RUNNABLE", "SLEEPING"}
            /\ rproc'[q].state = "SLEEPING" =>
                 rproc[q].state = "SLEEPING" /\ rproc'[q].chan = rproc[q].chan /\ rproc'[q].killed = rproc[q].killed
         \/ /\ rproc'[q].state = "RUNNABLE" /\ q # On(c)
            /\ rthread[q].at = Place("forkret") /\ rthread[q].irq = NotThere
  BY <1>14, <1>21
<1>23. \A q \in RrProc : rproc'[q].state = "UNUSED" => rproc[q].state = "UNUSED" /\ rproc'[q].parent = rproc[q].parent
  BY <1>13, <1>14
<1>24. \A s, q \in RrProc : rproc'[s].state = "SLEEPING" =>
         /\ rproc[q].parent = s /\ rproc[q].state # "ZOMBIE" => rproc'[q].parent = s
         /\ rproc'[q].parent = s /\ rproc'[q].state = "ZOMBIE" => rproc[q].parent = s /\ rproc[q].state = "ZOMBIE"
  BY <1>13, <1>14
<1>25. TreeInv'
  BY <1>13, <1>14, RrAssumption DEF RrInv, TreeInv, RrProc, RrInit
<1> HIDE DEF Forks
<1> QED
  BY <1>1, <1>11, <1>16, <1>17, <1>18, <1>19, <1>20, <1>22, <1>23, <1>24, <1>25, SectionStep

(* fork() that fails gives its embryo back.                                *)
LEMMA ForkFailInv ==
  ASSUME RrInv, NEW c \in RrCpu, RrAt(c, "copy"), NEW p \in RrProc, p = rcpu[c].proc,
         NEW n \in RrProc, n = rthread[p].arg,
         NEW f \in ProcRecord, f.state = "UNUSED", f.parent = rproc[n].parent, rproc' \in [RrProc -> ProcRecord],
         \A q \in RrProc : rproc'[q] = IF q = n THEN f ELSE rproc[q],
         NEW b, b = Place("ret"), RrGo(c, b), UNCHANGED <<rcpu, rlock, rleft, rpanic>>
  PROVE  RrInv'
<1>1. /\ p = On(c) /\ p \in RrProc /\ rproc[p].state = "RUNNING"
      /\ rthread[p].at = Place("copy") /\ rthread[p].irq = NotThere
  BY InKernel
<1>2. \A s \in RrProc : s # 0
  BY DEF RrProc
<1>3. Forks(p) /\ Base(rthread[p]) \in Copying
  BY <1>1 DEF Forks, Live, Base, Copying
<1>4. /\ rproc[n].state = "EMBRYO" /\ rproc[n].parent = 0 /\ n # p
      /\ \A q \in RrProc \ {p} : Forks(q) => rthread[q].arg # n
  BY <1>1, <1>3 DEF RrInv, ForksInv
<1>7. f.parent = 0
  BY <1>4
<1>8. \A q \in RrProc : rproc'[q] = IF q = n THEN f ELSE rproc[q]
  OBVIOUS
<1>10. /\ b \in AllAts /\ RrGo(c, b) /\ Turns(Place("copy"), b)
       /\ b \notin Copying \cup Copied \cup TickWaits \cup GoesToSleep \cup {Place("sleep")}
  BY DEF AllAts, OpenAts, Turns, Copying, Copied, TickWaits, GoesToSleep, Place, Acquire, Release, SleepNow
<1>11. rleft' \in [RrProc -> Nat] /\ \A q \in RrProc : rleft'[q] = rleft[q]
  BY DEF RrInv, RrTypeOK
<1>12. \A q \in RrProc : q # On(c) /\ Forks(q) =>
         /\ rproc'[rthread[q].arg].state = "EMBRYO"
         /\ rproc'[rthread[q].arg].parent = rproc[rthread[q].arg].parent
  <2> SUFFICES ASSUME NEW q \in RrProc, q # On(c), Forks(q)
               PROVE  /\ rproc'[rthread[q].arg].state = "EMBRYO"
                      /\ rproc'[rthread[q].arg].parent = rproc[rthread[q].arg].parent
    OBVIOUS
  <2>1. rthread[q].arg # n /\ rthread[q].arg \in RrProc /\ rproc[rthread[q].arg].state = "EMBRYO"
    BY <1>1, <1>4 DEF RrInv, ForksInv, RrTypeOK
  <2> QED
    BY <2>1, <1>8
<1>13. On(c) \in RrProc /\ rthread[On(c)].irq \in Copying \cup Copied => rproc' = rproc
  BY <1>1 DEF NotThere, Copying, Copied, Place, Acquire, Release
<1>14. \A q \in RrProc : rproc'[q].state = "RUNNING" <=> rproc[q].state = "RUNNING"
  BY <1>4, <1>7, <1>8
<1>15. \A q \in RrProc : rproc'[q].state \in {"RUNNABLE", "SLEEPING"} => rproc'[q] = rproc[q]
  BY <1>7, <1>8
<1>16. \A q \in RrProc : rproc'[q].state \in {"RUNNABLE", "SLEEPING"} =>
         \/ /\ rproc[q].state \in {"RUNNABLE", "SLEEPING"}
            /\ rproc'[q].state = "SLEEPING" =>
                 rproc[q].state = "SLEEPING" /\ rproc'[q].chan = rproc[q].chan /\ rproc'[q].killed = rproc[q].killed
         \/ /\ rproc'[q].state = "RUNNABLE" /\ q # On(c)
            /\ rthread[q].at = Place("forkret") /\ rthread[q].irq = NotThere
  BY <1>15
<1>17. \A q \in RrProc : rproc'[q].state = "UNUSED" =>
         rproc'[q].parent = 0 \/ (rproc[q].state = "UNUSED" /\ rproc'[q].parent = rproc[q].parent)
  BY <1>7, <1>8
<1>18. \A s, q \in RrProc : rproc'[s].state = "SLEEPING" =>
         /\ rproc[q].parent = s /\ rproc[q].state # "ZOMBIE" => rproc'[q].parent = s
         /\ rproc'[q].parent = s /\ rproc'[q].state = "ZOMBIE" => rproc[q].parent = s /\ rproc[q].state = "ZOMBIE"
  BY <1>2, <1>4, <1>7, <1>8
<1>19. TreeInv'
  <2>1. RrInit \in RrProc /\ n # RrInit
    BY <1>4, RrAssumption DEF RrInv, TreeInv, RrProc, RrInit
  <2> QED
    BY <1>2, <1>4, <1>7, <1>8, <2>1 DEF RrInv, TreeInv
<1>20. PICK pc : pc = "copy"
  OBVIOUS
<1>21. RrAt(c, pc) /\ Turns(Place(pc), b) /\ pc \notin {"acquire", "release", "tickwakes"}
  BY <1>10, <1>20
<1>22. /\ b \in AllAts /\ RrGo(c, b) /\ b \notin GoesToSleep
       /\ b \notin Copying \cup Copied \cup TickWaits \cup {Place("sleep")}
  BY <1>10
<1> HIDE DEF Forks
<1> QED
  BY SMTT(30), <1>8, <1>11, <1>12, <1>13, <1>14, <1>16, <1>17, <1>18, <1>19, <1>21, <1>22, SectionStep

(* fork() takes the embryo n, or gets on with it.                          *)
LEMMA ForkStep ==
  ASSUME RrInv, NEW c \in RrCpu, NEW p \in RrProc, p = On(c), NEW n \in RrProc, n # p, n # RrInit,
         NEW r \in ThreadRecord, NEW e \in ThreadRecord, r = rthread[p], rproc[p].state = "RUNNING",
         r.irq = NotThere, e.irq = NotThere, e.arg = n, Turns(r.at, e.at),
         e.at \in {Release("ptable", Place("copy")), Acquire("ptable", Place("forkdone"))},
         UNCHANGED <<rcpu, rlock, rleft, rpanic>>,
         rthread' \in [RrThread -> ThreadRecord], rthread'[p] = e,
         \A x \in RrThread : x # p /\ x # n => rthread'[x] = rthread[x],
         rthread'[n].arg = rthread[n].arg, rthread'[n] = rthread[n] \/ rproc[n].state = "EMBRYO",
         rproc' \in [RrProc -> ProcRecord], \A q \in RrProc : q # n => rproc'[q] = rproc[q],
         rproc[n].state \in {"UNUSED", "EMBRYO"}, rproc'[n].state = "EMBRYO",
         rproc[n].parent = 0, rproc'[n].parent \in {0, p},
         \A q \in RrProc \ {p} : Forks(q) => rthread[q].arg # n,
         IF e.at = Release("ptable", Place("copy")) THEN rproc'[n].parent = 0
         ELSE rproc'[n].parent = p /\ rthread'[n].at = Place("forkret") /\ rthread'[n].irq = NotThere
  PROVE  RrInv'
<1>1. \A x \in RrProc : x \in RrThread /\ x # 0
  BY DEF RrThread, RrProc
<1>2. \A q \in RrProc : q # n => rproc'[q] = rproc[q]
  OBVIOUS
<1>3. RrTypeOK' /\ ~rpanic' /\ CpusInv' /\ RunningInv' /\ LeftInv' /\ \A d \in RrCpu : On(d)' = On(d)
  <2>1. \A x \in RrThread : x # On(c) /\ rthread'[x] # rthread[x] =>
          /\ x \in RrProc /\ rproc[x].state = "EMBRYO" /\ rproc'[x].state = "EMBRYO"
          /\ rthread'[x].arg = rthread[x].arg
    OBVIOUS
  <2>2. \A q \in RrProc : rproc'[q].state = "RUNNING" <=> rproc[q].state = "RUNNING"
    BY <1>2
  <2>3. \A q \in RrProc : rproc'[q].state \in {"RUNNABLE", "SLEEPING"} => rproc'[q] = rproc[q]
    BY <1>2
  <2>4. \A q \in RrProc : rproc'[q].state \in {"RUNNABLE", "SLEEPING"} =>
          \/ rproc[q].state \in {"RUNNABLE", "SLEEPING"}
             /\ (rproc'[q].state = "SLEEPING" => rproc[q].state = "SLEEPING")
          \/ Left(rproc'[q], rthread'[q])
    BY <2>3
  <2>5. rleft' \in [RrProc -> Nat]
    BY DEF RrInv, RrTypeOK
  <2>6. r = rthread[On(c)] /\ rthread'[On(c)] = e /\ e.irq = r.irq /\ (On(c) \in RrProc => e.arg \in RrProc)
    OBVIOUS
  <2>7. UNCHANGED <<rcpu, rlock, rpanic>>
    OBVIOUS
  <2> QED
    BY <2>1, <2>2, <2>4, <2>5, <2>6, <2>7, TableStep
<1>4. /\ Base(e) = e.at
      /\ Base(e) \in Copying => e.at = Release("ptable", Place("copy"))
      /\ Base(e) \in Copied => e.at # Release("ptable", Place("copy"))
  BY DEF Base, Copying, Copied, Place, Acquire, Release
<1>5. \A q \in RrProc : q # p /\ Forks(q)' => Forks(q) /\ rthread'[q] = rthread[q]
  <2> SUFFICES ASSUME NEW q \in RrProc, q # p, Forks(q)' PROVE Forks(q) /\ rthread'[q] = rthread[q]
    OBVIOUS
  <2>1. q # n
    BY DEF Forks, Live
  <2> QED
    BY <1>1, <1>2, <2>1 DEF Forks, Live
<1>6. \A q \in RrProc : Forks(q) =>
        LET m == rthread[q].arg
        IN  /\ rproc[m].state = "EMBRYO" /\ m \in RrProc
            /\ \A s \in RrProc \ {q} : Forks(s) => rthread[s].arg # m
            /\ Base(rthread[q]) \in Copying => rproc[m].parent = 0
            /\ Base(rthread[q]) \in Copied =>
                 rproc[m].parent = q /\ rthread[m].at = Place("forkret") /\ rthread[m].irq = NotThere
  BY DEF RrInv, ForksInv, RrTypeOK
<1>7. ASSUME NEW q \in RrProc, Forks(q)', NEW m, m = rthread'[q].arg
      PROVE  /\ rproc'[m].state = "EMBRYO"
             /\ \A s \in RrProc \ {q} : Forks(s)' => rthread'[s].arg # m
             /\ Base(rthread'[q]) \in Copying => rproc'[m].parent = 0
             /\ Base(rthread'[q]) \in Copied =>
                  rproc'[m].parent = q /\ rthread'[m].at = Place("forkret") /\ rthread'[m].irq = NotThere
  <2>1. CASE q = p
    <3>1. m = n /\ rthread'[q] = e
      BY <1>7, <2>1
    <3>2. \A s \in RrProc \ {q} : Forks(s)' => rthread'[s].arg # m
      BY <1>5, <2>1, <3>1
    <3> QED
      BY <1>4, <2>1, <3>1, <3>2
  <2>2. CASE q # p
    <3>1. Forks(q) /\ rthread'[q] = rthread[q] /\ m = rthread[q].arg
      BY <1>5, <1>7, <2>2
    <3>2. m # n /\ m \in RrProc /\ rproc[m].state = "EMBRYO" /\ m # p
      BY <1>6, <2>2, <3>1
    <3>3. rproc'[m] = rproc[m] /\ rthread'[m] = rthread[m]
      BY <1>1, <3>2
    <3>4. \A s \in RrProc \ {q} : Forks(s)' => rthread'[s].arg # m
      <4> SUFFICES ASSUME NEW s \in RrProc \ {q}, Forks(s)' PROVE rthread'[s].arg # m
        OBVIOUS
      <4>1. CASE s = p
        BY <3>2, <4>1
      <4>2. CASE s # p
        BY <1>5, <1>6, <3>1, <4>2
      <4> QED
        BY <4>1, <4>2
    <3> HIDE DEF Forks
    <3> QED
      BY <1>6, <3>1, <3>3, <3>4
  <2> QED
    BY <2>1, <2>2
<1>8. ForksInv'
  <2>1. \A q \in RrProc : rproc'[q].state = "UNUSED" => rproc'[q].parent = 0
    BY <1>2 DEF RrInv, ForksInv
  <2> HIDE DEF Forks
  <2> QED
    BY <1>7, <2>1 DEF ForksInv, Base
<1>9. TickPending => TickPending'
  <2>1. \A d \in RrCpu \ {c} : rthread'[On(d)] = rthread[On(d)]
    <3> SUFFICES ASSUME NEW d \in RrCpu \ {c} PROVE rthread'[On(d)] = rthread[On(d)]
      OBVIOUS
    <3>1. On(d) \in RrThread /\ On(d) # p /\ (On(d) \in RrProc => rproc[On(d)].state = "RUNNING")
      BY Threads, OnRuns
    <3> QED
      BY <3>1
  <2>2. r.at \notin TickWaits
    <3>1. \A a \in TickWaits : ~Turns(a, e.at)
      BY DEF TickWaits, Turns, Place, Acquire, Release
    <3> QED
      BY <3>1
  <2> QED
    BY <1>3, <2>1, <2>2, PendingKept
<1>10. SleepersInv'
  <2>1. Sleeper(p)'
    <3>1. rproc'[p].state = "RUNNING" /\ e.at \notin GoesToSleep \cup {Place("sleep")}
      BY <1>2 DEF GoesToSleep, Place, Acquire, Release, SleepNow
    <3> QED
      BY <3>1 DEF Sleeper
  <2>2. \A q \in RrProc : q # p /\ rthread'[q] # rthread[q] => rproc'[q].state \notin {"SLEEPING", "RUNNING"}
    BY <1>1
  <2>3. \A q \in RrProc : rproc'[q].state = "SLEEPING" =>
          rproc[q].state = "SLEEPING" /\ rproc'[q].chan = rproc[q].chan /\ rproc'[q].killed = rproc[q].killed
    BY <1>2
  <2>4. \A q \in RrProc : rproc'[q].state = "RUNNING" => rproc[q].state = "RUNNING"
    BY <1>2
  <2>5. \A s, q \in RrProc : s # p /\ rproc'[s].state = "SLEEPING" /\ rproc'[s].chan = s =>
          /\ rproc[q].parent = s /\ rproc[q].state # "ZOMBIE" => rproc'[q].parent = s
          /\ rproc'[q].parent = s /\ rproc'[q].state = "ZOMBIE" => rproc[q].parent = s /\ rproc[q].state = "ZOMBIE"
    BY <1>1, <1>2
  <2>6. \A q \in RrProc : rleft'[q] = rleft[q]
    OBVIOUS
  <2> HIDE DEF Sleeper, TickPending
  <2> QED
    BY <1>1, <1>3, <1>9, <2>1, <2>2, <2>3, <2>4, <2>5, <2>6, SleepersStay
<1>11. TreeInv'
  <2>1. RrInit \in RrProc
    BY RrAssumption DEF RrProc, RrInit
  <2>2. rproc'[RrInit] = rproc[RrInit] /\ \A q \in RrProc : q # n => rproc'[q].parent # q
    BY <1>2, <2>1 DEF RrInv, TreeInv
  <2>3. rproc'[n].parent # n
    BY <1>1
  <2> QED
    BY <2>2, <2>3 DEF RrInv, TreeInv
<1> QED
  BY <1>3, <1>8, <1>10, <1>11 DEF RrInv

LEMMA ForkAllocInv == ASSUME RrInv, NEW c \in RrCpu, RrForkAlloc(c) PROVE RrInv'
<1>1. RrAt(c, "alloc") /\ UNCHANGED <<rcpu, rlock, rleft, rpanic>>
  BY DEF RrForkAlloc
<1>2. PICK p \in RrProc : /\ p = On(c) /\ p = rcpu[c].proc /\ rproc[p].state = "RUNNING"
                          /\ rthread[p].at = Place("alloc") /\ rthread[p].irq = NotThere
  BY <1>1, InKernel
<1>3. CASE rproc' = rproc /\ RrGo(c, Release("ptable", Place("ret")))
  <2>1. PICK b : b = Release("ptable", Place("ret"))
    OBVIOUS
  <2>2. b \in AllAts /\ Turns(Place("alloc"), b) /\ RrGo(c, b)
    BY <1>3, <2>1 DEF AllAts, InsideAts, Turns
  <2>3. b \notin {SleepNow, Release("ptable", Place("copy")), Acquire("ptable", Place("forkdone"))}
    BY <2>1 DEF Place, Acquire, Release, SleepNow
  <2> QED
    BY <1>1, <1>3, <2>2, <2>3, TurnStep
<1>4. CASE /\ RrUnused # {}
           /\ rproc' = [rproc EXCEPT ![Min(RrUnused)].state = "EMBRYO", ![Min(RrUnused)].pid = TRUE]
           /\ rthread' = [rthread EXCEPT ![p].arg = Min(RrUnused), ![p].at = Release("ptable", Place("copy"))]
  <2>1. PICK n \in RrProc : n = Min(RrUnused) /\ rproc[n].state = "UNUSED"
    <3>1. RrUnused \in SUBSET RrProc
      BY DEF RrUnused
    <3>2. Min(RrUnused) \in RrUnused
      BY <1>4, <3>1, MinIn
    <3> QED
      BY <3>2 DEF RrUnused
  <2>2. rproc[n].parent = 0 /\ n # p
    BY <1>2, <2>1 DEF RrInv, ForksInv
  <2>3. n # RrInit
    BY <2>1 DEF RrInv, TreeInv
  <2>4. \A q \in RrProc \ {p} : Forks(q) => rthread[q].arg # n
    BY <2>1 DEF RrInv, ForksInv
  <2>5. PICK r \in ThreadRecord : r = rthread[p]
    BY Threads
  <2>6. PICK b \in AllAts : b = Release("ptable", Place("copy"))
    BY DEF AllAts, InsideAts
  <2>7. PICK e : e = [r EXCEPT !.arg = n, !.at = b]
    OBVIOUS
  <2>8. e \in ThreadRecord /\ e.at = b /\ e.irq = r.irq /\ e.arg = n
    <3>1. n \in 1 .. RrProcs + 1
      BY RrAssumption DEF RrProc
    <3> QED
      BY <2>7, <3>1 DEF ThreadRecord
  <2>9. Turns(r.at, e.at)
    BY <1>2, <2>5, <2>6, <2>8 DEF Turns
  <2>10. /\ rthread' \in [RrThread -> ThreadRecord] /\ rthread'[p] = e
         /\ \A x \in RrThread : x # p => rthread'[x] = rthread[x]
    <3>1. rthread \in [RrThread -> ThreadRecord] /\ p \in RrThread
      BY Threads DEF RrInv, RrTypeOK
    <3>2. rthread' = [rthread EXCEPT ![p].arg = n, ![p].at = b]
      BY <1>4, <2>1, <2>6
    <3>3. rthread' = [rthread EXCEPT ![p] = e]
      BY <2>5, <2>7, <3>1, <3>2
    <3> QED
      BY <2>8, <3>1, <3>3
  <2>11. rthread'[n] = rthread[n]
    BY <2>2, <2>10, Threads
  <2>12. PICK f : f = [rproc[n] EXCEPT !.state = "EMBRYO", !.pid = TRUE]
    OBVIOUS
  <2>13. f \in ProcRecord /\ f.state = "EMBRYO" /\ f.parent = 0
    <3>1. rproc[n] \in ProcRecord
      BY Threads
    <3> QED
      BY <2>2, <2>12, <3>1 DEF ProcRecord
  <2>14. rproc' \in [RrProc -> ProcRecord] /\ \A q \in RrProc : rproc'[q] = IF q = n THEN f ELSE rproc[q]
    <3>1. rproc \in [RrProc -> ProcRecord]
      BY DEF RrInv, RrTypeOK
    <3>2. rproc' = [rproc EXCEPT ![n].state = "EMBRYO", ![n].pid = TRUE]
      BY <1>4, <2>1
    <3>3. rproc' = [rproc EXCEPT ![n] = f]
      BY <2>12, <3>1, <3>2
    <3> QED
      BY <2>13, <3>1, <3>3
  <2>15. /\ rproc'[n].state = "EMBRYO" /\ rproc'[n].parent = 0 /\ e.irq = NotThere /\ r.irq = NotThere
         /\ e.at = Release("ptable", Place("copy"))
    BY <1>2, <2>5, <2>6, <2>8, <2>13, <2>14
  <2>16. \A q \in RrProc : q # n => rproc'[q] = rproc[q]
    BY <2>14
  <2> HIDE DEF Forks
  <2> QED
    BY ZenonT(60), <1>1, <1>2, <2>1, <2>2, <2>3, <2>4, <2>5, <2>8, <2>9, <2>10, <2>11, <2>14, <2>15, <2>16, ForkStep
<1> QED
  BY <1>2, <1>3, <1>4 DEF RrForkAlloc

LEMMA ForkCopyInv == ASSUME RrInv, NEW c \in RrCpu, RrForkCopy(c) PROVE RrInv'
<1>1. RrAt(c, "copy") /\ UNCHANGED <<rcpu, rlock, rleft, rpanic>>
  BY DEF RrForkCopy
<1>2. PICK p \in RrProc : /\ p = On(c) /\ p = rcpu[c].proc /\ rproc[p].state = "RUNNING"
                          /\ rthread[p].at = Place("copy") /\ rthread[p].irq = NotThere
  BY <1>1, InKernel
<1>3. PICK n \in RrProc : n = rthread[p].arg
  BY DEF RrInv, RrTypeOK
<1>4. rproc \in [RrProc -> ProcRecord] /\ rproc[n] \in ProcRecord
  BY DEF RrInv, RrTypeOK
<1>5. CASE rproc' = [rproc EXCEPT ![n].state = "UNUSED"] /\ RrGo(c, Place("ret"))
  <2>1. PICK b : b = Place("ret")
    OBVIOUS
  <2>2. PICK f \in ProcRecord : f = [rproc[n] EXCEPT !.state = "UNUSED"]
    BY <1>4, ProcGoes DEF States
  <2>3. f.state = "UNUSED" /\ f.parent = rproc[n].parent
    BY <1>4, <2>2, ProcGoes DEF States
  <2>4. rproc' = [rproc EXCEPT ![n] = f]
    BY <1>5, <2>2
  <2>5. rproc' \in [RrProc -> ProcRecord] /\ \A q \in RrProc : rproc'[q] = IF q = n THEN f ELSE rproc[q]
    BY <1>4, <2>4
  <2>6. RrGo(c, b)
    BY <1>5, <2>1
  <2> QED
    BY <1>1, <1>2, <1>3, <2>1, <2>3, <2>5, <2>6, ForkFailInv
<1>6. CASE /\ rproc' = [rproc EXCEPT ![n].parent = p]
           /\ rthread' = [rthread EXCEPT ![p].at = Acquire("ptable", Place("forkdone")),
                                         ![n].at = Place("forkret"), ![n].irq = Place("none")]
  <2>1. Forks(p) /\ Base(rthread[p]) \in Copying
    BY <1>2 DEF Forks, Live, Base, Copying
  <2>2. /\ rproc[n].state = "EMBRYO" /\ rproc[n].parent = 0 /\ n # p
        /\ \A q \in RrProc \ {p} : Forks(q) => rthread[q].arg # n
    BY <1>2, <1>3, <2>1 DEF RrInv, ForksInv
  <2>3. n # RrInit
    BY <2>2 DEF RrInv, TreeInv
  <2>4. PICK r \in ThreadRecord, s \in ThreadRecord : r = rthread[p] /\ s = rthread[n]
    BY Threads
  <2>5. PICK b \in AllAts : b = Acquire("ptable", Place("forkdone"))
    BY DEF AllAts, OpenAts
  <2>6. PICK a \in AllAts : a = Place("forkret")
    BY DEF AllAts, InsideAts
  <2>7. PICK e \in ThreadRecord : e = [r EXCEPT !.at = b]
    BY ThreadGoes
  <2>8. e.at = b /\ e.irq = r.irq /\ e.arg = n
    BY <1>3, <2>4, <2>7, ThreadGoes
  <2>9. Turns(r.at, e.at)
    BY <1>2, <2>4, <2>5, <2>8 DEF Turns
  <2>10. PICK f : f = [s EXCEPT !.at = a, !.irq = NotThere]
    OBVIOUS
  <2>11. f \in ThreadRecord /\ f.at = a /\ f.irq = NotThere /\ f.arg = s.arg
    BY <2>10 DEF ThreadRecord
  <2>12. /\ rthread' \in [RrThread -> ThreadRecord] /\ rthread'[p] = e /\ rthread'[n] = f
         /\ \A x \in RrThread : x # p /\ x # n => rthread'[x] = rthread[x]
    <3>1. rthread \in [RrThread -> ThreadRecord] /\ p \in RrThread /\ n \in RrThread
      BY Threads DEF RrInv, RrTypeOK
    <3>2. rthread' = [rthread EXCEPT ![p].at = b, ![n].at = a, ![n].irq = NotThere]
      BY <1>6, <2>5, <2>6 DEF NotThere
    <3>3. PICK mid : mid = [rthread EXCEPT ![p] = e]
      OBVIOUS
    <3>4. mid \in [RrThread -> ThreadRecord] /\ \A x \in RrThread : mid[x] = IF x = p THEN e ELSE rthread[x]
      BY <3>1, <3>3
    <3>5. rthread' = [mid EXCEPT ![n].at = a, ![n].irq = NotThere]
      BY <2>4, <2>7, <3>2, <3>3
    <3>6. mid[n] = s
      BY <2>2, <2>4, <3>1, <3>4
    <3>7. rthread' = [mid EXCEPT ![n] = f]
      BY <2>10, <3>1, <3>4, <3>5, <3>6
    <3> QED
      BY <2>2, <2>11, <3>1, <3>4, <3>7
  <2>13. PICK g \in ProcRecord : g = [rproc[n] EXCEPT !.parent = p]
    <3>1. p \in 0 .. RrProcs
      BY DEF RrProc
    <3> QED
      BY <1>4, <3>1, ProcGoes
  <2>14. g.state = "EMBRYO" /\ g.parent = p
    <3>1. p \in 0 .. RrProcs
      BY DEF RrProc
    <3> QED
      BY <1>4, <2>2, <2>13, <3>1, ProcGoes
  <2>15. rproc' \in [RrProc -> ProcRecord] /\ \A q \in RrProc : rproc'[q] = IF q = n THEN g ELSE rproc[q]
    <3>1. rproc' = [rproc EXCEPT ![n] = g]
      BY <1>6, <2>13
    <3> QED
      BY <1>4, <3>1
  <2>16. e.at # Release("ptable", Place("copy")) /\ e.at = Acquire("ptable", Place("forkdone"))
    BY <2>5, <2>8 DEF Place, Acquire, Release
  <2>17. /\ rproc'[n].state = "EMBRYO" /\ rproc'[n].parent = p /\ e.irq = NotThere /\ r.irq = NotThere
         /\ rthread'[n].at = Place("forkret") /\ rthread'[n].irq = NotThere /\ rthread'[n].arg = rthread[n].arg
    BY <1>2, <2>4, <2>6, <2>8, <2>11, <2>12, <2>14, <2>15
  <2>18. \A q \in RrProc : q # n => rproc'[q] = rproc[q]
    BY <2>15
  <2>19. rthread'[p] = e /\ rthread' \in [RrThread -> ThreadRecord] /\ rproc' \in [RrProc -> ProcRecord]
    BY <2>12, <2>15
  <2>20. \A x \in RrThread : x # p /\ x # n => rthread'[x] = rthread[x]
    BY <2>12
  <2> HIDE DEF Forks
  <2> QED
    BY ZenonT(60), <1>1, <1>2, <2>2, <2>3, <2>4, <2>8, <2>9, <2>16, <2>17, <2>18, <2>19, <2>20, ForkStep
<1> QED
  BY <1>2, <1>3, <1>5, <1>6 DEF RrForkCopy

-----------------------------------------------------------------------------
(* The tick.                                                               *)

(* A process at a place of a lock is on the processor that has it.         *)
LEMMA Holder ==
  ASSUME RrInv, NEW p \in RrProc, rproc[p].state = "RUNNING"
  PROVE  \E d \in RrCpu : /\ On(d) = p
                          /\ rthread[p].at \in PtableAts <=> rlock.ptable = d
                          /\ rthread[p].at \in TicksAts <=> rlock.tickslock = d
<1>1. PICK d \in RrCpu : rcpu[d].proc = p
  BY DEF RrInv, RunningInv, RunsOnce
<1>2. On(d) = p
  <2>1. p # 0
    BY DEF RrProc
  <2> QED
    BY <1>1, <2>1 DEF On
<1>3. /\ rlock.ptable = d <=> rthread[p].at \in PtableAts
      /\ rlock.tickslock = d <=> rthread[p].at \in TicksAts
  BY <1>2 DEF RrInv, CpusInv, Fits, Locks
<1> QED
  BY <1>2, <1>3

LEMMA SleepPlaces ==
  /\ \A a \in GoesToSleep : a \in TicksAts
  /\ Place("sleep") \in PtableAts /\ Place("tick") \in TicksAts /\ Place("tickwakes") \in PtableAts \cap TicksAts
BY DEF GoesToSleep, TicksAts, PtableAts

LEMMA TickInv == ASSUME RrInv, NEW c \in RrCpu, Tick(c) PROVE RrInv'
<1>1. RrAt(c, "tick") /\ UNCHANGED <<rproc, rcpu, rlock, rpanic>>
  BY DEF Tick
<1>2. PICK r \in ThreadRecord, u \in CpuRecord, hp \in BOOLEAN, ht \in BOOLEAN :
        /\ r = rthread[On(c)] /\ u = rcpu[c] /\ r.at = Place("tick")
        /\ hp = (rlock.ptable = c) /\ ht = (rlock.tickslock = c) /\ Fits(r, u, hp, ht)
  BY <1>1, At
<1>3. rlock.tickslock = c
  BY <1>2, SleepPlaces DEF Fits, Locks
<1>4. PICK b \in AllAts : b = Acquire("ptable", Place("tickwakes"))
  BY DEF AllAts, TickAts
<1>5. PICK e \in ThreadRecord : e = [r EXCEPT !.at = b]
  BY ThreadGoes
<1>6. e.at = b /\ e.irq = r.irq /\ e.arg = r.arg
  BY <1>5, ThreadGoes
<1>7. rthread' = [rthread EXCEPT ![On(c)] = e]
  BY <1>2, <1>4, <1>5 DEF Tick, RrGo
<1>8. /\ rthread' \in [RrThread -> ThreadRecord] /\ rthread'[On(c)] = e /\ On(c) \in RrThread
      /\ \A x \in RrThread : x # On(c) => rthread'[x] = rthread[x]
  BY <1>7, Threads DEF RrInv, RrTypeOK
<1>9. rleft' \in [RrProc -> Nat]
  <2>1. rleft \in [RrProc -> Nat]
    BY DEF RrInv, RrTypeOK
  <2> QED
    BY <2>1 DEF Tick
<1>10. \A p \in RrProc : p \in RrThread
  BY DEF RrThread
<1>11. rproc' \in [RrProc -> ProcRecord] /\ \A p \in RrProc : rproc'[p] = rproc[p]
  BY <1>1 DEF RrInv, RrTypeOK
<1>12. RrTypeOK' /\ ~rpanic' /\ CpusInv' /\ RunningInv' /\ LeftInv' /\ \A d \in RrCpu : On(d)' = On(d)
  <2>1. Turns(r.at, e.at)
    BY <1>2, <1>4, <1>6 DEF Turns
  <2>2. On(c) \in RrProc => e.arg \in RrProc
    BY <1>2, <1>6 DEF RrInv, RrTypeOK
  <2>3. \A x \in RrThread : x # On(c) /\ rthread'[x] # rthread[x] =>
          /\ x \in RrProc /\ rproc[x].state = "EMBRYO" /\ rproc'[x].state = "EMBRYO"
          /\ rthread'[x].arg = rthread[x].arg
    BY <1>8
  <2>4. \A p \in RrProc : rproc'[p].state \in {"RUNNABLE", "SLEEPING"} =>
          \/ rproc[p].state \in {"RUNNABLE", "SLEEPING"}
             /\ (rproc'[p].state = "SLEEPING" => rproc[p].state = "SLEEPING")
          \/ Left(rproc'[p], rthread'[p])
    BY <1>11
  <2>5. \A p \in RrProc : rproc'[p].state = "RUNNING" <=> rproc[p].state = "RUNNING"
    BY <1>11
  <2> QED
    BY <1>1, <1>2, <1>6, <1>8, <1>9, <1>11, <2>1, <2>2, <2>3, <2>4, <2>5, TableStep
<1>13. ForksInv'
  <2>1. Base(e) \in Copying \cup Copied => Base(e) = Base(r)
    BY <1>4, <1>6 DEF Base, Copying, Copied, Place, Acquire, Release
  <2>2. \A p \in RrProc : Live(p)' /\ Base(rthread'[p]) \in Copying \cup Copied => Live(p)
    BY <1>11 DEF Live
  <2>3. \A p \in RrProc : Forks(p) /\ Forks(p)' =>
          /\ rproc'[rthread[p].arg].state = "EMBRYO"
          /\ rproc'[rthread[p].arg].parent = rproc[rthread[p].arg].parent
    BY <1>1 DEF RrInv, ForksInv
  <2>4. \A p \in RrProc : p # On(c) => rthread'[p] = rthread[p]
    BY <1>8, <1>10
  <2>5. On(c) \in RrProc => rproc[On(c)].state # "EMBRYO"
    BY OnRuns
  <2>6. /\ On(c) \in RrProc /\ Base(rthread'[On(c)]) \in Copying \cup Copied => rthread'[On(c)].arg = rthread[On(c)].arg
        /\ On(c) \in RrProc /\ Base(rthread'[On(c)]) \in Copying => Base(rthread[On(c)]) \in Copying
        /\ On(c) \in RrProc /\ Base(rthread'[On(c)]) \in Copied => Base(rthread[On(c)]) \in Copied
    BY <1>2, <1>6, <1>8, <2>1
  <2>7. \A n \in RrProc : rproc'[n].state = "UNUSED" =>
          rproc'[n].parent = 0 \/ (rproc[n].state = "UNUSED" /\ rproc'[n].parent = rproc[n].parent)
    BY <1>11
  <2> HIDE DEF Forks, Live
  <2> QED
    BY <1>8, <1>12, <2>2, <2>3, <2>4, <2>5, <2>6, <2>7, ForksStay
<1>14. TickPending'
  <2>1. b \in TickWaits
    BY <1>4 DEF TickWaits
  <2>2. rthread'[On(c)'].at \in TickWaits
    BY <1>6, <1>8, <1>12, <2>1
  <2> QED
    BY <2>2 DEF TickPending
<1>15. SleepersInv'
  <2> SUFFICES ASSUME NEW p \in RrProc PROVE Sleeper(p)'
    BY DEF SleepersInv
  <2>1. Sleeper(p)
    BY DEF RrInv, SleepersInv
  <2>2. CASE p = On(c)
    <3>1. b \notin GoesToSleep /\ b \notin {Place("sleep"), Place("slept"), Place("waitscan")}
      BY <1>4 DEF GoesToSleep, Place, Acquire, Release, SleepNow
    <3>2. rthread'[p].at = b
      BY <1>6, <1>8, <2>2
    <3> QED
      BY <3>1, <3>2 DEF Sleeper
  <2>3. CASE p # On(c)
    <3>1. rthread'[p] = rthread[p] /\ rproc'[p] = rproc[p]
      BY <1>8, <1>10, <1>11, <2>3
    <3>2. RrChildren(p)' = RrChildren(p)
      BY <1>11 DEF RrChildren
    <3>3. ~(rproc[p].state = "RUNNING" /\ rthread[p].at \in GoesToSleep)
      <4> SUFFICES ASSUME rproc[p].state = "RUNNING", rthread[p].at \in GoesToSleep PROVE FALSE
        OBVIOUS
      <4>1. PICK d \in RrCpu : On(d) = p /\ (rthread[p].at \in TicksAts <=> rlock.tickslock = d)
        BY Holder
      <4>2. rlock.tickslock = d
        BY <4>1, SleepPlaces
      <4> QED
        BY <1>3, <2>3, <4>1, <4>2
    <3>4. \A q \in RrChildren(p) : rproc'[q] = rproc[q]
      BY <1>11 DEF RrChildren
    <3> HIDE DEF RrChildren, TickPending
    <3> QED
      BY <1>14, <2>1, <3>1, <3>2, <3>3, <3>4 DEF Sleeper
  <2> QED
    BY <2>2, <2>3
<1>16. TreeInv'
  BY <1>1 DEF RrInv, TreeInv
<1> QED
  BY <1>12, <1>13, <1>15, <1>16 DEF RrInv

LEMMA TickWakesInv == ASSUME RrInv, NEW c \in RrCpu, TickWakes(c) PROVE RrInv'
<1>1. RrAt(c, "tickwakes") /\ UNCHANGED <<rcpu, rlock, rleft, rpanic>>
  BY DEF TickWakes
<1>2. PICK r \in ThreadRecord, u \in CpuRecord, hp \in BOOLEAN, ht \in BOOLEAN :
        /\ r = rthread[On(c)] /\ u = rcpu[c] /\ r.at = Place("tickwakes")
        /\ hp = (rlock.ptable = c) /\ ht = (rlock.tickslock = c) /\ Fits(r, u, hp, ht)
  BY <1>1, At
<1>3. rlock.tickslock = c /\ rlock.ptable = c
  BY <1>2, SleepPlaces DEF Fits, Locks
<1>4. PICK b \in AllAts : b = Release("ptable", Release("tickslock", Place("ticked")))
  BY DEF AllAts, TickAts
<1>5. PICK e \in ThreadRecord : e = [r EXCEPT !.at = b]
  BY ThreadGoes
<1>6. e.at = b /\ e.irq = r.irq /\ e.arg = r.arg
  BY <1>5, ThreadGoes
<1>7. rthread' = [rthread EXCEPT ![On(c)] = e]
  BY <1>2, <1>4, <1>5 DEF TickWakes, RrGo
<1>8. /\ rthread' \in [RrThread -> ThreadRecord] /\ rthread'[On(c)] = e /\ On(c) \in RrThread
      /\ \A x \in RrThread : x # On(c) => rthread'[x] = rthread[x]
  BY <1>7, Threads DEF RrInv, RrTypeOK
<1>9. rleft' \in [RrProc -> Nat] /\ \A p \in RrProc : rleft'[p] = rleft[p]
  BY <1>1 DEF RrInv, RrTypeOK
<1>10. \A p \in RrProc : p \in RrThread
  BY DEF RrThread
<1>11. /\ rproc' \in [RrProc -> ProcRecord]
       /\ \A p \in RrProc : /\ rproc'[p].parent = rproc[p].parent /\ rproc'[p].chan = rproc[p].chan
                            /\ rproc'[p].killed = rproc[p].killed
                            /\ rproc'[p].state = IF rproc[p].state = "SLEEPING" /\ rproc[p].chan = RrTicks
                                                 THEN "RUNNABLE" ELSE rproc[p].state
  <2>1. \A p \in RrProc : /\ rproc[p] \in ProcRecord
                          /\ [rproc[p] EXCEPT !.state = "RUNNABLE"] \in ProcRecord
                          /\ [rproc[p] EXCEPT !.state = "RUNNABLE"].state = "RUNNABLE"
                          /\ [rproc[p] EXCEPT !.state = "RUNNABLE"].parent = rproc[p].parent
                          /\ [rproc[p] EXCEPT !.state = "RUNNABLE"].chan = rproc[p].chan
                          /\ [rproc[p] EXCEPT !.state = "RUNNABLE"].killed = rproc[p].killed
    BY ZenonT(60), Threads, ProcGoes DEF States
  <2>2. rproc' = [p \in RrProc |-> IF rproc[p].state = "SLEEPING" /\ rproc[p].chan = RrTicks
                                   THEN [rproc[p] EXCEPT !.state = "RUNNABLE"] ELSE rproc[p]]
    BY DEF TickWakes, Woke
  <2> QED
    BY <2>1, <2>2
<1>12. RrTypeOK' /\ ~rpanic' /\ CpusInv' /\ RunningInv' /\ LeftInv' /\ \A d \in RrCpu : On(d)' = On(d)
  <2>1. Turns(r.at, e.at)
    BY <1>2, <1>4, <1>6 DEF Turns
  <2>2. On(c) \in RrProc => e.arg \in RrProc
    BY <1>2, <1>6 DEF RrInv, RrTypeOK
  <2>3. \A x \in RrThread : x # On(c) /\ rthread'[x] # rthread[x] =>
          /\ x \in RrProc /\ rproc[x].state = "EMBRYO" /\ rproc'[x].state = "EMBRYO"
          /\ rthread'[x].arg = rthread[x].arg
    BY <1>8
  <2>4. \A p \in RrProc : rproc'[p].state \in {"RUNNABLE", "SLEEPING"} =>
          \/ rproc[p].state \in {"RUNNABLE", "SLEEPING"}
             /\ (rproc'[p].state = "SLEEPING" => rproc[p].state = "SLEEPING")
          \/ Left(rproc'[p], rthread'[p])
    BY <1>11
  <2>5. \A p \in RrProc : rproc'[p].state = "RUNNING" <=> rproc[p].state = "RUNNING"
    BY <1>11
  <2> QED
    BY <1>1, <1>2, <1>6, <1>8, <1>9, <1>11, <2>1, <2>2, <2>3, <2>4, <2>5, TableStep
<1>13. ForksInv'
  <2>1. Base(e) \in Copying \cup Copied => Base(e) = Base(r)
    BY <1>4, <1>6 DEF Base, Copying, Copied, Place, Acquire, Release
  <2>2. \A p \in RrProc : Live(p)' /\ Base(rthread'[p]) \in Copying \cup Copied => Live(p)
    BY <1>11 DEF Live
  <2>3. \A p \in RrProc : Forks(p) /\ Forks(p)' =>
          /\ rproc'[rthread[p].arg].state = "EMBRYO"
          /\ rproc'[rthread[p].arg].parent = rproc[rthread[p].arg].parent
    <3> SUFFICES ASSUME NEW p \in RrProc, Forks(p)
                 PROVE  /\ rproc'[rthread[p].arg].state = "EMBRYO"
                        /\ rproc'[rthread[p].arg].parent = rproc[rthread[p].arg].parent
      OBVIOUS
    <3>1. rproc[rthread[p].arg].state = "EMBRYO" /\ rthread[p].arg \in RrProc
      BY DEF RrInv, ForksInv, RrTypeOK
    <3> QED
      BY <1>11, <3>1
  <2>4. \A p \in RrProc : p # On(c) => rthread'[p] = rthread[p]
    BY <1>8, <1>10
  <2>5. On(c) \in RrProc => rproc[On(c)].state # "EMBRYO"
    BY OnRuns
  <2>6. /\ On(c) \in RrProc /\ Base(rthread'[On(c)]) \in Copying \cup Copied => rthread'[On(c)].arg = rthread[On(c)].arg
        /\ On(c) \in RrProc /\ Base(rthread'[On(c)]) \in Copying => Base(rthread[On(c)]) \in Copying
        /\ On(c) \in RrProc /\ Base(rthread'[On(c)]) \in Copied => Base(rthread[On(c)]) \in Copied
    BY <1>2, <1>6, <1>8, <2>1
  <2>7. \A n \in RrProc : rproc'[n].state = "UNUSED" =>
          rproc'[n].parent = 0 \/ (rproc[n].state = "UNUSED" /\ rproc'[n].parent = rproc[n].parent)
    BY <1>11
  <2> HIDE DEF Forks, Live
  <2> QED
    BY <1>8, <1>12, <2>2, <2>3, <2>4, <2>5, <2>6, <2>7, ForksStay
<1>14. SleepersInv'
  <2> SUFFICES ASSUME NEW p \in RrProc PROVE Sleeper(p)'
    BY DEF SleepersInv
  <2>1. Sleeper(p)
    BY DEF RrInv, SleepersInv
  <2>2. CASE p = On(c)
    <3>1. b \notin GoesToSleep /\ b \notin {Place("sleep"), Place("slept"), Place("waitscan")}
      BY <1>4 DEF GoesToSleep, Place, Acquire, Release, SleepNow
    <3>2. rthread'[p].at = b
      BY <1>6, <1>8, <2>2
    <3> QED
      BY <3>1, <3>2 DEF Sleeper
  <2>3. CASE p # On(c)
    <3>1. rthread'[p] = rthread[p]
      BY <1>8, <1>10, <2>3
    <3>2. rproc[p].state = "RUNNING" => rthread[p].at \notin GoesToSleep \cup {Place("sleep")}
      <4> SUFFICES ASSUME rproc[p].state = "RUNNING", rthread[p].at \in GoesToSleep \cup {Place("sleep")} PROVE FALSE
        OBVIOUS
      <4>1. PICK d \in RrCpu : /\ On(d) = p
                               /\ rthread[p].at \in PtableAts <=> rlock.ptable = d
                               /\ rthread[p].at \in TicksAts <=> rlock.tickslock = d
        BY Holder
      <4>2. rlock.tickslock = d \/ rlock.ptable = d
        BY <4>1, SleepPlaces
      <4> QED
        BY <1>3, <2>3, <4>1, <4>2
    <3>3. rproc'[p].state = "SLEEPING" =>
            rproc[p].state = "SLEEPING" /\ rproc[p].chan # RrTicks
      BY <1>11
    <3>4. rproc'[p].chan = rproc[p].chan /\ rproc'[p].killed = rproc[p].killed
          /\ (rproc'[p].state = "RUNNING" => rproc[p].state = "RUNNING")
      BY <1>11
    <3>5. RrChildren(p)' = RrChildren(p)
      BY <1>11 DEF RrChildren
    <3>6. \A q \in RrChildren(p) : rproc'[q].state = "ZOMBIE" => rproc[q].state = "ZOMBIE"
      BY <1>11 DEF RrChildren
    <3>7. rproc'[p].state = "SLEEPING" => rthread[p].at # Place("slept")
      BY <2>1, <3>3 DEF Sleeper
    <3> HIDE DEF RrChildren, TickPending
    <3> QED
      BY <2>1, <3>1, <3>2, <3>3, <3>4, <3>5, <3>6, <3>7 DEF Sleeper
  <2> QED
    BY <2>2, <2>3
<1>15. TreeInv'
  <2>1. RrInit \in RrProc
    BY RrAssumption DEF RrProc, RrInit
  <2> QED
    BY <1>11, <2>1 DEF RrInv, TreeInv
<1> QED
  BY <1>12, <1>13, <1>14, <1>15 DEF RrInv

(* A fault in user space.                                                  *)
LEMMA FaultInv == ASSUME RrInv, NEW c \in RrCpu, Fault(c) PROVE RrInv'
<1>1. RrAt(c, "user") /\ UNCHANGED <<rlock, rleft, rpanic>>
  BY DEF Fault
<1>2. PICK p \in RrProc : p = On(c) /\ p = rcpu[c].proc /\ rproc[p].state = "RUNNING"
  BY <1>1, UserRuns, OnRuns
<1>a. PICK r \in ThreadRecord, u \in CpuRecord, hp \in BOOLEAN, ht \in BOOLEAN :
        /\ r = rthread[On(c)] /\ u = rcpu[c] /\ r.at = Place("user")
        /\ hp = (rlock.ptable = c) /\ ht = (rlock.tickslock = c) /\ Fits(r, u, hp, ht)
  BY <1>1, At
<1>3. /\ r = rthread[p] /\ u = rcpu[c] /\ r.at = Place("user")
      /\ hp = (rlock.ptable = c) /\ ht = (rlock.tickslock = c) /\ Fits(r, u, hp, ht)
  BY <1>2, <1>a
<1>4. PICK b \in AllAts : b = Acquire("ptable", Place("exit"))
  BY DEF AllAts, OpenAts
<1>5. PICK e : e = [r EXCEPT !.irq = r.at, !.at = b]
  OBVIOUS
<1>6. e \in ThreadRecord /\ e.at = b /\ e.irq = Place("user") /\ e.arg = r.arg
  BY <1>3, <1>5 DEF ThreadRecord
<1>7. PICK v : v = [u EXCEPT !.iflag = FALSE]
  OBVIOUS
<1>8. v \in CpuRecord /\ v.proc = u.proc /\ v.ncli = u.ncli /\ ~v.iflag
  BY <1>7, CpuFlag
<1>9. /\ rthread' \in [RrThread -> ThreadRecord] /\ rthread'[p] = e /\ p \in RrThread
      /\ \A x \in RrThread : x # p => rthread'[x] = rthread[x]
  <2>1. rthread \in [RrThread -> ThreadRecord] /\ p \in RrThread
    BY Threads DEF RrInv, RrTypeOK
  <2>2. rthread' = [rthread EXCEPT ![p].irq = rthread[p].at, ![p].at = b]
    BY <1>2, <1>4 DEF Fault
  <2>3. rthread' = [rthread EXCEPT ![p] = e]
    BY <1>3, <1>5, <2>1, <2>2
  <2> QED
    BY <1>6, <2>1, <2>3
<1>10. rcpu' \in [RrCpu -> CpuRecord] /\ rcpu'[c] = v /\ \A d \in RrCpu \ {c} : rcpu'[d] = rcpu[d]
  <2>1. rcpu' = [rcpu EXCEPT ![c] = v]
    BY <1>3, <1>7 DEF Fault
  <2> QED
    BY <1>8, <2>1 DEF RrInv, RrTypeOK
<1>11. PICK f \in ProcRecord : f = [rproc[p] EXCEPT !.killed = TRUE]
  BY Threads, ProcGoes
<1>12. f.state = "RUNNING" /\ f.parent = rproc[p].parent
  BY <1>2, <1>11, Threads, ProcGoes
<1>13. rproc' \in [RrProc -> ProcRecord] /\ \A q \in RrProc : rproc'[q] = IF q = p THEN f ELSE rproc[q]
  <2>1. rproc' = [rproc EXCEPT ![p] = f]
    BY <1>2, <1>11 DEF Fault
  <2> QED
    BY <2>1 DEF RrInv, RrTypeOK
<1>14. \A q \in RrProc : /\ rproc'[q].state = rproc[q].state /\ rproc'[q].parent = rproc[q].parent
                         /\ q # p => rproc'[q] = rproc[q]
  BY <1>2, <1>12, <1>13
<1>15. Fits(e, v, hp, ht)
  <2>1. r.at \notin PtableAts /\ r.at \notin TicksAts /\ b \notin PtableAts /\ b \notin TicksAts
    BY <1>3, <1>4 DEF PtableAts, TicksAts, Place, Acquire, Release, SleepNow
  <2>2. ~hp /\ ~ht /\ u.ncli = 0 /\ u.proc # 0
    BY <1>2, <1>3, <2>1 DEF Fits, Locks, RrProc
  <2>3. ProcessPlace(e)
    BY <1>4, <1>6 DEF ProcessPlace, ExitAts
  <2>4. Locks(e, v, hp, ht)
    BY <1>6, <1>8, <2>1, <2>2 DEF Locks
  <2>5. Interrupts(e, v)
    BY <1>6, <1>8, <2>2 DEF Interrupts, NotThere, Place
  <2> QED
    BY <1>8, <2>2, <2>3, <2>4, <2>5 DEF Fits
<1>16. RrTypeOK'
  <2>1. \A q \in RrProc : q \in RrThread
    BY DEF RrThread
  <2>2. \A q \in RrProc : rthread'[q].arg \in RrProc
    BY <1>3, <1>6, <1>9, <2>1 DEF RrInv, RrTypeOK
  <2> QED
    BY <1>1, <1>9, <1>10, <1>13, <2>2 DEF RrInv, RrTypeOK
<1>17. CpusInv' /\ RunningInv' /\ LeftInv' /\ \A d \in RrCpu : On(d)' = On(d)
  <2>1. Fits(rthread'[On(c)], rcpu'[c], rlock'.ptable = c, rlock'.tickslock = c)
    BY <1>1, <1>2, <1>3, <1>9, <1>10, <1>15
  <2>2. \A x \in RrThread : x # On(c) /\ rthread'[x] # rthread[x] =>
          x \in RrProc /\ rproc[x].state = "EMBRYO" /\ rproc'[x].state = "EMBRYO"
    BY <1>2, <1>9
  <2>3. \A q \in RrProc : rproc'[q].state \in {"RUNNABLE", "SLEEPING"} =>
          \/ rproc[q].state \in {"RUNNABLE", "SLEEPING"}
             /\ (rproc'[q].state = "SLEEPING" => rproc[q].state = "SLEEPING")
          \/ Left(rproc'[q], rthread'[q])
    BY <1>14
  <2>4. \A q \in RrProc : rproc'[q].state = "RUNNING" <=> rproc[q].state = "RUNNING"
    BY <1>14
  <2>5. rcpu'[c].proc = rcpu[c].proc
    BY <1>3, <1>8, <1>10
  <2> QED
    BY <1>1, <1>10, <1>16, <2>1, <2>2, <2>3, <2>4, <2>5, CoreStep
<1>18. \A q \in RrProc : q \in RrThread /\ (q # p => rthread'[q] = rthread[q])
  BY <1>9 DEF RrThread
<1>19. ForksInv'
  <2>1. Base(e) \notin Copying \cup Copied
    BY <1>6 DEF Base, Copying, Copied, NotThere, Place, Acquire, Release
  <2>2. \A q \in RrProc : Live(q)' /\ Base(rthread'[q]) \in Copying \cup Copied => Live(q)
    BY <1>14 DEF Live
  <2>3. \A q \in RrProc : Forks(q) /\ Forks(q)' =>
          /\ rproc'[rthread[q].arg].state = "EMBRYO"
          /\ rproc'[rthread[q].arg].parent = rproc[rthread[q].arg].parent
    <3> SUFFICES ASSUME NEW q \in RrProc, Forks(q)
                 PROVE  /\ rproc'[rthread[q].arg].state = "EMBRYO"
                        /\ rproc'[rthread[q].arg].parent = rproc[rthread[q].arg].parent
      OBVIOUS
    <3>1. rproc[rthread[q].arg].state = "EMBRYO" /\ rthread[q].arg \in RrProc
      BY DEF RrInv, ForksInv, RrTypeOK
    <3> QED
      BY <1>14, <3>1
  <2>4. \A n \in RrProc : rproc'[n].state = "UNUSED" => rproc[n].state = "UNUSED" /\ rproc'[n].parent = rproc[n].parent
    BY <1>14
  <2>5. rproc[p].state # "EMBRYO" /\ Base(rthread'[p]) \notin Copying \cup Copied
    BY <1>2, <1>9, <2>1
  <2> HIDE DEF Forks, Live
  <2> QED
    BY <1>16, <1>18, <2>2, <2>3, <2>4, <2>5, ForksStay
<1>20. TickPending => TickPending'
  <2>1. \A d \in RrCpu \ {c} : rthread'[On(d)] = rthread[On(d)]
    BY <1>2, <1>9, Threads
  <2>2. rthread[On(c)].at \notin TickWaits
    BY <1>2, <1>3 DEF TickWaits, Place, Acquire
  <2> QED
    BY <1>17, <2>1, <2>2, PendingKept
<1>21. SleepersInv'
  <2>1. Sleeper(p)'
    <3>1. rproc'[p].state = "RUNNING" /\ rthread'[p].at = b
      BY <1>2, <1>6, <1>9, <1>14
    <3>2. b \notin GoesToSleep \cup {Place("sleep")}
      BY <1>4 DEF GoesToSleep, Place, Acquire, Release, SleepNow
    <3> QED
      BY <3>1, <3>2 DEF Sleeper
  <2>2. \A q \in RrProc : q # p /\ rproc'[q].state = "SLEEPING" =>
          rproc[q].state = "SLEEPING" /\ rproc'[q].chan = rproc[q].chan /\ rproc'[q].killed = rproc[q].killed
    BY <1>14
  <2>3. \A q \in RrProc : rproc'[q].state = "RUNNING" => rproc[q].state = "RUNNING"
    BY <1>14
  <2>4. \A s, q \in RrProc : s # p /\ rproc'[s].state = "SLEEPING" /\ rproc'[s].chan = s =>
          /\ rproc[q].parent = s /\ rproc[q].state # "ZOMBIE" => rproc'[q].parent = s
          /\ rproc'[q].parent = s /\ rproc'[q].state = "ZOMBIE" => rproc[q].parent = s /\ rproc[q].state = "ZOMBIE"
    BY <1>14
  <2>5. \A q \in RrProc : rleft'[q] = rleft[q]
    BY <1>1
  <2> HIDE DEF Sleeper, TickPending
  <2> QED
    BY <1>16, <1>18, <1>20, <2>1, <2>2, <2>3, <2>4, <2>5, SleepersStay
<1>22. TreeInv'
  <2>1. RrInit \in RrProc
    BY RrAssumption DEF RrProc, RrInit
  <2> QED
    BY <1>14, <2>1 DEF RrInv, TreeInv
<1>23. ~rpanic'
  BY <1>1 DEF RrInv
<1> QED
  BY <1>16, <1>17, <1>19, <1>21, <1>22, <1>23 DEF RrInv

-----------------------------------------------------------------------------
(* sched(): a process gives its processor to the scheduler.                *)

SchedAts == {Place("yield"), Place("exit"), Place("waitscan"), Place("sleep")}

LEMMA SchedHolds ==
  ASSUME NEW r \in ThreadRecord, NEW u \in CpuRecord, NEW hp \in BOOLEAN, NEW ht \in BOOLEAN,
         Fits(r, u, hp, ht), r.at \in SchedAts
  PROVE  hp /\ ~ht /\ u.ncli = 1 /\ ~u.iflag
<1>1. r.at \in PtableAts
  BY DEF SchedAts, PtableAts
<1>2. r.at \notin TicksAts
  BY DEF SchedAts, TicksAts, Place, Acquire, Release, SleepNow
<1> QED
  BY <1>1, <1>2 DEF Fits, Locks, Interrupts

LEMMA LeftFits ==
  ASSUME NEW r \in ThreadRecord, NEW e \in ThreadRecord, NEW u \in CpuRecord,
         NEW hp \in BOOLEAN, NEW ht \in BOOLEAN, Fits(r, u, hp, ht), u.proc # 0,
         e.irq = r.irq, e.intena = u.intena,
         \/ r.at = Place("yield") /\ e.at = Release("ptable", Place("yielded"))
         \/ r.at = Place("waitscan") /\ e.at = Place("waitscan")
         \/ r.at = Place("sleep") /\ e.at = Place("slept")
  PROVE  /\ ProcessPlace(e) /\ r.at \in SchedAts
         /\ e.irq # NotThere => ~e.intena
         /\ e.irq = NotThere => e.intena
<1>1. r.at \in SchedAts
  BY DEF SchedAts
<1>2. hp /\ ~ht /\ u.ncli = 1 /\ ~u.iflag
  BY <1>1, SchedHolds
<1> USE DEF Place, Acquire, Release, SleepNow, NotThere
<1>3. ProcessPlace(e)
  BY DEF Fits, ProcessPlace, OpenAts, InsideAts, TickAts, YieldAts, ExitAts
<1>4. r.at \notin {Place("forkret"), Release("ptable", Place("trapret"))}
  OBVIOUS
<1>5. e.irq # NotThere => ~e.intena
  BY <1>2 DEF Fits, Interrupts
<1>6. e.irq = NotThere => e.intena
  BY <1>2, <1>4 DEF Fits, Interrupts
<1> QED
  BY <1>1, <1>3, <1>5, <1>6

(* sched() of p leaves its thread as e, its processor as v.                *)
SchedEnds(c, p, e, v) ==
  /\ p = On(c) /\ p = rcpu[c].proc /\ e.arg = rthread[p].arg /\ rthread[p].at \in SchedAts
  /\ rthread' \in [RrThread -> ThreadRecord] /\ \A x \in RrThread : rthread'[x] = IF x = p THEN e ELSE rthread[x]
  /\ v.proc = 0 /\ v.ncli = rcpu[c].ncli /\ v.iflag = rcpu[c].iflag /\ v.intena = rcpu[c].intena
  /\ rcpu' \in [RrCpu -> CpuRecord] /\ \A d \in RrCpu : rcpu'[d] = IF d = c THEN v ELSE rcpu[d]
  /\ UNCHANGED <<rlock, rleft>> /\ rproc' \in [RrProc -> ProcRecord]
  /\ rproc'[p].state \in {"RUNNABLE", "SLEEPING", "ZOMBIE"}
  /\ rproc'[p].state \in {"RUNNABLE", "SLEEPING"} => Left(rproc'[p], e)
  /\ \A q \in RrProc : q # p => (rproc'[q].state = "RUNNING" <=> rproc[q].state = "RUNNING")
  /\ \A q \in RrProc : q # p /\ rproc'[q].state \in {"RUNNABLE", "SLEEPING"} =>
       /\ rproc[q].state \in {"RUNNABLE", "SLEEPING"}
       /\ rproc'[q].state = "SLEEPING" => rproc[q].state = "SLEEPING"

(* The threads and processors after sched().                               *)
LEMMA SchedStep ==
  ASSUME RrInv, NEW c \in RrCpu, NEW p \in RrProc, NEW e \in ThreadRecord, NEW v \in CpuRecord,
         SchedEnds(c, p, e, v)
  PROVE  /\ RrTypeOK' /\ CpusInv' /\ RunningInv' /\ LeftInv'
         /\ TickPending => TickPending'
         /\ rlock.ptable = c /\ rcpu[c].ncli = 1 /\ ~rcpu[c].iflag
         /\ \A q \in RrProc : q # p => rthread'[q] = rthread[q]
         /\ rthread'[p] = e
<1> USE DEF SchedEnds
<1>1. RrTypeOK /\ rthread \in [RrThread -> ThreadRecord] /\ rcpu \in [RrCpu -> CpuRecord] /\ p \in RrThread
  BY Threads DEF RrInv, RrTypeOK
<1>2. rthread' \in [RrThread -> ThreadRecord] /\ \A x \in RrThread : rthread'[x] = IF x = p THEN e ELSE rthread[x]
  OBVIOUS
<1>3. \A q \in RrProc : q \in RrThread /\ q # 0
  BY DEF RrThread, RrProc
<1>a. PICK r \in ThreadRecord, u \in CpuRecord, hp \in BOOLEAN, ht \in BOOLEAN :
        /\ r = rthread[On(c)] /\ u = rcpu[c]
        /\ hp = (rlock.ptable = c) /\ ht = (rlock.tickslock = c) /\ Fits(r, u, hp, ht)
  BY Here
<1>4. r = rthread[p] /\ r.at \in SchedAts
  BY <1>a
<1>5. hp /\ ~ht /\ u.ncli = 1 /\ ~u.iflag
  BY <1>a, <1>4, SchedHolds
<1>7. v.proc = 0 /\ v.ncli = 1 /\ ~v.iflag /\ v.intena = u.intena
  BY <1>a, <1>5
<1>8. rcpu' \in [RrCpu -> CpuRecord] /\ \A d \in RrCpu : rcpu'[d] = IF d = c THEN v ELSE rcpu[d]
  OBVIOUS
<1>9. RrTypeOK'
  <2>1. \A q \in RrProc : rthread'[q].arg \in RrProc
    BY <1>1, <1>2, <1>3 DEF RrTypeOK
  <2> QED
    BY <1>1, <1>2, <1>8, <2>1 DEF RrTypeOK
<1>10. On(c)' = 0 - c /\ \A d \in RrCpu \ {c} : On(d)' = On(d)
  BY <1>7, <1>8 DEF On
<1>11. \A d \in RrCpu : 0 - d \in RrThread /\ 0 - d # p
  BY Threads
<1>12. rthread[0 - c].at = Place("scan") /\ rthread[0 - c].irq = NotThere
  BY <1>3 DEF RrInv, RunningInv
<1>13. CpusInv'
  <2>1. Fits(rthread'[0 - c], rcpu'[c], rlock'.ptable = c, rlock'.tickslock = c)
    <3>1. PICK s \in ThreadRecord : s = rthread[0 - c]
      BY <1>1, <1>11
    <3>2. s.at = Place("scan") /\ s.irq = NotThere
      BY <1>12, <3>1
    <3>3. s.at \in PtableAts /\ s.at \in SchedulerAts
      BY <3>2 DEF PtableAts, SchedulerAts
    <3>4. s.at \notin TicksAts
      BY <3>2 DEF TicksAts, Place, Acquire, Release, SleepNow
    <3>5. Fits(s, v, hp, ht)
      BY <1>5, <1>7, <3>2, <3>3, <3>4 DEF Fits, SchedulerPlace, Locks, Interrupts
    <3>6. rthread'[0 - c] = s /\ rcpu'[c] = v
      BY <1>2, <1>8, <1>11, <3>1
    <3> QED
      BY <1>a, <3>5, <3>6
  <2>2. ASSUME NEW d \in RrCpu, d # c
        PROVE  Fits(rthread'[On(d)], rcpu'[d], rlock'.ptable = d, rlock'.tickslock = d)
    <3>1. On(d) # p /\ On(d) \in RrThread
      BY <2>2, Threads
    <3>2. rthread'[On(d)] = rthread[On(d)] /\ rcpu'[d] = rcpu[d]
      BY <1>2, <1>8, <2>2, <3>1
    <3>3. Fits(rthread[On(d)], rcpu[d], rlock.ptable = d, rlock.tickslock = d)
      BY DEF RrInv, CpusInv
    <3> QED
      BY <3>2, <3>3
  <2> QED
    BY <1>10, <2>1, <2>2 DEF CpusInv
<1>14. RunningInv'
  <2>1. \A d \in RrCpu : rcpu'[d].proc = IF d = c THEN 0 ELSE rcpu[d].proc
    BY <1>7, <1>8
  <2>2. /\ \A d, f \in RrCpu : rcpu[d].proc = rcpu[f].proc /\ rcpu[d].proc # 0 => d = f
        /\ \A q \in RrProc : rproc[q].state = "RUNNING" <=> \E d \in RrCpu : rcpu[d].proc = q
        /\ \A d \in RrCpu : rcpu[d].proc # 0 => rthread[0 - d].at = Place("scan") /\ rthread[0 - d].irq = NotThere
    BY DEF RrInv, RunningInv, RunsOnce
  <2>3. \A q \in RrProc : rproc'[q].state = "RUNNING" <=> \E d \in RrCpu : rcpu'[d].proc = q
    <3> SUFFICES ASSUME NEW q \in RrProc
                 PROVE  rproc'[q].state = "RUNNING" <=> \E d \in RrCpu : rcpu'[d].proc = q
      OBVIOUS
    <3>1. CASE q = p
      <4>1. \A d \in RrCpu : rcpu'[d].proc # p
        BY <1>3, <2>1, <2>2
      <4> QED
        BY <3>1, <4>1
    <3>2. CASE q # p
      <4>1. \A d \in RrCpu : rcpu'[d].proc = q <=> rcpu[d].proc = q
        BY <1>3, <2>1, <3>2
      <4> QED
        BY <2>2, <3>2, <4>1
    <3> QED
      BY <3>1, <3>2
  <2>4. \A d, f \in RrCpu : rcpu'[d].proc = rcpu'[f].proc /\ rcpu'[d].proc # 0 => d = f
    BY <2>1, <2>2
  <2>5. \A d \in RrCpu : rcpu'[d].proc # 0 => rthread'[0 - d].at = Place("scan") /\ rthread'[0 - d].irq = NotThere
    BY <1>2, <1>11, <2>1, <2>2
  <2> QED
    BY <2>3, <2>4, <2>5 DEF RunningInv, RunsOnce
<1>15. LeftInv'
  <2> SUFFICES ASSUME NEW q \in RrProc, rproc'[q].state \in {"RUNNABLE", "SLEEPING"}
               PROVE  Left(rproc'[q], rthread'[q])
    BY DEF LeftInv
  <2>1. CASE q = p
    BY <1>2, <1>3, <2>1
  <2>2. CASE q # p
    <3>1. /\ rproc[q].state \in {"RUNNABLE", "SLEEPING"}
          /\ rproc'[q].state = "SLEEPING" => rproc[q].state = "SLEEPING"
      BY <2>2
    <3>2. Left(rproc[q], rthread[q]) /\ rthread'[q] = rthread[q]
      BY <1>2, <1>3, <2>2, <3>1 DEF RrInv, LeftInv
    <3> QED
      BY <3>1, <3>2 DEF Left
  <2> QED
    BY <2>1, <2>2
<1>16. ASSUME TickPending PROVE TickPending'
  <2>1. PICK d \in RrCpu : rthread[On(d)].at \in TickWaits
    BY <1>16 DEF TickPending
  <2>2. d # c
    <3>1. r.at \notin TickWaits
      BY <1>4 DEF SchedAts, TickWaits, Place, Acquire
    <3> QED
      BY <1>a, <2>1, <3>1
  <2>3. On(d)' = On(d) /\ rthread'[On(d)] = rthread[On(d)]
    BY <1>2, <1>10, <2>2, Threads
  <2> QED
    BY <2>1, <2>3 DEF TickPending
<1>17. rlock.ptable = c /\ rcpu[c].ncli = 1 /\ ~rcpu[c].iflag
  BY <1>a, <1>5
<1>18. rthread'[p] = e /\ \A q \in RrProc : q # p => rthread'[q] = rthread[q]
  BY <1>2, <1>3
<1> QED
  BY <1>9, <1>13, <1>14, <1>15, <1>16, <1>17, <1>18

(* What sched() of p at the processor c, with the table procs, may do.     *)
SchedTable(c, p, at, r, procs) ==
  /\ p = On(c) /\ p = rcpu[c].proc /\ rproc[p].state = "RUNNING" /\ r = rthread[p] /\ r.at \in SchedAts
  /\ procs \in [RrProc -> ProcRecord] /\ Sched(c, procs, at) /\ UNCHANGED <<rlock, rleft>>
  /\ \/ procs[p].state = "ZOMBIE" /\ at = Place("zombie")
     \/ procs[p].state = "RUNNABLE" /\ r.at = Place("yield") /\ at = Release("ptable", Place("yielded"))
     \/ /\ procs[p].state = "SLEEPING" /\ r.at = Place("waitscan") /\ at = Place("waitscan")
        /\ procs[p].chan = p /\ ~procs[p].killed
        /\ \E q \in RrProc : procs[q].parent = p
        /\ \A q \in RrProc : procs[q].parent = p => procs[q].state # "ZOMBIE"
     \/ /\ procs[p].state = "SLEEPING" /\ r.at = Place("sleep") /\ at = Place("slept")
        /\ procs[p].chan = RrTicks
  /\ \A q \in RrProc : q # p =>
       \/ procs[q].state = rproc[q].state
       \/ procs[q].state = "RUNNABLE" /\ rproc[q].state = "SLEEPING"
  /\ \A q \in RrProc : q # p => procs[q].chan = rproc[q].chan /\ procs[q].killed = rproc[q].killed
  /\ \A q \in RrProc : \/ procs[q].parent = rproc[q].parent
                       \/ procs[p].state = "ZOMBIE" /\ rproc[q].parent = p
  /\ \A s, q \in RrProc : s # p /\ procs[s].state = "SLEEPING" /\ procs[s].chan = s =>
       /\ rproc[q].parent = s /\ rproc[q].state # "ZOMBIE" => procs[q].parent = s
       /\ procs[q].parent = s /\ procs[q].state = "ZOMBIE" => rproc[q].parent = s /\ rproc[q].state = "ZOMBIE"
  /\ procs[RrInit].parent = 0 /\ \A q \in RrProc : procs[q].parent # q

LEMMA SchedKeeps ==
  ASSUME RrInv, NEW c \in RrCpu, NEW p \in RrProc, NEW at \in AllAts, NEW r \in ThreadRecord, NEW procs,
         SchedTable(c, p, at, r, procs)
  PROVE  RrInv'
<1> USE DEF SchedTable
<1>0. PICK r0 \in ThreadRecord, u \in CpuRecord, hp \in BOOLEAN, ht \in BOOLEAN :
        /\ r0 = rthread[On(c)] /\ u = rcpu[c]
        /\ hp = (rlock.ptable = c) /\ ht = (rlock.tickslock = c) /\ Fits(r0, u, hp, ht)
  BY Here
<1>r. r0 = r
  BY <1>0
<1>1. u = rcpu[c] /\ Fits(r, u, hp, ht)
  BY <1>0, <1>r
<1>2. PICK e : e = [r EXCEPT !.at = at, !.intena = u.intena]
  OBVIOUS
<1>3. e \in ThreadRecord /\ e.at = at /\ e.irq = r.irq /\ e.arg = r.arg /\ e.intena = u.intena
  BY <1>2 DEF ThreadRecord, CpuRecord
<1>4. rthread' = [rthread EXCEPT ![p] = e]
  <2>1. rthread \in [RrThread -> ThreadRecord] /\ p \in RrThread
    BY Threads DEF RrInv, RrTypeOK
  <2>2. rthread' = [rthread EXCEPT ![p].at = at, ![p].intena = u.intena]
    BY <1>1 DEF Sched
  <2> QED
    BY <1>2, <2>1, <2>2
<1>5. rproc' = procs /\ rcpu' = [rcpu EXCEPT ![c].proc = 0]
      /\ (rpanic' <=> (rlock.ptable # c \/ rcpu[c].ncli # 1 \/ rcpu[c].iflag))
  BY DEF Sched
<1>6. procs[p].state \in {"RUNNABLE", "SLEEPING"} => Left(procs[p], e)
  <2> SUFFICES ASSUME procs[p].state \in {"RUNNABLE", "SLEEPING"} PROVE Left(procs[p], e)
    OBVIOUS
  <2>1. \/ r.at = Place("yield") /\ e.at = Release("ptable", Place("yielded"))
        \/ r.at = Place("waitscan") /\ e.at = Place("waitscan")
        \/ r.at = Place("sleep") /\ e.at = Place("slept")
    BY <1>3
  <2>2. u.proc # 0
    BY SMTT(30), <1>1 DEF RrProc
  <2>a. e.irq = r.irq /\ e.intena = u.intena /\ e \in ThreadRecord
    BY <1>3
  <2> HIDE DEF Fits, ProcessPlace
  <2>3. /\ ProcessPlace(e)
        /\ e.irq # NotThere => ~e.intena
        /\ e.irq = NotThere => e.intena
    BY SMTT(30), <1>1, <2>a, <2>1, <2>2, LeftFits
  <2>4. procs[p].state = "RUNNABLE" => e.at \in {Place("forkret"), Release("ptable", Place("yielded")), Place("waitscan"), Place("slept")}
    BY <1>3
  <2>5. procs[p].state = "SLEEPING" => e.at \in {Place("waitscan"), Place("slept")}
    BY <1>3
  <2> QED
    BY <2>3, <2>4, <2>5 DEF Left
<1>7. \A q \in RrProc : q # p => (procs[q].state = "RUNNING" <=> rproc[q].state = "RUNNING")
  OBVIOUS
<1>8. \A q \in RrProc : q # p /\ procs[q].state \in {"RUNNABLE", "SLEEPING"} =>
        /\ rproc[q].state \in {"RUNNABLE", "SLEEPING"}
        /\ procs[q].state = "SLEEPING" => rproc[q].state = "SLEEPING"
  OBVIOUS
<1>9. procs[p].state \in {"RUNNABLE", "SLEEPING", "ZOMBIE"}
  OBVIOUS
<1>10. /\ RrTypeOK' /\ CpusInv' /\ RunningInv' /\ LeftInv'
       /\ TickPending => TickPending'
       /\ rlock.ptable = c /\ rcpu[c].ncli = 1 /\ ~rcpu[c].iflag
       /\ \A q \in RrProc : q # p => rthread'[q] = rthread[q]
       /\ rthread'[p] = e
  <2>1. e \in ThreadRecord /\ e.arg = rthread[p].arg /\ rthread[p].at \in SchedAts
    BY <1>3
  <2>2. rproc' \in [RrProc -> ProcRecord] /\ rproc'[p].state \in {"RUNNABLE", "SLEEPING", "ZOMBIE"}
        /\ (rproc'[p].state \in {"RUNNABLE", "SLEEPING"} => Left(rproc'[p], e))
    BY <1>5, <1>6, <1>9
  <2>3. \A q \in RrProc : q # p => (rproc'[q].state = "RUNNING" <=> rproc[q].state = "RUNNING")
    BY <1>5, <1>7
  <2>4. \A q \in RrProc : q # p /\ rproc'[q].state \in {"RUNNABLE", "SLEEPING"} =>
           /\ rproc[q].state \in {"RUNNABLE", "SLEEPING"}
           /\ rproc'[q].state = "SLEEPING" => rproc[q].state = "SLEEPING"
    BY <1>5, <1>8
  <2>5. PICK v : v = [u EXCEPT !.proc = 0]
    OBVIOUS
  <2>6. /\ v \in CpuRecord /\ v.proc = 0 /\ v.ncli = rcpu[c].ncli
        /\ v.iflag = rcpu[c].iflag /\ v.intena = rcpu[c].intena
    <3>1. 0 \in 0 .. RrProcs
      BY RrAssumption
    <3> QED
      BY <1>1, <2>5, <3>1 DEF CpuRecord
  <2>7. rcpu' \in [RrCpu -> CpuRecord] /\ \A d \in RrCpu : rcpu'[d] = IF d = c THEN v ELSE rcpu[d]
    <3>1. rcpu' = [rcpu EXCEPT ![c] = v]
      BY <1>1, <1>5, <2>5
    <3> QED
      BY <2>6, <3>1 DEF RrInv, RrTypeOK
  <2>8. rthread' \in [RrThread -> ThreadRecord] /\ \A x \in RrThread : rthread'[x] = IF x = p THEN e ELSE rthread[x]
    BY SMTT(30), <1>4, <2>1, Threads DEF RrInv, RrTypeOK
  <2>9. SchedEnds(c, p, e, v)
    BY <2>1, <2>2, <2>3, <2>4, <2>6, <2>7, <2>8 DEF SchedEnds
  <2> QED
    BY SMTT(30), <1>3, <2>6, <2>9, SchedStep
<1>11. ~rpanic'
  BY <1>5, <1>10
<1>12. ForksInv'
  <2>1. ASSUME procs[p].state \in {"RUNNABLE", "SLEEPING"}, Base(e) \in Copying \cup Copied
        PROVE  Base(e) = Base(r)
    <3>1. e.irq # NotThere
      BY SMTT(30), <1>3, <2>1 DEF Base, Copying, Copied, Place, Acquire, Release
    <3> QED
      BY <1>3, <3>1 DEF Base
  <2>2. \A q \in RrProc : Forks(q)' => Forks(q) /\ rthread'[q].arg = rthread[q].arg /\ Base(rthread'[q]) = Base(rthread[q])
    <3> SUFFICES ASSUME NEW q \in RrProc, Forks(q)'
                 PROVE  Forks(q) /\ rthread'[q].arg = rthread[q].arg /\ Base(rthread'[q]) = Base(rthread[q])
      OBVIOUS
    <3>1. CASE q = p
      <4>1. procs[p].state \in {"RUNNABLE", "SLEEPING"} /\ Base(e) \in Copying \cup Copied
        BY <1>5, <1>9, <1>10, <3>1 DEF Forks, Live
      <4>2. Base(e) = Base(r)
        BY <2>1, <4>1
      <4> QED
        BY <1>3, <1>10, <3>1, <4>1, <4>2 DEF Forks, Live
    <3>2. CASE q # p
      BY <1>5, <1>7, <1>8, <1>10, <3>2 DEF Forks, Live
    <3> QED
      BY <3>1, <3>2
  <2>3. ASSUME NEW q \in RrProc, Forks(q)', NEW n, n = rthread[q].arg
        PROVE  /\ rproc'[n].state = "EMBRYO" /\ rproc'[n].parent = rproc[n].parent
               /\ rthread'[n] = rthread[n]
    <3>1. Forks(q)
      BY <2>2, <2>3
    <3>2. /\ n \in RrProc /\ rproc[n].state = "EMBRYO" /\ rproc[n].parent \in {0, q}
      BY <2>3, <3>1 DEF RrInv, ForksInv, RrTypeOK, Forks
    <3>3. n # p /\ rproc'[n].state = "EMBRYO" /\ rthread'[n] = rthread[n]
      BY <1>5, <1>10, <3>2
    <3>4. rproc'[n].parent = rproc[n].parent
      <4>1. procs[p].state = "ZOMBIE" => q # p
        BY <1>5, <2>3 DEF Forks, Live
      <4>2. p # 0
        BY DEF RrProc
      <4> QED
        BY <1>5, <3>2, <4>1, <4>2
    <3> QED
      BY <3>3, <3>4
  <2>4. \A n \in RrProc : rproc'[n].state = "UNUSED" => rproc[n].state = "UNUSED" /\ rproc'[n].parent = rproc[n].parent
    <3> SUFFICES ASSUME NEW n \in RrProc, procs[n].state = "UNUSED"
                 PROVE  rproc[n].state = "UNUSED" /\ procs[n].parent = rproc[n].parent
      BY <1>5
    <3>1. n # p /\ rproc[n].state = "UNUSED"
      BY <1>9
    <3>2. rproc[n].parent = 0 /\ p # 0
      BY SMTT(30), <3>1 DEF RrInv, ForksInv, RrProc
    <3> QED
      BY <3>1, <3>2
  <2> HIDE DEF Forks
  <2> QED
    BY SMTT(30), <1>10, <2>2, <2>3, <2>4, ForksKept
<1>13. SleepersInv'
  <2>1. Sleeper(p)'
    <3>1. rthread'[p].at = at /\ rproc'[p].state # "RUNNING" /\ rproc'[p] = procs[p]
      BY <1>3, <1>5, <1>9, <1>10
    <3>2. ASSUME procs[p].state = "SLEEPING", at = Place("slept")
          PROVE  procs[p].chan = RrTicks /\ (rleft'[p] > 0 \/ TickPending')
      <4>1. r.at = Place("sleep") /\ procs[p].chan = RrTicks
        BY <3>2 DEF Place
      <4>2. rleft[p] > 0 \/ TickPending
        BY <4>1 DEF RrInv, SleepersInv, Sleeper
      <4> QED
        BY <1>10, <4>1, <4>2
    <3>3. ASSUME procs[p].state = "SLEEPING", at = Place("waitscan")
          PROVE  /\ procs[p].chan = p /\ ~procs[p].killed
                 /\ RrChildren(p)' # {} /\ \A q \in RrChildren(p)' : rproc'[q].state # "ZOMBIE"
      <4>1. /\ procs[p].chan = p /\ ~procs[p].killed
            /\ \E q \in RrProc : procs[q].parent = p
            /\ \A q \in RrProc : procs[q].parent = p => procs[q].state # "ZOMBIE"
        BY <3>3 DEF Place
      <4>2. RrChildren(p)' = {q \in RrProc : procs[q].parent = p}
        BY <1>5 DEF RrChildren
      <4> QED
        BY <1>5, <4>1, <4>2
    <3> HIDE DEF RrChildren, TickPending
    <3> QED
      BY <3>1, <3>2, <3>3 DEF Sleeper
  <2>2. \A q \in RrProc : q # p /\ procs[q].state = "SLEEPING" =>
          rproc[q].state = "SLEEPING" /\ procs[q].chan = rproc[q].chan /\ procs[q].killed = rproc[q].killed
    OBVIOUS
  <2>3. p \in RrThread
    BY Threads
  <2>4. \A q \in RrProc : rleft'[q] = rleft[q]
    OBVIOUS
  <2> HIDE DEF Sleeper, TickPending
  <2> QED
    BY SMTT(30), <1>5, <1>7, <1>10, <2>1, <2>2, <2>3, <2>4, SleepersStay
<1>14. TreeInv'
  <2>1. RrInit \in RrProc
    BY RrAssumption DEF RrProc, RrInit
  <2>2. rproc[RrInit].state \notin {"UNUSED", "EMBRYO"}
    BY DEF RrInv, TreeInv
  <2>3. procs[RrInit].state \notin {"UNUSED", "EMBRYO"}
    BY <1>9, <2>1, <2>2
  <2> QED
    BY <1>5, <2>3 DEF TreeInv
<1> QED
  BY <1>10, <1>11, <1>12, <1>13, <1>14 DEF RrInv

(* sleep() as it leaves the table.                                         *)
LEMMA AsleepIs ==
  ASSUME RrInv, NEW p \in RrProc, NEW k \in {RrTicks} \cup 0 .. RrProcs
  PROVE  \E f \in ProcRecord :
           /\ f.state = "SLEEPING" /\ f.chan = k /\ f.parent = rproc[p].parent /\ f.killed = rproc[p].killed
           /\ Asleep(p, k) = [rproc EXCEPT ![p] = f]
<1>1. rproc[p] \in ProcRecord /\ rproc \in [RrProc -> ProcRecord]
  BY Threads DEF RrInv, RrTypeOK
<1>2. PICK g \in ProcRecord : g = [rproc[p] EXCEPT !.state = "SLEEPING"]
  BY <1>1, ProcGoes DEF States
<1>3. g.state = "SLEEPING" /\ g.parent = rproc[p].parent /\ g.killed = rproc[p].killed
  BY <1>1, <1>2 DEF ProcRecord
<1>4. PICK f \in ProcRecord : f = [g EXCEPT !.chan = k]
  BY <1>2, ProcGoes
<1>5. f.state = "SLEEPING" /\ f.chan = k /\ f.parent = rproc[p].parent /\ f.killed = rproc[p].killed
  BY <1>3, <1>4, ProcGoes
<1>6. Asleep(p, k) = [rproc EXCEPT ![p] = f]
  <2>1. PICK mid : mid = [rproc EXCEPT ![p] = g]
    OBVIOUS
  <2>2. mid = [rproc EXCEPT ![p].state = "SLEEPING"]
    BY <1>2, <2>1
  <2>3. mid \in [RrProc -> ProcRecord] /\ mid[p] = g
    BY <1>1, <1>2, <2>1
  <2>4. Asleep(p, k) = [mid EXCEPT ![p].chan = k]
    BY <2>2 DEF Asleep
  <2>5. Asleep(p, k) = [mid EXCEPT ![p] = f]
    BY <1>4, <2>3, <2>4
  <2> QED
    BY <1>1, <2>1, <2>5
<1> QED
  BY <1>5, <1>6

LEMMA SleepKeeps ==
  ASSUME RrInv, NEW c \in RrCpu, NEW pc, RrAt(c, pc), NEW at, NEW p, p = rcpu[c].proc, NEW k,
         \/ pc = "sleep" /\ at = Place("slept") /\ k = RrTicks
         \/ /\ pc = "waitscan" /\ at = Place("waitscan") /\ k = p
            /\ {q \in RrChildren(p) : rproc[q].state = "ZOMBIE"} = {} /\ RrChildren(p) # {} /\ ~rproc[p].killed,
         Sched(c, Asleep(p, k), at), UNCHANGED <<rlock, rleft>>
  PROVE  RrInv'
<1>1. /\ On(c) \in RrProc /\ p = On(c) /\ rproc[p].state = "RUNNING"
      /\ rthread[p].at = Place(pc) /\ rthread[p].irq = NotThere
  BY InKernel
<1>2. k \in {RrTicks} \cup 0 .. RrProcs
  BY <1>1, RrAssumption DEF RrProc
<1>3. PICK f \in ProcRecord :
        /\ f.state = "SLEEPING" /\ f.chan = k /\ f.parent = rproc[p].parent /\ f.killed = rproc[p].killed
        /\ Asleep(p, k) = [rproc EXCEPT ![p] = f]
  BY <1>1, <1>2, AsleepIs
<1>4. PICK procs : procs = Asleep(p, k)
  OBVIOUS
<1>5. procs \in [RrProc -> ProcRecord] /\ \A q \in RrProc : procs[q] = IF q = p THEN f ELSE rproc[q]
  BY <1>1, <1>3, <1>4 DEF RrInv, RrTypeOK
<1>6. PICK r \in ThreadRecord : r = rthread[p]
  BY <1>1, Threads
<1>7. r.at = Place(pc) /\ r.at \in SchedAts /\ at \in AllAts
  BY <1>1, <1>6 DEF SchedAts, AllAts, InsideAts
<1>8. \/ /\ procs[p].state = "SLEEPING" /\ r.at = Place("waitscan") /\ at = Place("waitscan")
         /\ procs[p].chan = p /\ ~procs[p].killed
         /\ \E q \in RrProc : procs[q].parent = p
         /\ \A q \in RrProc : procs[q].parent = p => procs[q].state # "ZOMBIE"
      \/ /\ procs[p].state = "SLEEPING" /\ r.at = Place("sleep") /\ at = Place("slept")
         /\ procs[p].chan = RrTicks
  <2>1. CASE pc = "sleep"
    BY <1>1, <1>3, <1>5, <1>7, <2>1
  <2>2. CASE pc = "waitscan"
    <3>1. k = p /\ at = Place("waitscan") /\ ~rproc[p].killed
      BY <2>2
    <3>2. /\ \E q \in RrProc : rproc[q].parent = p
          /\ \A q \in RrProc : rproc[q].parent = p => rproc[q].state # "ZOMBIE"
      BY <2>2 DEF RrChildren
    <3>3. \A q \in RrProc : procs[q].parent = rproc[q].parent /\ (procs[q].state = "ZOMBIE" => rproc[q].state = "ZOMBIE")
      BY <1>3, <1>5
    <3> QED
      BY <1>1, <1>3, <1>5, <1>7, <2>2, <3>1, <3>2, <3>3
  <2> QED
    BY <2>1, <2>2
<1>9. /\ \A q \in RrProc : q # p => procs[q] = rproc[q]
      /\ \A q \in RrProc : procs[q].parent = rproc[q].parent
      /\ procs[p].state = "SLEEPING"
  BY <1>1, <1>3, <1>5
<1>10. \A s, q \in RrProc : s # p /\ procs[s].state = "SLEEPING" /\ procs[s].chan = s =>
         /\ rproc[q].parent = s /\ rproc[q].state # "ZOMBIE" => procs[q].parent = s
         /\ procs[q].parent = s /\ procs[q].state = "ZOMBIE" => rproc[q].parent = s /\ rproc[q].state = "ZOMBIE"
  BY <1>9
<1>11. procs[RrInit].parent = 0 /\ \A q \in RrProc : procs[q].parent # q
  <2>1. RrInit \in RrProc
    BY RrAssumption DEF RrProc, RrInit
  <2> QED
    BY <1>9, <2>1 DEF RrInv, TreeInv
<1>12. Sched(c, procs, at)
  BY <1>4
<1>13. SchedTable(c, p, at, r, procs)
  BY <1>1, <1>5, <1>6, <1>7, <1>8, <1>9, <1>10, <1>11, <1>12 DEF SchedTable
<1> QED
  BY <1>1, <1>6, <1>7, <1>13, SchedKeeps

LEMMA RrSleepsInv == ASSUME RrInv, NEW c \in RrCpu, RrSleeps(c) PROVE RrInv'
<1>1. PICK p : p = rcpu[c].proc
  OBVIOUS
<1>2. PICK at, k : at = Place("slept") /\ k = RrTicks
  OBVIOUS
<1>3. RrAt(c, "sleep") /\ Sched(c, Asleep(p, k), at) /\ UNCHANGED <<rlock, rleft>>
  BY <1>1, <1>2 DEF RrSleeps
<1> QED
  BY <1>1, <1>2, <1>3, SleepKeeps

LEMMA WaitScanInv == ASSUME RrInv, NEW c \in RrCpu, WaitScan(c) PROVE RrInv'
<1>1. PICK p : p = rcpu[c].proc
  OBVIOUS
<1>2. PICK zombies : zombies = {q \in RrChildren(p) : rproc[q].state = "ZOMBIE"}
  OBVIOUS
<1>3. RrAt(c, "waitscan") /\ UNCHANGED <<rlock, rleft>>
  BY DEF WaitScan
<1>4. \/ /\ zombies # {}
         /\ rproc' = [[rproc EXCEPT ![p].chan = NoChan] EXCEPT
              ![Min(zombies)] = [state |-> "UNUSED", parent |-> 0, chan |-> @.chan, killed |-> FALSE, pid |-> FALSE]]
         /\ RrGo(c, Release("ptable", Place("ret"))) /\ UNCHANGED <<rcpu, rpanic>>
      \/ /\ zombies = {} /\ rproc' = [rproc EXCEPT ![p].chan = NoChan]
         /\ RrGo(c, Release("ptable", Place("ret"))) /\ UNCHANGED <<rcpu, rpanic>>
      \/ /\ zombies = {} /\ RrChildren(p) # {} /\ ~rproc[p].killed
         /\ Sched(c, Asleep(p, p), Place("waitscan"))
  BY <1>1, <1>2 DEF WaitScan
<1>5. CASE zombies # {}
  <2>1. zombies \in SUBSET RrProc
    BY <1>2 DEF RrChildren
  <2>2. Min(zombies) \in zombies
    BY <1>5, <2>1, MinIn
  <2>3. PICK z : z = Min(zombies)
    OBVIOUS
  <2>4. z \in RrChildren(p) /\ rproc[z].state = "ZOMBIE"
    BY <1>2, <2>2, <2>3
  <2>5. /\ rproc' = [[rproc EXCEPT ![p].chan = NoChan] EXCEPT
              ![z] = [state |-> "UNUSED", parent |-> 0, chan |-> @.chan, killed |-> FALSE, pid |-> FALSE]]
        /\ RrGo(c, Release("ptable", Place("ret"))) /\ UNCHANGED <<rcpu, rlock, rleft, rpanic>>
    BY <1>3, <1>4, <1>5, <2>3
  <2> QED
    BY <1>1, <1>3, <2>4, <2>5, WaitReapInv
<1>6. CASE zombies = {} /\ rproc' = [rproc EXCEPT ![p].chan = NoChan]
           /\ RrGo(c, Release("ptable", Place("ret"))) /\ UNCHANGED <<rcpu, rpanic>>
  BY <1>1, <1>2, <1>3, <1>6, WaitDoneInv
<1>7. CASE zombies = {} /\ RrChildren(p) # {} /\ ~rproc[p].killed /\ Sched(c, Asleep(p, p), Place("waitscan"))
  <2>1. PICK at, k : at = Place("waitscan") /\ k = p
    OBVIOUS
  <2>2. Sched(c, Asleep(p, k), at)
    BY <1>7, <2>1
  <2> QED
    BY <1>1, <1>2, <1>3, <1>7, <2>1, <2>2, SleepKeeps
<1> QED
  BY <1>4, <1>5, <1>6, <1>7

LEMMA YieldInv == ASSUME RrInv, NEW c \in RrCpu, rcpu[c].proc # 0, Yield(c) PROVE RrInv'
<1>1. PICK p : p = rcpu[c].proc
  OBVIOUS
<1>2. p \in RrProc /\ p = On(c) /\ rproc[p].state = "RUNNING"
  <2>1. On(c) \in RrProc /\ On(c) = rcpu[c].proc
    BY Threads
  <2> QED
    BY <1>1, <2>1, OnRuns
<1>3. RrAt(c, "yield") /\ UNCHANGED <<rlock, rleft>>
  BY DEF Yield
<1>4. PICK r \in ThreadRecord, u \in CpuRecord, hp \in BOOLEAN, ht \in BOOLEAN :
        /\ r = rthread[On(c)] /\ u = rcpu[c] /\ r.at = Place("yield")
        /\ hp = (rlock.ptable = c) /\ ht = (rlock.tickslock = c) /\ Fits(r, u, hp, ht)
  BY <1>3, At
<1>5. r = rthread[p] /\ r.at = Place("yield") /\ r.at \in SchedAts
  BY <1>2, <1>4 DEF SchedAts
<1>6. rproc[p] \in ProcRecord /\ rproc \in [RrProc -> ProcRecord]
  BY <1>2, Threads DEF RrInv, RrTypeOK
<1>7. PICK f \in ProcRecord : f = [rproc[p] EXCEPT !.state = "RUNNABLE"]
  BY <1>6, ProcGoes DEF States
<1>8. /\ f.state = "RUNNABLE" /\ f.parent = rproc[p].parent
  BY <1>6, <1>7 DEF ProcRecord
<1>9. PICK procs, at : procs = [rproc EXCEPT ![p] = f] /\ at = Release("ptable", Place("yielded"))
  OBVIOUS
<1>10. procs \in [RrProc -> ProcRecord] /\ \A q \in RrProc : procs[q] = IF q = p THEN f ELSE rproc[q]
  BY <1>2, <1>6, <1>9
<1>11. Sched(c, procs, at) /\ at \in AllAts
  BY <1>1, <1>7, <1>9 DEF Yield, AllAts, YieldAts
<1>12. /\ \A q \in RrProc : q # p => procs[q] = rproc[q]
       /\ \A q \in RrProc : procs[q].parent = rproc[q].parent
       /\ procs[p].state = "RUNNABLE"
  BY <1>2, <1>8, <1>10
<1>13. \A s, q \in RrProc : s # p /\ procs[s].state = "SLEEPING" /\ procs[s].chan = s =>
         /\ rproc[q].parent = s /\ rproc[q].state # "ZOMBIE" => procs[q].parent = s
         /\ procs[q].parent = s /\ procs[q].state = "ZOMBIE" => rproc[q].parent = s /\ rproc[q].state = "ZOMBIE"
  BY <1>12
<1>14. procs[RrInit].parent = 0 /\ \A q \in RrProc : procs[q].parent # q
  <2>1. RrInit \in RrProc
    BY RrAssumption DEF RrProc, RrInit
  <2> QED
    BY <1>12, <2>1 DEF RrInv, TreeInv
<1>15. SchedTable(c, p, at, r, procs)
  BY <1>1, <1>2, <1>3, <1>5, <1>9, <1>10, <1>11, <1>12, <1>13, <1>14 DEF SchedTable
<1> QED
  BY <1>2, <1>11, <1>15, SchedKeeps

(* exit(): the table it leaves.                                            *)
LEMMA WokeIs ==
  ASSUME NEW t \in [RrProc -> ProcRecord], NEW k, NEW w, w = Woke(t, k)
  PROVE  /\ w \in [RrProc -> ProcRecord]
         /\ \A q \in RrProc :
              /\ w[q].parent = t[q].parent /\ w[q].chan = t[q].chan /\ w[q].killed = t[q].killed
              /\ IF t[q].state = "SLEEPING" /\ t[q].chan = k THEN w[q].state = "RUNNABLE" ELSE w[q].state = t[q].state
<1>1. ASSUME NEW q \in RrProc
      PROVE  /\ w[q] \in ProcRecord
             /\ w[q].parent = t[q].parent /\ w[q].chan = t[q].chan /\ w[q].killed = t[q].killed
             /\ IF t[q].state = "SLEEPING" /\ t[q].chan = k THEN w[q].state = "RUNNABLE" ELSE w[q].state = t[q].state
  <2>1. PICK s \in ProcRecord : s = t[q]
    OBVIOUS
  <2>2. PICK g \in ProcRecord : g = [s EXCEPT !.state = "RUNNABLE"]
    BY ProcGoes DEF States
  <2>3. g.parent = s.parent /\ g.chan = s.chan /\ g.killed = s.killed /\ g.state = "RUNNABLE"
    BY <2>2 DEF ProcRecord
  <2>4. w[q] = IF s.state = "SLEEPING" /\ s.chan = k THEN g ELSE s
    BY <2>1, <2>2 DEF Woke
  <2> QED
    BY <2>1, <2>3, <2>4
<1>2. w = [q \in RrProc |-> w[q]]
  BY DEF Woke
<1> QED
  BY <1>1, <1>2

LEMMA ExitedIs ==
  ASSUME RrInv, NEW p \in RrProc, NEW x, x = Exited(p)
  PROVE  /\ x \in [RrProc -> ProcRecord]
         /\ \A q \in RrProc :
              /\ x[q].chan = rproc[q].chan /\ x[q].killed = rproc[q].killed
              /\ x[q].parent = IF rproc[q].parent = p THEN RrInit ELSE rproc[q].parent
              /\ x[q].state = rproc[q].state \/ (x[q].state = "RUNNABLE" /\ rproc[q].state = "SLEEPING")
              /\ rproc[q].state = "SLEEPING" /\ rproc[q].chan = rproc[p].parent => x[q].state = "RUNNABLE"
              /\ rproc[q].state = "SLEEPING" /\ rproc[q].chan = RrInit
                   /\ (\E z \in RrProc : rproc[z].parent = p /\ rproc[z].state = "ZOMBIE") => x[q].state = "RUNNABLE"
<1>1. rproc \in [RrProc -> ProcRecord] /\ RrInit \in 0 .. RrProcs
  BY RrAssumption DEF RrInv, RrTypeOK, RrInit
<1>2. PICK k : k = rproc[p].parent
  OBVIOUS
<1>3. PICK woke : woke = Woke(rproc, k)
  OBVIOUS
<1>4. /\ woke \in [RrProc -> ProcRecord]
      /\ \A q \in RrProc :
           /\ woke[q].parent = rproc[q].parent /\ woke[q].chan = rproc[q].chan /\ woke[q].killed = rproc[q].killed
           /\ IF rproc[q].state = "SLEEPING" /\ rproc[q].chan = k
              THEN woke[q].state = "RUNNABLE" ELSE woke[q].state = rproc[q].state
  BY <1>1, <1>3, WokeIs
<1>5. PICK more : more = Woke(woke, RrInit)
  OBVIOUS
<1>6. /\ more \in [RrProc -> ProcRecord]
      /\ \A q \in RrProc :
           /\ more[q].parent = woke[q].parent /\ more[q].chan = woke[q].chan /\ more[q].killed = woke[q].killed
           /\ IF woke[q].state = "SLEEPING" /\ woke[q].chan = RrInit
              THEN more[q].state = "RUNNABLE" ELSE more[q].state = woke[q].state
  BY <1>4, <1>5, WokeIs
<1>7. PICK z \in BOOLEAN : z <=> \E q \in RrChildren(p) : rproc[q].state = "ZOMBIE"
  OBVIOUS
<1>8. z <=> \E q \in RrProc : rproc[q].parent = p /\ rproc[q].state = "ZOMBIE"
  BY <1>7 DEF RrChildren
<1>9. PICK all : all = IF z THEN more ELSE woke
  OBVIOUS
<1>10. x = [q \in RrProc |-> IF q \in RrChildren(p) THEN [all[q] EXCEPT !.parent = RrInit] ELSE all[q]]
  BY <1>2, <1>3, <1>5, <1>7, <1>9 DEF Exited
<1>11. /\ all \in [RrProc -> ProcRecord]
       /\ \A q \in RrProc :
            /\ all[q].parent = rproc[q].parent /\ all[q].chan = rproc[q].chan /\ all[q].killed = rproc[q].killed
            /\ all[q].state = rproc[q].state \/ (all[q].state = "RUNNABLE" /\ rproc[q].state = "SLEEPING")
            /\ rproc[q].state = "SLEEPING" /\ rproc[q].chan = k => all[q].state = "RUNNABLE"
            /\ rproc[q].state = "SLEEPING" /\ rproc[q].chan = RrInit /\ z => all[q].state = "RUNNABLE"
  <2>1. CASE z
    BY <1>4, <1>6, <1>9, <2>1
  <2>2. CASE ~z
    BY <1>4, <1>9, <2>2
  <2> QED
    BY <2>1, <2>2
<1>12. ASSUME NEW q \in RrProc
       PROVE  /\ x[q] \in ProcRecord
              /\ x[q].chan = all[q].chan /\ x[q].killed = all[q].killed /\ x[q].state = all[q].state
              /\ x[q].parent = IF rproc[q].parent = p THEN RrInit ELSE rproc[q].parent
  <2>1. PICK s \in ProcRecord : s = all[q]
    BY <1>11
  <2>2. PICK g \in ProcRecord : g = [s EXCEPT !.parent = RrInit]
    BY <1>1, ProcGoes
  <2>3. g.parent = RrInit /\ g.chan = s.chan /\ g.killed = s.killed /\ g.state = s.state
    BY <1>1, <2>2 DEF ProcRecord
  <2>4. x[q] = IF rproc[q].parent = p THEN g ELSE s
    BY <1>10, <2>1, <2>2 DEF RrChildren
  <2>5. s.parent = rproc[q].parent
    BY <1>11, <2>1
  <2> QED
    BY <2>1, <2>3, <2>4, <2>5
<1>13. x = [q \in RrProc |-> x[q]]
  BY <1>10
<1>14. x \in [RrProc -> ProcRecord]
  BY <1>12, <1>13
<1>15. ASSUME NEW q \in RrProc
       PROVE  /\ x[q].chan = rproc[q].chan /\ x[q].killed = rproc[q].killed
              /\ x[q].state = rproc[q].state \/ (x[q].state = "RUNNABLE" /\ rproc[q].state = "SLEEPING")
              /\ rproc[q].state = "SLEEPING" /\ rproc[q].chan = rproc[p].parent => x[q].state = "RUNNABLE"
              /\ rproc[q].state = "SLEEPING" /\ rproc[q].chan = RrInit
                   /\ (\E n \in RrProc : rproc[n].parent = p /\ rproc[n].state = "ZOMBIE") => x[q].state = "RUNNABLE"
  BY <1>2, <1>8, <1>11, <1>12
<1> QED
  BY <1>12, <1>14, <1>15

LEMMA RrExitInv == ASSUME RrInv, NEW c \in RrCpu, rcpu[c].proc # 0, RrExit(c) PROVE RrInv'
<1>1. PICK p : p = rcpu[c].proc
  OBVIOUS
<1>2. p \in RrProc /\ p = On(c) /\ rproc[p].state = "RUNNING" /\ p # 0
  <2>1. On(c) \in RrProc /\ On(c) = rcpu[c].proc
    BY Threads
  <2> QED
    BY <1>1, <2>1, OnRuns
<1>3. RrAt(c, "exit") /\ UNCHANGED <<rlock, rleft>>
  BY DEF RrExit
<1>4. PICK r \in ThreadRecord, u \in CpuRecord, hp \in BOOLEAN, ht \in BOOLEAN :
        /\ r = rthread[On(c)] /\ u = rcpu[c] /\ r.at = Place("exit")
        /\ hp = (rlock.ptable = c) /\ ht = (rlock.tickslock = c) /\ Fits(r, u, hp, ht)
  BY <1>3, At
<1>5. r = rthread[p] /\ r.at \in SchedAts
  BY <1>2, <1>4 DEF SchedAts
<1>6. PICK x : x = Exited(p)
  OBVIOUS
<1>7. /\ x \in [RrProc -> ProcRecord]
      /\ \A q \in RrProc :
           /\ x[q].chan = rproc[q].chan /\ x[q].killed = rproc[q].killed
           /\ x[q].parent = IF rproc[q].parent = p THEN RrInit ELSE rproc[q].parent
           /\ x[q].state = rproc[q].state \/ (x[q].state = "RUNNABLE" /\ rproc[q].state = "SLEEPING")
           /\ rproc[q].state = "SLEEPING" /\ rproc[q].chan = rproc[p].parent => x[q].state = "RUNNABLE"
           /\ rproc[q].state = "SLEEPING" /\ rproc[q].chan = RrInit
                /\ (\E z \in RrProc : rproc[z].parent = p /\ rproc[z].state = "ZOMBIE") => x[q].state = "RUNNABLE"
  BY <1>2, <1>6, ExitedIs
<1>8. PICK f \in ProcRecord : f = [x[p] EXCEPT !.state = "ZOMBIE"]
  BY ZenonT(60), <1>2, <1>7, ProcGoes DEF States
<1>9. f.state = "ZOMBIE" /\ f.parent = x[p].parent
  <2>1. x[p] \in ProcRecord
    BY <1>2, <1>7
  <2> QED
    BY <1>8, <2>1 DEF ProcRecord
<1>10. PICK procs, at : procs = [x EXCEPT ![p] = f] /\ at = Place("zombie")
  OBVIOUS
<1>11. procs \in [RrProc -> ProcRecord] /\ \A q \in RrProc : procs[q] = IF q = p THEN f ELSE x[q]
  BY <1>2, <1>7, <1>10
<1>12. Sched(c, procs, at) /\ at \in AllAts
  <2>1. procs = [Exited(p) EXCEPT ![p].state = "ZOMBIE"]
    BY <1>6, <1>8, <1>10
  <2> QED
    BY <1>1, <1>10, <2>1 DEF RrExit, AllAts
<1>13. /\ \A q \in RrProc : q # p => procs[q] = x[q]
       /\ \A q \in RrProc : procs[q].parent = IF rproc[q].parent = p THEN RrInit ELSE rproc[q].parent
       /\ procs[p].state = "ZOMBIE"
  BY <1>2, <1>7, <1>9, <1>11
<1>14. RrInit \in RrProc /\ rproc[RrInit].parent = 0 /\ \A q \in RrProc : rproc[q].parent # q
  BY RrAssumption DEF RrProc, RrInit, RrInv, TreeInv
<1>15. /\ \A q \in RrProc : q # p =>
            \/ procs[q].state = rproc[q].state
            \/ procs[q].state = "RUNNABLE" /\ rproc[q].state = "SLEEPING"
       /\ \A q \in RrProc : q # p => procs[q].chan = rproc[q].chan /\ procs[q].killed = rproc[q].killed
       /\ \A q \in RrProc : \/ procs[q].parent = rproc[q].parent
                            \/ procs[p].state = "ZOMBIE" /\ rproc[q].parent = p
  BY <1>7, <1>13
<1>16. ASSUME NEW s \in RrProc, NEW q \in RrProc, s # p, procs[s].state = "SLEEPING", procs[s].chan = s
       PROVE  /\ rproc[q].parent = s /\ rproc[q].state # "ZOMBIE" => procs[q].parent = s
              /\ procs[q].parent = s /\ procs[q].state = "ZOMBIE" => rproc[q].parent = s /\ rproc[q].state = "ZOMBIE"
  <2>1. rproc[s].state = "SLEEPING" /\ rproc[s].chan = s /\ x[s].state = "SLEEPING"
    BY <1>13, <1>15, <1>16
  <2>2. rproc[p].parent # s
    BY <1>7, <2>1
  <2>3. s = RrInit => ~\E z \in RrProc : rproc[z].parent = p /\ rproc[z].state = "ZOMBIE"
    BY <1>7, <2>1
  <2>4. rproc[q].parent = s => procs[q].parent = s
    BY <1>13, <1>16
  <2>5. ASSUME procs[q].parent = s, procs[q].state = "ZOMBIE"
        PROVE  rproc[q].parent = s /\ rproc[q].state = "ZOMBIE"
    <3>1. CASE rproc[q].parent = p
      <4>1. s = RrInit /\ q # p
        BY <1>13, <1>14, <2>5, <3>1
      <4>2. rproc[q].state = "ZOMBIE"
        BY <1>15, <2>5, <4>1
      <4> QED
        BY <2>3, <3>1, <4>1, <4>2
    <3>2. CASE rproc[q].parent # p
      <4>1. rproc[q].parent = s
        BY <1>13, <2>5, <3>2
      <4>2. q # p
        BY <2>2, <4>1
      <4> QED
        BY <1>15, <2>5, <4>1, <4>2
    <3> QED
      BY <3>1, <3>2
  <2> QED
    BY <2>4, <2>5
<1>17. procs[RrInit].parent = 0
  BY <1>2, <1>13, <1>14
<1>18. \A q \in RrProc : procs[q].parent # q
  BY <1>2, <1>13, <1>14
<1>19. SchedTable(c, p, at, r, procs)
  <2>1. \A s, q \in RrProc : s # p /\ procs[s].state = "SLEEPING" /\ procs[s].chan = s =>
          /\ rproc[q].parent = s /\ rproc[q].state # "ZOMBIE" => procs[q].parent = s
          /\ procs[q].parent = s /\ procs[q].state = "ZOMBIE" => rproc[q].parent = s /\ rproc[q].state = "ZOMBIE"
    BY <1>16
  <2>2. procs[p].state = "ZOMBIE" /\ at = Place("zombie")
    BY <1>10, <1>13
  <2> QED
    BY <1>1, <1>2, <1>3, <1>5, <1>11, <1>12, <1>15, <1>17, <1>18, <2>1, <2>2 DEF SchedTable
<1> QED
  BY <1>2, <1>12, <1>19, SchedKeeps

-----------------------------------------------------------------------------
(* scheduler() runs a process.                                             *)

LEMMA RunFits ==
  ASSUME NEW w \in ProcRecord, NEW s \in ThreadRecord, Left(w, s), w.state = "RUNNABLE",
         NEW v \in CpuRecord, v.proc # 0, v.ncli = 1, ~v.iflag,
         s.at.pc # "forkret" => v.intena = s.intena
  PROVE  Fits(s, v, TRUE, FALSE) /\ s.at \notin GoesToSleep \cup {Place("sleep")}
<1>1. s.at \in {Place("forkret"), Release("ptable", Place("yielded")), Place("waitscan"), Place("slept")}
  BY DEF Left
<1>2. s.at \in PtableAts /\ s.at \notin TicksAts
  <2>1. s.at \in PtableAts
    BY <1>1 DEF PtableAts
  <2>2. s.at \notin TicksAts
    BY <1>1 DEF TicksAts, Place, Acquire, Release, SleepNow
  <2> QED
    BY <2>1, <2>2
<1>3. Locks(s, v, TRUE, FALSE)
  BY <1>2 DEF Locks
<1>4. s.at = Place("forkret") <=> s.at.pc = "forkret"
  BY <1>1 DEF Place, Release
<1>5. s.irq # NotThere => s.at # Place("forkret")
  BY DEF Left, ProcessPlace, TickAts, YieldAts, ExitAts, Place, Acquire, Release
<1>6. s.irq # NotThere => ~v.intena
  BY <1>4, <1>5 DEF Left
<1>7. s.irq = NotThere /\ s.at # Place("forkret") => v.intena
  BY <1>4 DEF Left
<1>8. Interrupts(s, v)
  BY <1>6, <1>7 DEF Interrupts
<1>9. s.at \notin GoesToSleep \cup {Place("sleep")}
  BY <1>1 DEF GoesToSleep, Place, Acquire, Release, SleepNow
<1>10. ProcessPlace(s)
  BY DEF Left
<1> QED
  BY <1>3, <1>8, <1>9, <1>10 DEF Fits

LEMMA SchedulerRunsInv == ASSUME RrInv, NEW c \in RrCpu, rcpu[c].proc = 0, SchedulerRuns(c) PROVE RrInv'
<1>1. PICK next : next = RunnableFrom(rthread[0 - c].arg)
  OBVIOUS
<1>2. PICK p : p = Min(next)
  OBVIOUS
<1>3. /\ RrAt(c, "scan") /\ next # {} /\ UNCHANGED <<rlock, rleft, rpanic>>
      /\ rproc' = [rproc EXCEPT ![p].state = "RUNNING"]
      /\ rcpu' = [rcpu EXCEPT ![c].proc = p, ![c].intena = IntenaOf(c, p)]
      /\ rthread' = [rthread EXCEPT ![0 - c].arg = p + 1]
  BY <1>1, <1>2 DEF SchedulerRuns
<1>4. p \in RrProc /\ rproc[p].state = "RUNNABLE"
  <2>1. next \in SUBSET RrProc
    BY <1>1 DEF RunnableFrom
  <2>2. p \in next
    BY <1>2, <1>3, <2>1, MinIn
  <2> QED
    BY <1>1, <2>2 DEF RunnableFrom
<1>5. PICK r \in ThreadRecord, u \in CpuRecord, hp \in BOOLEAN, ht \in BOOLEAN :
        /\ r = rthread[On(c)] /\ u = rcpu[c] /\ r.at = Place("scan")
        /\ hp = (rlock.ptable = c) /\ ht = (rlock.tickslock = c) /\ Fits(r, u, hp, ht)
  BY <1>3, At
<1>6. PICK o \in RrThread : o = 0 - c
  BY Threads
<1>7. On(c) = o /\ r = rthread[o] /\ o \notin RrProc /\ u.proc = 0
  BY <1>5, <1>6, Threads
<1>8. hp /\ ~ht /\ u.ncli = 1 /\ ~u.iflag /\ r.irq = NotThere
  <2>1. r.at \in PtableAts
    BY <1>5 DEF PtableAts
  <2>2. r.at \notin TicksAts
    BY <1>5 DEF TicksAts, Place, Acquire, Release, SleepNow
  <2>3. hp /\ ~ht /\ u.ncli = 1 /\ ~u.iflag
    BY <1>5, <2>1, <2>2 DEF Fits, Locks, Interrupts
  <2>4. r.at \notin TickAts
    BY <1>5 DEF TickAts, Place, Acquire, Release
  <2> QED
    BY <1>5, <1>7, <2>3, <2>4 DEF Fits, SchedulerPlace
<1>9. PICK w \in ProcRecord, s \in ThreadRecord : w = rproc[p] /\ s = rthread[p]
  BY <1>4, Threads
<1>10. Left(w, s) /\ w.state = "RUNNABLE"
  BY <1>4, <1>9 DEF RrInv, LeftInv
<1>t. rproc \in [RrProc -> ProcRecord] /\ rthread \in [RrThread -> ThreadRecord] /\ rcpu \in [RrCpu -> CpuRecord]
  BY DEF RrInv, RrTypeOK
<1>11. PICK f \in ProcRecord : f = [w EXCEPT !.state = "RUNNING"]
  BY ProcGoes DEF States
<1>12. f.state = "RUNNING" /\ f.parent = w.parent
  BY <1>11 DEF ProcRecord
<1>13. rproc' \in [RrProc -> ProcRecord] /\ \A q \in RrProc : rproc'[q] = IF q = p THEN f ELSE rproc[q]
  <2>1. rproc' = [rproc EXCEPT ![p] = f]
    BY <1>3, <1>9, <1>11
  <2> QED
    BY <1>4, <1>t, <2>1
<1>14. PICK i : i = IntenaOf(c, p)
  OBVIOUS
<1>15. i \in BOOLEAN /\ (s.at.pc # "forkret" => i = s.intena)
  <2>1. i = IF s.at.pc = "forkret" THEN u.intena ELSE s.intena
    BY <1>5, <1>9, <1>14 DEF IntenaOf
  <2>2. u.intena \in BOOLEAN /\ s.intena \in BOOLEAN
    BY DEF CpuRecord, ThreadRecord
  <2> QED
    BY <2>1, <2>2
<1>16. PICK v : v = [u EXCEPT !.proc = p, !.intena = i]
  OBVIOUS
<1>17. v \in CpuRecord /\ v.proc = p /\ v.intena = i /\ v.ncli = u.ncli /\ v.iflag = u.iflag
  <2>1. p \in 0 .. RrProcs
    BY <1>4 DEF RrProc
  <2> QED
    BY <1>15, <1>16, <2>1 DEF CpuRecord
<1>18. rcpu' \in [RrCpu -> CpuRecord] /\ \A d \in RrCpu : rcpu'[d] = IF d = c THEN v ELSE rcpu[d]
  <2>1. PICK mid : mid = [rcpu EXCEPT ![c].proc = p]
    OBVIOUS
  <2>2. PICK m : m = [u EXCEPT !.proc = p]
    OBVIOUS
  <2>3. mid = [rcpu EXCEPT ![c] = m]
    BY <1>5, <2>1, <2>2
  <2>4. mid[c] = m
    BY <1>t, <2>3
  <2>5. rcpu' = [mid EXCEPT ![c].intena = i]
    BY <1>3, <1>14, <2>1
  <2>6. rcpu' = [mid EXCEPT ![c] = v]
    <3>1. v = [m EXCEPT !.intena = i]
      BY <1>16, <2>2 DEF CpuRecord
    <3> QED
      BY <2>4, <2>5, <3>1
  <2>7. rcpu' = [rcpu EXCEPT ![c] = v]
    BY <1>t, <2>3, <2>6
  <2> QED
    BY <1>t, <1>17, <2>7
<1>19. PICK e : e = [r EXCEPT !.arg = p + 1]
  OBVIOUS
<1>20. e \in ThreadRecord /\ e.at = r.at /\ e.irq = r.irq
  <2>1. p + 1 \in 1 .. RrProcs + 1
    BY <1>4, RrAssumption DEF RrProc
  <2> QED
    BY <1>19, <2>1 DEF ThreadRecord
<1>21. rthread' \in [RrThread -> ThreadRecord] /\ \A x \in RrThread : rthread'[x] = IF x = o THEN e ELSE rthread[x]
  <2>1. rthread' = [rthread EXCEPT ![o] = e]
    BY <1>3, <1>6, <1>7, <1>19
  <2> QED
    BY <1>t, <1>20, <2>1
<1>22. \A q \in RrProc : q \in RrThread /\ q # o /\ q # 0 /\ rthread'[q] = rthread[q]
  BY <1>7, <1>21 DEF RrThread, RrProc
<1>23. On(c)' = p /\ \A d \in RrCpu \ {c} : On(d)' = On(d) /\ On(d) # o /\ On(d) \in RrThread /\ rcpu'[d] = rcpu[d]
  <2>1. On(c)' = p
    BY <1>17, <1>18, <1>22, <1>4 DEF On
  <2>2. \A d \in RrCpu \ {c} : On(d)' = On(d) /\ rcpu'[d] = rcpu[d]
    BY <1>18 DEF On
  <2>3. \A d \in RrCpu \ {c} : On(d) # o /\ On(d) \in RrThread
    BY <1>7, Threads
  <2> QED
    BY <2>1, <2>2, <2>3
<1>24. RrTypeOK'
  <2>1. \A q \in RrProc : rthread'[q].arg \in RrProc
    BY <1>22 DEF RrInv, RrTypeOK
  <2>2. rlock' \in [{"ptable", "tickslock"} -> 0 .. RrCpus] /\ rleft' \in [RrProc -> Nat]
    BY <1>3 DEF RrInv, RrTypeOK
  <2> QED
    BY <1>13, <1>18, <1>21, <2>1, <2>2 DEF RrTypeOK
<1>25. CpusInv'
  <2>1. Fits(rthread'[p], rcpu'[c], rlock'.ptable = c, rlock'.tickslock = c)
    <3>1. Fits(s, v, TRUE, FALSE)
      <4>1. v.proc # 0 /\ v.ncli = 1 /\ ~v.iflag
        BY <1>4, <1>8, <1>17, <1>22
      <4> QED
        BY <1>10, <1>15, <1>17, <4>1, RunFits
    <3>2. Fits(s, v, hp, ht)
      BY <1>8, <3>1
    <3>3. rthread'[p] = s /\ rcpu'[c] = v
      BY <1>4, <1>9, <1>18, <1>22
    <3> QED
      BY <1>3, <1>5, <3>2, <3>3
  <2>2. ASSUME NEW d \in RrCpu, d # c
        PROVE  Fits(rthread'[On(d)], rcpu'[d], rlock'.ptable = d, rlock'.tickslock = d)
    <3>1. rthread'[On(d)] = rthread[On(d)] /\ rcpu'[d] = rcpu[d]
      BY <1>21, <1>23, <2>2
    <3>2. Fits(rthread[On(d)], rcpu[d], rlock.ptable = d, rlock.tickslock = d)
      BY DEF RrInv, CpusInv
    <3> QED
      BY <1>3, <3>1, <3>2
  <2> QED
    BY <1>23, <2>1, <2>2 DEF CpusInv
<1>26. RunningInv'
  <2>1. \A d \in RrCpu : rcpu'[d].proc = IF d = c THEN p ELSE rcpu[d].proc
    BY <1>17, <1>18
  <2>2. /\ \A d, g \in RrCpu : rcpu[d].proc = rcpu[g].proc /\ rcpu[d].proc # 0 => d = g
        /\ \A q \in RrProc : rproc[q].state = "RUNNING" <=> \E d \in RrCpu : rcpu[d].proc = q
        /\ \A d \in RrCpu : rcpu[d].proc # 0 => rthread[0 - d].at = Place("scan") /\ rthread[0 - d].irq = NotThere
    BY DEF RrInv, RunningInv, RunsOnce
  <2>3. \A d \in RrCpu : rcpu[d].proc # p
    <3>1. rproc[p].state # "RUNNING"
      BY <1>4
    <3> QED
      BY <1>4, <2>2, <3>1
  <2>4. ASSUME NEW q \in RrProc
        PROVE  rproc'[q].state = "RUNNING" <=> \E d \in RrCpu : rcpu'[d].proc = q
    <3>1. CASE q = p
      BY <1>12, <1>13, <2>1, <3>1
    <3>2. CASE q # p
      <4>1. \A d \in RrCpu : rcpu'[d].proc = q <=> rcpu[d].proc = q
        BY <1>5, <1>7, <1>22, <2>1, <3>2
      <4> QED
        BY <1>13, <2>2, <3>2, <4>1
    <3> QED
      BY <3>1, <3>2
  <2>5. \A d, g \in RrCpu : rcpu'[d].proc = rcpu'[g].proc /\ rcpu'[d].proc # 0 => d = g
    BY <2>1, <2>2, <2>3
  <2>6. ASSUME NEW d \in RrCpu, rcpu'[d].proc # 0
        PROVE  rthread'[0 - d].at = Place("scan") /\ rthread'[0 - d].irq = NotThere
    <3>1. CASE d = c
      BY <1>5, <1>6, <1>8, <1>20, <1>21, <3>1
    <3>2. CASE d # c
      <4>1. 0 - d \in RrThread /\ 0 - d # o
        <5>1. d \in Int /\ c \in Int
          BY DEF RrCpu
        <5> QED
          BY <1>6, <3>2, <5>1, Threads
      <4>2. rcpu[d].proc # 0
        BY <2>1, <2>6, <3>2
      <4> QED
        BY <1>21, <2>2, <4>1, <4>2
    <3> QED
      BY <3>1, <3>2
  <2> QED
    BY <2>4, <2>5, <2>6 DEF RunningInv, RunsOnce
<1>27. \A q \in RrProc : q # p => rproc'[q] = rproc[q]
  BY <1>13
<1>28. rproc'[p].state = "RUNNING" /\ \A q \in RrProc : rproc'[q].parent = rproc[q].parent
  BY <1>4, <1>9, <1>12, <1>13
<1>29. LeftInv'
  <2> SUFFICES ASSUME NEW q \in RrProc, rproc'[q].state \in {"RUNNABLE", "SLEEPING"}
               PROVE  Left(rproc'[q], rthread'[q])
    BY DEF LeftInv
  <2>1. q # p
    BY <1>28
  <2> QED
    BY <1>22, <1>27, <2>1 DEF RrInv, LeftInv
<1>30. ForksInv'
  <2>1. \A q \in RrProc : Live(q)' => Live(q)
    BY <1>4, <1>27 DEF Live
  <2>2. \A q \in RrProc : Forks(q) =>
          /\ rproc'[rthread[q].arg].state = "EMBRYO"
          /\ rproc'[rthread[q].arg].parent = rproc[rthread[q].arg].parent
    <3> SUFFICES ASSUME NEW q \in RrProc, Forks(q)
                 PROVE  /\ rproc'[rthread[q].arg].state = "EMBRYO"
                        /\ rproc'[rthread[q].arg].parent = rproc[rthread[q].arg].parent
      OBVIOUS
    <3>1. rthread[q].arg \in RrProc /\ rproc[rthread[q].arg].state = "EMBRYO"
      BY DEF RrInv, ForksInv, RrTypeOK
    <3> QED
      BY <1>4, <1>27, <3>1
  <2>3. \A q \in RrProc : rproc'[q].state = "UNUSED" =>
          rproc'[q].parent = 0 \/ (rproc[q].state = "UNUSED" /\ rproc'[q].parent = rproc[q].parent)
    BY <1>27, <1>28
  <2> HIDE DEF Forks, Live
  <2> QED
    BY <1>7, <1>22, <1>24, <2>1, <2>2, <2>3, ForksStay
<1>31. ASSUME TickPending PROVE TickPending'
  <2>1. PICK d \in RrCpu : rthread[On(d)].at \in TickWaits
    BY <1>31 DEF TickPending
  <2>2. d # c
    <3>1. r.at \notin TickWaits
      BY <1>5 DEF TickWaits, Place, Acquire
    <3> QED
      BY <1>5, <2>1, <3>1
  <2>3. On(d)' = On(d) /\ rthread'[On(d)] = rthread[On(d)]
    BY <1>21, <1>23, <2>2
  <2> QED
    BY <2>1, <2>3 DEF TickPending
<1>32. SleepersInv'
  <2>1. \A q \in RrProc : rleft'[q] = rleft[q]
    BY <1>3
  <2>2. \A q \in RrProc : rproc'[q].state = "SLEEPING" => rproc'[q] = rproc[q]
    BY <1>27, <1>28
  <2>3. \A q \in RrProc : rproc'[q].state = "RUNNING" =>
          rproc[q].state = "RUNNING" \/ rthread'[q].at \notin GoesToSleep \cup {Place("sleep")}
    <3>1. s.at \notin GoesToSleep \cup {Place("sleep")}
      <4>1. v.proc # 0 /\ v.ncli = 1 /\ ~v.iflag
        BY <1>4, <1>8, <1>17, <1>22
      <4> QED
        BY <1>10, <1>15, <1>17, <4>1, RunFits
    <3>2. rthread'[p].at = s.at
      BY <1>4, <1>9, <1>22
    <3> QED
      BY <1>27, <3>1, <3>2
  <2>4. \A t, q \in RrProc : rproc'[t].state = "SLEEPING" /\ rproc'[t].chan = t =>
          /\ rproc[q].parent = t /\ rproc[q].state # "ZOMBIE" => rproc'[q].parent = t
          /\ rproc'[q].parent = t /\ rproc'[q].state = "ZOMBIE" => rproc[q].parent = t /\ rproc[q].state = "ZOMBIE"
    BY <1>27, <1>28
  <2> HIDE DEF Sleeper, TickPending
  <2> QED
    BY <1>7, <1>22, <1>24, <1>31, <2>1, <2>2, <2>3, <2>4, SleepersStay
<1>33. TreeInv'
  <2>1. RrInit \in RrProc
    BY RrAssumption DEF RrProc, RrInit
  <2> QED
    BY <1>27, <1>28, <2>1 DEF RrInv, TreeInv
<1>34. ~rpanic'
  BY <1>3 DEF RrInv
<1> QED
  BY <1>24, <1>25, <1>26, <1>29, <1>30, <1>32, <1>33, <1>34 DEF RrInv

-----------------------------------------------------------------------------
(* The invariant holds at first and is kept by every step.                 *)

LEMMA InitInv == ASSUME RoundRobinInit PROVE RrInv
<1>1. RrInit \in RrProc /\ 0 \notin RrProc /\ RrInit = 1 /\ 0 \in 0 .. RrProcs
  BY RrAssumption DEF RrProc, RrInit
<1>2. \A c \in RrCpu : 0 - c \in RrThread /\ 0 - c # RrInit /\ c # 0 /\ 0 - c \notin RrProc
  BY <1>1 DEF RrThread, RrCpu, RrProc
<1>3. \A p \in RrProc : p \in RrThread
  BY DEF RrThread
<1>4. PICK none, sti, forkret : none = Place("none") /\ sti = Place("sti") /\ forkret = Place("forkret")
  OBVIOUS
<1>5. /\ none = NotThere /\ sti \in AllAts /\ forkret \in AllAts
      /\ sti \in SchedulerAts /\ forkret \in InsideAts /\ sti \notin PtableAts /\ sti \notin TicksAts
      /\ sti # forkret
  <2>1. /\ none = NotThere /\ sti \in AllAts /\ forkret \in AllAts /\ sti \in SchedulerAts /\ forkret \in InsideAts
    BY <1>4 DEF NotThere, AllAts, SchedulerAts, InsideAts
  <2>2. sti \notin PtableAts /\ sti \notin TicksAts /\ sti # forkret
    BY <1>4 DEF PtableAts, TicksAts, Place, Acquire, Release, SleepNow
  <2> QED
    BY <2>1, <2>2
<1>6. /\ \A p \in RrProc : /\ rproc[p].state = IF p = RrInit THEN "RUNNABLE" ELSE "UNUSED"
                           /\ rproc[p].parent = 0 /\ rproc[p] \in ProcRecord
      /\ rproc \in [RrProc -> ProcRecord]
  BY <1>1 DEF RoundRobinInit, ProcRecord, NoChan
<1>7. PICK u : u = [proc |-> 0, ncli |-> 0, intena |-> FALSE, iflag |-> FALSE]
  OBVIOUS
<1>8. /\ u \in CpuRecord /\ u.proc = 0 /\ u.ncli = 0 /\ ~u.iflag
      /\ rcpu \in [RrCpu -> CpuRecord] /\ \A c \in RrCpu : rcpu[c] = u
  BY <1>1, <1>7 DEF RoundRobinInit, CpuRecord
<1>9. /\ rthread \in [RrThread -> ThreadRecord]
      /\ \A t \in RrThread : /\ rthread[t].at = IF t = RrInit THEN forkret ELSE sti
                             /\ rthread[t].irq = none /\ rthread[t].arg = 1
  <2>1. PICK a, b : /\ a = [at |-> forkret, irq |-> none, arg |-> 1, intena |-> FALSE]
                    /\ b = [at |-> sti, irq |-> none, arg |-> 1, intena |-> FALSE]
    OBVIOUS
  <2>2. 1 \in 1 .. RrProcs + 1
    BY RrAssumption
  <2>3. a \in ThreadRecord /\ b \in ThreadRecord
    BY <1>5, <2>1, <2>2 DEF ThreadRecord
  <2>4. rthread = [t \in RrThread |-> IF t = RrInit THEN a ELSE b]
    <3>1. \A t \in RrThread : [at |-> Place(IF t = RrInit THEN "forkret" ELSE "sti"),
                               irq |-> Place("none"), arg |-> 1, intena |-> FALSE] = IF t = RrInit THEN a ELSE b
      BY <1>4, <2>1
    <3> QED
      BY <3>1 DEF RoundRobinInit
  <2> QED
    BY <2>1, <2>3, <2>4
<1>10. RrTypeOK
  <2>1. \A p \in RrProc : rthread[p].arg \in RrProc
    BY <1>1, <1>3, <1>9
  <2>2. rlock \in [{"ptable", "tickslock"} -> 0 .. RrCpus]
    BY RrAssumption DEF RoundRobinInit, RrNobody
  <2>3. rleft \in [RrProc -> Nat]
    BY DEF RoundRobinInit
  <2> QED
    BY <1>6, <1>8, <1>9, <2>1, <2>2, <2>3 DEF RrTypeOK
<1>11. CpusInv
  <2> SUFFICES ASSUME NEW c \in RrCpu
               PROVE  Fits(rthread[On(c)], rcpu[c], rlock.ptable = c, rlock.tickslock = c)
    BY DEF CpusInv
  <2>1. On(c) = 0 - c /\ rcpu[c] = u
    BY <1>8 DEF On
  <2>2. PICK r \in ThreadRecord : r = rthread[0 - c]
    BY <1>2, <1>9
  <2>3. r.at = sti /\ r.irq = none
    BY <1>2, <1>9, <2>2
  <2>4. PICK hp \in BOOLEAN, ht \in BOOLEAN : hp = (rlock.ptable = c) /\ ht = (rlock.tickslock = c)
    OBVIOUS
  <2>5. ~hp /\ ~ht
    BY <1>2, <2>4 DEF RoundRobinInit, RrNobody
  <2>6. Fits(r, u, hp, ht)
    BY <1>5, <1>8, <2>3, <2>5 DEF Fits, SchedulerPlace, Locks, Interrupts
  <2> QED
    BY <2>1, <2>2, <2>4, <2>6
<1>12. RunningInv
  BY <1>1, <1>6, <1>8 DEF RunningInv, RunsOnce
<1>13. LeftInv
  <2> SUFFICES ASSUME NEW p \in RrProc, rproc[p].state \in {"RUNNABLE", "SLEEPING"}
               PROVE  Left(rproc[p], rthread[p])
    BY DEF LeftInv
  <2>1. p = RrInit /\ rproc[p].state = "RUNNABLE"
    BY <1>6
  <2>2. rthread[p].at = forkret /\ rthread[p].irq = NotThere
    BY <1>3, <1>5, <1>9, <2>1
  <2> QED
    BY <1>4, <1>5, <2>1, <2>2 DEF Left, ProcessPlace
<1>14. ForksInv
  <2>1. ASSUME NEW p \in RrProc PROVE ~Forks(p)
    <3>1. p = RrInit \/ ~Live(p)
      BY <1>6 DEF Live
    <3>2. Base(rthread[RrInit]) = forkret
      BY <1>1, <1>3, <1>5, <1>9 DEF Base
    <3>3. forkret \notin Copying \cup Copied
      BY <1>4 DEF Copying, Copied, Place, Acquire, Release
    <3> QED
      BY <3>1, <3>2, <3>3 DEF Forks
  <2> HIDE DEF Forks
  <2> QED
    BY <1>6, <2>1 DEF ForksInv
<1>15. TreeInv
  BY <1>1, <1>6 DEF TreeInv
<1>16. SleepersInv
  BY <1>6 DEF SleepersInv, Sleeper
<1>17. ~rpanic
  BY DEF RoundRobinInit
<1> QED
  BY <1>10, <1>11, <1>12, <1>13, <1>14, <1>15, <1>16, <1>17 DEF RrInv

LEMMA SectionInv == ASSUME RrInv, NEW c \in RrCpu, Section(c) PROVE RrInv'
<1>1. CASE rcpu[c].proc = 0 /\ SchedulerLoop(c)
  BY <1>1, SchedulerLoopInv
<1>2. CASE rcpu[c].proc = 0 /\ SchedulerRuns(c)
  BY <1>2, SchedulerRunsInv
<1>3. CASE rcpu[c].proc = 0 /\ SchedulerDone(c)
  BY <1>3, SchedulerDoneInv
<1>4. CASE Tick(c) \/ TickWakes(c) \/ Ticked(c) \/ Iret(c)
  BY <1>4, TickInv, TickWakesInv, TickedInv, IretInv
<1>5. CASE rcpu[c].proc # 0 /\ (Forkret(c) \/ Yield(c) \/ Yielded(c))
  BY <1>5, ForkretInv, YieldInv, YieldedInv
<1>6. CASE rcpu[c].proc # 0 /\ (SyscallReturn(c) \/ RrForkAlloc(c) \/ RrForkCopy(c) \/ RrForkDone(c))
  BY <1>6, SyscallReturnInv, ForkAllocInv, ForkCopyInv, ForkDoneInv
<1>7. CASE rcpu[c].proc # 0 /\ (RrExit(c) \/ WaitScan(c) \/ RrKill(c))
  BY <1>7, RrExitInv, WaitScanInv, RrKillInv
<1>8. CASE rcpu[c].proc # 0 /\ (SleepStart(c) \/ SleepTest(c) \/ RrSleeps(c) \/ Slept(c))
  BY <1>8, SleepStartInv, SleepTestInv, RrSleepsInv, SleptInv
<1> QED
  BY <1>1, <1>2, <1>3, <1>4, <1>5, <1>6, <1>7, <1>8 DEF Section

LEMMA StutterInv == ASSUME RrInv, UNCHANGED rrvars PROVE RrInv'
<1> USE DEF rrvars
<1>1. RrTypeOK' /\ ~rpanic'
  BY DEF RrInv, RrTypeOK
<1>2. \A c \in RrCpu : On(c)' = On(c)
  BY DEF On
<1>3. CpusInv'
  BY <1>2 DEF RrInv, CpusInv
<1>4. RunningInv' /\ LeftInv' /\ TreeInv'
  BY DEF RrInv, RunningInv, RunsOnce, LeftInv, TreeInv
<1>5. \A p \in RrProc : Forks(p)' <=> Forks(p)
  BY DEF Forks, Live
<1>6. ForksInv'
  <2> HIDE DEF Forks
  <2> QED
    BY <1>5 DEF RrInv, ForksInv
<1>7. \A p \in RrProc : RrChildren(p)' = RrChildren(p)
  BY DEF RrChildren
<1>8. TickPending' <=> TickPending
  BY <1>2 DEF TickPending
<1>9. SleepersInv'
  <2> HIDE DEF RrChildren, TickPending
  <2> QED
    BY <1>7, <1>8 DEF RrInv, SleepersInv, Sleeper
<1> QED
  BY <1>1, <1>3, <1>4, <1>6, <1>9 DEF RrInv

LEMMA NextInv == ASSUME RrInv, [RoundRobinNext]_rrvars PROVE RrInv'
<1>1. CASE RoundRobinNext
  <2>1. PICK c \in RrCpu : CpuStep(c) \/ SyscallEnter(c) \/ Timer(c) \/ Fault(c)
    BY <1>1 DEF RoundRobinNext
  <2>2. CASE CpuStep(c)
    BY <2>2, AcquireInv, ReleaseInv, SectionInv DEF CpuStep
  <2>3. CASE SyscallEnter(c) \/ Timer(c) \/ Fault(c)
    BY <2>3, SyscallEnterInv, TimerInv, FaultInv
  <2> QED
    BY <2>1, <2>2, <2>3
<1>2. CASE UNCHANGED rrvars
  BY <1>2, StutterInv
<1> QED
  BY <1>1, <1>2

LEMMA RrAlways == RoundRobinSpec => []RrInv
<1>1. RoundRobinInit => RrInv
  BY InitInv
<1>2. RrInv /\ [RoundRobinNext]_rrvars => RrInv'
  BY NextInv
<1> QED
  BY <1>1, <1>2, PTL DEF RoundRobinSpec

-----------------------------------------------------------------------------
(* What the invariant says of the processors and the sleepers.             *)

LEMMA Nested == ASSUME RrInv PROVE LocksNested
<1> SUFFICES ASSUME NEW c \in RrCpu
             PROVE  /\ rcpu[c].ncli = Cardinality({l \in DOMAIN rlock : rlock[l] = c})
                    /\ rcpu[c].ncli > 0 => ~rcpu[c].iflag
  BY DEF LocksNested, RrInv
<1>1. PICK r \in ThreadRecord, u \in CpuRecord, hp \in BOOLEAN, ht \in BOOLEAN :
        /\ r = rthread[On(c)] /\ u = rcpu[c]
        /\ hp = (rlock.ptable = c) /\ ht = (rlock.tickslock = c) /\ Fits(r, u, hp, ht)
  BY Here
<1>2. u.ncli = (IF hp THEN 1 ELSE 0) + (IF ht THEN 1 ELSE 0) /\ (u.ncli > 0 => ~u.iflag)
  BY <1>1 DEF Fits, Locks, Interrupts
<1>3. DOMAIN rlock = {"ptable", "tickslock"}
  BY DEF RrInv, RrTypeOK
<1>4. PICK S : S = {l \in DOMAIN rlock : rlock[l] = c}
  OBVIOUS
<1>5. S = (IF hp THEN {"ptable"} ELSE {}) \cup (IF ht THEN {"tickslock"} ELSE {})
  BY <1>1, <1>3, <1>4
<1>6. Cardinality(S) = (IF hp THEN 1 ELSE 0) + (IF ht THEN 1 ELSE 0)
  <2>1. CASE hp /\ ht
    <3>1. PICK T, x : T = {"ptable"} /\ x = "tickslock"
      OBVIOUS
    <3>2. IsFiniteSet(T) /\ Cardinality(T) = 1 /\ x \notin T /\ S = T \cup {x}
      BY <1>5, <2>1, <3>1, FS_Singleton
    <3>3. Cardinality(T \cup {x}) = 2
      <4>1. Cardinality(T \cup {x}) = Cardinality(T) + 1
        BY <3>2, FS_AddElement
      <4> QED
        BY <3>2, <4>1
    <3> QED
      BY <2>1, <3>2, <3>3
  <2>2. CASE hp /\ ~ht
    <3>1. S = {"ptable"}
      BY <1>5, <2>2
    <3>2. Cardinality({"ptable"}) = 1
      BY FS_Singleton
    <3> QED
      BY <2>2, <3>1, <3>2
  <2>3. CASE ~hp /\ ht
    <3>1. S = {"tickslock"}
      BY <1>5, <2>3
    <3>2. Cardinality({"tickslock"}) = 1
      BY FS_Singleton
    <3> QED
      BY <2>3, <3>1, <3>2
  <2>4. CASE ~hp /\ ~ht
    <3>1. S = {}
      BY <1>5, <2>4
    <3> QED
      BY <2>4, <3>1, FS_EmptySet
  <2> QED
    BY <2>1, <2>2, <2>3, <2>4
<1> QED
  BY <1>1, <1>2, <1>4, <1>6

LEMMA Intena == ASSUME RrInv PROVE IntenaKept
<1> SUFFICES ASSUME NEW c \in RrCpu, On(c) > 0, rcpu[c].ncli = 0
             PROVE  /\ rthread[On(c)].irq.pc # "none" => ~rcpu[c].iflag
                    /\ rthread[On(c)].irq.pc = "none" /\ rthread[On(c)].at.pc \in {"acquire", "copy"} => rcpu[c].iflag
  BY DEF IntenaKept
<1>1. PICK r \in ThreadRecord, u \in CpuRecord, hp \in BOOLEAN, ht \in BOOLEAN :
        /\ r = rthread[On(c)] /\ u = rcpu[c]
        /\ hp = (rlock.ptable = c) /\ ht = (rlock.tickslock = c) /\ Fits(r, u, hp, ht)
  BY Here
<1>2. u.proc # 0
  <2>1. rcpu[c].proc = 0 => On(c) = 0 - c /\ ~(0 - c > 0)
    BY DEF On, RrCpu
  <2> QED
    BY <1>1, <2>1
<1>3. r.irq.pc # "none" => r.irq # NotThere
  BY DEF NotThere, Place
<1>4. r.irq.pc = "none" => r.irq = NotThere
  <2>1. r.irq \in AllAts => r.irq.pc # "none"
    BY DEF AllAts, OpenAts, InsideAts, TickAts, YieldAts, SchedulerAts, Place, Acquire, Release, SleepNow
  <2> QED
    BY <2>1 DEF ThreadRecord
<1>5. r.at.pc \in {"acquire", "copy"} => r.at # Place("trapret")
  BY DEF Place
<1>6. /\ r.irq # NotThere => ~u.iflag
      /\ r.irq = NotThere => (r.at # Place("trapret") => u.iflag)
  BY <1>1, <1>2 DEF Fits, Interrupts
<1> QED
  BY <1>1, <1>3, <1>4, <1>5, <1>6

LEMMA NoneLost == ASSUME RrInv PROVE NoLostWakeup
<1> SUFFICES ASSUME NEW p \in RrProc, rproc[p].state = "SLEEPING"
             PROVE  /\ rproc[p].chan = RrTicks /\ rlock.tickslock = RrNobody => rleft[p] > 0
                    /\ rproc[p].chan = p /\ rlock.ptable = RrNobody =>
                         /\ ~rproc[p].killed
                         /\ RrChildren(p) # {} /\ \A q \in RrChildren(p) : rproc[q].state # "ZOMBIE"
  BY DEF NoLostWakeup
<1>1. rthread[p].at \in {Place("waitscan"), Place("slept")} /\ p # RrTicks
  BY DEF RrInv, LeftInv, Left, RrProc, RrTicks
<1>2. Sleeper(p)
  BY DEF RrInv, SleepersInv
<1>3. TickPending => rlock.tickslock # RrNobody
  <2> SUFFICES ASSUME TickPending PROVE rlock.tickslock # RrNobody
    OBVIOUS
  <2>1. PICK d \in RrCpu : rthread[On(d)].at \in TickWaits
    BY DEF TickPending
  <2>2. \A a \in TickWaits : a \in TicksAts
    BY DEF TickWaits, TicksAts
  <2>3. rlock.tickslock = d
    BY <2>1, <2>2 DEF RrInv, CpusInv, Fits, Locks
  <2> QED
    BY <2>3 DEF RrCpu, RrNobody
<1>4. CASE rthread[p].at = Place("slept")
  BY <1>1, <1>2, <1>3, <1>4 DEF Sleeper
<1>5. CASE rthread[p].at = Place("waitscan")
  BY <1>1, <1>2, <1>5 DEF Sleeper
<1> QED
  BY <1>1, <1>4, <1>5

(* Every variable keeps its type: in particular ncli is at most 2, and a   *)
(* thread is at a place of its own kind of code.                           *)
THEOREM RoundRobinTyped == RoundRobinSpec => []RrTypeOK
<1>1. RrInv => RrTypeOK
  BY DEF RrInv
<1> QED
  BY <1>1, RrAlways, PTL

(* With any number of processes and processors: a processor holds as many  *)
(* locks as ncli says, with its interrupts off, and acquire(), release(),  *)
(* popcli() and sched() do not panic; a process runs on one processor,     *)
(* exactly while it is RUNNING; a thread's interrupt state is its own; and *)
(* sleep(), wakeup(), kill(), exit() and the timer lose no wakeup.         *)
THEOREM ProcessorsAreSafe == RoundRobinSpec => []RoundRobinSafe
<1>1. RrInv => RoundRobinSafe
  BY Nested, Intena, NoneLost DEF RoundRobinSafe, RrInv, RunningInv
<1> QED
  BY <1>1, RrAlways, PTL
=============================================================================
