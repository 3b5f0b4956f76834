------------------------------ MODULE Threads ------------------------------
(***************************************************************************)
(* The threads of project02/xv6-public: processes whose slots of ptable    *)
(* share a main thread and a page table, and how they are created, joined, *)
(* exit, are killed and are replaced by exec().                            *)
(*                                                                         *)
(* Interrupts are off in every section under ptable.lock or pgdirlock, so  *)
(* such a section is one action.  Between two sections, and in user mode,  *)
(* the timer may make any process yield(); the round of scheduler() then   *)
(* runs the others, each possibly for nothing before the next tick.  The   *)
(* sections of different processes interleave in every order, so the model *)
(* leaves out which process has the CPU: RUNNABLE stands for RUNNING too.  *)
(*                                                                         *)
(* pc[p] is where p is between two sections: "user"; at the entry of a     *)
(* call ("wait", "create", "texit", "join", "exec"); or                    *)
(*   "fork2"                 after allocproc()                             *)
(*   "create2"               after pgdirlock is released                   *)
(*   "exitKill"              about to call thread_kill_others()            *)
(*   "exitReap", "execReap"  in its loop                                   *)
(*   "exitDone", "execDone"  after it                                      *)
(*   "none"                  a slot past its last sched(), or before it    *)
(*                           may run                                       *)
(* wait(), thread_join() and thread_kill_others() all sleep on the         *)
(* caller's own slot, so a channel is a slot and needs no variable.        *)
(***************************************************************************)
EXTENDS Integers, FiniteSets

CONSTANTS
  NPROC,        \* slots of ptable
  MaxPid,       \* bound: allocproc() is not called once nextpid exceeds it
  Calls,        \* the system calls the programs make; init forks and waits
  OneTakeover   \* whether programs keep two threads of a process from
                \* taking it over at once, see Takes

AllCalls == {"fork", "exit", "wait", "create", "texit", "join", "kill", "exec"}

ASSUME ThreadsAssumption ==
  /\ NPROC \in Nat \ {0} /\ MaxPid \in Nat \ {0}
  /\ Calls \subseteq AllCalls /\ OneTakeover \in BOOLEAN

VARIABLES
  ptable,   \* the slots
  vm,       \* page tables that are allocated
  nextpid,
  panicked, \* the kernel has stopped
  pc,
  np,       \* locals: the new slot of fork() and thread_create()
  oldmain,  \* thread_kill_others()'s
  thread    \* thread_join()'s argument

locals == <<np, oldmain, thread>>
vars == <<ptable, vm, nextpid, panicked, pc, locals>>

Proc == 1 .. NPROC
NoProc == 0
initproc == 1
PageTable == 1 .. NPROC + 1

FreeSlot == [state |-> "UNUSED", pid |-> 0, tid |-> 0, main |-> NoProc,
             parent |-> NoProc, killed |-> FALSE, pgdir |-> 0]

(* Init: userinit() has made the first process.  The programs of the       *)
(* system have pid 1 for an ancestor that forks and waits.                 *)
Init ==
  /\ ptable = [p \in Proc |->
       IF p = initproc
       THEN [FreeSlot EXCEPT !.state = "RUNNABLE", !.pid = 1,
                             !.main = initproc, !.pgdir = 1]
       ELSE FreeSlot]
  /\ vm = {1} /\ nextpid = 2 /\ panicked = FALSE
  /\ pc = [p \in Proc |-> IF p = initproc THEN "user" ELSE "none"]
  /\ np = [p \in Proc |-> NoProc] /\ oldmain = [p \in Proc |-> NoProc]
  /\ thread = [p \in Proc |-> 0]

-----------------------------------------------------------------------------
(* Operations on the process table.                                        *)

Live(t, p) == t[p].state \notin {"UNUSED", "ZOMBIE"}
IsMain(t, p) == t[p].main = p

(* scheduler() may run p up to its next section.                           *)
At(p, l) == pc[p] = l /\ ptable[p].state = "RUNNABLE" /\ ~panicked
Goto(p, l) == pc' = [pc EXCEPT ![p] = l]

(* The first test of exit(): a thread that was killed because of its main  *)
(* thread only ends itself.  It follows trap()'s test of p->killed, or the *)
(* call, with nothing shared in between.                                   *)
ExitTest(t, p) ==
  IF ~IsMain(t, p) /\ t[p].killed THEN "texit" ELSE "exitKill"

(* The way out of a system call: trap() tests p->killed.                   *)
UserOrExit(t, p) == IF t[p].killed THEN ExitTest(t, p) ELSE "user"
Return(p) == Goto(p, UserOrExit(ptable, p))

Sleep(t, p) == [t EXCEPT ![p].state = "SLEEPING"]

(* wakeup1() on a channel that is a slot.                                  *)
Wakeup1(t, q) ==
  IF q # NoProc /\ t[q].state = "SLEEPING"
  THEN [t EXCEPT ![q].state = "RUNNABLE"] ELSE t

(* thread_free(), and the same assignments in wait().  The pgdir left in   *)
(* the slot is written before it is read again, and taken as 0.            *)
ThreadFree(t, Q) ==
  [q \in Proc |-> IF q \in Q THEN FreeSlot ELSE t[q]]

(* exit() and thread_exit() leave their children to init.                  *)
Reparent(t, p) ==
  LET children == {c \in Proc : t[c].parent = p}
      t1 == [c \in Proc |-> IF c \in children
                            THEN [t[c] EXCEPT !.parent = initproc] ELSE t[c]]
  IN  IF \E c \in children : IsMain(t, c) /\ t[c].state = "ZOMBIE"
      THEN Wakeup1(t1, initproc) ELSE t1

Unused == {p \in Proc : ptable[p].state = "UNUSED"}
FirstUnused == CHOOSE p \in Unused : \A q \in Unused : p <= q

(* allocproc(): killed is not reset.                                       *)
Allocproc(q) ==
  [ptable EXCEPT ![q].state = "EMBRYO", ![q].pid = nextpid, ![q].tid = 0,
                 ![q].main = q]

(* wait() looks at main threads only.                                      *)
Children(p) == {c \in Proc : ptable[c].parent = p /\ IsMain(ptable, c)}

NewPageTable == CHOOSE d \in PageTable \ vm : \A e \in PageTable \ vm : d <= e

-----------------------------------------------------------------------------
(* System calls.                                                           *)

(* A thread that will end the others and go on alone: in exec(), or, not   *)
(* being the main thread, in an exit() of its own accord.                  *)
Takes(p) ==
  /\ Live(ptable, p)
  /\ \/ pc[p] \in {"exec", "execReap"}
     \/ pc[p] = "exitKill" /\ ~IsMain(ptable, p)
     \/ pc[p] = "exitReap" /\ oldmain[p] # p

(* What a program does: init forks and waits; thread_exit() is for         *)
(* threads, thread_join() for the main thread (proc.c:263).                *)
MayCall(p, c) ==
  /\ IF p = initproc
     THEN c = IF Children(p) = {} THEN "fork" ELSE "wait"
     ELSE c \in Calls
  /\ c = "texit" => ~IsMain(ptable, p)
  /\ c = "join" => IsMain(ptable, p)
  /\ (OneTakeover /\ c \in {"exec", "exit"} /\ (c = "exit" => ~IsMain(ptable, p))) =>
       \A q \in Proc \ {p} : ptable[q].pid = ptable[p].pid => ~Takes(q)

(* trap() sends a killed process to exit(), from a system call or a tick   *)
(* in user mode; any other goes into the call.  What fork(), kill() and    *)
(* exit() do first is not affected by what happens to p after trap()'s     *)
(* test, so they go on to it at once.                                      *)
Called(p, c) == At(p, "user") /\ ~ptable[p].killed /\ MayCall(p, c)

Syscall(p) ==
  /\ \E c \in AllCalls \ {"fork", "kill"} :
       /\ Called(p, c)
       /\ Goto(p, IF c = "exit" THEN ExitTest(ptable, p) ELSE c)
  /\ UNCHANGED <<ptable, vm, nextpid, panicked, locals>>

TrapKills(p) ==
  /\ At(p, "user") /\ ptable[p].killed
  /\ Goto(p, ExitTest(ptable, p))
  /\ UNCHANGED <<ptable, vm, nextpid, panicked, locals>>

(* Without a slot, or beyond the bound on pids, fork() only returns.       *)
ForkAlloc(p) ==
  /\ Called(p, "fork") /\ Unused # {} /\ nextpid <= MaxPid
  /\ ptable' = Allocproc(FirstUnused) /\ nextpid' = nextpid + 1
  /\ np' = [np EXCEPT ![p] = FirstUnused]
  /\ Goto(p, "fork2")
  /\ UNCHANGED <<vm, panicked, oldmain, thread>>

(* copyuvm() failed: the pid stays in the slot, and killed too.            *)
ForkNoMemory(p) ==
  /\ At(p, "fork2")
  /\ ptable' = [ptable EXCEPT ![np[p]].state = "UNUSED",
                              ![np[p]].main = NoProc]
  /\ np' = [np EXCEPT ![p] = NoProc]
  /\ Return(p)
  /\ UNCHANGED <<vm, nextpid, panicked, oldmain, thread>>

(* copyuvm(), the fields of the new process, and at last its state; until  *)
(* then nobody but p looks at the rest.                                    *)
ForkDone(p) ==
  /\ At(p, "fork2")
  /\ ptable' = [ptable EXCEPT ![np[p]].state = "RUNNABLE",
                              ![np[p]].pgdir = NewPageTable,
                              ![np[p]].parent = p]
  /\ vm' = vm \cup {NewPageTable}
  /\ pc' = [pc EXCEPT ![np[p]] = "user",
                      ![p] = UserOrExit(ptable, p)]
  /\ np' = [np EXCEPT ![p] = NoProc]
  /\ UNCHANGED <<nextpid, panicked, oldmain, thread>>

(* Mutant: nextpid is also counted up for the tid.                         *)
CreateCountsTid(p) ==
  /\ At(p, "create") /\ Unused # {} /\ nextpid <= MaxPid
  /\ LET main == ptable[p].main
     IN  ptable' = [Allocproc(FirstUnused) EXCEPT
                      ![FirstUnused].pgdir = ptable[main].pgdir,
                      ![FirstUnused].pid = ptable[main].pid,
                      ![FirstUnused].tid = nextpid + 1,
                      ![FirstUnused].parent = ptable[main].parent,
                      ![FirstUnused].main = main]
  /\ nextpid' = nextpid + 2
  /\ np' = [np EXCEPT ![p] = FirstUnused]
  /\ Goto(p, "create2")
  /\ UNCHANGED <<vm, panicked, oldmain, thread>>

(* thread_create() under pgdirlock: allocproc(), growproc() and the fields *)
(* the thread has from its main thread.                                    *)
Create(p) ==
  /\ At(p, "create") /\ Unused # {} /\ nextpid <= MaxPid
  /\ LET main == ptable[p].main
     IN  ptable' = [Allocproc(FirstUnused) EXCEPT
                      ![FirstUnused].pgdir = ptable[main].pgdir,
                      ![FirstUnused].pid = ptable[main].pid,
                      ![FirstUnused].tid = nextpid + 1,
                      ![FirstUnused].parent = ptable[main].parent,
                      ![FirstUnused].main = main]
  /\ nextpid' = nextpid + 1
  /\ np' = [np EXCEPT ![p] = FirstUnused]
  /\ Goto(p, "create2")
  /\ UNCHANGED <<vm, panicked, oldmain, thread>>

(* No slot, or no memory for the stack: it returns -1 with pgdirlock held, *)
(* so that the caller's next sched(), at the latest on the next tick,      *)
(* panics ("sched locks").                                                 *)
CreateFails(p) ==
  /\ At(p, "create") /\ panicked' = TRUE
  /\ UNCHANGED <<ptable, vm, nextpid, pc, locals>>

CreateDone(p) ==
  /\ At(p, "create2")
  /\ ptable' = [ptable EXCEPT ![np[p]].state = "RUNNABLE"]
  /\ pc' = [pc EXCEPT ![np[p]] = "user",
                      ![p] = UserOrExit(ptable, p)]
  /\ np' = [np EXCEPT ![p] = NoProc]
  /\ UNCHANGED <<vm, nextpid, panicked, oldmain, thread>>

(* thread_exit(), after it has closed the files.                           *)
ThreadExit(p) ==
  /\ At(p, "texit")
  /\ LET t == Reparent(Wakeup1(ptable, ptable[p].main), p)
     IN  ptable' = [t EXCEPT ![p].state = "ZOMBIE"]
  /\ Goto(p, "none")
  /\ UNCHANGED <<vm, nextpid, panicked, locals>>

(* One pass of thread_join()'s loop.  The first pass has the argument from *)
(* the program, which joins threads of its process.                        *)
JoinPass(p, tid) ==
  LET found == {q \in Proc : ptable[q].tid = tid}
      dead == {q \in found : ptable[q].state = "ZOMBIE"}
  IN  IF dead # {}
      THEN /\ ptable' = ThreadFree(ptable, dead)
           /\ thread' = [thread EXCEPT ![p] = 0] /\ Return(p)
      ELSE IF found = {} \/ ptable[p].killed
      THEN /\ thread' = [thread EXCEPT ![p] = 0] /\ Return(p)
           /\ UNCHANGED ptable
      ELSE /\ ptable' = Sleep(ptable, p)
           /\ thread' = [thread EXCEPT ![p] = tid] /\ Goto(p, "join2")

Join(p) ==
  /\ At(p, "join")
  /\ \E q \in Proc \ {p} :
       /\ ptable[q].pid = ptable[p].pid /\ ptable[q].tid # 0
       /\ JoinPass(p, ptable[q].tid)
  /\ UNCHANGED <<vm, nextpid, panicked, np, oldmain>>

JoinNone(p) ==
  /\ At(p, "join") /\ Return(p)
  /\ UNCHANGED <<ptable, vm, nextpid, panicked, locals>>

JoinAgain(p) ==
  /\ At(p, "join2") /\ JoinPass(p, thread[p])
  /\ UNCHANGED <<vm, nextpid, panicked, np, oldmain>>

(* One pass of wait()'s loop.                                              *)
Wait(p) ==
  /\ At(p, "wait")
  /\ LET zombies == {c \in Children(p) : ptable[c].state = "ZOMBIE"}
         c == CHOOSE d \in zombies : \A e \in zombies : d <= e
     IN  IF zombies # {}
         THEN /\ ptable' = ThreadFree(ptable, {c})
              /\ vm' = vm \ {ptable[c].pgdir}
              /\ Return(p)
         ELSE IF Children(p) = {} \/ ptable[p].killed
         THEN Return(p) /\ UNCHANGED <<ptable, vm>>
         ELSE ptable' = Sleep(ptable, p) /\ UNCHANGED <<vm, pc>>
  /\ UNCHANGED <<nextpid, panicked, locals>>

(* kill(pid) takes the first slot with that pid and kills its main thread; *)
(* without one it only returns.                                            *)
Kill(p) ==
  /\ Called(p, "kill")
  /\ \E q \in Proc :
       LET main == ptable[q].main
       IN  /\ ptable[q].state # "UNUSED" /\ ptable[q].pid # 1
           /\ \A r \in 1 .. q - 1 : ptable[r].pid # ptable[q].pid
           /\ ptable' = Wakeup1([ptable EXCEPT ![main].killed = TRUE], main)
           /\ Goto(p, UserOrExit(ptable', p))
  /\ UNCHANGED <<vm, nextpid, panicked, locals>>

(* exec() up to thread_kill_others() touches nothing shared; it may fail.  *)
ExecFails(p) ==
  /\ At(p, "exec") /\ Return(p)
  /\ UNCHANGED <<ptable, vm, nextpid, panicked, locals>>

(* Mutant: the old main thread is spared.                                  *)
VictimsButOldMain(t, p, old) == {q \in Proc \ {p} : t[q].main = p}

(* One pass of the loop of thread_kill_others(): the dead are freed, the   *)
(* others killed; done when there was no other.                            *)
Victims(t, p, old) ==
  {q \in Proc \ {p} : t[q].main = p} \cup ({old} \ {p})

KillPass(t, p, old, again, done) ==
  LET dead == {q \in Victims(t, p, old) : t[q].state = "ZOMBIE"}
      alive == Victims(t, p, old) \ dead
      t1 == [q \in Proc |->
               IF q \in alive
               THEN [t[q] EXCEPT !.killed = TRUE,
                       !.state = IF @ = "SLEEPING" THEN "RUNNABLE" ELSE @]
               ELSE t[q]]
      t2 == ThreadFree(t1, dead)
  IN  IF alive = {}
      THEN /\ ptable' = t2 /\ Goto(p, done)
           /\ oldmain' = [oldmain EXCEPT ![p] = NoProc]
      ELSE /\ ptable' = Sleep(t2, p) /\ Goto(p, again)
           /\ oldmain' = [oldmain EXCEPT ![p] = old]

(* Mutant: the old main thread keeps its parent.                           *)
TakeOverOrphan(t, p) == [t EXCEPT ![p].main = p]

(* A thread that is not the main one becomes it, and the parent of the old *)
(* one, whose exit() wakes it.                                             *)
TakeOver(t, p) ==
  IF IsMain(t, p) THEN t
  ELSE [t EXCEPT ![p].main = p, ![t[p].main].parent = p]

KillOthers(p) ==
  /\ \/ At(p, "exitKill") /\ KillPass(TakeOver(ptable, p), p, ptable[p].main,
                                      "exitReap", "exitDone")
     \/ At(p, "exec") /\ KillPass(TakeOver(ptable, p), p, ptable[p].main,
                                  "execReap", "execDone")
  /\ UNCHANGED <<vm, nextpid, panicked, np, thread>>

(* Mutant: no second look at the table after the sleep.                    *)
KillOthersOnce(p) ==
  /\ At(p, "exitReap") \/ At(p, "execReap")
  /\ ptable' = ThreadFree(ptable, {q \in Victims(ptable, p, oldmain[p]) :
                                    ptable[q].state = "ZOMBIE"})
  /\ Goto(p, IF pc[p] = "exitReap" THEN "exitDone" ELSE "execDone")
  /\ oldmain' = [oldmain EXCEPT ![p] = NoProc]
  /\ UNCHANGED <<vm, nextpid, panicked, np, thread>>

KillOthersAgain(p) ==
  /\ \/ At(p, "exitReap") /\ KillPass(ptable, p, oldmain[p],
                                      "exitReap", "exitDone")
     \/ At(p, "execReap") /\ KillPass(ptable, p, oldmain[p],
                                      "execReap", "execDone")
  /\ UNCHANGED <<vm, nextpid, panicked, np, thread>>

(* exec()'s commit to the new image.                                       *)
ExecCommit(p) ==
  /\ At(p, "execDone")
  /\ ptable' = [ptable EXCEPT ![p].pgdir = NewPageTable]
  /\ vm' = (vm \ {ptable[p].pgdir}) \cup {NewPageTable}
  /\ Return(p)
  /\ UNCHANGED <<nextpid, panicked, locals>>

(* exit(), after it has closed the files.                                  *)
Exit(p) ==
  /\ At(p, "exitDone")
  /\ LET t == Reparent(Wakeup1(ptable, ptable[p].parent), p)
     IN  ptable' = [t EXCEPT ![p].state = "ZOMBIE"]
  /\ Goto(p, "none")
  /\ UNCHANGED <<vm, nextpid, panicked, locals>>

Step(p) ==
  \/ Syscall(p) \/ TrapKills(p)
  \/ ForkAlloc(p) \/ ForkNoMemory(p)
  \/ ForkDone(p) \/ Create(p) \/ CreateFails(p) \/ CreateDone(p)
  \/ ThreadExit(p) \/ Join(p) \/ JoinNone(p) \/ JoinAgain(p)
  \/ Wait(p) \/ Kill(p)
  \/ ExecFails(p) \/ KillOthers(p) \/ KillOthersAgain(p)
  \/ ExecCommit(p) \/ Exit(p)

Next == \E p \in Proc : Step(p)

Spec == Init /\ [][Next]_vars

-----------------------------------------------------------------------------
(* Properties.                                                             *)

States == {"UNUSED", "EMBRYO", "SLEEPING", "RUNNABLE", "ZOMBIE"}
Places == {"user", "wait", "create", "texit", "join", "exec", "fork2",
  "create2", "join2",
  "exitKill", "exitReap", "execReap", "exitDone", "execDone", "none"}

(* Every variable has its type.                                            *)
TypeOK ==
  /\ ptable \in [Proc -> [state : States, pid : 0 .. MaxPid,
                          tid : 0 .. MaxPid + 1, main : Proc \cup {NoProc},
                          parent : Proc \cup {NoProc}, killed : BOOLEAN,
                          pgdir : PageTable \cup {0}]]
  /\ vm \subseteq PageTable /\ nextpid \in 2 .. MaxPid + 1
  /\ panicked \in BOOLEAN /\ pc \in [Proc -> Places]
  /\ np \in [Proc -> Proc \cup {NoProc}]
  /\ oldmain \in [Proc -> Proc \cup {NoProc}]
  /\ thread \in [Proc -> 0 .. MaxPid + 1]

(* Whoever has been dispatched or will be runs on a page table that is     *)
(* allocated: neither a parent's wait() nor exec() frees one under a       *)
(* thread that is still to end.                                            *)
PageTablesLive ==
  \A p \in Proc : ptable[p].state \in {"RUNNABLE", "SLEEPING"} =>
    ptable[p].pgdir \in vm

(* p->main is a slot in use that is its own main: growproc(), kill() and   *)
(* thread_create() follow it without a test.                               *)
MainInUse ==
  \A p \in Proc : ptable[p].state # "UNUSED" =>
    LET m == ptable[p].main
    IN  m # NoProc /\ IsMain(ptable, m) /\ ptable[m].state # "UNUSED"

(* The pointers of a process in use are good: its page table and its main  *)
(* thread outlive it, whoever ends, waits, joins or replaces the program.  *)
PointersLive == PageTablesLive /\ MainInUse

(* Once thread_kill_others() has returned, no other thread is left: exec() *)
(* and exit() end all threads of their process.  At the exit() of a main   *)
(* thread there may be one, that took the process over and waits for this  *)
(* very exit().                                                            *)
ExitTakesAllThreads ==
  \A p \in Proc : pc[p] \in {"exitDone", "execDone"} =>
    \A q \in Proc \ {p} :
      ptable[q].state # "UNUSED" /\ ptable[q].pid = ptable[p].pid =>
        pc[p] = "exitDone" /\ oldmain[q] = p

(* Nobody sleeps in wait(), thread_join() or thread_kill_others() while    *)
(* what it waits for has happened.                                         *)
NoLostExit ==
  \A p \in Proc : ptable[p].state = "SLEEPING" =>
    CASE pc[p] = "wait" ->
           \A c \in Children(p) : ptable[c].state # "ZOMBIE"
      [] pc[p] = "join2" ->
           \E q \in Proc : ptable[q].tid = thread[p] /\ Live(ptable, q)
      [] OTHER ->
           \E q \in Victims(ptable, p, oldmain[p]) : Live(ptable, q)
=============================================================================
