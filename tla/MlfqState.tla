----------------------------- MODULE MlfqState -----------------------------
(***************************************************************************)
(* What the scheduler of project01 keeps about processes, and what it      *)
(* promises of it, whatever NPROC, the boost period and the system calls   *)
(* are: the part of Mlfq that its instances have in common.                *)
(***************************************************************************)
EXTENDS Integers, FiniteSets, SequencesExt

CONSTANTS
  Quantum0,   \* time quantum of L0: 4 in the code, level l has 2*l + Quantum0
  UIntSize    \* 2^32 in the code: arithmetic on ticks is modulo this

VARIABLES
  mlfq,       \* level -> sequence of processes, head first
  state,      \* p->state, of every slot of ptable.proc
  qlevel, tq, priority,
  schedlock,  \* the global schedlock
  cpu,        \* mycpu()->proc: the running process, NoProc in the scheduler
  level,      \* scheduler()'s local qlevel
  window,     \* the scheduler has released ptable.lock since it was entered
  ticks,
  pc,         \* see Mlfq
  chan, parent, killed,
  np,         \* fork()'s local np
  slp         \* sys_sleep()'s locals

NoProc == 0
initproc == 1
Levels == 0 .. 2

(* mlfq[-1] is the memory before the array: an enqueue there links the     *)
(* process into something no dequeue ever looks at.                        *)
LevelsAndBefore == {-1} \cup Levels

Slots == DOMAIN state

(* sys_sleep(): `ticks - ticks0 < n` compares as unsigned integers.        *)
Elapsed(ticks0) == (ticks - ticks0) % UIntSize

-----------------------------------------------------------------------------
(* A process is linked into at most one queue and only once, the queue it  *)
(* is in is the one its qlevel names, and the running process is in none:  *)
(* what keeps the p->next lists of enqueue/movefront/dequeue lists.        *)
QueuesExclusive ==
  /\ \A lev \in LevelsAndBefore :
       Cardinality(Range(mlfq[lev])) = Len(mlfq[lev])
  /\ \A lev \in LevelsAndBefore : \A p \in Range(mlfq[lev]) :
       qlevel[p] = lev /\ cpu # p

(* A process off the CPU that is RUNNABLE is in one of the three queues,   *)
(* so that scheduler() will find it; every path that makes a process       *)
(* RUNNABLE must link it.                                                  *)
RunnableIsQueued ==
  \A p \in Slots : state[p] = "RUNNABLE" =>
    \E lev \in Levels : p \in Range(mlfq[lev])

(* proc.c:476 sets qlevel = -1 so that the yield() of the interrupt puts   *)
(* the process into queue 0: nobody is linked with that -1 still there,    *)
(* into the memory before the array.  The code breaks it: a process that   *)
(* is killed as well goes to exit() instead, and may sleep there.          *)
NobodyBeforeQueues == mlfq[-1] = <<>>

(* scheduler() runs whatever dequeue() returns, without testing its state: *)
(* what is queued must be RUNNABLE.  A ZOMBIE in a queue would come back   *)
(* from the sched() of exit() and panic with "zombie exit".                *)
QueuedIsRunnable ==
  \A lev \in LevelsAndBefore : \A p \in Range(mlfq[lev]) :
    state[p] = "RUNNABLE"

(* scheduler() takes the head of a queue for a process it may run, whatever*)
(* was linked, unlinked, boosted, woken or killed before.                  *)
QueuesSound == QueuesExclusive /\ QueuedIsRunnable

(* proc.c: whoever is made RUNNABLE, by a wakeup at any point of the boost *)
(* cycle, is linked once where the scheduler finds it, what is linked is   *)
(* RUNNABLE, and nobody is linked while it runs.                           *)
QueuedIffRunnable == QueuesSound /\ RunnableIsQueued

(* Across boosts, demotions, sleeps and unlocks, a live process never has  *)
(* more quantum than its level grants, nor an exhausted one while it is    *)
(* off the CPU.                                                            *)
QuantumBound ==
  \A p \in Slots : state[p] \in {"SLEEPING", "RUNNABLE"} /\ qlevel[p] \in Levels
    => tq[p] \in 1 .. 2 * qlevel[p] + Quantum0

(* Behind its head, L2 is in priority order; insertion, decrement on       *)
(* yield, setPriority() on a queued process and boosts keep it so.         *)
L2TailSorted ==
  \A i, j \in 2 .. Len(mlfq[2]) :
    i < j => priority[mlfq[2][i]] <= priority[mlfq[2][j]]

(* proc.c: a process uses no more than its level's quantum, and L2 stays   *)
(* in priority order behind its head.                                      *)
LevelsKept == QuantumBound /\ L2TailSorted

(* No lost wakeup in wait(): nobody sleeps there while a child of it is a  *)
(* ZOMBIE, whether the child was born to it or handed to init by exit().   *)
NoLostChildExit ==
  \A p, c \in Slots :
    state[p] = "SLEEPING" /\ chan[p] = p /\ parent[c] = p => state[c] # "ZOMBIE"

(* Every process but init has a living parent that can wait() for it.      *)
OrphansAdopted ==
  \A c \in Slots \ {initproc} :
    state[c] \notin {"UNUSED", "EMBRYO"} =>
      parent[c] # NoProc /\ state[parent[c]] \notin {"UNUSED", "ZOMBIE"}

(* exit() and wait(): no exit is lost on a parent that sleeps in wait(),   *)
(* and the children of a process that exited have a living parent.         *)
ExitsReachParents == NoLostChildExit /\ OrphansAdopted

(* While a process holds the scheduler lock no other one gets the CPU.     *)
LockHolderKeepsCpu == [][schedlock /\ schedlock' => cpu' = cpu]_<<schedlock, cpu>>
=============================================================================
