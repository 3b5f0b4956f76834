--------------------------- MODULE ThreadsProofs ---------------------------
(***************************************************************************)
(* Theorems about Threads, for any number of slots and pids and any calls, *)
(* as long as two threads of a process do not take it over at once.        *)
(***************************************************************************)
EXTENDS Threads, FiniteSetTheorems, TLAPS

(* What a slot of ptable holds.                                            *)
Slot == [state : States, pid : 0 .. MaxPid, tid : 0 .. MaxPid + 1,
         main : Proc \cup {NoProc}, parent : Proc \cup {NoProc}, killed : BOOLEAN,
         pgdir : PageTable \cup {0}]

-----------------------------------------------------------------------------
(* The inductive invariant.                                                *)

InUse(p) == ptable[p].state # "UNUSED"
SamePid(p, q) == ptable[p].pid = ptable[q].pid
Reaping == {"exitReap", "execReap"}

(* A slot whose process does not run has no place in the code, a sleeper   *)
(* is in one of the calls that sleep, and an unused slot is blank but for  *)
(* its pid and killed, which a failed fork() leaves.                       *)
SlotsInv ==
  \A p \in Proc :
    /\ pc[p] = "none" <=> ptable[p].state \in {"UNUSED", "EMBRYO", "ZOMBIE"}
    /\ ptable[p].state = "SLEEPING" => pc[p] \in {"wait", "join2"} \cup Reaping
    /\ ptable[p].state = "SLEEPING" /\ pc[p] \in {"wait", "join2"} => ~ptable[p].killed
    /\ ~InUse(p) => /\ ptable[p].main = NoProc /\ ptable[p].parent = NoProc
                    /\ ptable[p].tid = 0 /\ ptable[p].pgdir = 0

(* The new slot of fork() or thread_create() is its creator's alone.       *)
CreatorsInv ==
  \A p \in Proc :
    /\ pc[p] \in {"fork2", "create2"} <=> np[p] # NoProc
    /\ np[p] # NoProc => /\ ptable[np[p]].state = "EMBRYO"
                         /\ \A q \in Proc : np[q] = np[p] => q = p
    /\ pc[p] = "fork2" =>
         /\ IsMain(ptable, np[p]) /\ ptable[np[p]].tid = 0 /\ ptable[np[p]].parent = NoProc
         /\ \A q \in Proc : InUse(q) /\ SamePid(q, np[p]) => q = np[p]
    /\ pc[p] = "create2" => ~IsMain(ptable, np[p])

(* Pids and tids come from nextpid; a tid belongs to one thread, and what  *)
(* thread_join() waits for is another thread of the process.               *)
IdsInv ==
  \A p \in Proc :
    /\ InUse(p) => ptable[p].pid < nextpid
    /\ ptable[p].tid <= nextpid /\ thread[p] <= nextpid
    /\ \A q \in Proc : ptable[p].tid = ptable[q].tid /\ ptable[p].tid # 0 => p = q
    /\ pc[p] = "join2" =>
         /\ thread[p] # 0
         /\ \A q \in Proc : ptable[q].tid = thread[p] => q # p /\ SamePid(q, p)

(* The main thread of a slot in use is in use, its own main, and has its   *)
(* pid; where a process is tells whether it is a main thread.              *)
MainsInv ==
  \A p \in Proc :
    /\ InUse(p) => LET m == ptable[p].main
                   IN  m # NoProc /\ InUse(m) /\ IsMain(ptable, m) /\ SamePid(m, p)
    /\ pc[p] \in {"join", "join2", "exitDone", "execDone"} \cup Reaping => IsMain(ptable, p)
    /\ pc[p] = "texit" => ~IsMain(ptable, p)

(* A page table belongs to the threads of one process, which share it; the *)
(* process fork() is making has none yet.                                  *)
PageTablesInv ==
  /\ \A d \in vm : \E p \in Proc : ptable[p].pgdir = d
  /\ \A p \in Proc :
       /\ InUse(p) => IF ptable[p].state = "EMBRYO" /\ IsMain(ptable, p)
                      THEN ptable[p].pgdir = 0 ELSE ptable[p].pgdir \in vm
       /\ \A q \in Proc : InUse(p) /\ InUse(q) =>
            /\ SamePid(p, q) => ptable[p].pgdir = ptable[q].pgdir
            /\ ptable[p].pgdir = ptable[q].pgdir /\ ptable[p].pgdir # 0 => SamePid(p, q)

(* A thread that takes its process over: the old main thread is its child, *)
(* dead or killed, and it has no threads of its own yet.                   *)
ReapersInv ==
  \A p \in Proc :
    /\ oldmain[p] # NoProc <=> pc[p] \in Reaping
    /\ oldmain[p] \notin {NoProc, p} =>
         LET old == oldmain[p]
         IN  /\ ptable[old].state \notin {"UNUSED", "EMBRYO"}
             /\ IsMain(ptable, old) /\ SamePid(old, p) /\ ptable[old].parent = p
             /\ ptable[old].killed \/ ptable[old].state = "ZOMBIE"
             /\ \A q \in Proc : ptable[q].main = p => q = p

(* A process has one such thread at a time, and no second main thread      *)
(* otherwise.                                                              *)
TakeoverInv ==
  \A p \in Proc : \A q \in Proc \ {p} :
    InUse(p) /\ InUse(q) /\ SamePid(p, q) =>
      /\ ~(Takes(p) /\ Takes(q))
      /\ IsMain(ptable, p) /\ IsMain(ptable, q) => oldmain[p] = q \/ oldmain[q] = p

(* After thread_kill_others(), and when a main thread is dead, the process *)
(* has no other slot, but one that waits for this main thread to end.      *)
AloneInv ==
  \A p \in Proc :
    pc[p] \in {"exitDone", "execDone"} \/ (ptable[p].state = "ZOMBIE" /\ IsMain(ptable, p)) =>
      \A q \in Proc \ {p} : InUse(q) /\ SamePid(q, p) =>
        oldmain[q] = p /\ pc[p] # "execDone"

(* init is there, is not killed and does not exit, and it alone has pid 1; *)
(* a parent is another process that has not ended.                         *)
ParentsInv ==
  /\ ptable[initproc].pid = 1 /\ IsMain(ptable, initproc)
  /\ ptable[initproc].state \in {"RUNNABLE", "SLEEPING"}
  /\ ~ptable[initproc].killed /\ ptable[initproc].parent = NoProc
  /\ pc[initproc] \in {"user", "wait", "fork2"}
  /\ \A p \in Proc :
       /\ InUse(p) /\ ptable[p].pid = 1 => p = initproc
       /\ ptable[p].parent # NoProc =>
            /\ ptable[p].parent # p
            /\ ptable[ptable[p].parent].state \in {"RUNNABLE", "SLEEPING"}

(* What a sleeper waits for has not happened; NoLostExit in other words.   *)
SleepersInv ==
  \A p \in Proc : ptable[p].state = "SLEEPING" =>
    /\ pc[p] = "wait" =>
         \A c \in Proc : ptable[c].parent = p /\ IsMain(ptable, c) => ptable[c].state # "ZOMBIE"
    /\ pc[p] = "join2" =>
         \E q \in Proc : ptable[q].tid = thread[p] /\ Live(ptable, q)
    /\ pc[p] \in Reaping =>
         \E q \in Proc \ {p} :
           (ptable[q].main = p \/ oldmain[p] = q) /\ Live(ptable, q)

IndInv ==
  /\ TypeOK /\ SlotsInv /\ CreatorsInv /\ IdsInv /\ MainsInv
  /\ PageTablesInv /\ ReapersInv /\ TakeoverInv /\ AloneInv
  /\ ParentsInv /\ SleepersInv

LEMMA InitInv == ASSUME Init PROVE IndInv
<1> USE ThreadsAssumption DEF ThreadsAssumption, Init, Proc, initproc, NoProc, FreeSlot
<1>1. TypeOK
  <2>1. FreeSlot \in [state : States, pid : 0 .. MaxPid,
                      tid : 0 .. MaxPid + 1, main : Proc \cup {NoProc},
                      parent : Proc \cup {NoProc}, killed : BOOLEAN,
                      pgdir : PageTable \cup {0}]
    BY DEF States
  <2>2. /\ 1 \in PageTable /\ "RUNNABLE" \in States /\ {"user", "none"} \subseteq Places
        /\ initproc \in Proc /\ 1 \in 0 .. MaxPid /\ 2 \in 2 .. MaxPid + 1
    BY DEF PageTable, States, Places
  <2> HIDE DEF FreeSlot
  <2>3. ptable \in [Proc -> [state : States, pid : 0 .. MaxPid,
                            tid : 0 .. MaxPid + 1, main : Proc \cup {NoProc},
                            parent : Proc \cup {NoProc}, killed : BOOLEAN,
                            pgdir : PageTable \cup {0}]]
    <3>1. [FreeSlot EXCEPT !.state = "RUNNABLE", !.pid = 1, !.main = initproc, !.pgdir = 1]
            \in [state : States, pid : 0 .. MaxPid,
                 tid : 0 .. MaxPid + 1, main : Proc \cup {NoProc},
                 parent : Proc \cup {NoProc}, killed : BOOLEAN,
                 pgdir : PageTable \cup {0}]
      BY <2>1, <2>2
    <3> QED
      BY <2>1, <3>1
  <2>4. vm \subseteq PageTable /\ nextpid \in 2 .. MaxPid + 1 /\ panicked \in BOOLEAN
    BY <2>2
  <2>5. pc \in [Proc -> Places]
    BY <2>2
  <2> QED
    BY <2>3, <2>4, <2>5 DEF TypeOK
<1>2. SlotsInv /\ CreatorsInv /\ IdsInv /\ MainsInv
  BY DEF SlotsInv, CreatorsInv, IdsInv, MainsInv, InUse, IsMain, SamePid, Reaping
<1>3. PageTablesInv /\ ReapersInv /\ TakeoverInv /\ AloneInv /\ ParentsInv
      /\ SleepersInv
  BY DEF PageTablesInv, ReapersInv, TakeoverInv, AloneInv, ParentsInv, SleepersInv, InUse,
         IsMain, SamePid, Reaping
<1> QED
  BY <1>1, <1>2, <1>3 DEF IndInv

(* The types of what the proofs look at.                                   *)
LEMMA Types ==
  ASSUME IndInv
  PROVE  /\ NoProc \notin Proc /\ Proc \subseteq Nat /\ nextpid \in Nat /\ nextpid > 1
         /\ initproc \in Proc /\ vm \subseteq PageTable /\ 0 \notin PageTable
         /\ \A q \in Proc :
              /\ ptable[q].main \in Proc \cup {NoProc} /\ ptable[q].parent \in Proc \cup {NoProc}
              /\ ptable[q].pid \in Nat /\ ptable[q].tid \in Nat /\ thread[q] \in Nat
              /\ np[q] \in Proc \cup {NoProc} /\ oldmain[q] \in Proc \cup {NoProc}
              /\ ptable[q].killed \in BOOLEAN
<1>1. /\ NoProc \notin Proc /\ Proc \subseteq Nat /\ initproc \in Proc /\ 0 \notin PageTable
      /\ 0 .. MaxPid \subseteq Nat /\ 0 .. MaxPid + 1 \subseteq Nat
      /\ \A n \in 2 .. MaxPid + 1 : n \in Nat /\ n > 1
  BY ThreadsAssumption DEF Proc, NoProc, initproc, PageTable, ThreadsAssumption
<1> QED
  BY <1>1 DEF IndInv, TypeOK

(* A process goes on to another place and changes nothing else.            *)
LEMMA GoesOn ==
  ASSUME IndInv, NEW p \in Proc, NEW l,
         ptable[p].state = "RUNNABLE",
         pc[p] \in {"user", "wait", "create", "texit", "join", "join2", "exec"},
         l \in {"user", "wait", "create", "texit", "join", "exec", "exitKill"},
         l = "texit" => ~IsMain(ptable, p),
         l = "join" => IsMain(ptable, p),
         p = initproc => l \in {"user", "wait"},
         l = "exec" \/ (l = "exitKill" /\ ~IsMain(ptable, p)) =>
           \A q \in Proc \ {p} : SamePid(q, p) => ~Takes(q),
         pc' = [pc EXCEPT ![p] = l],
         UNCHANGED <<ptable, vm, nextpid, np, oldmain>>,
         thread' \in {thread, [thread EXCEPT ![p] = 0]},
         panicked' \in BOOLEAN
  PROVE  IndInv'
<1>0. /\ \A q \in Proc : pc'[q] = IF q = p THEN l ELSE pc[q]
      /\ \A q \in Proc \ {p} : thread'[q] = thread[q]
      /\ thread'[p] \in {thread[p], 0}
  BY DEF IndInv, TypeOK
<1>1. TypeOK'
  <2>1. thread' \in [Proc -> 0 .. MaxPid + 1]
    <3>1. 0 \in 0 .. MaxPid + 1
      BY ThreadsAssumption DEF ThreadsAssumption
    <3> QED
      BY <3>1 DEF IndInv, TypeOK
  <2> QED
    BY <2>1 DEF IndInv, TypeOK, Places
<1>2. SlotsInv'
  BY <1>0 DEF IndInv, SlotsInv, InUse, Reaping
<1>3. CreatorsInv'
  BY <1>0 DEF IndInv, CreatorsInv, InUse, SamePid, IsMain
<1>4. IdsInv'
  BY <1>0, Types DEF IndInv, IdsInv, InUse, SamePid
<1>5. MainsInv'
  BY <1>0 DEF IndInv, MainsInv, InUse, SamePid, IsMain, Reaping
<1>6. PageTablesInv'
  BY DEF IndInv, PageTablesInv, InUse, SamePid, IsMain
<1>7. ReapersInv'
  BY <1>0 DEF IndInv, ReapersInv, InUse, SamePid, IsMain, Reaping
<1>8. TakeoverInv'
  <2>1. \A q \in Proc \ {p} : Takes(q)' = Takes(q)
    BY <1>0 DEF Takes, IsMain, Live
  <2>2. Takes(p)' => l = "exec" \/ (l = "exitKill" /\ ~IsMain(ptable, p))
    BY <1>0 DEF Takes, IsMain, Live
  <2> QED
    BY <2>1, <2>2 DEF IndInv, TakeoverInv, InUse, SamePid, IsMain
<1>9. AloneInv'
  BY <1>0 DEF IndInv, AloneInv, InUse, SamePid, IsMain, Reaping
<1>10. SleepersInv'
  BY <1>0 DEF IndInv, SleepersInv, Reaping, Live, IsMain
<1>11. ParentsInv'
  BY <1>0, Types DEF IndInv, ParentsInv, InUse, IsMain
<1> QED
  BY <1>1, <1>2, <1>3, <1>4, <1>5, <1>6, <1>7, <1>8, <1>9, <1>10, <1>11 DEF IndInv

(* Where the way out of a system call leads.                               *)
LEMMA ReturnPlace ==
  ASSUME IndInv, NEW p \in Proc
  PROVE  LET l == UserOrExit(ptable, p)
         IN  /\ l \in {"user", "texit", "exitKill"}
             /\ l = "texit" => ~IsMain(ptable, p)
             /\ l = "exitKill" => IsMain(ptable, p)
             /\ p = initproc => l = "user"
BY DEF UserOrExit, ExitTest, IndInv, TypeOK, ParentsInv

(* A set of numbers that has an element has a first one.                   *)
LEMMA FirstOf ==
  ASSUME NEW S \in SUBSET Nat, S # {}
  PROVE  LET c == CHOOSE d \in S : \A e \in S : d <= e
         IN  c \in S /\ \A e \in S : c <= e
<1> DEFINE R == OpToRel(<, Nat)
<1>1. IsWellFoundedOn(R, Nat)
  BY NatLessThanWellFounded
<1>2. \A d, e \in Nat : e < d => <<e, d>> \in R
  BY DEF OpToRel
<1> HIDE DEF R
<1>3. PICK d \in S : \A e \in S : ~(<<e, d>> \in R)
  BY <1>1, WFMin
<1>4. ASSUME NEW e \in S PROVE d <= e
  <2>1. e \in Nat /\ d \in Nat
    OBVIOUS
  <2>2. ~(e < d)
    BY <1>2, <1>3, <2>1
  <2> QED
    BY <2>1, <2>2
<1> QED
  BY <1>4

LEMMA SyscallInv == ASSUME IndInv, OneTakeover, NEW p \in Proc, Syscall(p) PROVE IndInv'
<1> USE DEF Syscall, Called, At, Goto, locals
<1> PICK c \in AllCalls \ {"fork", "kill"} :
      /\ Called(p, c)
      /\ Goto(p, IF c = "exit" THEN ExitTest(ptable, p) ELSE c)
  OBVIOUS
<1> DEFINE l == IF c = "exit" THEN ExitTest(ptable, p) ELSE c
<1>1. l \in {"wait", "create", "texit", "join", "exec", "exitKill"}
  BY DEF AllCalls, ExitTest
<1>2. /\ l = "texit" => ~IsMain(ptable, p)
      /\ l = "join" => IsMain(ptable, p)
      /\ p = initproc => l = "wait"
  BY DEF ExitTest, MayCall
<1>3. l = "exec" \/ (l = "exitKill" /\ ~IsMain(ptable, p)) =>
        \A q \in Proc \ {p} : SamePid(q, p) => ~Takes(q)
  <2>1. CASE c = "exec"
    BY <2>1 DEF MayCall, SamePid
  <2>2. CASE c = "exit"
    BY <2>2 DEF MayCall, SamePid, ExitTest
  <2>3. CASE c \notin {"exec", "exit"}
    BY <2>3 DEF AllCalls
  <2> QED
    BY <2>1, <2>2, <2>3
<1> QED
  BY <1>1, <1>2, <1>3, GoesOn DEF IndInv, TypeOK

LEMMA TrapKillsInv == ASSUME IndInv, NEW p \in Proc, TrapKills(p) PROVE IndInv'
<1>1. LET l == ExitTest(ptable, p)
      IN  /\ l \in {"texit", "exitKill"}
          /\ l = "texit" => ~IsMain(ptable, p)
          /\ l = "exitKill" => IsMain(ptable, p)
          /\ p # initproc
  BY DEF TrapKills, ExitTest, IndInv, ParentsInv
<1> QED
  BY <1>1, GoesOn DEF TrapKills, At, Goto, locals, IndInv, TypeOK

LEMMA JoinNoneInv == ASSUME IndInv, NEW p \in Proc, JoinNone(p) PROVE IndInv'
BY ReturnPlace, GoesOn DEF JoinNone, At, Return, Goto, locals, IndInv, TypeOK

LEMMA ExecFailsInv == ASSUME IndInv, NEW p \in Proc, ExecFails(p) PROVE IndInv'
BY ReturnPlace, GoesOn DEF ExecFails, At, Return, Goto, locals, IndInv, TypeOK

LEMMA CreateFailsInv == ASSUME IndInv, NEW p \in Proc, CreateFails(p) PROVE IndInv'
<1>1. pc' = [pc EXCEPT ![p] = "create"] /\ p # initproc
  BY DEF CreateFails, At, IndInv, TypeOK, ParentsInv
<1> QED
  BY <1>1, GoesOn DEF CreateFails, At, locals

(* Allocproc() takes a slot that is not in use.                            *)
LEMMA FreshSlot ==
  ASSUME IndInv, Unused # {}
  PROVE  FirstUnused \in Proc /\ ~InUse(FirstUnused)
<1>1. Unused \in SUBSET Nat
  BY ThreadsAssumption DEF Unused, Proc, ThreadsAssumption
<1>2. FirstUnused \in Unused
  BY <1>1, FirstOf DEF FirstUnused
<1> QED
  BY <1>2 DEF Unused, InUse

LEMMA ForkAllocInv == ASSUME IndInv, NEW p \in Proc, ForkAlloc(p) PROVE IndInv'
<1>1. PICK n \in Proc : n = FirstUnused /\ ~InUse(n) /\ n # p
  BY FreshSlot DEF ForkAlloc, Called, At, InUse
<1>2. /\ ptable' = [ptable EXCEPT ![n].state = "EMBRYO", ![n].pid = nextpid, ![n].tid = 0,
                                  ![n].main = n]
      /\ nextpid' = nextpid + 1 /\ nextpid <= MaxPid
      /\ pc' = [pc EXCEPT ![p] = "fork2"] /\ np' = [np EXCEPT ![p] = n]
      /\ pc[p] = "user" /\ ptable[p].state = "RUNNABLE"
      /\ UNCHANGED <<vm, panicked, oldmain, thread>>
  BY <1>1 DEF ForkAlloc, Called, At, Goto, Allocproc
<1>3. /\ \A q \in Proc : q # n => ptable'[q] = ptable[q]
      /\ ptable'[n].state = "EMBRYO" /\ ptable'[n].pid = nextpid /\ ptable'[n].tid = 0
      /\ ptable'[n].main = n /\ ptable'[n].parent = ptable[n].parent
      /\ ptable'[n].pgdir = ptable[n].pgdir /\ ptable'[n].killed = ptable[n].killed
      /\ \A q \in Proc : pc'[q] = IF q = p THEN "fork2" ELSE pc[q]
      /\ \A q \in Proc : np'[q] = IF q = p THEN n ELSE np[q]
  BY <1>1, <1>2, ThreadsAssumption DEF IndInv, TypeOK, ThreadsAssumption
<1>4. TypeOK'
  <2>1. /\ nextpid \in 0 .. MaxPid /\ nextpid' \in 2 .. MaxPid + 1 /\ 0 \in 0 .. MaxPid + 1
        /\ "EMBRYO" \in States /\ "fork2" \in Places
    BY <1>2, ThreadsAssumption DEF IndInv, TypeOK, ThreadsAssumption, States, Places
  <2>2. ptable' \in [Proc -> Slot]
    <3>1. [ptable[n] EXCEPT !.state = "EMBRYO", !.pid = nextpid, !.tid = 0, !.main = n] \in Slot
      BY ZenonT(60), <2>1 DEF IndInv, TypeOK, Slot
    <3>2. ptable' = [q \in Proc |->
                       IF q = n THEN [ptable[n] EXCEPT !.state = "EMBRYO", !.pid = nextpid,
                                                       !.tid = 0, !.main = n]
                       ELSE ptable[q]]
      BY <1>2 DEF IndInv, TypeOK
    <3> QED
      BY <3>1, <3>2 DEF IndInv, TypeOK, Slot
  <2>3. pc' \in [Proc -> Places] /\ np' \in [Proc -> Proc \cup {NoProc}]
    BY <1>1, <1>2, <2>1 DEF IndInv, TypeOK
  <2> QED
    BY <1>2, <2>1, <2>2, <2>3 DEF IndInv, TypeOK, Slot
<1>5. ~InUse(n) /\ n # p /\ UNCHANGED <<vm, panicked, oldmain, thread>> /\ nextpid' = nextpid + 1 /\ pc[p] = "user"
      /\ ptable[p].state = "RUNNABLE"
  BY <1>1, <1>2
<1>6. SlotsInv'
  BY <1>3, <1>5, Types DEF IndInv, SlotsInv, InUse, Reaping
<1>7. CreatorsInv'
  <2>1. \A q \in Proc : InUse(q) => ptable[q].pid # nextpid
    BY <1>3, Types DEF IndInv, IdsInv
  <2>2. \A q \in Proc : np[q] # n
    BY <1>3, <1>5, Types DEF IndInv, CreatorsInv, InUse
  <2> QED
    BY <1>3, <1>5, Types, <2>1, <2>2 DEF IndInv, CreatorsInv, SlotsInv, InUse, SamePid, IsMain
<1>8. IdsInv'
  BY <1>3, <1>5, Types DEF IndInv, IdsInv, SlotsInv, InUse, SamePid
<1>9. MainsInv'
  BY <1>3, <1>5, Types DEF IndInv, MainsInv, SlotsInv, InUse, SamePid, IsMain, Reaping
<1>10. PageTablesInv'
  BY <1>3, <1>5, Types DEF IndInv, PageTablesInv, SlotsInv, InUse, SamePid, IsMain, IdsInv
<1>11. ReapersInv'
  BY <1>3, <1>5, Types DEF IndInv, ReapersInv, SlotsInv, InUse, SamePid, IsMain, Reaping
<1>12. TakeoverInv'
  <2>1. \A q \in Proc : Takes(q)' => Takes(q)
    BY <1>3, <1>5, Types DEF IndInv, SlotsInv, Takes, IsMain, Live, InUse
  <2>2. \A q \in Proc \ {n} : InUse(q) => ~SamePid(q, n)' /\ ~SamePid(n, q)'
    BY <1>3, <1>5, Types DEF IndInv, IdsInv, InUse, SamePid
  <2> QED
    BY <1>3, <1>5, Types, <2>1, <2>2 DEF IndInv, TakeoverInv, InUse, SamePid, IsMain
<1>13. AloneInv'
  <2>1. \A q \in Proc \ {n} : InUse(q) => ~SamePid(q, n)' /\ ~SamePid(n, q)'
    BY <1>3, <1>5, Types DEF IndInv, IdsInv, InUse, SamePid
  <2> QED
    BY <1>3, <1>5, Types, <2>1 DEF IndInv, AloneInv, SlotsInv, InUse, SamePid, IsMain
<1>14. SleepersInv'
  BY <1>3, <1>5, Types DEF IndInv, SleepersInv, SlotsInv, Live, IsMain, InUse, Reaping
<1>15. ParentsInv'
  BY <1>3, <1>5, Types DEF IndInv, ParentsInv, SlotsInv, IsMain, InUse
<1> QED
  BY <1>4, <1>6, <1>7, <1>8, <1>9, <1>10, <1>11, <1>12, <1>13, <1>14, <1>15 DEF IndInv

(* fork() failed: the new slot is given back.                              *)
LEMMA ForkNoMemoryInv == ASSUME IndInv, NEW p \in Proc, ForkNoMemory(p) PROVE IndInv'
<1> DEFINE n == np[p]
<1>1. PICK k \in Proc : /\ k = n /\ k # p /\ ptable[k].state = "EMBRYO" /\ IsMain(ptable, k)
                        /\ \A q \in Proc : InUse(q) /\ SamePid(q, k) => q = k
                        /\ ptable[k].pgdir = 0 /\ ptable[k].tid = 0
                        /\ ptable[k].parent = NoProc
  BY Types DEF ForkNoMemory, At, IndInv, CreatorsInv, PageTablesInv, InUse
<1>2. PICK l : /\ l \in {"user", "texit", "exitKill"}
               /\ l = "texit" => ~IsMain(ptable, p)
               /\ l = "exitKill" => IsMain(ptable, p)
               /\ p = initproc => l = "user"
               /\ pc' = [pc EXCEPT ![p] = l]
  BY ReturnPlace DEF ForkNoMemory, Return, Goto
<1>3. /\ ptable' = [ptable EXCEPT ![k].state = "UNUSED", ![k].main = NoProc]
      /\ np' = [np EXCEPT ![p] = NoProc]
  BY <1>1 DEF ForkNoMemory
<1>4. /\ \A q \in Proc : q # k => ptable'[q] = ptable[q]
      /\ ptable'[k].state = "UNUSED" /\ ptable'[k].main = NoProc
      /\ ptable'[k].pid = ptable[k].pid /\ ptable'[k].tid = 0
      /\ ptable'[k].parent = ptable[k].parent /\ ptable'[k].pgdir = 0
      /\ \A q \in Proc : pc'[q] = IF q = p THEN l ELSE pc[q]
      /\ \A q \in Proc : np'[q] = IF q = p THEN NoProc ELSE np[q]
      /\ UNCHANGED <<vm, nextpid, panicked, oldmain, thread>>
      /\ pc[p] = "fork2" /\ ptable[p].state = "RUNNABLE"
  BY <1>1, <1>2, <1>3 DEF IndInv, TypeOK, ForkNoMemory, At
<1>5. TypeOK'
  <2>1. "UNUSED" \in States /\ {"user", "texit", "exitKill"} \subseteq Places
    BY DEF States, Places
  <2>2. ptable' \in [Proc -> Slot]
    <3>1. [ptable[k] EXCEPT !.state = "UNUSED", !.main = NoProc] \in Slot
      BY ZenonT(60), <2>1 DEF IndInv, TypeOK, Slot
    <3>2. ptable' = [q \in Proc |-> IF q = k THEN [ptable[k] EXCEPT !.state = "UNUSED",
                                                                    !.main = NoProc]
                                    ELSE ptable[q]]
      BY <1>3 DEF IndInv, TypeOK
    <3> QED
      BY <3>1, <3>2 DEF IndInv, TypeOK, Slot
  <2> QED
    BY <1>2, <1>3, <1>4, <2>1, <2>2 DEF IndInv, TypeOK, Slot
<1>6. SlotsInv'
  BY <1>1, <1>2, <1>4, Types DEF IndInv, SlotsInv, InUse, Reaping
<1>7. CreatorsInv'
  BY <1>1, <1>2, <1>4, Types DEF IndInv, CreatorsInv, InUse, SamePid, IsMain
<1>8. IdsInv'
  BY <1>1, <1>2, <1>4, Types DEF IndInv, IdsInv, InUse, SamePid
<1>9. MainsInv'
  <2>1. \A q \in Proc \ {k} : InUse(q) => ptable[q].main # k
    BY <1>1 DEF IndInv, MainsInv, SamePid
  <2> QED
    BY <1>1, <1>2, <1>4, <2>1, Types DEF IndInv, MainsInv, SlotsInv, InUse, SamePid, IsMain, Reaping
<1>10. PageTablesInv'
  BY <1>1, <1>2, <1>4, Types DEF IndInv, PageTablesInv, InUse, SamePid, IsMain
<1>11. ReapersInv'
  BY <1>1, <1>2, <1>4, Types DEF IndInv, ReapersInv, InUse, SamePid, IsMain, Reaping
<1>12. TakeoverInv'
  <2>1. \A q \in Proc : Takes(q)' => Takes(q)
    BY <1>1, <1>2, <1>4, Types DEF Takes, IsMain, Live
  <2> QED
    BY <1>1, <1>2, <1>4, <2>1, Types DEF IndInv, TakeoverInv, InUse, SamePid, IsMain
<1>13. AloneInv'
  BY <1>1, <1>2, <1>4, Types DEF IndInv, AloneInv, InUse, SamePid, IsMain
<1>14. SleepersInv'
  BY <1>1, <1>2, <1>4, Types DEF IndInv, SleepersInv, IdsInv, ReapersInv, Live, IsMain, Reaping
<1>15. ParentsInv'
  BY <1>1, <1>2, <1>4, Types DEF IndInv, ParentsInv, IsMain, InUse
<1> QED
  BY <1>5, <1>6, <1>7, <1>8, <1>9, <1>10, <1>11, <1>12, <1>13, <1>14, <1>15 DEF IndInv

(* There is always a page table that is not allocated: every slot has at   *)
(* most one, and there is one more.                                        *)
LEMMA FreshPageTable == ASSUME IndInv PROVE NewPageTable \in PageTable \ vm
<1>1. vm # PageTable
  <2>1. SUFFICES ASSUME vm = PageTable PROVE FALSE
    OBVIOUS
  <2> DEFINE f == [d \in PageTable |-> CHOOSE p \in Proc : ptable[p].pgdir = d]
  <2>2. \A d \in PageTable : f[d] \in Proc /\ ptable[f[d]].pgdir = d
    BY <2>1 DEF IndInv, PageTablesInv
  <2>3. f \in [PageTable -> Proc]
    BY <2>2
  <2>4. /\ IsFiniteSet(PageTable) /\ Cardinality(PageTable) = NPROC + 1
        /\ IsFiniteSet(Proc) /\ Cardinality(Proc) = NPROC
    BY ThreadsAssumption, FS_Interval DEF PageTable, Proc, ThreadsAssumption
  <2> HIDE DEF f
  <2>5. \E c, d \in PageTable : c # d /\ f[c] = f[d]
    BY <2>3, <2>4, FS_PigeonHole, ThreadsAssumption DEF ThreadsAssumption
  <2> QED
    BY <2>2, <2>5
<1>2. PageTable \ vm # {} /\ PageTable \ vm \in SUBSET Nat
  <2>1. PageTable \subseteq Nat
    BY ThreadsAssumption DEF PageTable, ThreadsAssumption
  <2> QED
    BY <1>1, <2>1, Types
<1> QED
  BY <1>2, FirstOf DEF NewPageTable

(* The new process starts, with a page table of its own.                   *)
LEMMA ForkDoneInv == ASSUME IndInv, NEW p \in Proc, ForkDone(p) PROVE IndInv'
<1>1. PICK k \in Proc : /\ k = np[p] /\ k # p /\ ptable[k].state = "EMBRYO" /\ IsMain(ptable, k)
                        /\ \A q \in Proc : InUse(q) /\ SamePid(q, k) => q = k
                        /\ ptable[k].pgdir = 0 /\ ptable[k].tid = 0
                        /\ ptable[k].parent = NoProc
  BY Types DEF ForkDone, At, IndInv, CreatorsInv, PageTablesInv, InUse
<1>2. PICK l : /\ l \in {"user", "texit", "exitKill"}
               /\ l = "texit" => ~IsMain(ptable, p)
               /\ l = "exitKill" => IsMain(ptable, p)
               /\ p = initproc => l = "user"
               /\ l = UserOrExit(ptable, p)
  BY ReturnPlace
<1>3. PICK d \in PageTable \ vm : d = NewPageTable
  BY FreshPageTable
<1>4. /\ ptable' = [ptable EXCEPT ![k].state = "RUNNABLE", ![k].pgdir = d, ![k].parent = p]
      /\ vm' = vm \cup {d}
      /\ pc' = [pc EXCEPT ![k] = "user", ![p] = l]
      /\ np' = [np EXCEPT ![p] = NoProc]
      /\ pc[p] = "fork2" /\ ptable[p].state = "RUNNABLE"
      /\ UNCHANGED <<nextpid, panicked, oldmain, thread>>
  BY <1>1, <1>2, <1>3 DEF ForkDone, At
<1>5. /\ \A q \in Proc : q # k => ptable'[q] = ptable[q]
      /\ ptable'[k].state = "RUNNABLE" /\ ptable'[k].main = k
      /\ ptable'[k].pid = ptable[k].pid /\ ptable'[k].tid = 0
      /\ ptable'[k].parent = p /\ ptable'[k].pgdir = d
      /\ \A q \in Proc : pc'[q] = IF q = p THEN l ELSE IF q = k THEN "user" ELSE pc[q]
      /\ \A q \in Proc : np'[q] = IF q = p THEN NoProc ELSE np[q]
      /\ UNCHANGED <<nextpid, panicked, oldmain, thread>>
      /\ vm' = vm \cup {d}
      /\ pc[p] = "fork2" /\ ptable[p].state = "RUNNABLE"
  BY <1>1, <1>4 DEF IndInv, TypeOK, IsMain
<1>6. TypeOK'
  <2>1. "RUNNABLE" \in States /\ {"user", "texit", "exitKill"} \subseteq Places
    BY DEF States, Places
  <2>2. ptable' \in [Proc -> Slot]
    <3>1. [ptable[k] EXCEPT !.state = "RUNNABLE", !.pgdir = d, !.parent = p] \in Slot
      BY ZenonT(60), <2>1 DEF IndInv, TypeOK, Slot
    <3>2. ptable' = [q \in Proc |-> IF q = k THEN [ptable[k] EXCEPT !.state = "RUNNABLE",
                                                            !.pgdir = d, !.parent = p]
                                    ELSE ptable[q]]
      BY <1>4 DEF IndInv, TypeOK
    <3> QED
      BY <3>1, <3>2 DEF IndInv, TypeOK, Slot
  <2> QED
    BY <1>2, <1>4, <2>1, <2>2 DEF IndInv, TypeOK, Slot
<1>7. SlotsInv'
  BY <1>1, <1>2, <1>5, Types DEF IndInv, SlotsInv, InUse, Reaping
<1>8. CreatorsInv'
  BY <1>1, <1>2, <1>5, Types DEF IndInv, CreatorsInv, SlotsInv, InUse, SamePid, IsMain
<1>9. IdsInv'
  BY <1>1, <1>2, <1>5, Types DEF IndInv, IdsInv, InUse, SamePid
<1>10. MainsInv'
  BY <1>1, <1>2, <1>5, Types DEF IndInv, MainsInv, InUse, SamePid, IsMain, Reaping
<1>11. PageTablesInv'
  BY <1>1, <1>2, <1>3, <1>5, Types DEF IndInv, PageTablesInv, SlotsInv, InUse, SamePid, IsMain
<1>12. ReapersInv'
  BY <1>1, <1>2, <1>5, Types DEF IndInv, ReapersInv, SlotsInv, InUse, SamePid, IsMain, Reaping
<1>13. TakeoverInv'
  <2>1. \A q \in Proc : Takes(q)' => Takes(q)
    BY <1>1, <1>2, <1>5, Types DEF Takes, IsMain, Live
  <2> QED
    BY <1>1, <1>2, <1>5, <2>1, Types DEF IndInv, TakeoverInv, InUse, SamePid, IsMain
<1>14. AloneInv'
  BY <1>1, <1>2, <1>5, Types DEF IndInv, AloneInv, SlotsInv, InUse, SamePid, IsMain
<1>15. SleepersInv'
  BY <1>1, <1>2, <1>5, Types DEF IndInv, SleepersInv, SlotsInv, IdsInv, ReapersInv, Live, IsMain,
     Reaping
<1>16. ParentsInv'
  BY <1>1, <1>2, <1>5, Types DEF IndInv, ParentsInv, SlotsInv, IsMain, InUse
<1> QED
  BY <1>6, <1>7, <1>8, <1>9, <1>10, <1>11, <1>12, <1>13, <1>14, <1>15, <1>16 DEF IndInv

(* A new thread gets what its main thread has.                             *)
LEMMA CreateInv == ASSUME IndInv, NEW p \in Proc, Create(p) PROVE IndInv'
<1>1. PICK n \in Proc : n = FirstUnused /\ ~InUse(n) /\ n # p
  BY FreshSlot DEF Create, At, InUse
<1>2. PICK m \in Proc : /\ m = ptable[p].main /\ InUse(m) /\ IsMain(ptable, m) /\ SamePid(m, p)
                        /\ m # n
  BY <1>1, Types DEF Create, At, IndInv, MainsInv, InUse
<1>a. PICK t : t = [ptable EXCEPT ![n].state = "EMBRYO", ![n].pid = nextpid, ![n].tid = 0,
                                  ![n].main = n]
  OBVIOUS
<1>3. /\ ptable' = [t EXCEPT ![n].pgdir = ptable[m].pgdir, ![n].pid = ptable[m].pid,
                       ![n].tid = nextpid + 1, ![n].parent = ptable[m].parent, ![n].main = m]
      /\ nextpid' = nextpid + 1 /\ nextpid <= MaxPid
      /\ pc' = [pc EXCEPT ![p] = "create2"] /\ np' = [np EXCEPT ![p] = n]
      /\ pc[p] = "create" /\ ptable[p].state = "RUNNABLE"
      /\ UNCHANGED <<vm, panicked, oldmain, thread>>
  BY <1>1, <1>2, <1>a DEF Create, At, Goto, Allocproc
<1>b. /\ nextpid \in 0 .. MaxPid /\ nextpid' \in 2 .. MaxPid + 1
      /\ nextpid + 1 \in 0 .. MaxPid + 1 /\ 0 \in 0 .. MaxPid + 1
      /\ "EMBRYO" \in States /\ "create2" \in Places
  BY <1>3, ThreadsAssumption DEF IndInv, TypeOK, ThreadsAssumption, States, Places
<1>c. t \in [Proc -> Slot] /\ t[n].state = "EMBRYO" /\ \A q \in Proc : q # n => t[q] = ptable[q]
  <2>1. [ptable[n] EXCEPT !.state = "EMBRYO", !.pid = nextpid, !.tid = 0, !.main = n] \in Slot
    BY ZenonT(60), <1>b DEF IndInv, TypeOK, Slot
  <2>2. t = [q \in Proc |-> IF q = n THEN [ptable[n] EXCEPT !.state = "EMBRYO", !.pid = nextpid,
                                                       !.tid = 0, !.main = n]
                            ELSE ptable[q]]
    BY <1>a DEF IndInv, TypeOK
  <2> QED
    BY <2>1, <2>2 DEF IndInv, TypeOK, Slot
<1>4. /\ \A q \in Proc : q # n => ptable'[q] = ptable[q]
      /\ ptable'[n].state = "EMBRYO" /\ ptable'[n].pid = ptable[m].pid
      /\ ptable'[n].tid = nextpid + 1 /\ ptable'[n].main = m
      /\ ptable'[n].parent = ptable[m].parent /\ ptable'[n].pgdir = ptable[m].pgdir
      /\ \A q \in Proc : pc'[q] = IF q = p THEN "create2" ELSE pc[q]
      /\ \A q \in Proc : np'[q] = IF q = p THEN n ELSE np[q]
      /\ nextpid' = nextpid + 1 /\ UNCHANGED <<vm, panicked, oldmain, thread>>
      /\ pc[p] = "create" /\ ptable[p].state = "RUNNABLE"
  <2>1. ptable' = [q \in Proc |->
            IF q = n
            THEN [t[n] EXCEPT !.pgdir = ptable[m].pgdir, !.pid = ptable[m].pid, !.tid = nextpid + 1,
                              !.parent = ptable[m].parent, !.main = m]
            ELSE t[q]]
    BY <1>3, <1>c
  <2>2. t[n] \in Slot
    BY <1>c
  <2>3. ptable'[n] = [t[n] EXCEPT !.pgdir = ptable[m].pgdir, !.pid = ptable[m].pid,
                        !.tid = nextpid + 1, !.parent = ptable[m].parent, !.main = m]
    BY <2>1
  <2>4. /\ ptable'[n].state = "EMBRYO" /\ ptable'[n].pid = ptable[m].pid
        /\ ptable'[n].tid = nextpid + 1 /\ ptable'[n].main = m
        /\ ptable'[n].parent = ptable[m].parent /\ ptable'[n].pgdir = ptable[m].pgdir
    BY <2>2, <2>3, <1>c DEF Slot
  <2>5. /\ \A q \in Proc : pc'[q] = IF q = p THEN "create2" ELSE pc[q]
        /\ \A q \in Proc : np'[q] = IF q = p THEN n ELSE np[q]
    BY <1>3 DEF IndInv, TypeOK
  <2>6. \A q \in Proc : q # n => ptable'[q] = ptable[q]
    <3>1. \A q \in Proc : q # n => ptable'[q] = t[q]
      BY <2>1
    <3> QED
      BY <3>1, <1>c
  <2>7. /\ nextpid' = nextpid + 1 /\ UNCHANGED <<vm, panicked, oldmain, thread>>
        /\ pc[p] = "create" /\ ptable[p].state = "RUNNABLE"
    BY <1>3
  <2> QED
    BY <2>4, <2>5, <2>6, <2>7
<1>5. TypeOK'
  <2>1. ptable' \in [Proc -> Slot]
    <3>1. [t[n] EXCEPT !.pgdir = ptable[m].pgdir, !.pid = ptable[m].pid, !.tid = nextpid + 1,
                       !.parent = ptable[m].parent, !.main = m] \in Slot
      <4>1. t[n] \in Slot /\ ptable[m] \in Slot
        BY <1>c DEF IndInv, TypeOK, Slot
      <4>2. /\ ptable[m].pgdir \in PageTable \cup {0} /\ ptable[m].pid \in 0 .. MaxPid
            /\ ptable[m].parent \in Proc \cup {NoProc} /\ m \in Proc \cup {NoProc}
        BY <4>1 DEF Slot
      <4> QED
        BY <1>b, <4>1, <4>2 DEF Slot
    <3>2. ptable' = [q \in Proc |->
            IF q = n
            THEN [t[n] EXCEPT !.pgdir = ptable[m].pgdir, !.pid = ptable[m].pid, !.tid = nextpid + 1,
                              !.parent = ptable[m].parent, !.main = m]
            ELSE t[q]]
      BY <1>3, <1>c
    <3> QED
      BY <1>c, <3>1, <3>2
  <2>2. pc' \in [Proc -> Places] /\ np' \in [Proc -> Proc \cup {NoProc}]
    BY <1>1, <1>3, <1>b DEF IndInv, TypeOK
  <2> QED
    BY <1>3, <1>b, <2>1, <2>2 DEF IndInv, TypeOK, Slot
<1>6. SlotsInv'
  BY <1>1, <1>2, <1>4, Types DEF IndInv, SlotsInv, InUse, Reaping
<1>7. CreatorsInv'
  <2>1. \A q \in Proc : np[q] # n
    BY <1>1, <1>2, Types DEF IndInv, CreatorsInv, InUse
  <2>2. \A q \in Proc : pc[q] = "fork2" => ptable[np[q]].pid # ptable[m].pid
    BY <1>1, <1>2, <1>4, Types DEF IndInv, CreatorsInv, InUse, SamePid
  <2> QED
    BY <1>1, <1>2, <1>4, <2>1, <2>2, Types DEF IndInv, CreatorsInv, InUse, SamePid, IsMain
<1>8. IdsInv'
  <2>1. \A q \in Proc : ptable[q].tid < nextpid + 1 /\ thread[q] < nextpid + 1
    BY Types DEF IndInv, IdsInv
  <2>2. \A q \in Proc : ptable'[q].tid <= nextpid' /\ thread'[q] <= nextpid'
    BY <1>4, <2>1, Types
  <2>3. \A q, r \in Proc : ptable'[q].tid = ptable'[r].tid /\ ptable'[q].tid # 0 => q = r
    BY <1>4, <2>1, Types DEF IndInv, IdsInv
  <2>4. \A q \in Proc : InUse(q)' => ptable'[q].pid < nextpid'
    BY <1>1, <1>2, <1>4, Types DEF IndInv, IdsInv, InUse
  <2>5. \A q \in Proc : pc'[q] = "join2" =>
           /\ thread'[q] # 0
           /\ \A r \in Proc : ptable'[r].tid = thread'[q] => r # q /\ SamePid(r, q)'
    BY <1>1, <1>4, <2>1, Types DEF IndInv, IdsInv, SlotsInv, InUse, SamePid
  <2> QED
    BY <2>2, <2>3, <2>4, <2>5 DEF IdsInv
<1>9. MainsInv'
  BY <1>1, <1>2, <1>4, Types DEF IndInv, MainsInv, SlotsInv, InUse, SamePid, IsMain, Reaping
<1>10. PageTablesInv'
  <2>1. ptable[m].pgdir \in vm
    BY <1>1, <1>2, <1>4, Types DEF IndInv, PageTablesInv, CreatorsInv, InUse, SamePid, IsMain
  <2> QED
    BY SMTT(30), <1>1, <1>2, <1>4, <2>1, Types DEF IndInv, PageTablesInv, SlotsInv, InUse, SamePid, IsMain
<1>11. ReapersInv'
  <2>1. \A q \in Proc : oldmain[q] # NoProc /\ oldmain[q] # q => m # q
    BY <1>1, <1>2, <1>4, Types DEF IndInv, ReapersInv, Reaping, InUse
  <2> QED
    BY <1>1, <1>2, <1>4, <2>1, Types
    DEF IndInv, ReapersInv, SlotsInv, InUse, SamePid, IsMain, Reaping
<1>12. TakeoverInv'
  <2>1. \A q \in Proc : Takes(q)' => Takes(q) /\ q # n
    BY <1>1, <1>2, <1>4, Types DEF IndInv, SlotsInv, Takes, IsMain, Live, InUse
  <2> QED
    BY <1>1, <1>2, <1>4, <2>1, Types DEF IndInv, TakeoverInv, InUse, SamePid, IsMain
<1>13. AloneInv'
  BY <1>1, <1>2, <1>4, Types DEF IndInv, AloneInv, SlotsInv, ReapersInv, InUse, SamePid, IsMain, Reaping
<1>14. SleepersInv'
  BY <1>1, <1>2, <1>4, Types DEF IndInv, SleepersInv, SlotsInv, Live, IsMain, InUse, Reaping
<1>15. ParentsInv'
  BY <1>1, <1>2, <1>4, Types DEF IndInv, ParentsInv, SlotsInv, IsMain, InUse, SamePid
<1> QED
  BY <1>5, <1>6, <1>7, <1>8, <1>9, <1>10, <1>11, <1>12, <1>13, <1>14, <1>15 DEF IndInv

LEMMA CreateDoneInv == ASSUME IndInv, NEW p \in Proc, CreateDone(p) PROVE IndInv'
<1>1. PICK k \in Proc : /\ k = np[p] /\ k # p /\ ptable[k].state = "EMBRYO" /\ ~IsMain(ptable, k)
                        /\ pc[k] = "none"
  BY Types DEF CreateDone, At, IndInv, CreatorsInv, SlotsInv
<1>2. PICK l : /\ l \in {"user", "texit", "exitKill"}
               /\ l = "texit" => ~IsMain(ptable, p)
               /\ l = "exitKill" => IsMain(ptable, p)
               /\ p = initproc => l = "user"
               /\ l = UserOrExit(ptable, p)
  BY ReturnPlace
<1>3. /\ ptable' = [ptable EXCEPT ![k].state = "RUNNABLE"]
      /\ pc' = [pc EXCEPT ![k] = "user", ![p] = l]
      /\ np' = [np EXCEPT ![p] = NoProc]
      /\ pc[p] = "create2" /\ ptable[p].state = "RUNNABLE"
      /\ UNCHANGED <<vm, nextpid, panicked, oldmain, thread>>
  BY <1>1, <1>2 DEF CreateDone, At
<1>4. /\ \A q \in Proc : q # k => ptable'[q] = ptable[q]
      /\ ptable'[k].state = "RUNNABLE" /\ ptable'[k].main = ptable[k].main
      /\ ptable'[k].pid = ptable[k].pid /\ ptable'[k].tid = ptable[k].tid
      /\ ptable'[k].parent = ptable[k].parent /\ ptable'[k].pgdir = ptable[k].pgdir
      /\ ptable'[k].killed = ptable[k].killed
      /\ \A q \in Proc : pc'[q] = IF q = p THEN l ELSE IF q = k THEN "user" ELSE pc[q]
      /\ \A q \in Proc : np'[q] = IF q = p THEN NoProc ELSE np[q]
      /\ UNCHANGED <<vm, nextpid, panicked, oldmain, thread>>
      /\ pc[p] = "create2" /\ ptable[p].state = "RUNNABLE"
  BY <1>1, <1>3 DEF IndInv, TypeOK
<1>5. TypeOK'
  <2>1. "RUNNABLE" \in States /\ {"user", "texit", "exitKill"} \subseteq Places
    BY DEF States, Places
  <2>2. ptable' \in [Proc -> Slot]
    BY <1>3, <2>1 DEF IndInv, TypeOK, Slot
  <2> QED
    BY <1>2, <1>3, <2>1, <2>2 DEF IndInv, TypeOK, Slot
<1>6. SlotsInv'
  BY <1>1, <1>2, <1>4, Types DEF IndInv, SlotsInv, InUse, Reaping
<1>7. CreatorsInv'
  BY <1>1, <1>2, <1>4, Types DEF IndInv, CreatorsInv, SlotsInv, InUse, SamePid, IsMain
<1>8. IdsInv'
  BY <1>1, <1>2, <1>4, Types DEF IndInv, IdsInv, InUse, SamePid
<1>9. MainsInv'
  BY <1>1, <1>2, <1>4, Types DEF IndInv, MainsInv, InUse, SamePid, IsMain, Reaping
<1>10. PageTablesInv'
  BY <1>1, <1>2, <1>4, Types DEF IndInv, PageTablesInv, SlotsInv, InUse, SamePid, IsMain
<1>11. ReapersInv'
  BY <1>1, <1>2, <1>4, Types DEF IndInv, ReapersInv, SlotsInv, InUse, SamePid, IsMain, Reaping
<1>12. TakeoverInv'
  <2>1. \A q \in Proc : Takes(q)' => Takes(q)
    BY <1>1, <1>2, <1>4, Types DEF Takes, IsMain, Live
  <2> QED
    BY <1>1, <1>2, <1>4, <2>1, Types DEF IndInv, TakeoverInv, InUse, SamePid, IsMain
<1>13. AloneInv'
  BY <1>1, <1>2, <1>4, Types DEF IndInv, AloneInv, SlotsInv, InUse, SamePid, IsMain
<1>14. SleepersInv'
  BY <1>1, <1>2, <1>4, Types DEF IndInv, SleepersInv, SlotsInv, Live, IsMain, Reaping
<1>15. ParentsInv'
  BY <1>1, <1>2, <1>4, Types DEF IndInv, ParentsInv, SlotsInv, IsMain, InUse
<1> QED
  BY <1>5, <1>6, <1>7, <1>8, <1>9, <1>10, <1>11, <1>12, <1>13, <1>14, <1>15 DEF IndInv


(* What exit() and thread_exit() do to the table when w is woken.          *)
LEMMA DyingTable ==
  ASSUME IndInv, NEW p \in Proc, NEW w \in (Proc \cup {NoProc}) \ {p},
         ptable[p].state = "RUNNABLE",
         ptable' = [Reparent(Wakeup1(ptable, w), p) EXCEPT ![p].state = "ZOMBIE"]
  PROVE  /\ ptable' \in [Proc -> Slot]
         /\ \A q \in Proc :
              /\ ptable'[q].pid = ptable[q].pid /\ ptable'[q].tid = ptable[q].tid
              /\ ptable'[q].main = ptable[q].main /\ ptable'[q].killed = ptable[q].killed
              /\ ptable'[q].pgdir = ptable[q].pgdir
              /\ ptable'[q].parent = IF ptable[q].parent = p THEN initproc ELSE ptable[q].parent
              /\ q # p => \/ ptable'[q].state = ptable[q].state
                          \/ ptable[q].state = "SLEEPING" /\ ptable'[q].state = "RUNNABLE"
         /\ ptable'[p].state = "ZOMBIE"
         /\ w # NoProc => ptable'[w].state # "SLEEPING"
         /\ (\E c \in Proc : ptable[c].parent = p /\ IsMain(ptable, c) /\ ptable[c].state = "ZOMBIE")
              => ptable'[initproc].state # "SLEEPING"
<1> DEFINE Same(t, u) == /\ t[u].pid = ptable[u].pid /\ t[u].tid = ptable[u].tid
                         /\ t[u].main = ptable[u].main /\ t[u].killed = ptable[u].killed
                         /\ t[u].pgdir = ptable[u].pgdir
           Woken(t, u) == \/ t[u].state = ptable[u].state
                          \/ ptable[u].state = "SLEEPING" /\ t[u].state = "RUNNABLE"
<1>0. ptable \in [Proc -> Slot] /\ initproc \in Proc /\ "RUNNABLE" \in States /\ "ZOMBIE" \in States
  BY Types DEF IndInv, TypeOK, Slot, States
<1>1. PICK t : t = Wakeup1(ptable, w)
  OBVIOUS
<1>2. /\ t \in [Proc -> Slot]
      /\ \A q \in Proc : Same(t, q) /\ t[q].parent = ptable[q].parent /\ Woken(t, q)
      /\ w # NoProc => t[w].state # "SLEEPING"
      /\ t[p].state = "RUNNABLE"
  <2>1. CASE w # NoProc /\ ptable[w].state = "SLEEPING"
    <3>1. t = [q \in Proc |-> IF q = w THEN [ptable[w] EXCEPT !.state = "RUNNABLE"] ELSE ptable[q]]
      BY <1>0, <1>1, <2>1 DEF Wakeup1
    <3>2. [ptable[w] EXCEPT !.state = "RUNNABLE"] \in Slot
      BY <1>0, <2>1 DEF Slot
    <3>3. /\ \A q \in Proc : q # w => t[q] = ptable[q]
          /\ Same(t, w) /\ t[w].parent = ptable[w].parent /\ t[w].state = "RUNNABLE"
      BY <1>0, <2>1, <3>1, <3>2 DEF Slot
    <3>4. t \in [Proc -> Slot]
      BY <1>0, <3>1, <3>2
    <3> QED
      BY <3>3, <3>4, <2>1
  <2>2. CASE w = NoProc \/ ptable[w].state # "SLEEPING"
    BY <1>0, <1>1, <2>2 DEF Wakeup1
  <2> QED
    BY <2>1, <2>2
<1>3. PICK t1 : t1 = [c \in Proc |-> IF t[c].parent = p THEN [t[c] EXCEPT !.parent = initproc]
                                     ELSE t[c]]
  OBVIOUS
<1>4. /\ t1 \in [Proc -> Slot]
      /\ \A q \in Proc : /\ Same(t1, q) /\ Woken(t1, q) /\ t1[q].state = t[q].state
                         /\ t1[q].parent = IF ptable[q].parent = p THEN initproc
                                           ELSE ptable[q].parent
  <2>1. \A q \in Proc : [t[q] EXCEPT !.parent = initproc] \in Slot
    BY <1>0, <1>2 DEF Slot
  <2>2. t1 \in [Proc -> Slot]
    BY <1>2, <1>3, <2>1
  <2>3. ASSUME NEW q \in Proc
        PROVE  /\ t1[q].pid = t[q].pid /\ t1[q].tid = t[q].tid /\ t1[q].main = t[q].main
               /\ t1[q].killed = t[q].killed /\ t1[q].pgdir = t[q].pgdir
               /\ t1[q].state = t[q].state
               /\ t1[q].parent = IF t[q].parent = p THEN initproc ELSE t[q].parent
    <3>1. t[q] \in Slot
      BY <1>2
    <3> QED
      BY <1>3, <3>1 DEF Slot
  <2> QED
    BY <1>2, <2>2, <2>3
<1>5. PICK t2 : t2 = Reparent(t, p)
  OBVIOUS
<1>6. \/ t2 = t1 /\ ~(\E c \in Proc : ptable[c].parent = p /\ IsMain(ptable, c)
                                    /\ ptable[c].state = "ZOMBIE")
      \/ t2 = Wakeup1(t1, initproc)
  <2>1. t1 = [c \in Proc |-> IF c \in {d \in Proc : t[d].parent = p}
                             THEN [t[c] EXCEPT !.parent = initproc] ELSE t[c]]
    BY <1>3
  <2>2. (\E c \in Proc : ptable[c].parent = p /\ IsMain(ptable, c) /\ ptable[c].state = "ZOMBIE") =>
          \E c \in {d \in Proc : t[d].parent = p} : IsMain(t, c) /\ t[c].state = "ZOMBIE"
    BY <1>2 DEF IsMain
  <2> QED
    BY <1>5, <2>1, <2>2 DEF Reparent
<1>7. /\ t2 \in [Proc -> Slot]
      /\ \A q \in Proc : Same(t2, q) /\ t2[q].parent = t1[q].parent /\ Woken(t2, q)
      /\ w # NoProc => t2[w].state # "SLEEPING"
      /\ (\E c \in Proc : ptable[c].parent = p /\ IsMain(ptable, c) /\ ptable[c].state = "ZOMBIE")
           => t2[initproc].state # "SLEEPING"
  <2>1. CASE t2 = Wakeup1(t1, initproc) /\ t1[initproc].state = "SLEEPING"
    <3>1. t2 = [q \in Proc |-> IF q = initproc THEN [t1[q] EXCEPT !.state = "RUNNABLE"] ELSE t1[q]]
      BY <1>0, <1>4, <2>1, Types DEF Wakeup1
    <3>2. [t1[initproc] EXCEPT !.state = "RUNNABLE"] \in Slot
      BY <1>0, <1>4 DEF Slot
    <3>3. /\ \A q \in Proc : q # initproc => t2[q] = t1[q]
          /\ Same(t2, initproc) /\ t2[initproc].parent = t1[initproc].parent
          /\ t2[initproc].state = "RUNNABLE"
      <4>1. t1[initproc] \in Slot
        BY <1>0, <1>4
      <4> QED
        BY <1>0, <1>4, <4>1, <3>1 DEF Slot
    <3>4. t2 \in [Proc -> Slot]
      BY <1>0, <1>4, <3>1, <3>2
    <3>5. ptable[initproc].state = "SLEEPING"
      BY <1>0, <1>4, <2>1
    <3> QED
      BY <1>2, <1>4, <2>1, <3>3, <3>4, <3>5
  <2>2. CASE t2 = t1 /\ (t2 = Wakeup1(t1, initproc) => t1[initproc].state # "SLEEPING")
    BY <1>0, <1>2, <1>4, <1>6, <2>2
  <2> QED
    BY <1>6, <2>1, <2>2 DEF Wakeup1
<1>8. ptable' = [q \in Proc |-> IF q = p THEN [t2[p] EXCEPT !.state = "ZOMBIE"] ELSE t2[q]]
  BY <1>1, <1>5, <1>7
<1>9. [t2[p] EXCEPT !.state = "ZOMBIE"] \in Slot
  BY <1>0, <1>7 DEF Slot
<1>10. /\ ptable' \in [Proc -> Slot]
       /\ \A q \in Proc : q # p => ptable'[q] = t2[q]
       /\ ptable'[p].state = "ZOMBIE" /\ ptable'[p].parent = t2[p].parent
       /\ ptable'[p].pid = t2[p].pid /\ ptable'[p].tid = t2[p].tid
       /\ ptable'[p].main = t2[p].main /\ ptable'[p].killed = t2[p].killed
       /\ ptable'[p].pgdir = t2[p].pgdir
  <2>0. t2 \in [Proc -> Slot]
    BY <1>7
  <2>1. ptable' \in [Proc -> Slot]
    BY <2>0, <1>8, <1>9
  <2>2. t2[p] \in Slot
    BY <1>7
  <2> QED
    BY <1>8, <2>1, <2>2 DEF Slot
<1>11. w # NoProc => ptable'[w] = t2[w]
  BY <1>10
<1>12. (\E c \in Proc : ptable[c].parent = p /\ IsMain(ptable, c) /\ ptable[c].state = "ZOMBIE")
           => ptable'[initproc].state # "SLEEPING"
  BY <1>0, <1>7, <1>10
<1> HIDE <1>8
<1> QED
  BY <1>4, <1>7, <1>10, <1>11, <1>12

(* A thread, or a process that is alone, ends: it wakes its main thread,   *)
(* or its parent, and init if that has a dead child now.                   *)
Dies(p, w) ==
  /\ pc[p] \in {"texit", "exitDone"} /\ ptable[p].state = "RUNNABLE"
  /\ w = IF pc[p] = "texit" THEN ptable[p].main ELSE ptable[p].parent
  /\ ptable' = [Reparent(Wakeup1(ptable, w), p) EXCEPT ![p].state = "ZOMBIE"]
  /\ pc' = [pc EXCEPT ![p] = "none"]
  /\ UNCHANGED <<vm, nextpid, panicked, locals>>

LEMMA DiesInv ==
  ASSUME IndInv, NEW p \in Proc, NEW w \in Proc \cup {NoProc}, Dies(p, w)
  PROVE  IndInv'
<1>0. /\ pc[p] \in {"texit", "exitDone"} /\ ptable[p].state = "RUNNABLE"
      /\ w = IF pc[p] = "texit" THEN ptable[p].main ELSE ptable[p].parent
  BY DEF Dies
<1>1. /\ w # p /\ p # initproc
      /\ pc[p] = "texit" <=> ~IsMain(ptable, p)
      /\ np[p] = NoProc /\ oldmain[p] = NoProc
      /\ pc[p] \in {"texit", "exitDone"} /\ ptable[p].state = "RUNNABLE"
  BY <1>0, Types DEF IndInv, MainsInv, ParentsInv, CreatorsInv, ReapersInv, Reaping, IsMain
<1>2. /\ ptable' \in [Proc -> Slot]
      /\ \A q \in Proc :
           /\ ptable'[q].pid = ptable[q].pid /\ ptable'[q].tid = ptable[q].tid
           /\ ptable'[q].main = ptable[q].main /\ ptable'[q].killed = ptable[q].killed
           /\ ptable'[q].pgdir = ptable[q].pgdir
           /\ ptable'[q].parent = IF ptable[q].parent = p THEN initproc ELSE ptable[q].parent
           /\ q # p => \/ ptable'[q].state = ptable[q].state
                       \/ ptable[q].state = "SLEEPING" /\ ptable'[q].state = "RUNNABLE"
      /\ ptable'[p].state = "ZOMBIE"
      /\ w # NoProc => ptable'[w].state # "SLEEPING"
      /\ (\E c \in Proc : ptable[c].parent = p /\ IsMain(ptable, c) /\ ptable[c].state = "ZOMBIE")
           => ptable'[initproc].state # "SLEEPING"
  <2>1. w \in (Proc \cup {NoProc}) \ {p}
    BY <1>1
  <2> QED
    BY <1>0, <2>1, DyingTable DEF Dies
<1>3. \A q \in Proc : pc'[q] = IF q = p THEN "none" ELSE pc[q]
  BY DEF IndInv, TypeOK, Dies
<1>4. UNCHANGED <<vm, nextpid, panicked, np, oldmain, thread>>
  BY DEF Dies, locals
<1>5. TypeOK'
  <2>1. pc' \in [Proc -> Places]
    BY DEF IndInv, TypeOK, Places, Dies
  <2> QED
    BY <1>2, <1>4, <2>1 DEF IndInv, TypeOK, Slot
<1>a. \A q \in Proc : /\ ptable'[q].pid = ptable[q].pid /\ ptable'[q].tid = ptable[q].tid
                      /\ ptable'[q].main = ptable[q].main
                      /\ ptable'[q].killed = ptable[q].killed
                      /\ ptable'[q].pgdir = ptable[q].pgdir
  BY <1>2
<1>b. \A q \in Proc : /\ ptable'[q].state = "UNUSED" <=> ptable[q].state = "UNUSED"
                      /\ ptable'[q].state = "EMBRYO" <=> ptable[q].state = "EMBRYO"
                      /\ ptable'[q].state = "ZOMBIE" <=> q = p \/ ptable[q].state = "ZOMBIE"
                      /\ ptable'[q].state = "SLEEPING" => q # p /\ ptable[q].state = "SLEEPING"
  BY <1>0, <1>2
<1>c. \A q \in Proc : ptable'[q].parent = IF ptable[q].parent = p THEN initproc
                                           ELSE ptable[q].parent
  BY <1>2
<1>6. SlotsInv'
  BY <1>2, <1>3, <1>4, Types DEF IndInv, SlotsInv, ParentsInv, InUse, SamePid, IsMain, Reaping
<1>7. CreatorsInv'
  BY <1>1, <1>a, <1>b, <1>c, <1>3, <1>4, Types DEF IndInv, CreatorsInv, InUse, SamePid, IsMain
<1>8. IdsInv'
  BY <1>a, <1>b, <1>3, <1>4, Types DEF IndInv, IdsInv, InUse, SamePid
<1>9. MainsInv'
  BY <1>1, <1>a, <1>b, <1>3, <1>4, Types DEF IndInv, MainsInv, Reaping, InUse, SamePid, IsMain
<1>10. PageTablesInv'
  BY <1>a, <1>b, <1>4, Types DEF IndInv, PageTablesInv, InUse, SamePid, IsMain
<1>11. ReapersInv'
  BY <1>1, <1>a, <1>b, <1>c, <1>3, <1>4, Types DEF IndInv, ReapersInv, Reaping, InUse, SamePid, IsMain
<1>12. TakeoverInv'
  <2>1. \A q \in Proc : Takes(q)' => Takes(q)
    BY <1>a, <1>b, <1>3, <1>4 DEF Takes, Live, IsMain
  <2> QED
    BY <1>a, <1>b, <1>4, <2>1 DEF IndInv, TakeoverInv, InUse, SamePid, IsMain
<1>13. AloneInv'
  BY <1>1, <1>a, <1>b, <1>3, <1>4 DEF IndInv, AloneInv, InUse, SamePid, IsMain
<1>14. ParentsInv'
  <2>1. \A q \in Proc \ {p} : ptable[q].state \in {"RUNNABLE", "SLEEPING"} =>
          ptable'[q].state \in {"RUNNABLE", "SLEEPING"}
    BY <1>2
  <2> QED
    BY <1>1, <1>a, <1>b, <1>c, <1>3, <1>4, <2>1, Types DEF IndInv, ParentsInv, InUse, IsMain
<1>15. SleepersInv'
  <2> SUFFICES ASSUME NEW q \in Proc, ptable'[q].state = "SLEEPING"
               PROVE  /\ pc[q] = "wait" => \A c \in Proc :
                           ptable'[c].parent = q /\ IsMain(ptable, c) => ptable'[c].state # "ZOMBIE"
                      /\ pc[q] = "join2" =>
                           \E r \in Proc : ptable[r].tid = thread[q] /\ Live(ptable', r)
                      /\ pc[q] \in Reaping =>
                           \E r \in Proc \ {q} :
                             (ptable[r].main = q \/ oldmain[q] = r) /\ Live(ptable', r)
    BY <1>a, <1>b, <1>3, <1>4, Types DEF SleepersInv, IsMain, Live, Reaping
  <2>1. ptable[q].state = "SLEEPING" /\ q # p /\ q # w
    BY <1>2, <1>b, Types
  <2>2. \A r \in Proc : r # p /\ Live(ptable, r) => Live(ptable', r)
    BY <1>2 DEF Live
  <2>3. ASSUME pc[q] = "wait", NEW c \in Proc, ptable'[c].parent = q, IsMain(ptable, c),
               ptable'[c].state = "ZOMBIE"
        PROVE  FALSE
    <3>1. CASE c = p
      BY <1>0, <1>1, <1>2, <2>1, <2>3, <3>1, Types DEF IndInv, ParentsInv
    <3>2. CASE c # p
      BY <1>1, <1>2, <2>1, <2>3, <3>2 DEF IndInv, SleepersInv
    <3> QED
      BY <3>1, <3>2
  <2>4. ASSUME pc[q] = "join2"
        PROVE  \E r \in Proc : ptable[r].tid = thread[q] /\ Live(ptable', r)
    <3>1. PICK r \in Proc : ptable[r].tid = thread[q] /\ Live(ptable, r)
      BY <2>1, <2>4 DEF IndInv, SleepersInv
    <3>2. r # p
      <4>1. SUFFICES ASSUME r = p PROVE FALSE
        OBVIOUS
      <4>2. IsMain(ptable, q) /\ SamePid(p, q) /\ InUse(q) /\ InUse(p) /\ ~ptable[q].killed
        BY <2>1, <2>4, <3>1, <4>1 DEF IndInv, MainsInv, IdsInv, SlotsInv, SamePid, InUse
      <4>3. oldmain[q] = NoProc
        BY <2>4 DEF IndInv, ReapersInv, Reaping
      <4>4. CASE pc[p] = "texit"
        <5>1. w \in Proc /\ InUse(w) /\ IsMain(ptable, w) /\ SamePid(w, q)
          BY <1>0, <4>2, <4>4 DEF IndInv, MainsInv, SamePid
        <5>2. oldmain[w] = q
          BY <2>1, <4>2, <4>3, <5>1, Types DEF IndInv, TakeoverInv
        <5> QED
          BY <2>1, <4>2, <5>1, <5>2, Types DEF IndInv, ReapersInv
      <4>5. CASE pc[p] = "exitDone"
        BY <1>1, <2>1, <4>2, <4>3, <4>5, Types DEF IndInv, TakeoverInv
      <4> QED
        BY <1>0, <4>4, <4>5
    <3> QED
      BY <2>2, <3>1, <3>2
  <2>5. ASSUME pc[q] \in Reaping
        PROVE  \E r \in Proc \ {q} : (ptable[r].main = q \/ oldmain[q] = r) /\ Live(ptable', r)
    <3>1. PICK r \in Proc \ {q} : (ptable[r].main = q \/ oldmain[q] = r) /\ Live(ptable, r)
      BY <2>1, <2>5 DEF IndInv, SleepersInv
    <3>2. r # p
      BY <1>0, <1>1, <2>1, <3>1, Types DEF IndInv, ReapersInv, IsMain
    <3> QED
      BY <2>2, <3>1, <3>2
  <2> QED
    BY <2>3, <2>4, <2>5
<1> QED
  BY <1>5, <1>6, <1>7, <1>8, <1>9, <1>10, <1>11, <1>12, <1>13, <1>14, <1>15 DEF IndInv

LEMMA ThreadExitInv == ASSUME IndInv, NEW p \in Proc, ThreadExit(p) PROVE IndInv'
<1>1. ptable[p].main \in Proc \cup {NoProc}
  BY Types
<1> QED
  BY <1>1, DiesInv DEF Dies, ThreadExit, At, Goto

LEMMA ExitInv == ASSUME IndInv, NEW p \in Proc, Exit(p) PROVE IndInv'
<1>1. ptable[p].parent \in Proc \cup {NoProc}
  BY Types
<1> QED
  BY <1>1, DiesInv DEF Dies, Exit, At, Goto

(* A process goes to sleep in wait() or thread_join().                     *)
LEMMA SleepsInv ==
  ASSUME IndInv, NEW p \in Proc, NEW tid \in 0 .. MaxPid + 1,
         ptable[p].state = "RUNNABLE", ~ptable[p].killed,
         \/ /\ pc[p] = "wait" /\ UNCHANGED <<pc, thread>>
            /\ \A c \in Proc : ptable[c].parent = p /\ IsMain(ptable, c) =>
                  ptable[c].state # "ZOMBIE"
         \/ /\ pc[p] \in {"join", "join2"} /\ pc' = [pc EXCEPT ![p] = "join2"]
            /\ thread' = [thread EXCEPT ![p] = tid] /\ tid # 0 /\ tid <= nextpid
            /\ \A q \in Proc : ptable[q].tid = tid => q # p /\ SamePid(q, p)
            /\ \E q \in Proc : ptable[q].tid = tid /\ Live(ptable, q),
         ptable' = Sleep(ptable, p),
         UNCHANGED <<vm, nextpid, panicked, np, oldmain>>
  PROVE  IndInv'
<1>1. /\ \A q \in Proc : q # p => ptable'[q] = ptable[q] /\ pc'[q] = pc[q] /\ thread'[q] = thread[q]
      /\ ptable'[p].state = "SLEEPING" /\ ptable'[p].pid = ptable[p].pid
      /\ ptable'[p].tid = ptable[p].tid /\ ptable'[p].main = ptable[p].main
      /\ ptable'[p].parent = ptable[p].parent /\ ptable'[p].killed = ptable[p].killed
      /\ ptable'[p].pgdir = ptable[p].pgdir
  BY DEF IndInv, TypeOK, Sleep
<1>2. \/ pc[p] = "wait" /\ pc'[p] = "wait" /\ thread'[p] = thread[p]
      \/ /\ pc[p] \in {"join", "join2"} /\ pc'[p] = "join2" /\ thread'[p] = tid
         /\ tid # 0 /\ tid <= nextpid
  BY DEF IndInv, TypeOK
<1>3. \A q \in Proc : Live(ptable', q) <=> Live(ptable, q)
  BY <1>1 DEF Live
<1>4. TypeOK'
  <2>1. "SLEEPING" \in States /\ "join2" \in Places
    BY DEF States, Places
  <2>2. ptable' \in [Proc -> Slot]
    BY <2>1 DEF IndInv, TypeOK, Slot, Sleep
  <2> QED
    BY <2>1, <2>2 DEF IndInv, TypeOK, Slot
<1>5. SlotsInv'
  BY <1>1, <1>2, Types DEF IndInv, SlotsInv, InUse, Reaping
<1>6. CreatorsInv'
  BY <1>1, <1>2, Types DEF IndInv, CreatorsInv, InUse, SamePid, IsMain
<1>7. IdsInv'
  BY <1>1, <1>2, Types DEF IndInv, IdsInv, InUse, SamePid
<1>8. MainsInv'
  BY <1>1, <1>2, Types DEF IndInv, MainsInv, InUse, SamePid, IsMain, Reaping
<1>9. PageTablesInv'
  BY <1>1, Types DEF IndInv, PageTablesInv, InUse, SamePid, IsMain
<1>10. ReapersInv'
  BY <1>1, <1>2, Types DEF IndInv, ReapersInv, InUse, SamePid, IsMain, Reaping
<1>11. TakeoverInv'
  <2>1. \A q \in Proc : Takes(q)' => Takes(q)
    BY <1>1, <1>2 DEF Takes, IsMain, Live
  <2> QED
    BY <1>1, <2>1, Types DEF IndInv, TakeoverInv, InUse, SamePid, IsMain
<1>12. AloneInv'
  BY <1>1, <1>2, Types DEF IndInv, AloneInv, InUse, SamePid, IsMain
<1>13. ParentsInv'
  BY <1>1, <1>2, Types DEF IndInv, ParentsInv, InUse, IsMain
<1>14. SleepersInv'
  <2>1. pc[p] = "wait" => \A c \in Proc : ptable[c].parent = p /\ IsMain(ptable, c) =>
                                 ptable[c].state # "ZOMBIE"
    OBVIOUS
  <2>2. pc[p] # "wait" => \E q \in Proc : ptable[q].tid = tid /\ Live(ptable, q)
    OBVIOUS
  <2> QED
    BY <1>1, <1>2, <1>3, <2>1, <2>2, Types DEF IndInv, SleepersInv, IsMain, Live, Reaping
<1> QED
  BY <1>4, <1>5, <1>6, <1>7, <1>8, <1>9, <1>10, <1>11, <1>12, <1>13, <1>14 DEF IndInv

(* thread_join() of a dead thread k frees it and returns.                  *)
Joins(p, k) ==
  /\ ptable[p].state = "RUNNABLE" /\ pc[p] \in {"join", "join2"}
  /\ SamePid(k, p) /\ k # p /\ ptable[k].state = "ZOMBIE"
  /\ ptable' = ThreadFree(ptable, {k})
  /\ thread' = [thread EXCEPT ![p] = 0] /\ Return(p)
  /\ UNCHANGED <<vm, nextpid, panicked, np, oldmain>>

LEMMA JoinsInv ==
  ASSUME IndInv, NEW p \in Proc, NEW k \in Proc, Joins(p, k)
  PROVE  IndInv'
<1>0. /\ ptable[p].state = "RUNNABLE" /\ pc[p] \in {"join", "join2"}
      /\ SamePid(k, p) /\ k # p /\ ptable[k].state = "ZOMBIE"
      /\ UNCHANGED <<vm, nextpid, panicked, np, oldmain>>
  BY DEF Joins
<1>1. PICK l : /\ l \in {"user", "texit", "exitKill"}
               /\ l = "texit" => ~IsMain(ptable, p)
               /\ l = "exitKill" => IsMain(ptable, p)
               /\ p = initproc => l = "user"
               /\ pc' = [pc EXCEPT ![p] = l]
  BY ReturnPlace DEF Joins, Return, Goto
<1>2. /\ \A q \in Proc : q # k => ptable'[q] = ptable[q]
      /\ ptable'[k].state = "UNUSED" /\ ptable'[k].pid = 0
      /\ ptable'[k].tid = 0 /\ ptable'[k].main = NoProc
      /\ ptable'[k].parent = NoProc /\ ~ptable'[k].killed
      /\ ptable'[k].pgdir = 0
      /\ \A q \in Proc : pc'[q] = IF q = p THEN l ELSE pc[q]
      /\ \A q \in Proc : thread'[q] = IF q = p THEN 0 ELSE thread[q]
  BY <1>0, <1>1 DEF IndInv, TypeOK, ThreadFree, FreeSlot, Joins
<1>3. IsMain(ptable, p) /\ ~IsMain(ptable, k) /\ pc[k] = "none" /\ InUse(p) /\ InUse(k)
  <2>1. IsMain(ptable, p) /\ oldmain[p] = NoProc /\ pc[k] = "none" /\ oldmain[k] = NoProc
    BY <1>0, Types DEF IndInv, MainsInv, ReapersInv, SlotsInv, Reaping
  <2> QED
    BY <1>0, <2>1, Types DEF IndInv, TakeoverInv, InUse, SamePid
<1>4. TypeOK'
  <2>1. /\ "UNUSED" \in States /\ {"user", "texit", "exitKill"} \subseteq Places
        /\ 0 \in 0 .. MaxPid /\ 0 \in 0 .. MaxPid + 1
    BY ThreadsAssumption DEF States, Places, ThreadsAssumption
  <2>2. FreeSlot \in Slot
    BY <2>1 DEF FreeSlot, Slot
  <2>3. ptable' \in [Proc -> Slot]
    BY <2>2 DEF IndInv, TypeOK, Slot, ThreadFree, Joins
  <2> QED
    BY <1>0, <1>1, <2>1, <2>3 DEF IndInv, TypeOK, Slot, Joins
<1>5. SlotsInv'
  BY <1>0, <1>1, <1>2, <1>3, Types DEF IndInv, SlotsInv, InUse, Reaping
<1>6. CreatorsInv'
  BY <1>0, <1>1, <1>2, <1>3, Types DEF IndInv, CreatorsInv, InUse, SamePid, IsMain
<1>7. IdsInv'
  BY <1>0, <1>1, <1>2, <1>3, Types DEF IndInv, IdsInv, InUse, SamePid
<1>8. MainsInv'
  BY <1>0, <1>1, <1>2, <1>3, Types DEF IndInv, MainsInv, InUse, SamePid, IsMain, Reaping
<1>9. PageTablesInv'
  BY <1>0, <1>2, <1>3, Types DEF IndInv, PageTablesInv, InUse, SamePid, IsMain
<1>10. ReapersInv'
  BY <1>0, <1>1, <1>2, <1>3, Types DEF IndInv, ReapersInv, InUse, SamePid, IsMain, Reaping
<1>11. TakeoverInv'
  <2>1. \A q \in Proc : Takes(q)' => Takes(q)
    BY <1>0, <1>1, <1>2, <1>3 DEF Takes, IsMain, Live
  <2> QED
    BY <1>0, <1>2, <2>1, Types DEF IndInv, TakeoverInv, InUse, SamePid, IsMain
<1>12. AloneInv'
  BY <1>0, <1>1, <1>2, <1>3, Types DEF IndInv, AloneInv, InUse, SamePid, IsMain
<1>13. ParentsInv'
  BY <1>0, <1>1, <1>2, <1>3, Types DEF IndInv, ParentsInv, InUse, IsMain
<1>14. SleepersInv'
  BY <1>0, <1>1, <1>2, <1>3, Types DEF IndInv, SleepersInv, IsMain, Live, Reaping
<1> QED
  BY <1>4, <1>5, <1>6, <1>7, <1>8, <1>9, <1>10, <1>11, <1>12, <1>13, <1>14 DEF IndInv

LEMMA JoinPassInv ==
  ASSUME IndInv, NEW p \in Proc, NEW tid \in 0 .. MaxPid + 1,
         ptable[p].state = "RUNNABLE", pc[p] \in {"join", "join2"},
         tid # 0, tid <= nextpid,
         \A q \in Proc : ptable[q].tid = tid => q # p /\ SamePid(q, p),
         JoinPass(p, tid),
         UNCHANGED <<vm, nextpid, panicked, np, oldmain>>
  PROVE  IndInv'
<1> DEFINE found == {q \in Proc : ptable[q].tid = tid}
           dead == {q \in found : ptable[q].state = "ZOMBIE"}
<1>1. CASE dead # {}
  <2>1. PICK k \in Proc : ptable[k].tid = tid /\ ptable[k].state = "ZOMBIE"
    BY <1>1
  <2>2. dead = {k}
    BY <2>1 DEF IndInv, IdsInv
  <2>3. /\ ptable' = ThreadFree(ptable, {k}) /\ thread' = [thread EXCEPT ![p] = 0] /\ Return(p)
    BY <1>1, <2>2 DEF JoinPass
  <2> QED
    BY <2>1, <2>3, JoinsInv DEF Joins
<1>2. CASE dead = {} /\ (found = {} \/ ptable[p].killed)
  <2>1. UNCHANGED ptable /\ thread' = [thread EXCEPT ![p] = 0] /\ Return(p)
    BY <1>2 DEF JoinPass
  <2>2. panicked' \in BOOLEAN
    BY DEF IndInv, TypeOK
  <2> QED
    BY <2>1, <2>2, ReturnPlace, GoesOn DEF Return, Goto
<1>3. CASE dead = {} /\ ~(found = {} \/ ptable[p].killed)
  <2>1. /\ ptable' = Sleep(ptable, p) /\ thread' = [thread EXCEPT ![p] = tid]
        /\ pc' = [pc EXCEPT ![p] = "join2"]
    BY <1>3 DEF JoinPass, Goto
  <2>2. \E q \in Proc : ptable[q].tid = tid /\ Live(ptable, q)
    BY <1>3, Types DEF IndInv, SlotsInv, InUse, Live
  <2> QED
    BY <1>3, <2>1, <2>2, SleepsInv
<1> QED
  BY <1>1, <1>2, <1>3

LEMMA JoinInv == ASSUME IndInv, NEW p \in Proc, Join(p) PROVE IndInv'
<1>1. PICK q \in Proc \ {p} : ptable[q].pid = ptable[p].pid /\ ptable[q].tid # 0
                              /\ JoinPass(p, ptable[q].tid)
  BY DEF Join
<1>2. ptable[q].tid \in 0 .. MaxPid + 1 /\ ptable[q].tid <= nextpid
  BY DEF IndInv, TypeOK, IdsInv
<1>3. \A r \in Proc : ptable[r].tid = ptable[q].tid => r # p /\ SamePid(r, p)
  BY <1>1 DEF IndInv, IdsInv, SamePid
<1> QED
  BY <1>1, <1>2, <1>3, JoinPassInv DEF Join, At

LEMMA JoinAgainInv == ASSUME IndInv, NEW p \in Proc, JoinAgain(p) PROVE IndInv'
<1>1. /\ thread[p] \in 0 .. MaxPid + 1 /\ thread[p] <= nextpid /\ thread[p] # 0
      /\ \A q \in Proc : ptable[q].tid = thread[p] => q # p /\ SamePid(q, p)
  BY DEF IndInv, TypeOK, IdsInv, JoinAgain, At
<1> QED
  BY <1>1, JoinPassInv DEF JoinAgain, At

(* wait() of a dead child c frees it and its page table and returns.       *)
Reaps(p, c) ==
  /\ ptable[p].state = "RUNNABLE" /\ pc[p] = "wait"
  /\ ptable[c].parent = p /\ IsMain(ptable, c) /\ ptable[c].state = "ZOMBIE"
  /\ ptable' = ThreadFree(ptable, {c})
  /\ vm' = vm \ {ptable[c].pgdir}
  /\ Return(p)
  /\ UNCHANGED <<nextpid, panicked, np, oldmain, thread>>

LEMMA ReapsInv ==
  ASSUME IndInv, NEW p \in Proc, NEW c \in Proc, Reaps(p, c)
  PROVE  IndInv'
<1>0. /\ ptable[p].state = "RUNNABLE" /\ pc[p] = "wait" /\ c # p
      /\ ptable[c].parent = p /\ IsMain(ptable, c) /\ ptable[c].state = "ZOMBIE"
      /\ vm' = vm \ {ptable[c].pgdir}
      /\ UNCHANGED <<nextpid, panicked, np, oldmain, thread>>
  BY DEF Reaps
<1>1. PICK l : /\ l \in {"user", "texit", "exitKill"}
               /\ l = "texit" => ~IsMain(ptable, p)
               /\ l = "exitKill" => IsMain(ptable, p)
               /\ p = initproc => l = "user"
               /\ pc' = [pc EXCEPT ![p] = l]
  BY ReturnPlace DEF Reaps, Return, Goto
<1>2. /\ \A q \in Proc : q # c => ptable'[q] = ptable[q]
      /\ ptable'[c].state = "UNUSED" /\ ptable'[c].pid = 0
      /\ ptable'[c].tid = 0 /\ ptable'[c].main = NoProc
      /\ ptable'[c].parent = NoProc /\ ~ptable'[c].killed
      /\ ptable'[c].pgdir = 0
      /\ \A q \in Proc : pc'[q] = IF q = p THEN l ELSE pc[q]
  BY <1>0, <1>1 DEF IndInv, TypeOK, ThreadFree, FreeSlot, Reaps
<1>3. /\ pc[c] = "none" /\ InUse(p) /\ InUse(c)
      /\ \A q \in Proc : InUse(q) /\ SamePid(q, c) => q = c
  <2>1. oldmain[p] = NoProc /\ pc[c] = "none" /\ InUse(p) /\ InUse(c)
    BY <1>0, Types DEF IndInv, ReapersInv, SlotsInv, Reaping, InUse
  <2>2. \A q \in Proc \ {c} : InUse(q) /\ SamePid(q, c) => oldmain[q] = c
    BY <1>0 DEF IndInv, AloneInv
  <2> QED
    BY <1>0, <2>1, <2>2, Types DEF IndInv, ReapersInv
<1>4. TypeOK'
  <2>1. /\ "UNUSED" \in States /\ {"user", "texit", "exitKill"} \subseteq Places
        /\ 0 \in 0 .. MaxPid /\ 0 \in 0 .. MaxPid + 1
    BY ThreadsAssumption DEF States, Places, ThreadsAssumption
  <2>2. FreeSlot \in Slot
    BY <2>1 DEF FreeSlot, Slot
  <2>3. ptable' \in [Proc -> Slot]
    BY <2>2 DEF IndInv, TypeOK, Slot, ThreadFree, Reaps
  <2> QED
    BY <1>0, <1>1, <2>1, <2>3 DEF IndInv, TypeOK, Slot
<1>5. SlotsInv'
  BY <1>0, <1>1, <1>2, <1>3, Types DEF IndInv, SlotsInv, InUse, Reaping
<1>6. CreatorsInv'
  BY <1>0, <1>1, <1>2, <1>3, Types DEF IndInv, CreatorsInv, InUse, SamePid, IsMain
<1>7. IdsInv'
  BY <1>0, <1>1, <1>2, <1>3, Types DEF IndInv, IdsInv, InUse, SamePid
<1>8. MainsInv'
  BY <1>0, <1>1, <1>2, <1>3, Types DEF IndInv, MainsInv, InUse, SamePid, IsMain, Reaping
<1>9. PageTablesInv'
  BY <1>0, <1>2, <1>3, Types DEF IndInv, PageTablesInv, SlotsInv, InUse, SamePid, IsMain
<1>10. ReapersInv'
  BY <1>0, <1>1, <1>2, <1>3, Types
  DEF IndInv, ReapersInv, SlotsInv, InUse, SamePid, IsMain, Reaping
<1>11. TakeoverInv'
  <2>1. \A q \in Proc : Takes(q)' => Takes(q)
    BY <1>0, <1>1, <1>2, <1>3 DEF Takes, IsMain, Live
  <2> QED
    BY <1>0, <1>2, <2>1, Types DEF IndInv, TakeoverInv, InUse, SamePid, IsMain
<1>12. AloneInv'
  BY <1>0, <1>1, <1>2, <1>3, Types DEF IndInv, AloneInv, InUse, SamePid, IsMain
<1>13. ParentsInv'
  BY <1>0, <1>1, <1>2, <1>3, Types DEF IndInv, ParentsInv, InUse, IsMain
<1>14. SleepersInv'
  BY <1>0, <1>1, <1>2, <1>3, Types DEF IndInv, SleepersInv, IsMain, Live, Reaping
<1> QED
  BY <1>4, <1>5, <1>6, <1>7, <1>8, <1>9, <1>10, <1>11, <1>12, <1>13, <1>14 DEF IndInv

LEMMA WaitInv == ASSUME IndInv, NEW p \in Proc, Wait(p) PROVE IndInv'
<1> DEFINE zombies == {c \in Children(p) : ptable[c].state = "ZOMBIE"}
<1>1. ptable[p].state = "RUNNABLE" /\ pc[p] = "wait" /\ UNCHANGED <<nextpid, panicked, locals>>
  BY DEF Wait, At
<1>2. CASE zombies # {}
  <2>1. PICK c \in zombies : c = CHOOSE d \in zombies : \A e \in zombies : d <= e
    <3>1. zombies \in SUBSET Nat
      BY Types DEF Children
    <3> QED
      BY <1>2, <3>1, FirstOf
  <2>2. Reaps(p, c)
    BY <1>1, <1>2, <2>1 DEF Wait, Reaps, Children, locals
  <2> QED
    BY <2>1, <2>2, ReapsInv DEF Children
<1>3. CASE zombies = {} /\ (Children(p) = {} \/ ptable[p].killed)
  <2>1. Return(p) /\ UNCHANGED <<ptable, vm>>
    BY <1>3 DEF Wait
  <2>2. panicked' \in BOOLEAN
    BY <1>1 DEF IndInv, TypeOK
  <2> QED
    BY <1>1, <2>1, <2>2, ReturnPlace, GoesOn DEF Return, Goto, locals
<1>4. CASE zombies = {} /\ ~(Children(p) = {} \/ ptable[p].killed)
  <2>1. ptable' = Sleep(ptable, p) /\ UNCHANGED <<vm, pc>>
    BY <1>4 DEF Wait
  <2>2. \A c \in Proc : ptable[c].parent = p /\ IsMain(ptable, c) => ptable[c].state # "ZOMBIE"
    BY <1>4 DEF Children
  <2>3. 0 \in 0 .. MaxPid + 1
    BY ThreadsAssumption DEF ThreadsAssumption
  <2> QED
    BY <1>1, <1>4, <2>1, <2>2, <2>3, SleepsInv DEF locals
<1> QED
  BY <1>2, <1>3, <1>4

(* kill() reaches a main thread, never init, and at most wakes it.         *)
LEMMA KillInv == ASSUME IndInv, NEW p \in Proc, Kill(p) PROVE IndInv'
<1>0. /\ ptable[p].state = "RUNNABLE" /\ pc[p] = "user" /\ p # initproc
      /\ UNCHANGED <<vm, nextpid, panicked, np, oldmain, thread>>
  BY DEF Kill, Called, At, MayCall, locals
<1>1. PICK m \in Proc : /\ InUse(m) /\ IsMain(ptable, m) /\ m # initproc
                        /\ ptable' = Wakeup1([ptable EXCEPT ![m].killed = TRUE], m)
                        /\ Goto(p, UserOrExit(ptable', p))
  <2>1. PICK q \in Proc :
          /\ InUse(q) /\ ptable[q].pid # 1
          /\ ptable' = Wakeup1([ptable EXCEPT ![ptable[q].main].killed = TRUE], ptable[q].main)
          /\ Goto(p, UserOrExit(ptable', p))
    BY DEF Kill, InUse
  <2>2. PICK m \in Proc : m = ptable[q].main /\ InUse(m) /\ IsMain(ptable, m) /\ SamePid(m, q)
    BY <2>1, Types DEF IndInv, MainsInv
  <2>3. m # initproc
    BY <2>1, <2>2 DEF IndInv, ParentsInv, SamePid
  <2> QED
    BY <2>1, <2>2, <2>3
<1>2. /\ ptable' \in [Proc -> Slot]
      /\ \A q \in Proc \ {m} : ptable'[q] = ptable[q]
      /\ ptable'[m].pid = ptable[m].pid /\ ptable'[m].tid = ptable[m].tid
      /\ ptable'[m].main = ptable[m].main /\ ptable'[m].parent = ptable[m].parent
      /\ ptable'[m].pgdir = ptable[m].pgdir /\ ptable'[m].killed
      /\ ptable'[m].state = IF ptable[m].state = "SLEEPING" THEN "RUNNABLE" ELSE ptable[m].state
  <2>1. PICK t : t = [ptable EXCEPT ![m].killed = TRUE]
    OBVIOUS
  <2>2. /\ t \in [Proc -> Slot] /\ t[m] \in Slot
        /\ \A q \in Proc \ {m} : t[q] = ptable[q]
        /\ t[m].pid = ptable[m].pid /\ t[m].tid = ptable[m].tid
        /\ t[m].main = ptable[m].main /\ t[m].parent = ptable[m].parent
        /\ t[m].pgdir = ptable[m].pgdir /\ t[m].killed
        /\ t[m].state = ptable[m].state
    BY ZenonT(60), <2>1 DEF IndInv, TypeOK, Slot
  <2>3. CASE t[m].state = "SLEEPING"
    <3>1. ptable' = [q \in Proc |-> IF q = m THEN [t[m] EXCEPT !.state = "RUNNABLE"] ELSE t[q]]
      BY <1>1, <2>1, <2>2, <2>3, Types DEF Wakeup1
    <3>2. [t[m] EXCEPT !.state = "RUNNABLE"] \in Slot
      BY <2>2 DEF Slot, States
    <3>3. ptable' \in [Proc -> Slot]
      BY <2>2, <3>1, <3>2
    <3> QED
      BY <2>2, <2>3, <3>1, <3>3 DEF Slot
  <2>4. CASE t[m].state # "SLEEPING"
    BY <1>1, <2>1, <2>2, <2>4 DEF Wakeup1
  <2> QED
    BY <2>3, <2>4
<1>3. PICK l : /\ l \in {"user", "texit", "exitKill"}
               /\ l = "texit" => ~IsMain(ptable, p)
               /\ l = "exitKill" => IsMain(ptable, p)
               /\ \A q \in Proc : pc'[q] = IF q = p THEN l ELSE pc[q]
               /\ pc' \in [Proc -> Places]
  <2>1. ptable'[p].main = ptable[p].main
    BY <1>2
  <2>2. LET l == UserOrExit(ptable', p)
        IN  /\ l \in {"user", "texit", "exitKill"}
            /\ l = "texit" => ~IsMain(ptable, p)
            /\ l = "exitKill" => IsMain(ptable, p)
    BY <2>1, <1>2 DEF UserOrExit, ExitTest, IsMain
  <2>3. pc' = [pc EXCEPT ![p] = UserOrExit(ptable', p)]
    BY <1>1 DEF Goto
  <2> QED
    BY <2>2, <2>3 DEF IndInv, TypeOK, Places
<1> HIDE <1>1
<1>a. InUse(m) /\ IsMain(ptable, m) /\ m # initproc
  BY <1>1
<1>4. TypeOK'
  BY <1>0, <1>2, <1>3 DEF IndInv, TypeOK, Slot
<1>5. SlotsInv'
  BY <1>0, <1>a, <1>2, <1>3, Types DEF IndInv, SlotsInv, InUse, Reaping
<1>6. CreatorsInv'
  BY <1>0, <1>2, <1>3, Types DEF IndInv, CreatorsInv, InUse, SamePid, IsMain
<1>7. IdsInv'
  BY <1>0, <1>2, <1>3, Types DEF IndInv, IdsInv, InUse, SamePid
<1>8. MainsInv'
  BY <1>0, <1>2, <1>3, Types DEF IndInv, MainsInv, InUse, SamePid, IsMain, Reaping
<1>9. PageTablesInv'
  BY <1>0, <1>2, Types DEF IndInv, PageTablesInv, InUse, SamePid, IsMain
<1>10. ReapersInv'
  BY <1>0, <1>2, <1>3, Types DEF IndInv, ReapersInv, InUse, SamePid, IsMain, Reaping
<1>11. TakeoverInv'
  <2>1. \A q \in Proc : Takes(q)' => Takes(q)
    BY <1>0, <1>2, <1>3 DEF Takes, IsMain, Live
  <2> QED
    BY <1>0, <1>2, <2>1, Types DEF IndInv, TakeoverInv, InUse, SamePid, IsMain
<1>12. AloneInv'
  BY <1>0, <1>2, <1>3, Types DEF IndInv, AloneInv, InUse, SamePid, IsMain
<1>13. ParentsInv'
  BY <1>0, <1>a, <1>2, <1>3, Types DEF IndInv, ParentsInv, InUse, IsMain
<1>14. SleepersInv'
  BY <1>0, <1>2, <1>3, Types DEF IndInv, SleepersInv, IsMain, Live, Reaping
<1> QED
  BY <1>4, <1>5, <1>6, <1>7, <1>8, <1>9, <1>10, <1>11, <1>12, <1>13, <1>14 DEF IndInv

(* exec() replaces the page table of a process that is alone.              *)
LEMMA ExecCommitInv == ASSUME IndInv, NEW p \in Proc, ExecCommit(p) PROVE IndInv'
<1>1. PICK l : /\ l \in {"user", "texit", "exitKill"}
               /\ l = "texit" => ~IsMain(ptable, p)
               /\ l = "exitKill" => IsMain(ptable, p)
               /\ p = initproc => l = "user"
               /\ pc' = [pc EXCEPT ![p] = l]
  BY ReturnPlace DEF ExecCommit, Return, Goto
<1>2. PICK d \in PageTable \ vm : d = NewPageTable
  BY FreshPageTable
<1>3. /\ ptable' = [ptable EXCEPT ![p].pgdir = d]
      /\ vm' = (vm \ {ptable[p].pgdir}) \cup {d}
      /\ pc[p] = "execDone" /\ ptable[p].state = "RUNNABLE"
      /\ UNCHANGED <<nextpid, panicked, np, oldmain, thread>>
  BY <1>2 DEF ExecCommit, At, locals
<1>4. /\ \A q \in Proc \ {p} : ptable'[q] = ptable[q]
      /\ ptable'[p].state = "RUNNABLE" /\ ptable'[p].pid = ptable[p].pid
      /\ ptable'[p].tid = ptable[p].tid /\ ptable'[p].main = ptable[p].main
      /\ ptable'[p].parent = ptable[p].parent /\ ptable'[p].killed = ptable[p].killed
      /\ ptable'[p].pgdir = d
      /\ \A q \in Proc : pc'[q] = IF q = p THEN l ELSE pc[q]
      /\ vm' = (vm \ {ptable[p].pgdir}) \cup {d}
      /\ pc[p] = "execDone" /\ ptable[p].state = "RUNNABLE"
      /\ UNCHANGED <<nextpid, panicked, np, oldmain, thread>>
  BY <1>1, <1>3 DEF IndInv, TypeOK
<1>5. \A q \in Proc \ {p} : InUse(q) => ~SamePid(q, p) /\ ~SamePid(p, q)
  BY <1>4 DEF IndInv, AloneInv, SamePid
<1>6. TypeOK'
  <2>1. {"user", "texit", "exitKill"} \subseteq Places
    BY DEF Places
  <2>2. ptable' \in [Proc -> Slot]
    BY <1>3 DEF IndInv, TypeOK, Slot
  <2> QED
    BY <1>1, <1>2, <1>3, <2>1, <2>2 DEF IndInv, TypeOK, Slot
<1>7. SlotsInv'
  BY <1>1, <1>4, Types DEF IndInv, SlotsInv, InUse, Reaping
<1>8. CreatorsInv'
  BY <1>1, <1>4, Types DEF IndInv, CreatorsInv, InUse, SamePid, IsMain
<1>9. IdsInv'
  BY <1>1, <1>4, Types DEF IndInv, IdsInv, InUse, SamePid
<1>10. MainsInv'
  BY <1>1, <1>4, Types DEF IndInv, MainsInv, InUse, SamePid, IsMain, Reaping
<1>11. PageTablesInv'
  BY <1>2, <1>4, <1>5, Types DEF IndInv, PageTablesInv, SlotsInv, InUse, SamePid, IsMain
<1>12. ReapersInv'
  BY <1>1, <1>4, Types DEF IndInv, ReapersInv, InUse, SamePid, IsMain, Reaping
<1>13. TakeoverInv'
  <2>1. \A q \in Proc : Takes(q)' => Takes(q)
    BY <1>1, <1>4 DEF Takes, IsMain, Live
  <2> QED
    BY <1>4, <2>1, Types DEF IndInv, TakeoverInv, InUse, SamePid, IsMain
<1>14. AloneInv'
  BY <1>1, <1>4, Types DEF IndInv, AloneInv, InUse, SamePid, IsMain
<1>15. ParentsInv'
  BY <1>1, <1>4, Types DEF IndInv, ParentsInv, InUse, IsMain
<1>16. SleepersInv'
  BY <1>1, <1>4, Types DEF IndInv, SleepersInv, IsMain, Live, Reaping
<1> QED
  BY <1>6, <1>7, <1>8, <1>9, <1>10, <1>11, <1>12, <1>13, <1>14, <1>15, <1>16 DEF IndInv


(* One pass of thread_kill_others(): what it does to the table t.          *)
LEMMA KillPassTable ==
  ASSUME NEW t \in [Proc -> Slot], NEW p \in Proc, NEW old \in Proc, NEW again, NEW done,
         pc \in [Proc -> Places], oldmain \in [Proc -> Proc \cup {NoProc}],
         again \in Places, done \in Places, MaxPid \in Nat,
         t[p].state = "RUNNABLE",
         KillPass(t, p, old, again, done),
         NEW V, V = Victims(t, p, old)
  PROVE  /\ ptable' \in [Proc -> Slot] /\ pc' \in [Proc -> Places]
         /\ oldmain' \in [Proc -> Proc \cup {NoProc}]
         /\ \A q \in Proc \ (V \cup {p}) : ptable'[q] = t[q]
         /\ \A q \in V : t[q].state = "ZOMBIE" =>
              /\ ptable'[q].state = "UNUSED" /\ ptable'[q].pid = 0
              /\ ptable'[q].tid = 0 /\ ptable'[q].main = NoProc
              /\ ptable'[q].parent = NoProc /\ ~ptable'[q].killed
              /\ ptable'[q].pgdir = 0
         /\ \A q \in V \cup {p} : t[q].state # "ZOMBIE" =>
              /\ ptable'[q].pid = t[q].pid
              /\ ptable'[q].tid = t[q].tid /\ ptable'[q].main = t[q].main
              /\ ptable'[q].parent = t[q].parent /\ ptable'[q].pgdir = t[q].pgdir
         /\ \A q \in V : t[q].state # "ZOMBIE" =>
              /\ ptable'[q].killed
              /\ ptable'[q].state = IF t[q].state = "SLEEPING" THEN "RUNNABLE" ELSE t[q].state
         /\ ptable'[p].killed = t[p].killed
         /\ \/ /\ \A q \in V : t[q].state = "ZOMBIE"
               /\ ptable'[p].state = "RUNNABLE"
               /\ \A q \in Proc : pc'[q] = IF q = p THEN done ELSE pc[q]
               /\ \A q \in Proc : oldmain'[q] = IF q = p THEN NoProc ELSE oldmain[q]
            \/ /\ \E q \in V : t[q].state # "ZOMBIE"
               /\ ptable'[p].state = "SLEEPING"
               /\ \A q \in Proc : pc'[q] = IF q = p THEN again ELSE pc[q]
               /\ \A q \in Proc : oldmain'[q] = IF q = p THEN old ELSE oldmain[q]
<1>1. PICK dead : dead = {q \in V : t[q].state = "ZOMBIE"}
  OBVIOUS
<1>2. PICK alive : alive = V \ dead
  OBVIOUS
<1>3. PICK t1 : t1 = [q \in Proc |->
               IF q \in alive
               THEN [t[q] EXCEPT !.killed = TRUE,
                       !.state = IF t[q].state = "SLEEPING" THEN "RUNNABLE" ELSE t[q].state]
               ELSE t[q]]
  OBVIOUS
<1>4. PICK t2 : t2 = ThreadFree(t1, dead)
  OBVIOUS
<1>5. IF alive = {}
      THEN /\ ptable' = t2 /\ Goto(p, done)
           /\ oldmain' = [oldmain EXCEPT ![p] = NoProc]
      ELSE /\ ptable' = Sleep(t2, p) /\ Goto(p, again)
           /\ oldmain' = [oldmain EXCEPT ![p] = old]
  BY <1>1, <1>2, <1>3, <1>4 DEF KillPass
<1> HIDE DEF KillPass
<1>6. /\ V \subseteq Proc /\ p \notin V /\ dead \subseteq V /\ alive \subseteq V
      /\ \A q \in V : q \in dead <=> t[q].state = "ZOMBIE"
      /\ \A q \in V : q \in alive <=> t[q].state # "ZOMBIE"
  BY <1>1, <1>2 DEF Victims
<1>7. /\ {"UNUSED", "RUNNABLE", "SLEEPING"} \subseteq States
      /\ 0 \in 0 .. MaxPid /\ 0 \in 0 .. MaxPid + 1
  BY DEF States
<1>8. \A q \in Proc : [t[q] EXCEPT !.killed = TRUE,
         !.state = IF t[q].state = "SLEEPING" THEN "RUNNABLE" ELSE t[q].state] \in Slot
  BY ZenonT(60), <1>7 DEF Slot
<1>9. /\ t1 \in [Proc -> Slot]
      /\ \A q \in Proc \ V : t1[q] = t[q]
      /\ \A q \in alive : /\ t1[q].pid = t[q].pid /\ t1[q].tid = t[q].tid
                           /\ t1[q].main = t[q].main /\ t1[q].parent = t[q].parent
                           /\ t1[q].pgdir = t[q].pgdir /\ t1[q].killed
                           /\ t1[q].state = IF t[q].state = "SLEEPING" THEN "RUNNABLE"
                                            ELSE t[q].state
  <2>1. t1 \in [Proc -> Slot]
    BY <1>3, <1>8
  <2>2. \A q \in Proc \ V : t1[q] = t[q]
    BY <1>3, <1>6
  <2>3. ASSUME NEW q \in alive
        PROVE  /\ t1[q].pid = t[q].pid /\ t1[q].tid = t[q].tid
               /\ t1[q].main = t[q].main /\ t1[q].parent = t[q].parent
               /\ t1[q].pgdir = t[q].pgdir /\ t1[q].killed
               /\ t1[q].state = IF t[q].state = "SLEEPING" THEN "RUNNABLE" ELSE t[q].state
    <3>1. q \in Proc /\ t[q] \in Slot
      BY <1>6
    <3>2. t1[q] = [t[q] EXCEPT !.killed = TRUE,
             !.state = IF t[q].state = "SLEEPING" THEN "RUNNABLE" ELSE t[q].state]
      BY <1>3, <3>1
    <3> QED
      BY <3>1, <3>2 DEF Slot
  <2> QED
    BY <2>1, <2>2, <2>3
<1> HIDE <1>3
<1>10. /\ t2 \in [Proc -> Slot]
       /\ \A q \in Proc \ dead : t2[q] = t1[q]
       /\ \A q \in dead : t2[q] = FreeSlot
  <2>1. FreeSlot \in Slot
    BY <1>7 DEF FreeSlot, Slot
  <2> QED
    BY <1>4, <1>6, <1>9, <2>1 DEF ThreadFree
<1>11. /\ ptable' \in [Proc -> Slot]
       /\ \A q \in Proc \ {p} : ptable'[q] = t2[q]
       /\ /\ ptable'[p].pid = t[p].pid /\ ptable'[p].tid = t[p].tid
          /\ ptable'[p].main = t[p].main /\ ptable'[p].parent = t[p].parent
          /\ ptable'[p].pgdir = t[p].pgdir /\ ptable'[p].killed = t[p].killed
          /\ ptable'[p].state = IF alive = {} THEN "RUNNABLE" ELSE "SLEEPING"
  <2>1. t2[p] = t[p] /\ t2[p] \in Slot
    BY <1>6, <1>9, <1>10
  <2>2. CASE alive = {}
    BY <1>5, <1>10, <2>1, <2>2
  <2>3. CASE alive # {}
    <3>1. ptable' = [q \in Proc |-> IF q = p THEN [t2[p] EXCEPT !.state = "SLEEPING"] ELSE t2[q]]
      BY <1>5, <1>10, <2>3 DEF Sleep
    <3>2. [t2[p] EXCEPT !.state = "SLEEPING"] \in Slot
      BY <1>7, <2>1 DEF Slot
    <3>3. ptable' \in [Proc -> Slot]
      BY <1>10, <3>1, <3>2
    <3> QED
      BY <2>1, <2>3, <3>1, <3>3 DEF Slot
  <2> QED
    BY <2>2, <2>3
<1>12. /\ pc' \in [Proc -> Places] /\ oldmain' \in [Proc -> Proc \cup {NoProc}]
       /\ \A q \in Proc : pc'[q] = IF q = p THEN (IF alive = {} THEN done ELSE again) ELSE pc[q]
       /\ \A q \in Proc : oldmain'[q] = IF q = p THEN (IF alive = {} THEN NoProc ELSE old)
                                         ELSE oldmain[q]
  BY <1>5 DEF Goto
<1> HIDE <1>5
<1>13. \A q \in V : t[q].state = "ZOMBIE" =>
              /\ ptable'[q].state = "UNUSED" /\ ptable'[q].pid = 0
              /\ ptable'[q].tid = 0 /\ ptable'[q].main = NoProc
              /\ ptable'[q].parent = NoProc /\ ~ptable'[q].killed
              /\ ptable'[q].pgdir = 0
  <2>1. \A q \in dead : ptable'[q] = FreeSlot
    BY <1>6, <1>10, <1>11
  <2> QED
    BY <1>6, <2>1 DEF FreeSlot
<1>14. \A q \in alive : ptable'[q] = t1[q]
  BY <1>6, <1>10, <1>11
<1>15. \A q \in Proc \ (V \cup {p}) : ptable'[q] = t[q]
  BY <1>6, <1>9, <1>10, <1>11
<1>16. \A q \in V : t[q].state # "ZOMBIE" =>
              /\ ptable'[q].pid = t[q].pid
              /\ ptable'[q].tid = t[q].tid /\ ptable'[q].main = t[q].main
              /\ ptable'[q].parent = t[q].parent /\ ptable'[q].pgdir = t[q].pgdir
              /\ ptable'[q].killed
              /\ ptable'[q].state = IF t[q].state = "SLEEPING" THEN "RUNNABLE" ELSE t[q].state
  BY <1>6, <1>9, <1>14
<1>17. alive = {} <=> \A q \in V : t[q].state = "ZOMBIE"
  BY <1>6
<1> QED
  BY <1>11, <1>12, <1>13, <1>15, <1>16, <1>17

(* A main thread p passes through the loop, at first (old is p) or again.  *)
PassesOn(p, old, again, done) ==
  /\ ptable[p].state = "RUNNABLE" /\ IsMain(ptable, p)
  /\ \/ again = "exitReap" /\ done = "exitDone" /\ pc[p] \in {"exitKill", "exitReap"}
     \/ again = "execReap" /\ done = "execDone" /\ pc[p] \in {"exec", "execReap"}
  /\ old = IF pc[p] \in Reaping THEN oldmain[p] ELSE p
  /\ KillPass(ptable, p, old, again, done)
  /\ UNCHANGED <<vm, nextpid, panicked, np, thread>>

LEMMA KillMainInv ==
  ASSUME IndInv, NEW p \in Proc, NEW old, NEW again, NEW done, PassesOn(p, old, again, done)
  PROVE  IndInv'
<1>0. /\ ptable[p].state = "RUNNABLE" /\ IsMain(ptable, p) /\ InUse(p) /\ p # initproc
      /\ \/ again = "exitReap" /\ done = "exitDone" /\ pc[p] \in {"exitKill", "exitReap"}
         \/ again = "execReap" /\ done = "execDone" /\ pc[p] \in {"exec", "execReap"}
      /\ UNCHANGED <<vm, nextpid, panicked, np, thread>>
  BY DEF PassesOn, IndInv, ParentsInv, InUse
<1>1. /\ old \in Proc
      /\ pc[p] \in Reaping => old = oldmain[p]
      /\ pc[p] \notin Reaping => old = p /\ oldmain[p] = NoProc
  BY Types DEF IndInv, ReapersInv, PassesOn
<1>2. PICK V : V = Victims(ptable, p, old)
  OBVIOUS
<1>3. /\ V \subseteq Proc /\ p \notin V
      /\ \A q \in V : InUse(q) /\ SamePid(q, p) /\ SamePid(p, q) /\ (q = old \/ ptable[q].main = p)
      /\ \A q \in Proc \ {p} : ptable[q].main = p => q \in V
      /\ old # p => /\ V = {old} /\ IsMain(ptable, old) /\ ptable[old].parent = p
                    /\ oldmain[p] = old
      /\ old = p => \A q \in V : ~IsMain(ptable, q)
  <2>1. V = {q \in Proc \ {p} : ptable[q].main = p} \cup ({old} \ {p})
    BY <1>2 DEF Victims
  <2>2. \A q \in Proc : ptable[q].main = p => InUse(q) /\ SamePid(q, p) /\ SamePid(p, q)
    BY Types DEF IndInv, MainsInv, SlotsInv, SamePid
  <2>3. CASE old = p
    BY <2>1, <2>2, <2>3 DEF IsMain
  <2>4. CASE old # p
    <3>1. oldmain[p] = old /\ old \in Proc
      BY <1>1, <2>4
    <3>2. /\ InUse(old) /\ IsMain(ptable, old) /\ ptable[old].parent = p
          /\ SamePid(old, p) /\ SamePid(p, old)
          /\ \A q \in Proc : ptable[q].main = p => q = p
      BY <3>1, <2>4, Types DEF IndInv, ReapersInv, InUse, SamePid
    <3> QED
      BY <2>1, <2>4, <3>1, <3>2
  <2> QED
    BY <2>3, <2>4
<1>4. initproc \notin V
  BY <1>0, <1>3 DEF IndInv, ParentsInv, SamePid
<1>5. /\ ptable' \in [Proc -> Slot] /\ pc' \in [Proc -> Places]
      /\ oldmain' \in [Proc -> Proc \cup {NoProc}]
      /\ \A q \in Proc \ (V \cup {p}) : ptable'[q] = ptable[q]
      /\ \A q \in V : ptable[q].state = "ZOMBIE" =>
           /\ ptable'[q].state = "UNUSED" /\ ptable'[q].pid = 0
           /\ ptable'[q].tid = 0 /\ ptable'[q].main = NoProc
           /\ ptable'[q].parent = NoProc /\ ~ptable'[q].killed
           /\ ptable'[q].pgdir = 0
      /\ \A q \in V \cup {p} : ptable[q].state # "ZOMBIE" =>
           /\ ptable'[q].pid = ptable[q].pid
           /\ ptable'[q].tid = ptable[q].tid /\ ptable'[q].main = ptable[q].main
           /\ ptable'[q].parent = ptable[q].parent /\ ptable'[q].pgdir = ptable[q].pgdir
      /\ \A q \in V : ptable[q].state # "ZOMBIE" =>
           /\ ptable'[q].killed
           /\ ptable'[q].state = IF ptable[q].state = "SLEEPING" THEN "RUNNABLE"
                                ELSE ptable[q].state
      /\ ptable'[p].killed = ptable[p].killed
      /\ \/ /\ \A q \in V : ptable[q].state = "ZOMBIE"
            /\ ptable'[p].state = "RUNNABLE"
            /\ \A q \in Proc : pc'[q] = IF q = p THEN done ELSE pc[q]
            /\ \A q \in Proc : oldmain'[q] = IF q = p THEN NoProc ELSE oldmain[q]
         \/ /\ \E q \in V : ptable[q].state # "ZOMBIE"
            /\ ptable'[p].state = "SLEEPING"
            /\ \A q \in Proc : pc'[q] = IF q = p THEN again ELSE pc[q]
            /\ \A q \in Proc : oldmain'[q] = IF q = p THEN old ELSE oldmain[q]
  <2>1. /\ ptable \in [Proc -> Slot] /\ pc \in [Proc -> Places]
        /\ oldmain \in [Proc -> Proc \cup {NoProc}]
        /\ again \in Places /\ done \in Places /\ MaxPid \in Nat
    BY <1>0, ThreadsAssumption DEF IndInv, TypeOK, Slot, Places, ThreadsAssumption
  <2>2. KillPass(ptable, p, old, again, done)
    BY DEF PassesOn
  <2> QED
    BY <1>0, <1>1, <1>2, <2>1, <2>2, KillPassTable
<1>6. TypeOK'
  BY <1>0, <1>5 DEF IndInv, TypeOK, Slot
<1>7. \A q \in V : ptable[q].state = "ZOMBIE" => pc[q] = "none" /\ oldmain[q] = NoProc
  BY <1>3, Types DEF IndInv, SlotsInv, ReapersInv, Reaping
<1>8. CASE \A q \in V : ptable[q].state = "ZOMBIE"
  <2>1. /\ \A q \in V : /\ ptable'[q].state = "UNUSED" /\ ptable'[q].pid = 0
                        /\ ptable'[q].tid = 0 /\ ptable'[q].main = NoProc
                        /\ ptable'[q].parent = NoProc /\ ~ptable'[q].killed
                        /\ ptable'[q].pgdir = 0
        /\ \A q \in V : ptable[q].state = "ZOMBIE" /\ pc[q] = "none" /\ oldmain[q] = NoProc
        /\ \A q \in Proc \ (V \cup {p}) : ptable'[q] = ptable[q]
    BY <1>5, <1>7, <1>8
  <2>2. /\ ptable'[p].state = "RUNNABLE" /\ ptable'[p].pid = ptable[p].pid
        /\ ptable'[p].tid = ptable[p].tid /\ ptable'[p].main = ptable[p].main
        /\ ptable'[p].parent = ptable[p].parent /\ ptable'[p].killed = ptable[p].killed
        /\ ptable'[p].pgdir = ptable[p].pgdir
        /\ \A q \in Proc : pc'[q] = IF q = p THEN done ELSE pc[q]
        /\ \A q \in Proc : oldmain'[q] = IF q = p THEN NoProc ELSE oldmain[q]
    BY <1>0, <1>5, <1>8
  <2>3. \A q \in Proc \ V : InUse(q) => ptable[q].main \notin V
    <3> SUFFICES ASSUME NEW q \in Proc \ V, InUse(q), ptable[q].main \in V PROVE FALSE
      OBVIOUS
    <3>1. PICK m \in V : m = ptable[q].main /\ IsMain(ptable, m) /\ SamePid(q, m)
      BY Types DEF IndInv, MainsInv, SamePid
    <3>2. old # p /\ m = old /\ ptable[m].parent = p /\ q # m
      BY <1>3, <3>1
    <3>3. oldmain[q] = m
      BY <1>3, <2>1, <3>1, <3>2 DEF IndInv, AloneInv
    <3>4. q = p
      BY <1>3, <3>1, <3>2, <3>3, Types DEF IndInv, ReapersInv
    <3> QED
      BY <1>0, <1>3, <3>1, <3>4 DEF IsMain
  <2>4. SlotsInv'
    BY <1>0, <1>3, <2>1, <2>2, Types DEF IndInv, SlotsInv, InUse, Reaping
  <2>5. CreatorsInv'
    BY <1>0, <1>3, <2>1, <2>2, Types DEF IndInv, CreatorsInv, InUse, SamePid, IsMain
  <2>6. IdsInv'
    BY <1>0, <1>3, <2>1, <2>2, Types DEF IndInv, IdsInv, InUse, SamePid
  <2>7. MainsInv'
    BY <1>0, <1>3, <2>1, <2>2, <2>3, Types DEF IndInv, MainsInv, InUse, SamePid, IsMain, Reaping
  <2>8. PageTablesInv'
    BY <1>0, <1>3, <2>1, <2>2, Types DEF IndInv, PageTablesInv, InUse, SamePid, IsMain
  <2>9. \A q \in Proc \ {p} : oldmain[q] \notin {NoProc, q} => oldmain[q] \notin V
    BY <1>3, Types DEF IndInv, ReapersInv, IsMain
  <2>10. ReapersInv'
    BY <1>0, <1>3, <2>1, <2>2, <2>9, Types DEF IndInv, ReapersInv, InUse, SamePid, IsMain, Reaping
  <2>11. TakeoverInv'
    <3>1. \A q \in Proc : Takes(q)' => Takes(q)
      BY <1>0, <1>3, <2>1, <2>2 DEF Takes, IsMain, Live
    <3> QED
      BY <1>0, <1>1, <1>3, <2>1, <2>2, <3>1, Types
      DEF IndInv, TakeoverInv, InUse, SamePid, IsMain
  <2>12. AloneInv'
    <3>1. \A q \in Proc \ (V \cup {p}) : InUse(q) /\ SamePid(q, p) => oldmain[q] = p
      <4> SUFFICES ASSUME NEW q \in Proc \ (V \cup {p}), InUse(q), SamePid(q, p)
                   PROVE  oldmain[q] = p
        OBVIOUS
      <4>1. PICK m \in Proc : m = ptable[q].main /\ InUse(m) /\ IsMain(ptable, m) /\ SamePid(m, p)
        BY Types DEF IndInv, MainsInv, SamePid
      <4>2. m # p /\ m \notin V
        BY <1>3, <2>3, <4>1
      <4>3. oldmain[p] = m \/ oldmain[m] = p
        BY <1>0, <4>1, <4>2 DEF IndInv, TakeoverInv, SamePid
      <4>4. oldmain[p] # m
        BY <1>1, <1>3, <4>1, <4>2, Types
      <4>5. \A r \in Proc : ptable[r].main = m => r = m
        BY <4>2, <4>3, <4>4, Types DEF IndInv, ReapersInv
      <4> QED
        BY <4>1, <4>3, <4>4, <4>5
    <3>2. done = "execDone" => \A q \in Proc \ {p} : InUse(q) /\ SamePid(q, p) => oldmain[q] # p
      <4> SUFFICES ASSUME done = "execDone", NEW q \in Proc \ {p}, InUse(q), SamePid(q, p),
                          oldmain[q] = p
                   PROVE  FALSE
        OBVIOUS
      <4>1. Takes(p)
        BY <1>0 DEF Takes, Live
      <4>2. pc[q] \in Reaping /\ ptable[q].state \notin {"UNUSED", "ZOMBIE"}
        BY Types DEF IndInv, ReapersInv, SlotsInv, Reaping
      <4>3. Takes(q)
        BY <4>2 DEF Takes, Live, Reaping
      <4> QED
        BY <1>0, <4>1, <4>3 DEF IndInv, TakeoverInv, SamePid
    <3>3. ASSUME NEW x \in Proc \ {p}, NEW q \in Proc \ {x}, InUse(q)', SamePid(q, x)',
                 \/ pc'[x] \in {"exitDone", "execDone"}
                 \/ ptable'[x].state = "ZOMBIE" /\ IsMain(ptable', x)
          PROVE  oldmain'[q] = x /\ pc'[x] # "execDone"
      <4>1. x \notin V /\ q \notin V
        BY <1>0, <1>3, <2>1, <2>2, <3>3 DEF InUse
      <4>2. oldmain[q] = x /\ pc[x] # "execDone"
        BY <1>0, <2>1, <2>2, <3>3, <4>1 DEF IndInv, AloneInv, InUse, SamePid, IsMain
      <4>3. q # p
        BY <1>1, <1>3, <4>1, <4>2, Types
      <4> QED
        BY <2>2, <4>2, <4>3
    <3>4. ASSUME NEW q \in Proc \ {p}, InUse(q)', SamePid(q, p)'
          PROVE  oldmain'[q] = p /\ pc'[p] # "execDone"
      <4>1. q \notin V
        BY <2>1, <3>4 DEF InUse
      <4>2. InUse(q) /\ SamePid(q, p)
        BY <2>1, <2>2, <3>4, <4>1 DEF InUse, SamePid
      <4> QED
        BY <2>2, <3>1, <3>2, <4>1, <4>2
    <3> QED
      BY <3>3, <3>4 DEF AloneInv
  <2>13. ParentsInv'
    BY <1>0, <1>3, <1>4, <2>1, <2>2, Types DEF IndInv, ParentsInv, InUse, IsMain
  <2>14. SleepersInv'
    BY <1>0, <1>3, <2>1, <2>2, Types DEF IndInv, SleepersInv, IsMain, Live, Reaping
  <2> QED
    BY <1>6, <2>4, <2>5, <2>6, <2>7, <2>8, <2>10, <2>11, <2>12, <2>13, <2>14 DEF IndInv
<1>9. CASE \E q \in V : ptable[q].state # "ZOMBIE"
  <2>0. old # p => ptable[old].state # "ZOMBIE"
    BY <1>3, <1>9
  <2>1. /\ \A q \in V : ptable[q].state = "ZOMBIE" =>
                        /\ ptable'[q].state = "UNUSED" /\ ptable'[q].pid = 0
                        /\ ptable'[q].tid = 0 /\ ptable'[q].main = NoProc
                        /\ ptable'[q].parent = NoProc /\ ~ptable'[q].killed
                        /\ ptable'[q].pgdir = 0
                        /\ pc[q] = "none" /\ oldmain[q] = NoProc
        /\ \A q \in Proc : (q \in V => ptable[q].state # "ZOMBIE") =>
                        /\ ptable'[q].pid = ptable[q].pid /\ ptable'[q].tid = ptable[q].tid
                        /\ ptable'[q].main = ptable[q].main
                        /\ ptable'[q].parent = ptable[q].parent
                        /\ ptable'[q].pgdir = ptable[q].pgdir
                        /\ IF q \in V THEN ptable'[q].killed
                           ELSE ptable'[q].killed = ptable[q].killed
                        /\ q # p => ptable'[q].state =
                             IF q \in V /\ ptable[q].state = "SLEEPING" THEN "RUNNABLE"
                             ELSE ptable[q].state
    BY <1>0, <1>3, <1>5, <1>7
  <2>2. /\ ptable'[p].state = "SLEEPING"
        /\ \A q \in Proc : pc'[q] = IF q = p THEN again ELSE pc[q]
        /\ \A q \in Proc : oldmain'[q] = IF q = p THEN old ELSE oldmain[q]
    BY <1>0, <1>5, <1>9
  <2>3. \A q \in V : ptable[q].state = "ZOMBIE" => ~IsMain(ptable, q)
    BY <1>3, <2>0
  <2>4. SlotsInv'
    BY <1>0, <1>3, <2>1, <2>2, Types DEF IndInv, SlotsInv, InUse, Reaping
  <2>5. CreatorsInv'
    BY <1>0, <1>3, <2>1, <2>2, Types DEF IndInv, CreatorsInv, InUse, SamePid, IsMain
  <2>6. IdsInv'
    BY <1>0, <1>3, <2>1, <2>2, Types DEF IndInv, IdsInv, InUse, SamePid
  <2>7. MainsInv'
    BY <1>0, <1>3, <2>1, <2>2, <2>3, Types DEF IndInv, MainsInv, InUse, SamePid, IsMain, Reaping
  <2>8. PageTablesInv'
    BY <1>0, <1>3, <2>1, <2>2, Types DEF IndInv, PageTablesInv, InUse, SamePid, IsMain
  <2>9. \A q \in Proc \ {p} : oldmain[q] \notin {NoProc, q} => oldmain[q] \notin V
    BY <1>3, Types DEF IndInv, ReapersInv, IsMain
  <2>10. ReapersInv'
    BY <1>0, <1>1, <1>3, <2>0, <2>1, <2>2, <2>3, <2>9, Types
    DEF IndInv, ReapersInv, InUse, SamePid, IsMain, Reaping
  <2>11. TakeoverInv'
    <3>1. \A q \in Proc : Takes(q)' => Takes(q)
      BY <1>0, <1>1, <1>3, <2>1, <2>2 DEF Takes, IsMain, Live, Reaping
    <3> QED
      BY <1>0, <1>1, <1>3, <2>1, <2>2, <3>1, Types
      DEF IndInv, TakeoverInv, InUse, SamePid, IsMain
  <2>12. AloneInv'
    BY <1>0, <1>1, <1>3, <2>1, <2>2, Types DEF IndInv, AloneInv, InUse, SamePid, IsMain
  <2>13. ParentsInv'
    BY <1>0, <1>3, <1>4, <2>1, <2>2, Types DEF IndInv, ParentsInv, InUse, IsMain
  <2>14. SleepersInv'
    BY <1>0, <1>3, <1>9, <2>1, <2>2, Types DEF IndInv, SleepersInv, IsMain, Live, Reaping, InUse
  <2> QED
    BY <1>6, <2>4, <2>5, <2>6, <2>7, <2>8, <2>10, <2>11, <2>12, <2>13, <2>14 DEF IndInv
<1> QED
  BY <1>8, <1>9

(* A thread p that is not the main one takes its process over: the old     *)
(* main thread is alive, becomes its child and is killed.                  *)
TakesOver(p, old, again, done) ==
  /\ ptable[p].state = "RUNNABLE" /\ ~IsMain(ptable, p) /\ old = ptable[p].main
  /\ \/ again = "exitReap" /\ done = "exitDone" /\ pc[p] = "exitKill"
     \/ again = "execReap" /\ done = "execDone" /\ pc[p] = "exec"
  /\ KillPass(TakeOver(ptable, p), p, old, again, done)
  /\ UNCHANGED <<vm, nextpid, panicked, np, thread>>

LEMMA TakeOverInv ==
  ASSUME IndInv, NEW p \in Proc, NEW old, NEW again, NEW done, TakesOver(p, old, again, done)
  PROVE  IndInv'
<1>0. /\ ptable[p].state = "RUNNABLE" /\ ~IsMain(ptable, p) /\ InUse(p) /\ p # initproc
      /\ old = ptable[p].main
      /\ \/ again = "exitReap" /\ done = "exitDone" /\ pc[p] = "exitKill"
         \/ again = "execReap" /\ done = "execDone" /\ pc[p] = "exec"
      /\ UNCHANGED <<vm, nextpid, panicked, np, thread>>
  BY DEF TakesOver, IndInv, ParentsInv, InUse
<1>1. /\ old \in Proc /\ old # p /\ InUse(old) /\ IsMain(ptable, old)
      /\ SamePid(old, p) /\ SamePid(p, old) /\ oldmain[p] = NoProc /\ Takes(p)
      /\ old # initproc
  <2>1. old \in Proc /\ old # p /\ InUse(old) /\ IsMain(ptable, old) /\ SamePid(old, p)
    BY <1>0, Types DEF IndInv, MainsInv, SamePid, IsMain
  <2>2. oldmain[p] = NoProc
    BY <1>0, Types DEF IndInv, ReapersInv, Reaping
  <2>3. Takes(p)
    BY <1>0 DEF Takes, Live
  <2> QED
    BY <1>0, <2>1, <2>2, <2>3 DEF SamePid, IndInv, ParentsInv
<1>2. \A q \in Proc : ptable[q].main # p
  BY <1>0, Types DEF IndInv, MainsInv, SlotsInv
<1>3. ptable[old].state \in {"SLEEPING", "RUNNABLE"}
  <2>1. ptable[old].state # "ZOMBIE"
    BY <1>0, <1>1, Types DEF IndInv, AloneInv
  <2>2. ptable[old].state # "EMBRYO"
    BY <1>0, <1>1, Types DEF IndInv, PageTablesInv
  <2>3. ptable[old].state \in States
    BY <1>1 DEF IndInv, TypeOK
  <2> QED
    BY <1>1, <2>1, <2>2, <2>3 DEF States, InUse
<1>4. PICK t : /\ t = TakeOver(ptable, p) /\ t \in [Proc -> Slot]
               /\ \A q \in Proc \ {p, old} : t[q] = ptable[q]
               /\ t[p].main = p /\ t[p].pid = ptable[p].pid /\ t[p].tid = ptable[p].tid
               /\ t[p].parent = ptable[p].parent /\ t[p].killed = ptable[p].killed
               /\ t[p].pgdir = ptable[p].pgdir /\ t[p].state = "RUNNABLE"
               /\ t[old].parent = p /\ t[old].pid = ptable[old].pid
               /\ t[old].tid = ptable[old].tid /\ t[old].main = old
               /\ t[old].pgdir = ptable[old].pgdir /\ t[old].state = ptable[old].state
  <2>1. PICK t : t = TakeOver(ptable, p)
    OBVIOUS
  <2>2. t = [ptable EXCEPT ![p].main = p, ![old].parent = p]
    BY <1>0, <2>1 DEF TakeOver
  <2>3. ptable \in [Proc -> Slot] /\ ptable[p] \in Slot /\ ptable[old] \in Slot
    BY <1>1 DEF IndInv, TypeOK, Slot
  <2>4. [ptable[p] EXCEPT !.main = p] \in Slot /\ [ptable[old] EXCEPT !.parent = p] \in Slot
    BY <2>3 DEF Slot
  <2>5. t = [q \in Proc |-> IF q = p THEN [ptable[p] EXCEPT !.main = p]
                            ELSE IF q = old THEN [ptable[old] EXCEPT !.parent = p]
                            ELSE ptable[q]]
    BY <1>1, <2>2, <2>3
  <2>6. t \in [Proc -> Slot]
    BY <2>3, <2>4, <2>5
  <2>7. t[p] = [ptable[p] EXCEPT !.main = p] /\ t[old] = [ptable[old] EXCEPT !.parent = p]
    BY <1>1, <2>5
  <2> QED
    BY SMTT(30), <1>0, <1>1, <2>1, <2>3, <2>5, <2>6, <2>7 DEF Slot, IsMain
<1>5. {old} = Victims(t, p, old)
  BY <1>1, <1>2, <1>4 DEF Victims
<1>6. /\ ptable' \in [Proc -> Slot] /\ pc' \in [Proc -> Places]
      /\ oldmain' \in [Proc -> Proc \cup {NoProc}]
      /\ \A q \in Proc \ {p, old} : ptable'[q] = ptable[q]
      /\ ptable'[p].main = p /\ ptable'[p].pid = ptable[p].pid /\ ptable'[p].tid = ptable[p].tid
      /\ ptable'[p].parent = ptable[p].parent /\ ptable'[p].killed = ptable[p].killed
      /\ ptable'[p].pgdir = ptable[p].pgdir /\ ptable'[p].state = "SLEEPING"
      /\ ptable'[old].parent = p /\ ptable'[old].pid = ptable[old].pid
      /\ ptable'[old].tid = ptable[old].tid /\ ptable'[old].main = old
      /\ ptable'[old].pgdir = ptable[old].pgdir /\ ptable'[old].killed
      /\ ptable'[old].state = "RUNNABLE"
      /\ \A q \in Proc : pc'[q] = IF q = p THEN again ELSE pc[q]
      /\ \A q \in Proc : oldmain'[q] = IF q = p THEN old ELSE oldmain[q]
  <2>1. /\ pc \in [Proc -> Places] /\ oldmain \in [Proc -> Proc \cup {NoProc}]
        /\ again \in Places /\ done \in Places /\ MaxPid \in Nat
    BY <1>0, ThreadsAssumption DEF IndInv, TypeOK, Places, ThreadsAssumption
  <2>2. KillPass(t, p, old, again, done)
    BY <1>4 DEF TakesOver
  <2>3. PICK V : V = {old} /\ V = Victims(t, p, old)
    BY <1>5
  <2>a. t[p].state = "RUNNABLE" /\ t \in [Proc -> Slot] /\ old \in Proc
    BY <1>1, <1>4
  <2>4. /\ ptable' \in [Proc -> Slot] /\ pc' \in [Proc -> Places]
        /\ oldmain' \in [Proc -> Proc \cup {NoProc}]
        /\ \A q \in Proc \ (V \cup {p}) : ptable'[q] = t[q]
        /\ \A q \in V \cup {p} : t[q].state # "ZOMBIE" =>
             /\ ptable'[q].pid = t[q].pid
             /\ ptable'[q].tid = t[q].tid /\ ptable'[q].main = t[q].main
             /\ ptable'[q].parent = t[q].parent /\ ptable'[q].pgdir = t[q].pgdir
        /\ \A q \in V : t[q].state # "ZOMBIE" =>
             /\ ptable'[q].killed
             /\ ptable'[q].state = IF t[q].state = "SLEEPING" THEN "RUNNABLE" ELSE t[q].state
        /\ ptable'[p].killed = t[p].killed
        /\ \/ \A q \in V : t[q].state = "ZOMBIE"
           \/ /\ ptable'[p].state = "SLEEPING"
              /\ \A q \in Proc : pc'[q] = IF q = p THEN again ELSE pc[q]
              /\ \A q \in Proc : oldmain'[q] = IF q = p THEN old ELSE oldmain[q]
    <3> HIDE <1>4
    <3> QED
      BY <2>1, <2>2, <2>3, <2>a, KillPassTable
  <2> QED
    BY <1>3, <1>4, <2>3, <2>4
<1>7. again \in Reaping /\ pc[p] \in {"exitKill", "exec"}
  BY <1>0 DEF Reaping
<1>8. TypeOK'
  BY <1>0, <1>6 DEF IndInv, TypeOK, Slot
<1>9. SlotsInv'
  BY <1>0, <1>1, <1>3, <1>6, <1>7, Types DEF IndInv, SlotsInv, InUse, Reaping
<1>10. CreatorsInv'
  BY SMTT(30), <1>0, <1>1, <1>3, <1>6, Types DEF IndInv, CreatorsInv, InUse, SamePid, IsMain
<1>11. IdsInv'
  BY <1>0, <1>1, <1>3, <1>6, Types DEF IndInv, IdsInv, InUse, SamePid
<1>12. MainsInv'
  BY SMTT(30), <1>0, <1>1, <1>3, <1>6, <1>7, Types DEF IndInv, MainsInv, InUse, SamePid, IsMain, Reaping
<1>13. PageTablesInv'
  BY SMTT(30), <1>0, <1>1, <1>3, <1>6, Types DEF IndInv, PageTablesInv, InUse, SamePid, IsMain
<1>14. \A q \in Proc \ {p} : oldmain[q] \notin {NoProc, q} => oldmain[q] \notin {old, p}
  <2> SUFFICES ASSUME NEW q \in Proc \ {p}, oldmain[q] \notin {NoProc, q}, oldmain[q] \in {old, p}
               PROVE  FALSE
    OBVIOUS
  <2>1. oldmain[q] = old /\ SamePid(old, q)
    BY <1>0, <1>1, Types DEF IndInv, ReapersInv, IsMain
  <2>2. pc[q] \in Reaping /\ ptable[q].state \notin {"UNUSED", "ZOMBIE"}
    BY Types DEF IndInv, ReapersInv, SlotsInv, Reaping
  <2>3. Takes(q)
    BY <2>1, <2>2 DEF Takes, Live, Reaping
  <2> QED
    BY <1>0, <1>1, <2>1, <2>2, <2>3 DEF IndInv, TakeoverInv, SamePid, InUse
<1>15. ReapersInv'
  BY SMTT(30), <1>0, <1>1, <1>2, <1>3, <1>6, <1>7, <1>14, Types
  DEF IndInv, ReapersInv, InUse, SamePid, IsMain, Reaping
<1>16. TakeoverInv'
  <2>1. \A q \in Proc : Takes(q)' => Takes(q)
    BY <1>0, <1>1, <1>3, <1>6 DEF Takes, IsMain, Live
  <2>2. oldmain[old] \in {NoProc, old}
    BY <1>0, <1>1, Types DEF IndInv, ReapersInv
  <2>3. \A q \in Proc \ {p, old} : InUse(q) /\ SamePid(q, p) => ~IsMain(ptable, q)
    BY <1>1, <1>14, <2>2, Types DEF IndInv, TakeoverInv, SamePid
  <2>4. ASSUME NEW x \in Proc, NEW q \in Proc \ {x}, InUse(x)', InUse(q)', SamePid(x, q)'
        PROVE  ~(Takes(x) /\ Takes(q))'
    BY <1>0, <1>1, <1>3, <1>6, <2>1, <2>4, Types DEF IndInv, TakeoverInv, InUse, SamePid
  <2>5. ASSUME NEW x \in Proc, NEW q \in Proc \ {x}, InUse(x)', InUse(q)', SamePid(x, q)',
               IsMain(ptable', x), IsMain(ptable', q)
        PROVE  oldmain'[x] = q \/ oldmain'[q] = x
    BY <1>0, <1>1, <1>3, <1>6, <2>3, <2>5, Types
    DEF IndInv, TakeoverInv, InUse, SamePid, IsMain
  <2> QED
    BY <2>4, <2>5 DEF TakeoverInv, IsMain
<1>17. AloneInv'
  BY <1>0, <1>1, <1>3, <1>6, <1>7, Types DEF IndInv, AloneInv, InUse, SamePid, IsMain, Reaping
<1>18. ParentsInv'
  BY <1>0, <1>1, <1>3, <1>6, Types DEF IndInv, ParentsInv, InUse, IsMain, SamePid
<1>19. SleepersInv'
  BY SMTT(30), <1>0, <1>1, <1>2, <1>3, <1>6, <1>7, Types
  DEF IndInv, SleepersInv, IsMain, Live, Reaping, InUse
<1> QED
  BY <1>8, <1>9, <1>10, <1>11, <1>12, <1>13, <1>15, <1>16, <1>17, <1>18, <1>19 DEF IndInv

LEMMA KillOthersInv == ASSUME IndInv, NEW p \in Proc, KillOthers(p) PROVE IndInv'
<1>1. ASSUME NEW again, NEW done, KillPass(TakeOver(ptable, p), p, ptable[p].main, again, done),
             \/ again = "exitReap" /\ done = "exitDone" /\ At(p, "exitKill")
             \/ again = "execReap" /\ done = "execDone" /\ At(p, "exec")
      PROVE  IndInv'
  <2>1. CASE IsMain(ptable, p)
    <3>1. PassesOn(p, p, again, done)
      BY <1>1, <2>1 DEF KillOthers, PassesOn, At, TakeOver, IsMain, Reaping
    <3> QED
      BY <3>1, KillMainInv
  <2>2. CASE ~IsMain(ptable, p)
    <3>1. TakesOver(p, ptable[p].main, again, done)
      BY <1>1, <2>2 DEF KillOthers, TakesOver, At
    <3> QED
      BY <3>1, TakeOverInv
  <2> QED
    BY <2>1, <2>2
<1> QED
  BY <1>1 DEF KillOthers

LEMMA KillOthersAgainInv == ASSUME IndInv, NEW p \in Proc, KillOthersAgain(p) PROVE IndInv'
<1>1. ASSUME NEW again, NEW done, KillPass(ptable, p, oldmain[p], again, done),
             \/ again = "exitReap" /\ done = "exitDone" /\ At(p, "exitReap")
             \/ again = "execReap" /\ done = "execDone" /\ At(p, "execReap")
      PROVE  IndInv'
  <2>1. IsMain(ptable, p)
    BY <1>1 DEF At, IndInv, MainsInv, Reaping
  <2>2. PassesOn(p, oldmain[p], again, done)
    BY <1>1, <2>1 DEF KillOthersAgain, PassesOn, At, Reaping
  <2> QED
    BY <2>2, KillMainInv
<1> QED
  BY <1>1 DEF KillOthersAgain

-----------------------------------------------------------------------------
(* The theorems.                                                           *)

LEMMA NextInv == ASSUME IndInv, OneTakeover, [Next]_vars PROVE IndInv'
<1>1. CASE Next
  <2>1. PICK p \in Proc : Step(p)
    BY <1>1 DEF Next
  <2>2. CASE Syscall(p) \/ TrapKills(p)
    BY <2>2, SyscallInv, TrapKillsInv
  <2>3. CASE ForkAlloc(p) \/ ForkNoMemory(p) \/ ForkDone(p)
    BY <2>3, ForkAllocInv, ForkNoMemoryInv, ForkDoneInv
  <2>4. CASE Create(p) \/ CreateFails(p) \/ CreateDone(p)
    BY <2>4, CreateInv, CreateFailsInv, CreateDoneInv
  <2>5. CASE ThreadExit(p) \/ Exit(p)
    BY <2>5, ThreadExitInv, ExitInv
  <2>6. CASE Join(p) \/ JoinNone(p) \/ JoinAgain(p)
    BY <2>6, JoinInv, JoinNoneInv, JoinAgainInv
  <2>7. CASE Wait(p) \/ Kill(p)
    BY <2>7, WaitInv, KillInv
  <2>8. CASE ExecFails(p) \/ KillOthers(p) \/ KillOthersAgain(p) \/ ExecCommit(p)
    BY <2>8, ExecFailsInv, KillOthersInv, KillOthersAgainInv, ExecCommitInv
  <2> QED
    BY <2>1, <2>2, <2>3, <2>4, <2>5, <2>6, <2>7, <2>8 DEF Step
<1>2. CASE UNCHANGED vars
  <2>1. UNCHANGED <<ptable, vm, nextpid, panicked, pc, np, oldmain, thread>>
    BY <1>2 DEF vars, locals
  <2>2. \A q \in Proc : Takes(q)' = Takes(q)
    BY <2>1 DEF Takes, Live, IsMain
  <2>3. TypeOK' /\ SlotsInv' /\ CreatorsInv' /\ IdsInv' /\ MainsInv' /\ PageTablesInv'
    BY <2>1 DEF IndInv, TypeOK, SlotsInv, CreatorsInv, IdsInv, MainsInv, PageTablesInv, InUse,
         SamePid, IsMain
  <2>4. ReapersInv' /\ AloneInv' /\ ParentsInv' /\ SleepersInv'
    BY <2>1 DEF IndInv, ReapersInv, AloneInv, ParentsInv, SleepersInv, InUse, SamePid, IsMain,
         Live
  <2>5. TakeoverInv'
    BY <2>1, <2>2 DEF IndInv, TakeoverInv, InUse, SamePid, IsMain
  <2> QED
    BY <2>3, <2>4, <2>5 DEF IndInv
<1> QED
  BY <1>1, <1>2

LEMMA IndInvHolds == ASSUME OneTakeover PROVE Spec => []IndInv
<1>1. Init => IndInv
  BY InitInv
<1>2. IndInv /\ [Next]_vars => IndInv'
  BY NextInv
<1> QED
  BY <1>1, <1>2, PTL DEF Spec

(* Whatever the calls and however their sections interleave, slots, pids,  *)
(* tids, places and locals keep their types.                               *)
THEOREM ThreadsTyped == ASSUME OneTakeover PROVE Spec => []TypeOK
<1>1. IndInv => TypeOK
  BY DEF IndInv
<1> QED
  BY <1>1, IndInvHolds, PTL

(* No exit(), wait(), thread_join() or exec() leaves a process that may    *)
(* run without its page table, or a slot with a main thread that is gone.  *)
THEOREM PointersStayLive == ASSUME OneTakeover PROVE Spec => []PointersLive
<1>1. IndInv => PointersLive
  <2> SUFFICES ASSUME IndInv PROVE PageTablesLive /\ MainInUse
    BY DEF PointersLive
  <2>1. PageTablesLive
    BY DEF IndInv, PageTablesInv, PageTablesLive, InUse
  <2>2. MainInUse
    BY DEF IndInv, MainsInv, MainInUse, InUse
  <2> QED
    BY <2>1, <2>2
<1> QED
  BY <1>1, IndInvHolds, PTL

(* thread_kill_others() returns only when the caller is the last thread of *)
(* its process, or the one that took the process over waits for it.        *)
THEOREM ExitsTakeAllThreads == ASSUME OneTakeover PROVE Spec => []ExitTakesAllThreads
<1>1. IndInv => ExitTakesAllThreads
  <2> SUFFICES ASSUME IndInv, NEW p \in Proc, pc[p] \in {"exitDone", "execDone"},
                      NEW q \in Proc \ {p}, ptable[q].state # "UNUSED",
                      ptable[q].pid = ptable[p].pid
               PROVE  pc[p] = "exitDone" /\ oldmain[q] = p
    BY DEF ExitTakesAllThreads
  <2> QED
    BY DEF IndInv, AloneInv, InUse, SamePid
<1> QED
  BY <1>1, IndInvHolds, PTL

(* No exit(), thread_exit() or kill() passes unseen by a sleeper: whoever  *)
(* sleeps in wait(), thread_join() or thread_kill_others() still has to.   *)
THEOREM ExitsAreSeen == ASSUME OneTakeover PROVE Spec => []NoLostExit
<1>1. IndInv => NoLostExit
  <2> SUFFICES ASSUME IndInv, NEW p \in Proc, ptable[p].state = "SLEEPING"
               PROVE  CASE pc[p] = "wait" ->
                             \A c \in Children(p) : ptable[c].state # "ZOMBIE"
                        [] pc[p] = "join2" ->
                             \E q \in Proc : ptable[q].tid = thread[p] /\ Live(ptable, q)
                        [] OTHER ->
                             \E q \in Victims(ptable, p, oldmain[p]) : Live(ptable, q)
    BY DEF NoLostExit
  <2>1. pc[p] \in {"wait", "join2"} \cup Reaping
    BY DEF IndInv, SlotsInv
  <2>2. CASE pc[p] = "wait"
    BY <2>2 DEF IndInv, SleepersInv, Children
  <2>3. CASE pc[p] = "join2"
    BY <2>3 DEF IndInv, SleepersInv
  <2>4. CASE pc[p] \in Reaping
    <3>1. PICK q \in Proc \ {p} : (ptable[q].main = p \/ oldmain[p] = q) /\ Live(ptable, q)
      BY <2>4 DEF IndInv, SleepersInv
    <3>2. q \in Victims(ptable, p, oldmain[p])
      BY <3>1 DEF Victims
    <3>3. pc[p] # "wait" /\ pc[p] # "join2"
      BY <2>4 DEF Reaping
    <3> QED
      BY <3>1, <3>2, <3>3
  <2> QED
    BY <2>1, <2>2, <2>3, <2>4
<1> QED
  BY <1>1, IndInvHolds, PTL
=============================================================================
