------------------------------- MODULE Memory -------------------------------
(* Physical pages, page tables and the sizes of processes of project02     *)
(* (kalloc.c, vm.c, growproc() and setmemorylimit() of proc.c, exec.c):    *)
(* threads share a page table, and their sizes and limit are kept in proc. *)
(* The free list is its length: no property tells two free pages apart.    *)
(* A size is in bytes.  A user page holds PGSIZE of them and a page table  *)
(* NPTENTRIES pages.  pgdirlock is a spinlock, so a section under it is    *)
(* one step; exec() allocates without it, one step per call of allocuvm(). *)
EXTENDS Integers, FiniteSets, SequencesExt

CONSTANTS
  MemSlots,      \* NPROC, slots 1 .. MemSlots
  MemSpaces,     \* bound: page tables at a time
  MemPages,      \* pages the allocator got, a set of possible numbers
  PGSIZE, NPTENTRIES, KERNBASE,
  KernTables,    \* tables setupkvm() allocates for the kernel's part
  SbrkArgs, Limits, StackSizes,      \* arguments of the calls
  Programs,      \* each a sequence of segments [vaddr, memsz, filesz]
  ArgBytes       \* how many bytes the arguments of exec() take on the stack

Segment == [vaddr : Nat, memsz : Nat, filesz : Nat]

ASSUME MemoryAssumption ==
  /\ MemSlots \in Nat \ {0} /\ MemSpaces \in Nat \ {0}
  /\ PGSIZE \in Nat \ {0} /\ NPTENTRIES \in Nat \ {0} /\ KERNBASE \in Nat \ {0} /\ KernTables \in Nat
  /\ \A n \in MemPages : n \in Nat /\ n >= KernTables + 4      \* initcode's
  /\ SbrkArgs \subseteq Int /\ Limits \subseteq Nat /\ StackSizes \subseteq Nat /\ ArgBytes \subseteq Nat
  /\ Programs \subseteq Seq(Segment)

VARIABLES
  mproc,         \* the table of processes and threads
  mspace,        \* page tables: tabs, tables of the user part, and user, for
                 \* each user page that is mapped whether it has PTE_U
  frames,        \* length of the free list
  mpages,        \* pages in all
  mpanic         \* the kernel has panicked

memvars == <<mproc, mspace, frames, mpages, mpanic>>

MemSlot == 1 .. MemSlots
NoSpace == 0
MemUInt == 2 * KERNBASE
NoPages == [p \in {} |-> FALSE]
NoTable == [used |-> FALSE, tabs |-> {}, user |-> NoPages]
MemFree == [state |-> "UNUSED", main |-> 0, pgdir |-> NoSpace, sz |-> 0, memlim |-> 0,
            stacksize |-> 1, parent |-> 0, at |-> "user", new |-> NoSpace, nsz |-> 0, prog |-> <<>>]

PageUp(a) == (a + PGSIZE - 1) \div PGSIZE      \* PGROUNDUP, as a page number
Below(a) == 0 .. PageUp(a) - 1
Pdx(p) == p \div NPTENTRIES
Cost(s) == IF s.used THEN 1 + KernTables + Cardinality(s.tabs) + Cardinality(DOMAIN s.user) ELSE 0

-----------------------------------------------------------------------------
Kfree(f, k) == f + k
Kalloced(f, k) == f >= k      \* k calls of kalloc() succeed
Freerange(n) == Kfree(0, n)   \* kinit1() and kinit2()

(* kalloc() and mappages() of one page; a table for it may be missing too. *)
(* When that fails the page is given back.                                 *)
MapPage(m, p, u) ==
  LET need == IF Pdx(p) \in m.s.tabs THEN 1 ELSE 2
  IN  IF ~m.ok THEN m
      ELSE IF p \in DOMAIN m.s.user THEN [m EXCEPT !.ok = FALSE, !.panic = TRUE]      \* "remap"
      ELSE IF ~Kalloced(m.f, need) THEN [m EXCEPT !.ok = FALSE]
      ELSE [m EXCEPT !.f = @ - need, !.s.tabs = @ \cup {Pdx(p)},
                     !.s.user = [q \in DOMAIN @ \cup {p} |-> IF q = p THEN u ELSE @[q]]]

(* n pages, the one numbered first and those after it.                     *)
MapAll(s, f, first, n, flag) ==
  LET upto[i \in 0 .. n] ==
        IF i = 0 THEN [ok |-> TRUE, panic |-> FALSE, s |-> s, f |-> f]
        ELSE MapPage(upto[i - 1], first + i - 1, flag[first + i - 1])
  IN  upto[n]

(* deallocuvm(): tables stay.  sz is what it returns.                      *)
Deallocuvm(s, f, oldsz, newsz) ==
  LET gone == {p \in DOMAIN s.user : p >= PageUp(newsz) /\ p < PageUp(oldsz)}
  IN  IF newsz >= oldsz THEN [s |-> s, f |-> f, sz |-> oldsz, panic |-> FALSE]
      ELSE [s |-> [s EXCEPT !.user = [p \in DOMAIN @ \ gone |-> @[p]]], f |-> Kfree(f, Cardinality(gone)),
            sz |-> newsz, panic |-> FALSE]

(* allocuvm(): 0 when it fails, and then the pages are freed again.        *)
Allocuvm(s, f, oldsz, newsz) ==
  LET m == MapAll(s, f, PageUp(oldsz), PageUp(newsz) - PageUp(oldsz), [p \in Below(newsz) |-> TRUE])
      d == Deallocuvm(m.s, m.f, newsz, oldsz)
  IN  IF newsz >= KERNBASE THEN [s |-> s, f |-> f, sz |-> 0, panic |-> FALSE]
      ELSE IF newsz < oldsz THEN [s |-> s, f |-> f, sz |-> oldsz, panic |-> FALSE]
      ELSE IF m.ok THEN [s |-> m.s, f |-> m.f, sz |-> newsz, panic |-> FALSE]
      ELSE [s |-> d.s, f |-> d.f, sz |-> 0, panic |-> m.panic]

SetupkvmFits(f) == Kalloced(f, 1 + KernTables)
NewTable == [NoTable EXCEPT !.used = TRUE]

(* copyuvm() into a new table d, all or nothing.                           *)
Copyuvm(s, f, sz) ==
  LET m == MapAll(NewTable, f - 1 - KernTables, 0, PageUp(sz), s.user)
  IN  IF SetupkvmFits(f) /\ m.ok THEN [ok |-> TRUE, s |-> m.s, f |-> m.f]
      ELSE [ok |-> FALSE, s |-> NoTable, f |-> f]

Clearpteu(s, p) == [s EXCEPT !.user[p] = FALSE]
Inituvm(s) == [s EXCEPT !.tabs = {0}, !.user = [p \in {0} |-> TRUE]]

(* The pages of n bytes at a.  loaduvm() panics unless they are mapped,    *)
(* copyout() fails unless user code may touch them.                        *)
Touches(a, n) == {p \in 0 .. KERNBASE : p * PGSIZE < a + n /\ (p + 1) * PGSIZE > a}
Loaduvm(s, seg) == Touches(seg.vaddr, seg.filesz) \subseteq DOMAIN s.user
Copyout(s, a, n) == \A p \in Touches(a, n) : p \in DOMAIN s.user /\ s.user[p]

-----------------------------------------------------------------------------
MemoryInit ==      \* userinit(): initcode in one page
  /\ mpages \in MemPages
  /\ mproc = [t \in MemSlot |-> IF t = 1 THEN [MemFree EXCEPT !.state = "RUN", !.main = 1, !.pgdir = 1, !.sz = PGSIZE]
                               ELSE MemFree]
  /\ mspace = [i \in 1 .. MemSpaces |->
                 IF i = 1 THEN Inituvm(NewTable) ELSE NoTable]
  /\ frames = Freerange(mpages) - (1 + Cost(mspace[1]))
  /\ mpanic = FALSE

MemLive(t) == mproc[t].state \in {"RUN", "ZOMBIE"}
MemThreads(m) == {t \in MemSlot : mproc[t].state # "UNUSED" /\ mproc[t].main = m}
Space(t) == mspace[mproc[t].pgdir]
MemAt(t, at) == ~mpanic /\ mproc[t].state = "RUN" /\ mproc[t].at = at
MemCalls(t) == MemAt(t, "user") /\ 0 \in DOMAIN Space(t).user      \* it can run its code
MemUnused == {t \in MemSlot : mproc[t].state = "UNUSED"}
MemFirst(S) == CHOOSE t \in S : \A u \in S : t <= u
FreeSpaces == {i \in 1 .. MemSpaces : ~mspace[i].used}

(* growproc() of t by n, under pgdirlock.  Mutant: a thread has a limit of *)
(* its own.                                                                *)
LimitOfThread(t) == mproc[t].memlim
LimitOf(t) == mproc[mproc[t].main].memlim
Sized(procs, t, sz) ==
  [q \in MemSlot |-> IF procs[q].main = procs[t].main THEN [procs[q] EXCEPT !.sz = sz] ELSE procs[q]]

Growproc(t, f, n) ==
  LET new == (mproc[t].sz + n) % MemUInt
  IN  IF n > 0 /\ LimitOf(t) # 0 /\ LimitOf(t) < new THEN [s |-> Space(t), f |-> f, sz |-> 0, panic |-> FALSE]
      ELSE IF n > 0 THEN Allocuvm(Space(t), f, mproc[t].sz, new)
      ELSE Deallocuvm(Space(t), f, mproc[t].sz, new)

Sbrk(t) ==
  \E n \in SbrkArgs :
    LET g == Growproc(t, frames, n)
    IN  /\ MemCalls(t)
        /\ mspace' = [mspace EXCEPT ![mproc[t].pgdir] = g.s]
        /\ frames' = g.f
        /\ mproc' = IF g.sz = 0 THEN mproc ELSE Sized(mproc, t, g.sz)
        /\ mpanic' = g.panic
        /\ UNCHANGED mpages

(* thread_create(): a slot, its kernel stack, two pages, the lower one the *)
(* guard.  When it fails it returns with pgdirlock held, and the kernel    *)
(* panics at the next sched().                                             *)
Create(t) ==
  LET u == MemFirst(MemUnused)
      g == Growproc(t, frames - 1, 2 * PGSIZE)
      guard == (g.sz - 2 * PGSIZE) \div PGSIZE
  IN  /\ MemCalls(t) /\ UNCHANGED mpages
      /\ \/ /\ MemUnused = {} \/ ~Kalloced(frames, 1)
            /\ mpanic' = TRUE /\ UNCHANGED <<mproc, mspace, frames>>
         \/ /\ MemUnused # {} /\ Kalloced(frames, 1) /\ g.sz = 0
            /\ mpanic' = TRUE /\ UNCHANGED mproc
            /\ mspace' = [mspace EXCEPT ![mproc[t].pgdir] = g.s] /\ frames' = Kfree(g.f, 1)
         \/ /\ MemUnused # {} /\ Kalloced(frames, 1) /\ g.sz # 0
            /\ mspace' = [mspace EXCEPT ![mproc[t].pgdir] = Clearpteu(g.s, guard)]
            /\ frames' = g.f
            /\ mproc' = [Sized(mproc, t, g.sz) EXCEPT ![u] =
                 [MemFree EXCEPT !.state = "RUN", !.main = mproc[t].main, !.pgdir = mproc[t].pgdir,
                                 !.sz = g.sz, !.parent = mproc[mproc[t].main].parent]]
            /\ UNCHANGED mpanic

-----------------------------------------------------------------------------
(* fork(): allocproc(), then copyuvm() under pgdirlock.                    *)
ForkStart(t) ==
  LET u == MemFirst(MemUnused)
  IN  /\ MemCalls(t) /\ MemUnused # {} /\ Kalloced(frames, 1) /\ FreeSpaces # {}
      /\ frames' = frames - 1
      /\ mproc' = [mproc EXCEPT ![u] = [MemFree EXCEPT !.state = "EMBRYO", !.main = u, !.parent = t],
                                ![t].at = "fork"]
      /\ UNCHANGED <<mspace, mpages, mpanic>>

ForkCopies(t) ==
  LET child == CHOOSE u \in MemSlot : mproc[u].state = "EMBRYO" /\ mproc[u].parent = t
      missing == ~(Below(mproc[t].sz) \subseteq DOMAIN Space(t).user)
      c == Copyuvm(Space(t), frames, mproc[t].sz)
      id == MemFirst(FreeSpaces)
      main == mproc[mproc[t].main]
      back == [mproc EXCEPT ![t].at = "user"]
  IN  /\ MemAt(t, "fork") /\ FreeSpaces # {} /\ UNCHANGED mpages
      /\ \/ missing /\ mpanic' = TRUE /\ UNCHANGED <<mproc, mspace, frames>>      \* "page not present"
         \/ /\ ~missing /\ c.ok
            /\ mspace' = [mspace EXCEPT ![id] = c.s] /\ frames' = c.f
            /\ mproc' = [back EXCEPT ![child] = [@ EXCEPT !.state = "RUN", !.pgdir = id, !.sz = mproc[t].sz,
                                                    !.memlim = main.memlim, !.stacksize = main.stacksize]]
            /\ UNCHANGED mpanic
         \/ /\ ~missing /\ ~c.ok
            /\ frames' = Kfree(c.f, 1) /\ mproc' = [back EXCEPT ![child] = MemFree]
            /\ UNCHANGED <<mspace, mpanic>>

SetLimit(t) ==      \* setmemorylimit() of the process of u
  \E u \in MemSlot, limit \in Limits :
    /\ MemCalls(t) /\ mproc[u].state # "UNUSED"
    /\ limit = 0 \/ mproc[u].sz <= limit
    /\ mproc' = [mproc EXCEPT ![mproc[u].main].memlim = limit]
    /\ UNCHANGED <<mspace, frames, mpages, mpanic>>

-----------------------------------------------------------------------------
(* exec() and exec2().  Its new page table is a local until it commits.    *)
(* Two threads of a process are not in it at once (see Threads).           *)
ExecStart(t) ==
  \E program \in Programs, st \in StackSizes \cup {mproc[t].stacksize} :
    LET id == MemFirst(FreeSpaces)
        called == [mproc EXCEPT ![t].stacksize = st]
    IN  /\ MemCalls(t) /\ \A u \in MemThreads(mproc[t].main) : mproc[u].new = NoSpace
        /\ IF SetupkvmFits(frames)
           THEN /\ FreeSpaces # {}
                /\ mspace' = [mspace EXCEPT ![id] = NewTable] /\ frames' = frames - 1 - KernTables
                /\ mproc' = [called EXCEPT ![t] = [@ EXCEPT !.at = "load", !.new = id, !.nsz = 0, !.prog = program]]
           ELSE mproc' = called /\ UNCHANGED <<mspace, frames>>
        /\ UNCHANGED <<mpages, mpanic>>

(* The label bad, with s in place of the new table and f frames free.      *)
Bad(s, f) == Kfree(f, Cost(s))
ExecBad(t, s, f) ==
  /\ mspace' = [mspace EXCEPT ![mproc[t].new] = NoTable] /\ frames' = Bad(s, f)
  /\ mproc' = [mproc EXCEPT ![t] = [@ EXCEPT !.at = "user", !.new = NoSpace, !.nsz = 0, !.prog = <<>>]]
  /\ UNCHANGED <<mpages, mpanic>>

ExecGoes(t, s, f, at, sz, prog) ==
  /\ mspace' = [mspace EXCEPT ![mproc[t].new] = s] /\ frames' = f
  /\ mproc' = [mproc EXCEPT ![t] = [@ EXCEPT !.at = at, !.nsz = sz, !.prog = prog]]
  /\ UNCHANGED mpages

ExecLoad(t) ==      \* the next segment, whose header or contents may turn out unreadable
  LET seg == Head(mproc[t].prog)
      a == Allocuvm(mspace[mproc[t].new], frames, mproc[t].nsz, seg.vaddr + seg.memsz)
  IN  /\ MemAt(t, "load") /\ mproc[t].prog # <<>>
      /\ \/ /\ a.sz # 0 /\ seg.vaddr % PGSIZE = 0
            /\ ExecGoes(t, a.s, a.f, "load", a.sz, Tail(mproc[t].prog))
            /\ mpanic' = (a.panic \/ ~Loaduvm(a.s, seg))      \* "address should exist"
         \/ ExecBad(t, a.s, a.f)

ExecStack(t) ==     \* the stack, a guard below it, and the arguments, which may not fit
  \E n \in ArgBytes :
    LET base == PageUp(mproc[t].nsz) * PGSIZE
        a == Allocuvm(mspace[mproc[t].new], frames, base, base + (mproc[t].stacksize + 1) * PGSIZE)
        guarded == Clearpteu(a.s, base \div PGSIZE)
    IN  /\ MemAt(t, "load") /\ mproc[t].prog = <<>>
        /\ IF a.sz # 0 /\ Copyout(guarded, a.sz - n, n) THEN ExecGoes(t, guarded, a.f, "commit", a.sz, <<>>) /\ UNCHANGED mpanic
           ELSE ExecBad(t, a.s, a.f)

(* thread_kill_others() by t is done when the others, on their way back to *)
(* user space, have ended; t is the main thread then.  Their children go   *)
(* to initproc.                                                            *)
Others(t) == MemThreads(mproc[t].main) \ {t}
OthersLeave(t) == \A u \in Others(t) : mproc[u].at = "user"
WithoutOthers(t) ==
  [u \in MemSlot |->
     IF u \in Others(t) THEN MemFree
     ELSE IF u = t THEN [mproc[t] EXCEPT !.main = t]
     ELSE [mproc[u] EXCEPT !.parent = IF @ \in Others(t) THEN 1 ELSE @]]

ExecCommit(t) ==
  /\ MemAt(t, "commit") /\ OthersLeave(t)
  /\ mspace' = [mspace EXCEPT ![mproc[t].pgdir] = NoTable]
  /\ frames' = Kfree(frames, Cardinality(Others(t)) + Cost(Space(t)))
  /\ mproc' = [WithoutOthers(t) EXCEPT ![t] =
       [@ EXCEPT !.at = "user", !.pgdir = mproc[t].new, !.sz = mproc[t].nsz, !.new = NoSpace, !.nsz = 0]]
  /\ UNCHANGED <<mpages, mpanic>>

(* exit(), by a call or because user code faulted on a missing page.       *)
MemExit(t) ==
  LET procs == WithoutOthers(t)
  IN  /\ MemAt(t, "user") /\ OthersLeave(t)
      /\ mpanic' = (t = 1)      \* "init exiting"
      /\ frames' = Kfree(frames, IF t = 1 THEN 0 ELSE Cardinality(Others(t)))
      /\ mproc' = IF t = 1 THEN mproc
                  ELSE [u \in MemSlot |-> IF procs[u].parent = t THEN [procs[u] EXCEPT !.parent = 1]
                                         ELSE IF u = t THEN [procs[t] EXCEPT !.state = "ZOMBIE"] ELSE procs[u]]
      /\ UNCHANGED <<mspace, mpages>>

MemThreadExit(t) ==
  /\ MemAt(t, "user") /\ mproc[t].main # t
  /\ mproc' = [u \in MemSlot |-> IF u = t THEN [mproc[t] EXCEPT !.state = "ZOMBIE"]
                                 ELSE [mproc[u] EXCEPT !.parent = IF @ = t THEN 1 ELSE @]]
  /\ UNCHANGED <<mspace, frames, mpages, mpanic>>

MemJoin(t) ==      \* its user stack stays: the size of a process only shrinks by sbrk()
  \E u \in Others(t) :
    /\ MemCalls(t) /\ mproc[t].main = t /\ mproc[u].state = "ZOMBIE"
    /\ mproc' = [mproc EXCEPT ![u] = MemFree] /\ frames' = Kfree(frames, 1)
    /\ UNCHANGED <<mspace, mpages, mpanic>>

(* wait() frees the page table of the child.  Mutant: it does not.         *)
ReapedKeeps(u) == 1
Reaped(u) == 1 + Cost(Space(u))
MemWait(t) ==
  \E u \in MemSlot :
    /\ MemCalls(t) /\ mproc[u].state = "ZOMBIE" /\ mproc[u].main = u /\ mproc[u].parent = t
    /\ mproc' = [mproc EXCEPT ![u] = MemFree] /\ frames' = Kfree(frames, Reaped(u))
    /\ mspace' = [mspace EXCEPT ![mproc[u].pgdir] = NoTable]
    /\ UNCHANGED <<mpages, mpanic>>

MemoryNext == \E t \in MemSlot :
  \/ Sbrk(t) \/ Create(t) \/ ForkStart(t) \/ ForkCopies(t) \/ SetLimit(t) \/ ExecStart(t) \/ ExecLoad(t)
  \/ ExecStack(t) \/ ExecCommit(t) \/ MemExit(t) \/ MemThreadExit(t) \/ MemJoin(t) \/ MemWait(t)

MemorySpec == MemoryInit /\ [][MemoryNext]_memvars

-----------------------------------------------------------------------------
Costs(spaces) ==
  LET upto[i \in 0 .. MemSpaces] == IF i = 0 THEN 0 ELSE upto[i - 1] + Cost(spaces[i])
  IN  upto[MemSpaces]

(* Every page the allocator got is on the free list or has one owner, a    *)
(* kernel stack or a page table that a slot or an exec() under way holds:  *)
(* no path, and no failure half way of one, loses a page or frees it twice.*)
PagesAccounted ==
  /\ mpages = frames + Cardinality({t \in MemSlot : mproc[t].state # "UNUSED"})
              + Costs(mspace)
  /\ \A i \in 1 .. MemSpaces :
       mspace[i].used <=> \E t \in MemSlot : i = mproc[t].new \/ (MemLive(t) /\ i = mproc[t].pgdir)

(* The threads of a process agree on its size and its page table, and the  *)
(* pages that are mapped are those of that size: growing never maps a page *)
(* again, and copyuvm() finds what it copies.  A process that sbrk() shrank*)
(* to nothing keeps its old size (growproc() takes 0 for a failure); it    *)
(* has no page left to run and only dies.                                  *)
SizesMapped ==
  \A t \in MemSlot : MemLive(t) =>
    LET pages == DOMAIN Space(t).user
    IN  /\ pages = {} \/ pages = Below(mproc[t].sz)
        /\ \A u \in MemThreads(mproc[t].main) :
             mproc[u].state # "EMBRYO" => mproc[u].sz = mproc[t].sz /\ mproc[u].pgdir = mproc[t].pgdir

(* vm.c, kalloc.c, proc.c: no page is lost or has two owners, and threads  *)
(* agree on what is mapped.                                                *)
MemoryOwnedOnce == PagesAccounted /\ SizesMapped

(* setmemorylimit(): no call makes a process larger than its limit while   *)
(* it runs one program.                                                    *)
LimitHolds ==
  [][\A t \in MemSlot :
       (MemLive(t) /\ mproc'[t].pgdir = mproc[t].pgdir /\ mproc'[t].main = mproc[t].main
                   /\ mproc'[t].sz > mproc[t].sz)
         => LimitOf(t) = 0 \/ mproc'[t].sz <= LimitOf(t)]_memvars
=============================================================================
