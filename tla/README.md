# TLA+ verification of the ELE3021 xv6 kernels

The repository holds three kernels grown from xv6 (x86, C), one per course project:
`src/project01/xv6-public` (an MLFQ scheduler), `src/project02/xv6-public` (threads, a
process manager, memory limits) and `src/project03/xv6-public` (large files, symbolic
links, a log). They share most files. This directory models the kernels and the user programs
that have logic of their own, checks the models with TLC and proves theorems about the core
of them with TLAPS. Paths below are relative to a kernel; P1, P2, P3 say which. Where a file is the
same in the three kernels it is modelled once. The Makefiles boot one processor
(`CPUS := 1`), and Mlfq, Threads and Memory take a section with interrupts off as one step;
RoundRobin and Boot model the several processors the code is written for.

## 1. Inventory

Hard behaviour is what a test would hardly reach. The right column says where each part is.

| Part (kernel) | State | Operations | Hard behaviour | What makes it correct | Module |
|---|---|---|---|---|---|
| MLFQ scheduler (P1 `proc.c`, `trap.c`) | `mlfq[3]`, `p->next`, `qlevel`, `tq`, `priority`, `schedlock`, `ticks` | `scheduler`, `enqueue`, `dequeue`, `movefront`, `prboost`, `yield`, `setPriority`, `schedulerLock`, `schedulerUnlock`, timer trap | ticks and boosts between any two sections of a system call; a process in two lists; a process in none | each RUNNABLE process in exactly one list; no starvation; quanta renewed; lock holder keeps the CPU | Mlfq, MlfqState, MlfqQueues, SleepClock, MlfqSleep, MlfqProofs, MlfqPromises |
| Process life cycle (`proc.c`, `sysproc.c`) | `ptable`, parent, killed, chan | `allocproc`, `fork`, `exit`, `wait`, `kill`, `sleep`, `wakeup`, `sys_sleep` | lost wakeups; kill in every state; orphans; two processors; `ticks` set back under sleepers | no missed child exit; the killed die; orphans adopted; sleeps that no boost meets last what they should; one processor per process | Mlfq (P1), RoundRobin, RoundRobinProofs (P3) |
| Threads (P2 `proc.c`, `exec.c`) | `tid`, `main`, shared `pgdir` | `thread_create/exit/join`, `thread_kill_others`, changed `fork`, `exit`, `wait`, `kill`, `exec` | exit, exec, kill and create by several threads of one process | all threads end before the page table goes; `main` valid; no missed exit | Threads, ThreadsProofs |
| Memory (P2 `vm.c`, `kalloc.c`, `proc.c`, `exec.c`) | free list, page tables, `sz`, `memlim` | `growproc`, `setmemorylimit`, `allocuvm`, `copyuvm`, `freevm`, thread stacks | failure in the middle; sizes of threads; limit over fork, exec, takeover | no page lost or owned twice; sizes agree with what is mapped; limit respected | Memory, MemoryProofs |
| Log (P3 `log.c`) | header, `outstanding`, `committing`; log area and header on disk | `begin_op`, `log_write`, `end_op`, `commit`, recovery | crash between two disk writes; space reservation; commit without a lock | groups of operations atomic and durable; log never overrun; no lost wakeup | Log, AtomicLog, LogProofs |
| Buffer cache, IDE (`bio.c`, `ide.c`, `sleeplock.c`) | buffers, `refcnt`, LRU list, B_DIRTY, B_VALID; `idequeue` | `bget`, `bread`, `bwrite`, `brelse`; `iderw`, `ideintr` | eviction between two locks; interrupt against append; reads that fail | one buffer per block, coherent with the disk unless the read failed; requests answered | Buffers, BuffersProofs; eviction of logged blocks in Log |
| Inodes, block map (P3 `fs.c`, `mkfs.c`) | inode cache, bitmap, direct to triple indirect addresses | `iget/iput/ilock/iupdate`, `balloc`, `bmap`, `itrunc`, `writei` | boundaries of the levels; blocks logged by one operation; iput against open | distinct file blocks on distinct disk blocks; footprint at most MAXOPBLOCKS | Blocks, FileSys, DiskFs |
| Directories, links (P3 `sysfile.c`, `fs.c`) | entries, `nlink`, symlink targets | `sys_link/unlink/symlink/open/mkdir/chdir`, `namex` | link counts against concurrent unlink; references on error paths; crashes between sections | `nlink` is the number of links, over every race; references cover pointers; a crash leaves a clean disk | FileSys, DiskFs, Names |
| Files (`file.c`) | `ftable`, `ref` | `filealloc/dup/close/read/write` | last close of a shared file | no use after close | FileSys, SysArgs |
| Pipes (`pipe.c`) | ring of 512 bytes, two open flags | `pipealloc`, `pipewrite`, `piperead`, `pipeclose` | close or kill while the other end sleeps | FIFO, no lost wakeup | Pipe, Fifo, EdgeProofs |
| Spinlocks (P3 `spinlock.c`) | `ncli`, `intena`, `locked` | `acquire`, `release`, `pushcli`, `popcli` | nesting over `sched()`, resuming on another processor | interrupts come back as they were | RoundRobin, RoundRobinProofs |
| Console, keyboard (`console.c`, `kbd.c`) | three indices into `input.buf`, screen, shift state | `consoleintr/read/write`, `cprintf`, `kbdgetc` | wrap-around; editing against reading | indices in order; nobody sleeps over a line; screen follows | Console, Keyboard, Printing, EdgeProofs |
| System call arguments (`syscall.c`, `sysfile.c`) | user memory, `ofile` | `fetchint/str`, `argint/ptr/str/fd`, `fdalloc` | signed, wrapping, straddling addresses; error paths | only the process's bytes are touched; descriptors counted | SysArgs, EdgeProofs |
| Boot (`main.c`, `mp.c`, `lapic.c`, `ioapic.c`) | `cpus[]`, free pages, the mailbox at 0x7000 | `main`, `mpinit`, `startothers`, `mpenter` | one mailbox for all processors; order of set-up | stacks apart; memory before the first process | Boot, EdgeProofs |
| User programs (`sh.c`, `umalloc.c`, `grep.c`, `wc.c`, `cat.c`, `printf.c`, P2 `pmanager.c`) | trees of commands, descriptors, free list, buffers | parse, run, `malloc/free`, match, print; list, execute | pipe ends left open; merging at the wrap; lines cut by buffers | grammar met; prompt returns; each unit owned once | ShellParse, ShellGrammar, Shell, Umalloc, Tools, Printing, Pmanager |

How they interact. User programs enter by system calls (`trap.c` -> `syscall.c` ->
`sysproc.c`/`sysfile.c`). Everything that waits goes through `sleep()`/`wakeup1()` of
`proc.c`, which in P1 also link and unlink the run queues, so the scheduler sees every
wakeup. The timer trap counts `ticks`, wakes the sleepers of `sys_sleep()`, boosts, and makes
the running process yield; other interrupts (disk, console) only wake. File system calls run
between `begin_op()` and `end_op()` and write blocks through `log_write()`, which pins their
buffers in the cache until they are installed. `exec()` and `exit()` of P2 end the other
threads through `killed` flags, sleep and `thread_exit()`.

`PROJECT.json` lists every component with its files, and every hazard with its line and the
properties for it; the three hazards without one have a note saying why.

## 2. Modules

### Mlfq over MlfqState and MlfqQueues (project01)
`MlfqState` declares the variables and states the promises about them that do not depend on
NPROC or the system calls. `MlfqQueues` has the queue operations as operators on a record of the scheduling state:
`Enqueue`, `Movefront`, `Dequeue`, `Prboost`, `Wakeup1` (a recursive function over the
table), `YieldEnqueue`, ... A handler in
`Mlfq` is a composition of the calls it makes. A queue is a sequence, the list through
`p->next` from the head. That is exact as long as no process is linked twice, which is the
invariant `QueuesExclusive`; a run that breaks it shows the first wrong link and what follows
in the C list is not modelled. `mlfq[-1]` is the memory before the array: `prboost()` leaves
`qlevel = -1` in the running process, and an enqueue at that level links it into nothing.

An action is a section with interrupts off (under `ptable.lock` or `tickslock`), `pc[p]` is
the place between two sections, and a timer interrupt may come at each of them. `cpu`,
`level` and `window` are the dispatcher: who runs, the local of `scheduler()`, and whether it
has released `ptable.lock` since it was entered (only then can an interrupt come). The
variables `state`, `chan`, `parent`, `killed`, `tq`, `priority`, `qlevel`, `schedlock`,
`ticks` are the fields and globals of those names; `np` and `slp` are the locals of `fork()`
and `sys_sleep()`. The pid of a process is its slot; pids are recycled with their slots, and
`kill(0)` may hit a free one. The gates 128, SCHEDLOCK and SCHEDUNLOCK run the handlers of
the system calls (`trap.c:31-36`), so they add no action.

`SleepClock` puts a clock beside it that no line of the code reads: `todo` counts the timer
interrupts a `sleep()` still has to last, `setback` says `ticks` was set to 0 meanwhile,
`missed` that an interrupt passed a sleeper by. `MlfqSleep` is Mlfq with that clock. The
deadline of a sleep is stated with it and not with `ticks`, which a boost resets.

`"io"` is any call that sleeps on a channel an interrupt wakes (disk, console, pipe); it is
external. `init` forks and waits, does not exit and is no target of kill: the kernel panics
if it exits, by design. `LongLocks = FALSE` says programs hold the scheduler lock for fewer
than `BoostTicks` ticks, what the project asks of them; `TRUE` lifts it.

### Log, AtomicLog (project03)
One action per section under `log.lock`, per disk write of `commit()` and of recovery, and a
`Crash` at any of them, recovery included. A block is one sector, so a write is done or not.
`phase` and `tail` are the place in `commit()` or `recover_from_log()` and its loop variable.
The tests at the top of `log_write()` are made before `log.lock`, so `LogWrite` (tests, data)
and `LogAppend` (under the lock) are two actions. Of `bio.c` there is what the log relies on:
`Evict` recycles any buffer that is neither dirty nor held. `wrote` is a ghost variable, the
blocks an operation has logged; `OpBlocks` is how many it may.

`AtomicLog` is the promise of `log.c:9-30`: a volatile and a durable image, operations write
the first, a commit with no operation active copies it to the second, a crash goes back.
`Atomic` in `Log` instantiates it with `durable <- Recovered`, what recovery would make of
the disk now, and `volatile <- cache`; so the abstract commit is the one disk write of
`write_head()`, and installing, erasing and recovery are stutters.

### Threads (project02)
Process slots with `tid`, `main`, `parent`, `killed` and `pgdir`, the set `vm` of allocated
page tables, and `pc` per slot. A section under `ptable.lock` or `pgdirlock` is one action;
`RUNNABLE` stands for `RUNNING` as well, since the timer lets the sections of different
processes interleave in every order. `wait()`, `thread_join()` and `thread_kill_others()` all
sleep on the caller's slot, so a channel is a slot. Steps that touch nothing shared are taken
with their neighbour: the first test of `exit()` with the way into it, the first section of
`fork()` and `kill()` with the call, the loading part of `exec()` with nothing at all; a call
that only returns -1 from user mode to user mode is no step. `pgdir` of a freed slot, never
read before it is written, is taken as 0. A killed process ends through `exit()`
from a system call and from a tick alike. Sizes, limits, stacks and files are left out.
A failing `thread_create()` returns with `pgdirlock` held (`proc.c:168,178,208`), whereupon
the next `sched()` panics; `CreateFails` ends the run there, which is why the configurations
say `CHECK_DEADLOCK FALSE`.

Programs do what the sources expect (`MayCall`): `init` forks and waits, `thread_exit()` is
called by threads and `thread_join()` by the main thread on threads of its process
(`proc.c:263`), `kill()` names a slot in use. `OneTakeover` keeps two threads of one process
from both being in `exec()` or a voluntary `exit()`; the run `threads_takeover` shows why the
first is needed.

### FileSys (project03: files, names, inodes in memory)
Processes run programs of system calls over one directory tree. A section from `ilock()` to
`iunlock()` is one action: `loc[p].pc` says where the process is between two of them, in the
loop of `namex()` (`"namex"`, which continues at `loc[p].ret`), in `iput()` (which takes and
gives back the inode's lock, frees the blocks, then drops the reference) or between the
sections of `create()` and of the calls. An entry of the inode cache stands under its inode
number, a directory is a function from names to inode numbers, a symbolic link a path.
Included are the error paths, with the references that `sys_open()` and `sys_symlink()` keep:
that is why `RefsCoverPointers` is an inequality. `LinksCounted` is none: `nlink` on disk is
the number of entries, of the ".." of directories with an entry, and of the calls between the
count and the entry. `create()` and `sys_link()` do not look whether the parent they found by
name still has one, so what they put into a directory that `sys_unlink()` has just removed
keeps exact counts but hangs on nothing (section 5); the entries that go with such a
directory when it is freed are counted in the ghost variable `lost`. Paths have one or two names and no "." or
"..", and `readi`/`writei` move a whole file.

### DiskFs (project01: what a crash leaves)
The same calls as transactions of a log that keeps the promise of `AtomicLog`: `fsdisk` is
what the cache shows, `fsdurable` what recovery would give back; the end of the last active
call copies the first to the second (`Commits`), and a crash forgets the first and all memory. A panic is a
crash. One directory. `FsckClean` is said of `fsdurable` at every step, so of every crash.

### Blocks (project03: block numbers)
`bmap()`, `itrunc()`, `balloc()`, `bfree()`, `writei()` and the parts of `filewrite()` as
operators on a record of the disk (`used`, `addrs`, `index`, `content`, `size`, `log`, `at`).
NDIRECT and NINDIRECT are small, the three levels are all there. The initial states are what
`iappend()` of `mkfs.c` leaves, for files in direct and single indirect blocks. `PartsFit`
says that a part of a write logs no more blocks than its reservation, on a disk with at most
one bitmap block under a part (see 5).

### Names (project01)
`skipelem()`, `namex()` and `dirlink()` on strings, with `strncpy()`, which does not
terminate, and the buffer of `namex()`, which is not initialised and shared by the elements of
a path; `safestrcpy()` of the process name. Every path up to a length is walked.

### RoundRobin (project03: processes on several processors)
Threads are processes and the scheduler of each processor (number `0 - c`). Taking a spinlock,
the section under it and giving it back are separate steps, between which the other processors
and, with interrupts on, a timer interrupt come in; an interrupted thread keeps its place in
`irq`. `rcpu` holds `ncli` and `intena` of each processor, `rlock` the holder of each lock;
`sched()` carries `intena` across the switch.

### Pipe, Fifo
`Pipe` has the ring with unsigned indices modulo `PipeUInt`, the open flags, the file
references and the page, readers and writers that sleep and are killed. `Fifo` is the promise: a
sequence of bytes on their way and what each reader's last call brought. `TheFifo`
instantiates it with the bytes between `nread` and `nwrite`; `PipeIsFifo` is the refinement.

### Console, Keyboard, Printing
`Console`: the three indices of `input` modulo `ConsUInt`, the screen as a grid with the
cursor and scrolling of `cgaputc()`, readers that sleep. The keys come from `Keyboard`, which it
extends, through any delay: a character may come at any time. `Keyboard`: `kbdgetc()` on the codes
keys send when they go down and up. `Printing`: `printf()` of the programs and `cprintf()` of
the kernel on the same formats, and `atoi()` back.

### SysArgs
The stack pointer and memory of a process are arbitrary; `fetchint`, `fetchstr`, `argptr`
and the calls over them compute modulo `AddrMod` as unsigned or signed as the code does.
`touched` are the addresses the kernel read or wrote for the call. A helper that may fail is the
set of its results, so that -1 is {}; `WordAt` has one member, the word whose bytes are there. A call of `exec()` reads
its arguments and is not followed further.

### Memory (project02)
Frames are counted, page tables cost frames and list what is mapped; `growproc()`,
`setmemorylimit()`, `thread_create/exit/join()`, `fork()`, `exec()`, `exit()` and `wait()`
change them, each with its failures: no slot, no kernel stack, no table, no page in the middle
of a copy, no room under the limit. `exec()` builds its new table call by call, without
`pgdirlock`.

### Umalloc, Tools
`Umalloc` counts memory in headers as the code does, with `base` at address 0 and other
callers of `sbrk()` in between. `Tools` has `grep`, `wc` and `cat`, and the matcher of
`grep`, on a `read()` that fills the room there is from a file and returns any piece of what
is left from a pipe or the console (`piped`). `grep` throws a piece away that leaves its buffer
without a newline (`dropped`), so of piped input `GrepPrintsMatches` speaks up to there only.

### ShellParse, ShellGrammar, Shell
`ShellParse` is the recursive descent of `sh.c` from characters to a tree. `ShellGrammar`
states the language by splitting tokens and compares on every line up to a length, with what
`nulterminate()` overwrites. `Shell` runs the trees: processes, descriptors, pipe ends,
`fork()` and `pipe()` that fail; the programs it executes are external (read to the end,
write, exit). `ShOrphans` keeps a process free for the `fork1()` of `main()` itself
(`sh.c:167`): in the code its failure is a `panic()` that ends the shell, and `init` starts
another one, which Shell does not follow.

### Buffers
`bget`, `bread`, `bwrite`, `brelse`, `log_write`'s dirty mark, sleep-locks, the request queue
and the disk interrupt. A section under one spinlock is one action. A read may fail
(`idewait(1) < 0`, `ide.c:118`): the data stay what they were and B_VALID is set; the ghost
`unread` marks the buffer. A write is taken to succeed, since `ideintr()` does not look, and
Log and DiskFs, which use the disk through its blocks, assume that it does not fail at all.

### Boot
The steps of `main()` in their order, `mpinit()` on configuration tables, `startothers()`
with the stack pointer it leaves below the entry code, the entry of each other processor at
any time after that, and `ioapicenable()` for the disk, which is given a number where it
needs an APIC id (section 5).

### Pmanager (project02)
The commands of the manager on typed lines, the two-step fork of `execute`, helpers that
exit, are killed or fail to fork, and the loop of `init` that reaps.

### Compositions
`MCWorkloads` has four instances of Mlfq in one state space, chosen by `load`, with the
properties of `MlfqState` on every one of them. `MCProcesses` (Threads and RoundRobin),
`MCFiles`, `MCKernel` and `MCServices` put modules that do not interact beside each other:
`part` says which of them runs, the variables of the others are 0, or stay as they begin. One
run then checks a group of components, and its properties are the conjunctions defined at the
end of the MC module, each part under its own condition; those that are proved
(`RoundRobinSafe`, `PipeSafe`, `PipeIsFifo`, `ConsoleSafe`, `ArgumentsChecked`,
`MemoryOwnedOnce`, `LimitHolds`, `BufferSafe`, `BootSafe`, and those of Threads) are in the module of their component, whose variables
stay as they begin where another part runs. Interactions are inside the modules: FileSys composes inodes, directories
and the file table, DiskFs the calls with the promise of the log, Buffers cache, locks and
driver, RoundRobin processes and spinlocks, Log the cache's eviction.

## 3. Runs

Passing runs, and what the invariants of the compositions stand for:

| Run | Instance | Shows |
|---|---|---|
| `mlfq_loads` | `forks`: 3 slots, fork/exit/wait, a boost every 2 ticks; `sleeps`: 2 slots, fork/exit/io/sleep of 2 ticks, boost every 3; `runs`: 3 slots that compute, priorities from 1, boost every 18; `locks`: 3 slots, fork/exit/lock/unlock, boost every 2 | no missed child exit, orphans have a living parent; RUNNABLE = queued, with the lock too; every timer interrupt wakes who sleeps on the ticks, and a sleep that no boost meets lasts exactly what it asked for; quanta and the order of L2; the lock holder keeps the CPU |
| `mlfq_live` | 2 slots, fork/exit/kill/yield/setPriority, boost every 6 | types; one list per process, in the queue of its level and RUNNABLE (`QueuesSound`); the killed die, the queued run (liveness) |
| `log_atomic` | 2 operations of up to 2 blocks, 2 blocks, 2 contents, log of 4 | `Log` implements `AtomicLog` over crashes everywhere; the inductive invariant of the proofs |
| `log_space` | 3 operations of 1 block, 4 blocks, MAXOPBLOCKS 2, log of 4 | reservations: the log fits, no panic, no lost wakeup, sleepers wake (liveness) |
| `processes` | Threads: 4 slots, pids to 4, all eight calls; RoundRobin: 2 processes on 2 processors | exit and exec end all threads first, page tables outlive their users, `main` valid (`PointersLive`), no missed exit; locks nest, one processor per process, no lost wakeup (`RoundRobinSafe`) |
| `files` | FileSys, DiskFs, Blocks, Names | `ReferencesKept` and `NamesFormTree` (FileSys: references cover pointers, what is in use stays allocated, cached inodes equal the disk's, `nlink` is the number of links, each directory has one entry at most, its ".." leads back, and none is below itself); `CrashLeavesClean` (DiskFs: no lost block, no nameless directory entry, open files kept); `BlocksKept` (Blocks: contents apart, bitmap exact, parts fit); `NamesMatch` (Names) |
| `kernel` | Pipe, Buffers, Console, Keyboard, SysArgs, Memory, Umalloc, Tools, Printing, ShellGrammar | `PipeSafe`, `PipeIsFifo`; one buffer per block, coherent with the disk unless dirty or the read failed, one user at a time, no sleeper forgotten (`BufferSafe`); `ConsoleSafe`; `ArgumentsChecked`; no page lost or owned twice (`MemoryOwnedOnce`), `LimitHolds`; no heap unit lost or owned twice, and parser, matcher and printers against their definitions (`ProgramsRight`) |
| `services` | Buffers, Boot, Shell, Pmanager | `BootSafe`, `NothingLeftOpen`; the disk answers and the processors come up (`HardwareAnswers`), the prompts return (`PromptsReturn`) (liveness) |

Runs that disagree with a statement of the sources (each is a finding):

| Run | Statement | What the code does |
|---|---|---|
| `mlfq_killed_sleeper` | `kill()`: "Wake process from sleep if necessary." (P1 `proc.c:862`) | it sets the sleeper RUNNABLE and does not enqueue it; the scheduler never sees it again |
| `mlfq_boosted_lock` | a boost moves the lock holder to the front of L0 (P1 `proc.c:438`) | after `BoostTicks` ticks under the lock it is linked there and linked again by the yield of the same interrupt |
| `log_panic` | MAXOPBLOCKS is what an operation may write (P3 `param.h:10`) | three operations that all write that much are admitted with room for LOGSIZE blocks, the log has LOGSIZE - 1, and `log_write()` panics |
| `threads_takeover` | exec cleans up all threads of the process (P2 `exec.c:11`) | when two threads take the process over at once, exec frees the page table under one |

Bounds of the scheduler, log and process runs. `Quantum0 = 1` (4 in the code) keeps the
quanta of the three levels different (1, 3, 5). `BoostTicks` is small against the quanta in
some workloads and large in others: with 2 or 3 a boost meets every place of a call, with 18
a process falls to L2 and is reordered there (by priorities above and below) before a boost.
`UIntSize = 64` is above every deadline, so the wrap of the unsigned difference that the tick
reset causes is there (a small modulus would make false wraps). Two slots are `init` and a
child, three add a rival in each queue or a grandchild, which orphan adoption needs. For the
log, 2 contents tell an old from a new block and two blocks a torn group; MAXOPBLOCKS 2 with
LOGSIZE 4 admit two operations at once with a third asleep. Operations are symmetric in
`log_atomic`, which has no liveness property. For threads, 4 slots beside the 4 pids hold
`init`, a process, and two more slots that are threads of it or children; `MaxPid` bounds
only `allocproc()`, which fails beyond it as it does with no slot. Two processes on two
processors meet on every lock, switch processors, and interrupt each other's handlers.

Bounds of `files`. FileSys: two processes, each with one of seven pairs of programs of up to
four calls that meet on two names and on what the first name is at the start (nothing, a file,
a directory); 3 inodes on disk and a cache of 3, 2 entries in the file table and 2
descriptors, so that each table fills up. DiskFs: 2 inodes, 3 data blocks, 1 direct and 1
indirect, one open file, and `GroupCalls = 2` calls to a commit: two calls show one that
commits with half of another pending. Blocks: NDIRECT 1, NINDIRECT 3, so that the levels begin
at 1, 4, 13 and end at 40; a file that is empty or what mkfs can make at most is grown to that
end by parts of one unit or of the largest length (so at every offset in a block), truncated
and grown again, beside another one that it must not touch, on a disk of 72 blocks with BPB 16
(five bitmap blocks). `WriteReserve = 10` is MAXOPBLOCKS. Names: 2 letters, names of 2 bytes,
paths up to 4 characters: elements shorter, as long and longer than a name, doubled, leading
and trailing slashes.

Bounds of `kernel`. Pipe: 2 bytes and indices modulo
4, so both wrap, two writers and a reader, writes of 1 and 3 bytes (more than fits). Console:
a buffer of 3 with indices modulo 6, a screen of 2 by 3 that scrolls. Keyboard: the modifiers,
caps lock, a letter and an extended key. SysArgs: 16 addresses, 2-byte integers, process sizes
at and below an integer's boundary, every content of the first five bytes. Buffers: 2 processes
on 2 buffers and 3 blocks (a buffer is recycled while another process waits for it), two
contents; the blocks are symmetric. Memory: 3 slots, 11
or 13 frames, so that every allocation fails somewhere; one limit; the stack size does not
change. Umalloc: a heap of 14 headers, three request sizes. Tools: a buffer of 5, every
pattern of 3 characters on lines of 3, and longer texts that the buffer cuts. Printing:
formats to 4 characters, 16 integers. ShellGrammar: every line up to 4 characters over eight,
MAXARGS 3.

Bounds of `services`. The buffers of `kernel` with one content of a block, on which the
liveness does not depend; 4 processors with NCPU 3, the tables of `MCMpTables`; shell
lines with every kind of command, 5 processes and 2 pipes, so that `fork()` and `pipe()` fail
too; 4 slots for pmanager and its programs, eight kinds of lines.

Fairness. Mlfq: `WF` of the scheduler loop; `SF` of the timer, since the controller keeps a
raised interrupt pending until interrupts are on; `WF` of `exit()` from the trap, which runs
with interrupts off; and in `mlfq_live` `SF` of each process in the kernel, which goes on
whenever it is dispatched often enough. Nothing makes a process in user mode do anything:
`QueuedRuns` and `KilledDies` hold against programs that loop. Log: the disk answers (`WF` of
commit and recovery), kernel code goes on (`WF`), and an operation does not write for ever but
reaches its `end_op()` (`SF`, as its guard comes and goes with the others). Services: the disk
raises its interrupt, processors do not stop, and who can run does, which the schedulers
grant (`WF` each): nobody need type a line, and a program executed by pmanager need not
end. The other runs have safety properties only.

Properties that hold only in part of the workload are checked in that part:
`SleepersInTime` is about the length of a sleep only as long as `ticks` is not set back. A
sleep that meets a boost ends early, or never when it began at ticks 0 and asks for the boost
period or more (`sleep(300)` of `mlfqtest.c:34`; section 5), and `schedulerLock()` sets
`ticks` back as well. `QueuedIffRunnable` without `kill()`, by the finding above; `LockHolderKeepsCpu` without
`yield()`, which a holder may call; `PartsFit` as said under Blocks.
`CHECK_DEADLOCK FALSE` is in the runs of compositions, where programs and lines come to an
end, and in those of Threads.

Each property of a passing run has a mutant in `PROJECT.json`: an operator beside a
definition, marked `Mutant`, that changes it as a plausible bug would; under it the property
fails.

## 4. Proofs

Theorems hold for every value of the constants that satisfies the named assumption of the
module, and under the hypotheses said here. Each comes from an inductive invariant that TLC
checked on small instances first.

### The log (`LogProofs`)

For all `Ops` (finite), `Blocks`, `Vals`, `MAXOPBLOCKS`, `LOGSIZE` and `OpBlocks` that satisfy
`LogAssumption` (`MAXOPBLOCKS <= LOGSIZE`, the log on disk has LOGSIZE blocks as `mkfs.c`
makes it, an operation writes at most MAXOPBLOCKS blocks):

| Theorem | Statement |
|---|---|
| `Invariance` | `Spec => []IndInv` |
| `TypeCorrect` | types |
| `CommitExcludes` | a commit runs alone: one committer, no operation in progress |
| `CounterExact` | `log.outstanding` is the number of operations in progress |
| `NoLostWakeup` | while someone sleeps in `begin_op()`, someone is left who will wake it |
| `LogNeverOverruns` | if operations write fewer blocks than MAXOPBLOCKS, the log fits its blocks on disk |
| `SmallOpsNeverPanic` | if they stay two below, `log_write()` and `end_op()` do not panic |
| `LogIsAtomic` | `Spec => AtomicSpec`: the log implements `AtomicLog` |

None of these is inductive alone. `ControlInv` says the place in `commit()` belongs to the one
committer and nobody runs during recovery. `SpaceInv` counts credits: each operation in
progress holds one for each block it may still add; header length plus credits never exceeds
LOGSIZE, because `begin_op()` tests the sum and `log_write()` turns a credit into an entry or
absorbs the block. `DataInv` relates the four copies of a block: the header on disk is empty
until the log area is complete and equals the one in memory afterwards (`HeadInv`), a block is
pinned from `log_write()` to its installation (`PinInv`), and what is not pinned is in the
cache as on disk, what is logged is in the log area as in the cache (`CopyInv`). From
`DataInv` follow four lemmas on what recovery would make of the disk (`RecoveredLogged`,
`RecoveredHome`, `RecoveredNothing`, `RecoveredIs`), and from these the step simulation
`RefineStep`. The two extra conditions of `LogNeverOverruns` and `SmallOpsNeverPanic` are
needed: the run `log_panic` shows the panic without them, and the second has one block more of
margin because `log_write()` refuses before it knows that a block will be absorbed.

### The scheduler (`MlfqProofs`, `MlfqPromises`)

For every NPROC, quantum, priority, boost period and set of system calls
(`SizesAssumption`, `WorkloadAssumption`):

| Theorem | Under | Statement |
|---|---|---|
| `SchedulerTyped` | `~LongLocks` | types; `ticks` below the boost period, `qlevel` at least -1 |
| `QueuesStaySound` | `~LongLocks` | `QueuesSound`: no process is linked twice or in two queues, who is queued is RUNNABLE with that `qlevel`, and is not on the CPU |
| `RunnableStaysQueued` | `~LongLocks`, `Peaceful` | every RUNNABLE process is in a queue, where `scheduler()` finds it |
| `SchedulerFindsRunnable` | `~LongLocks`, `Peaceful` | `QueuedIffRunnable`: the two above together, a process is queued exactly when it is RUNNABLE |
| `LockHolderStays` | `~LongLocks`, no `yield` calls | `LockHolderKeepsCpu`: while one process holds the scheduler lock no other gets the CPU |
| `SleepersWakeInTime` | `~LongLocks`, in `ClockSpec` | `SleepersInTime`: no timer interrupt passes a sleeper of `sys_sleep()` by, and a sleep during which `ticks` is not set back lasts exactly the interrupts it asked for |
| `ExitsStayHeard` | `~LongLocks` | `ExitsReachParents`: no exit is lost on a parent in `wait()`, and orphans have a living parent |
| `LevelsStay` | `~LongLocks` | `LevelsKept`: nobody has more quantum than its level grants, or none off the CPU; L2 is in priority order behind its head |

`Peaceful` says programs call neither `kill()` nor the scheduler lock. Both hypotheses are
the ones the findings ask for: a boost under the lock links its holder twice
(`mlfq_boosted_lock`), and `kill()` leaves a sleeper RUNNABLE in no queue
(`mlfq_killed_sleeper`). Types are proved with the queues, as one invariant, and so under the
same hypothesis: what an enqueue or a removal leaves of a list that has a process twice is
nothing the proof follows.

The invariant `MlfqInv` says of the record `K` of the scheduling state that its queues are
sound (`QInv`), that the process on the CPU is RUNNING (`RunInv`) and that a process in
`fork()` has an EMBRYO of its own (`ForkInv`). It is inductive because every operator of
`MlfqQueues` keeps `QInv` under a condition its callers meet: `Enqueue`, `Movefront` link a
process that is in no queue (`EnqueueLinks`, `MovefrontLinks`, `LinksKeep`); the dispatch
takes the head (`DispatchKeeps`); `SetPriority` and the yields unlink before they link
(`SetPriorityKeeps`, `YieldEnqueueYields`); a boost puts the three queues into one and the
process on the CPU before the array (`PrboostBoosts`). Below these are lemmas on sequences
without duplicates: insertion at a place, concatenation, removal. `Wakeup1` is a recursive
function over the table; that it exists and what it does to every process
(`WakeupExists`, `Wakeup1Wakes`) is proved by the least counterexample, from `LeastOf`.

`MlfqPromises` builds on `MlfqInv`, one invariant for each theorem:

- `LockHolderStays`: `Called`, that nobody is in a call the programs do not make, and
  `HeldOnCpu`, that a taken lock has a process on the CPU, because every `sched()`
  but that of `yield()` gives the lock up. `yield()` does not (`proc.c:22`), which is why
  programs that call it are left out.
- `SleepersWakeInTime`: `ClockInv`, of `ClockSpec`, in which the clock of `SleepClock` runs. Who
  sleeps in `sys_sleep()` sleeps on the ticks, and as long as `ticks` was not set back what its
  sleep has still to last is `n - (ticks - ticks0)` (`TicksTellTime`). A timer interrupt wakes all who sleep
  there, that of a boost as well (`TimerRings`); `schedulerLock()` sets `ticks` to 0 and wakes
  nobody, which `setback` records.
- `ExitsStayHeard`: `Family`, that `init` lives (`InitLives`), that every process that is not
  `init`, unused or an EMBRYO has a parent that is alive (`ParentsLive`), and the property
  itself (`ExitsHeard`). One lemma takes every step that moves a process among SLEEPING,
  RUNNABLE and RUNNING (`FamilyStep`); `fork()`, `exit()` and `wait()` have their own.
- `LevelsStay`: `Leveled`, the order of L2 (`Ordered`), and for every process that is
  SLEEPING, RUNNABLE or RUNNING, and for an EMBRYO, the quantum it may have left (`Fits`).
  Insertion by priority keeps an ordered tail ordered (`InsertOrders`), so do removal and the
  dispatch of the head (`RemoveOrders`, `TailOrders`); `setPriority()` changes the priority
  of the head, which is in no order, or of a process it links anew.

### Threads (`ThreadsProofs`)

For every NPROC and MaxPid and any calls, under `OneTakeover` (no two threads of a process in
`exec()` or a voluntary `exit()` at once), which the run `threads_takeover` shows to be needed:

| Theorem | Statement |
|---|---|
| `ThreadsTyped` | types |
| `PointersStayLive` | `main` leads to the one main thread of a process; its page table is not freed while a thread of it is left |
| `ExitsTakeAllThreads` | after `thread_kill_others()` no other thread of the process is left |
| `ExitsAreSeen` | nobody sleeps in `wait()`, `thread_join()` or `thread_kill_others()` for what has happened |

`PointersLive` needs to know who shares a page table (`PageTablesInv`: the slots of one pid,
and nobody else), which needs that pids and tids are not given out twice (`IdsInv`) and that
an EMBRYO belongs to the call that made it (`CreatorsInv`). `TakeoverInv` and `ReapersInv`
describe the time in which a process has two main threads: the old one is the child of the
thread that takes over, killed or dead. `AloneInv` is what remains after it, and
`SleepersInv` has for each sleeper the thread or child that will wake it. That there is a free
page table for every new process is counting: NPROC slots, at most one table each
(`FreshPageTable`, a pigeonhole over NPROC + 1 tables).

### Buffers (`BuffersProofs`)

For any finite set of processes and of buffers (`BuffersAssumption`): `CacheTyped`, in
particular that no `refcnt` falls below 0; and `BuffersAreSafe`, that a block has one buffer
which agrees with the disk unless it is dirty or the read of it failed, that who works on a buffer has the block it
asked for, alone, that each who waits for a buffer or the disk has somebody to wake it, and
that the LRU list stays whole. `refcnt` is the number of processes between `bget()` and
`brelse()` (`RefsInv`), so a buffer that `bget()` recycles is nobody's, although the sleep-lock
is taken after `bcache.lock` is given back; `QueueInv` says each request in `idequeue` belongs
to a process asleep in `iderw()` that holds the buffer's lock.

### Processors and processes (`RoundRobinProofs`)

For any number of processes and processors and any `sleep()` time (`RrAssumption`):
`RoundRobinTyped`; and `ProcessorsAreSafe`, that `RoundRobinSafe` holds always: locks nest and
the locking code does not panic, a process runs on one processor, the interrupt state is the
thread's own, and no wakeup is lost. The run `processes` checks it for two of each. The invariant
`RrInv` has these parts:

- `CpusInv`: for each processor, the place of the thread on it says which locks it holds, and
  with them `ncli`, `iflag` and `intena` (`Fits`). No state of its own records that a handler
  or a system call holds a lock: the sets `PtableAts` and `TicksAts` list the places at which
  the thread has it, so that two threads are never both inside one.
- `RunningInv`: `RunsOnce`, and the scheduler of a processor that runs a process is in its loop
  with `ptable.lock`, where `sched()` comes back to it.
- `LeftInv`: where `sched()` may have left a process that does not run, with the `intena` that
  it will put back; `forkret()` is the one place that needs none. It makes the lock that one
  thread took fit for the other that gives it back (`RunFits`, `LeftFits`).
- `ForksInv`, `TreeInv`: a process in `fork()` has an EMBRYO of its own, which nobody frees,
  runs or takes for a child before it is ready; init stays and nobody is its own parent.
- `SleepersInv`: who sleeps, or has decided to while it still holds the lock, has ticks to wait
  for, or a tick is on its way to wake it (`TickPending`); or has a child alive and was not
  killed. `tickslock` is held from the decision to `ptable.lock`, which is why the timer of
  processor 1 cannot come in between (`Holder`).

There is one lemma for each action, by way of lemmas for the kinds of step: places and locks only
(`InnerInv`, `TurnInv`), interrupts (`FlagInv`), a section that changes the table
(`SectionStep`, `OwnStep`), `fork()` (`ForkStep`) and every use of `sched()` (`SchedKeeps`).

### Pipes (`EdgeProofs`)

For every PIPESIZE that divides the range of the indices (512 and 2^32 in the code), readers,
writers, bytes and texts (`PipeAssumption`): `PipeTyped`; `PipesAreSafe` (who sleeps has a
reason, the files and the page are in use exactly while an end is open); and `PipesAreFifos`,
`PipeSpec => PipeIsFifo`, that the ring implements `Fifo`. The invariant `PipeInv` adds to
the sleepers' condition that `nwrite - nread` modulo the range never exceeds PIPESIZE
(`FillInv`) and that the two open flags say which processes have the pipe open (`EndsInv`).
The refinement rests on modular arithmetic: `i % PIPESIZE` of an index that wraps is the
next place of the ring (`PlaceFromRead`), and distinct bytes inside have distinct places.

### Console, keyboard, arguments, boot (`EdgeProofs`)

Four more components at the edge of the kernel, each of a few actions:

- `KeyboardStays`: `NoModifierStuck`, for every set of keys with codes of one byte, without E0
  and the code whose release would be E0 (`KeyboardAssumption`). The invariant `KbdInv` says
  what is left to read while a key goes down or up, with an escape before its second byte, and
  that the modifier of a key that goes up is the only one that may still be on (`Stays`).
- `ConsoleStaysSafe`: `ConsoleSafe` for any number of readers, any keys, and an INPUT_BUF that
  divides the range of its unsigned indices and is smaller (`ConsoleAssumption`; 128 and 2^32
  in the code). The invariant `ConsInv`: `r`, `w` and `e` in order and within one turn, in
  modular arithmetic as for pipes (`LineInv`); the characters of the line stand before the
  cursor, through wrapping, scrolling, erasing and other output (`EchoInv`); who sleeps has
  nothing to read (`ReadersInv`).
- `ArgumentsStayChecked`: `ArgumentsChecked` for every word size, stack pointer, arguments and
  contents of memory, when user addresses are the lower half and four integers fit in the
  address space (`SysArgsConstants`). `Fetchint` tests the first byte and the end of a word
  and neither sum can wrap past the other (`WordInside`), so a vector whose every word is
  fetched is below `sz` as a whole (`VectorInside`), and so is a string up to its end
  (`StringInside`). That a reference count is the number of descriptors is counting, and on
  the error paths of `sys_pipe()` what was taken is given back (`CountsPipe`).
- `BootStaysSafe`: `BootSafe` for every number of processors and NCPU, every table that names
  a processor once, and enough low pages for the stacks (`BootAssumption`). The invariant
  `BootInv`: `cpus[]` has distinct processors of the entries read (`TableInv`); a low page is
  left for each turn to come and one for the first process, which comes after the processor has
  skipped itself (`PagesInv`); and a processor is in the entry code only while
  `startothers()` waits for it, so the one stack in the mailbox is its own (`StacksInv`).

### Memory (`MemoryProofs`)

For any number of slots, page tables and pages, pages and page tables of every size, all
programs and all arguments of the calls (`MemoryAssumption`: the sizes are positive, and there
are the pages that `userinit()` takes):

- `MemoryStaysOwnedOnce`: `MemoryOwnedOnce` holds always. Each page is free or has one owner,
  and the threads of a process share one table in which the pages of their one size are mapped.
- `LimitStays`: `LimitHolds`, that no call makes a process larger than its limit while it runs
  one program, whichever of its threads calls.

The invariant `MemInv` describes who has what. `SharesInv`: two live slots have one page table
if and only if they are of one process, they agree on its size, and its pages are those of that
size, or none is left. `ExecInv`: the table that `exec()` makes is its own, with the pages made
so far, and one that reaches the commit is not empty. `HoldersInv`: a table is in use if and
only if somebody has it. `EmbryosInv`: who is between the two halves of `fork()` has one EMBRYO,
which is alone and changes hands to nobody. `ZombiesInv`: a process that exited has no other
threads, so `wait()` frees its table under nobody. `PagesInv` counts. That a page is mapped where
one is already ("remap") cannot happen is part of it: what `allocuvm()` maps begins where the
pages of the size end.

The functions of `vm.c` have a lemma each: `MapPageMaps`, `MapAllMaps`, `DeallocuvmFrees`,
`AllocuvmAllocs`, `CopyuvmCopies`, `GrowprocGrows`. They say which pages are mapped after
success and after a failure at any page, and that the frames and the cost of the table add up to
what they were. `MapAll` and `Costs` are recursive functions; that they exist and obey their
equations is an induction over the natural numbers by way of a least counterexample
(`MapsExist`, `CostsExist`), after which one table may be exchanged in the sum (`CostsChange`).
Each action is then a lemma of two parts, what it does to the slots (`ThreadAdded`,
`EmbryoRuns`, `ExecMoves`, `OthersGone`, `Commits`, `ProcessFreed`, ...) and to the count
(`PagesMove`).

### Only model-checked

The properties of FileSys, DiskFs, Blocks and Names (`ReferencesKept`, `NamesFormTree`,
`CrashLeavesClean`, `BlocksKept`, `NamesMatch`), of the programs (`ProgramsRight`,
`NothingLeftOpen`), and the liveness properties (`SleepersWake`, `QueuedRuns`, `KilledDies`, `HardwareAnswers`, `PromptsReturn`),
which are out of the prover's reach, as is what the recursive operators of ShellParse, Tools,
Printing and Umalloc compute for every input.

## 5. Met while modelling, without a run

Statements of the sources that the code breaks, beside the four with a run. The modules state each
as an invariant; no `.cfg` lists it, and TLC refutes it when one does:

| Invariant (module) | Statement | What the code does |
|---|---|---|
| `SleepsAreFull` (SleepClock; `ClockSpec` of MlfqSleep, one slot, sleeps of 2, a boost every 4 ticks) | a sleep lasts: "sleep(5);  // Let child exit before parent." (P1 `zombie.c:12`) | a boost sets `ticks` to 0 (`trap.c:80`); the unsigned difference of `sysproc.c:76` jumps past any n, and a sleep of 2 that begins at tick 3 returns after one timer interrupt. One of at least 100 ticks that begins at tick 0 never returns (`sleep(300)` of `mlfqtest.c:34`) |
| `NobodyBeforeQueues` (MlfqState; `mlfq_killed_sleeper.cfg`) | `qlevel = -1` is set so that the yield puts the process into queue 0 (P1 `proc.c:476`) | a process killed before the boost goes to `exit()` instead (`trap.c:141`), sleeps there for the disk, and `wakeup1()` links it into `mlfq[-1]` |
| `LinkedIsFound` (FileSys; `files.cfg`, where `part = "fs"`) | `nlink` is the "Number of links to inode in file system" (P3 `fs.h:35`) | `mkdir n1/n2` finds n1, `unlink n1` removes it, `create()` puts n2 into it: n1 goes from 0 links to 1 (`sysfile.c:159`), and no path leads to either, for ever |
| `UnlinkedIsFreed` (FileSys; likewise) | the last `iput()` of an inode without links frees it (P3 `fs.c:327`) | two `iput()`s each see the other's reference (`fs.c:339`), and nobody frees the inode |
| `RefsArePointers` (FileSys; likewise) | `ref` "tracks the number of in-memory pointers" (P3 `fs.c:123`) | `sys_symlink()` drops what `namei(old)` returned without `iput()` (`sysfile.c:290`), and `sys_open()` the link (`sysfile.c:423`); the slots of the cache are never free again |
| `ValidIsRead` (Buffers; `kernel.cfg`) | "B_VALID: the buffer data has been read from the disk." (P3 `bio.c:17`) | after a read that failed (`ide.c:118`) B_VALID is set over the contents of the block the buffer held before (`ide.c:122`) |
| `DiskIrqTaken` (Boot; `services.cfg`) | `cpunum` "happens to be that cpu's APIC ID" (P1 `ioapic.c:71`; `mp.c:110` says it may differ) | `ideinit()` gives it `ncpu - 1` (`ide.c:56`); with the ids 0 and 2 the disk's interrupt goes to 1, which no processor has |

P1, scheduler: `schedulerLock()` while the lock is held runs into "THIS SHOULD NEVER HAPPEN"
(`proc.c:604`); the holder may `yield()` with the lock set (`proc.c:22`); `uptime` goes back
to 0 with the boost (`sysproc.c:87`); the walk of `enqueue()` starts at the head of L2 and
never links before it, so the head may have a larger priority than the next (`proc.c:382`);
`kill(0)` marks a free slot, and the next process there is born
killed (`proc.c:851`).

P2, threads and memory: `thread_exit()` wakes the main thread only, so a join by another
thread does not return (`proc.c:279`); `thread_join()` compares tids in the whole table
(`proc.c:334`); `kill(0)` follows a null `main` (`proc.c:1266`); `main` passes to another
thread while a `kill()` has marked the old one, and the kill is lost; a failing
`thread_create()` keeps `pgdirlock`; its guard page takes PTE_U from a page below the new
stack, which after a `sbrk()` of part of a page is one the heap uses; `growproc()` takes a new
size of 0 for a failure; the memory limit does not follow a takeover, nor an `exec()` by a
thread that is not the main one. A comment of `syscall.c` relies on programs having no
writable memory in common, which threads have.

P3, files: `itrunc()` of a file over more than ten bitmap blocks logs more than MAXOPBLOCKS
blocks, and a part of a write that crosses from one bitmap block to the next logs one more
than `filewrite()` reserves (`file.c:143`); `iappend()` of `mkfs.c` writes behind its array
`indirect` for a file larger than NDIRECT + NINDIRECT blocks; a file that `open()` or `link()`
puts into a directory removed meanwhile keeps a link count of 1 and no name when the directory
is freed. A crash after the unlink of an open
file leaves an inode without a name and its blocks, which nothing reclaims; so does the race of two
`iput()`s, which `CrashLeavesClean` therefore allows.

Devices and programs: a writer of a pipe that is killed returns -1 after bytes went in,
without waking readers (`pipe.c:88`); `mpinit()` does not advance over an entry it does not
know (`mp.c:126`); `startothers()` does not test `kalloc()`; `grep` loses the part of a line
that a full buffer holds, and of a pipe or the console every piece that leaves its buffer without a
newline, however short the line (`grep.c:29`: `ls | grep x`, as `ls` writes a line in pieces); `wait()` takes the first zombie of the
table, so while somebody keeps typing execute lines an older zombie may wait for ever; after a
`fork()` that failed, `kill()` finds the pid left in the free slot.

## 6. Not modelled, and why

Left out of the models of files: "." and ".." in paths, directories deeper than one level,
the offset of a file that two processes share, and `fstat()`, `readsb()`, `stati()`, which
only copy. `kill()` of `init`, which is a panic by design. The words `exec()` puts on the new
stack. The registers of the serial line, the disk controller and the interrupt chips, the
boot sector and the vectors: hardware set-up without interleaving of its own. Test programs
(`usertests.c`, `stressfs.c`, the tests of the projects) and the utilities that wrap one
system call. Several processors under the MLFQ scheduler and the threads, which the
Makefiles exclude.

## 7. Plan

The models are complete to the extent of section 6. What is left is proofs: FileSys and Blocks,
that references cover pointers and that distinct blocks of files are distinct blocks of the disk.

ShellParse, ShellGrammar, Shell, Umalloc, Tools and Printing use RECURSIVE operators and stay
with TLC.
