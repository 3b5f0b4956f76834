------------------------------- MODULE DiskFs -------------------------------
(* The file system of project01 as a crash leaves it: the calls that       *)
(* change the disk (sysfile.c, file.c, fs.c), as transactions of a log     *)
(* that keeps the promise of AtomicLog, and power failures.  There is one  *)
(* directory, and a file holds at most FileBlocks blocks.                  *)
(*                                                                         *)
(* A step is what a call does while it holds an inode's lock, or between   *)
(* two such sections; no lock is held from one step to the next.           *)
EXTENDS Integers, FiniteSetsExt, SequencesExt

CONSTANTS
  DfProcs, DfNames,
  NINODES, NDATA,          \* inodes and data blocks of the disk
  DfDirect, DfIndirect,
  NFILES,                  \* files open at a time
  GroupCalls               \* bound: calls begun since the last commit, as many as the log has room for

VARIABLES
  fsdisk,      \* the disk as the buffer cache shows it
  fsdurable,   \* the disk as recovery would leave it
  icache,      \* in-memory inodes
  fsop,        \* each process: place in a call, its names and inode, its open file and offset
  fsgroup      \* calls begun since the last commit

diskfsvars == <<fsdisk, fsdurable, icache, fsop, fsgroup>>

DfInum == 1 .. NINODES
DfDataBlock == 1 .. NDATA
FileBlocks == DfDirect + DfIndirect
FreeDinode == [type |-> 0, nlink |-> 0, size |-> 0, addrs |-> [k \in 1 .. DfDirect + 1 |-> 0]]
T_FILE == 2
ZeroBlock == [k \in 1 .. DfIndirect |-> 0]      \* of a block, the block numbers it would be read as
NotCached == [ref |-> 0, valid |-> FALSE, d |-> FreeDinode]
Outside == [pc |-> "user", name |-> <<>>, ip |-> 0, fd |-> 0, off |-> 0]

DiskFsInit ==
  /\ fsdisk = [ino |-> [i \in DfInum |-> FreeDinode], dir |-> [n \in DfNames |-> 0],
               map |-> {}, data |-> [b \in DfDataBlock |-> ZeroBlock]]
  /\ fsdurable = fsdisk
  /\ icache = [i \in DfInum |-> NotCached]
  /\ fsop = [p \in DfProcs |-> Outside] /\ fsgroup = 0

-----------------------------------------------------------------------------
(* Blocks.  With none free balloc() panics, as ialloc() does without free  *)
(* inodes: the machine stops there, which is a crash.                      *)
DfFreeBlocks(disk) == DfDataBlock \ disk.map
DfBalloc(disk) == LET b == Min(DfFreeBlocks(disk)) IN [disk EXCEPT !.map = @ \cup {b}, !.data[b] = ZeroBlock]
DfBfree(disk, S) == [disk EXCEPT !.map = @ \ S]

BlocksUsed(disk, d) ==
  LET indirect == d.addrs[DfDirect + 1]
  IN  (ToSet(d.addrs) \cup IF indirect = 0 THEN {} ELSE ToSet(disk.data[indirect])) \ {0}
DataBlocks(disk, d) == BlocksUsed(disk, d) \ {d.addrs[DfDirect + 1]}

(* bmap(): the state of disk and inode once block bn of the file exists.   *)
DfBmap(s, bn) ==
  LET direct == bn <= DfDirect
      slot == IF direct THEN bn ELSE DfDirect + 1
      first == IF s.d.addrs[slot] # 0 THEN s
               ELSE [disk |-> DfBalloc(s.disk), d |-> [s.d EXCEPT !.addrs[slot] = Min(DfFreeBlocks(s.disk))]]
      indirect == first.d.addrs[DfDirect + 1]
  IN  IF direct \/ first.disk.data[indirect][bn - DfDirect] # 0 THEN first
      ELSE [first EXCEPT !.disk = [DfBalloc(@) EXCEPT !.data[indirect][bn - DfDirect] = Min(DfFreeBlocks(first.disk))]]
MayNeed(bn) == IF bn <= DfDirect THEN 1 ELSE 2

(* In-memory inodes.  ilock() reads one that is not valid; iupdate()       *)
(* writes it back.                                                         *)
DfLoaded(i) == IF icache[i].valid THEN icache[i].d ELSE fsdisk.ino[i]
Cached(c, i, d, refs) == [c EXCEPT ![i] = [ref |-> @.ref + refs, valid |-> TRUE, d |-> d]]
DfIget(i) == [icache EXCEPT ![i].ref = @ + 1]
DfIupdate(disk, i, d) == [disk EXCEPT !.ino[i] = d]
Linked(d, k) == [d EXCEPT !.nlink = @ + k]

-----------------------------------------------------------------------------
Inside(p, pc) == fsop[p].pc = pc
Others(p) == \E q \in DfProcs \ {p} : fsop[q].pc # "user"
Stays == UNCHANGED <<fsdurable, fsgroup>>
Goto(p, pc) == fsop' = [fsop EXCEPT ![p].pc = pc] /\ Stays

(* end_op(): the last one commits what all have written.  Mutant: each     *)
(* commits.                                                                *)
CommitsAlways(p) == fsdurable' = fsdisk' /\ fsgroup' = 0
Commits(p) == IF Others(p) THEN Stays ELSE fsdurable' = fsdisk' /\ fsgroup' = 0
Leave(p, fd, off) ==
  /\ fsop' = [fsop EXCEPT ![p] = [Outside EXCEPT !.fd = fd, !.off = off]]
  /\ Commits(p)
Failed(p) == UNCHANGED <<fsdisk, icache>> /\ Leave(p, fsop[p].fd, fsop[p].off)

(* A process has at most one file open, which it writes from the start.    *)
BeginWrite(p) == fsop[p].fd # 0 /\ fsop[p].off < FileBlocks /\ fsop' = [fsop EXCEPT ![p].pc = "write"]
Fileclose(p) == fsop[p].fd # 0 /\ fsop' = [fsop EXCEPT ![p].pc = "put", ![p].ip = fsop[p].fd, ![p].fd = 0, ![p].off = 0]
BeginOp(p) ==
  /\ Inside(p, "user") /\ UNCHANGED <<fsdisk, icache, fsdurable>>
  /\ fsgroup < GroupCalls /\ fsgroup' = fsgroup + 1
  /\ \/ \E n \in DfNames, call \in {"open", "unlink"} :
          (call = "open" => fsop[p].fd = 0) /\ fsop' = [fsop EXCEPT ![p].pc = call, ![p].name = <<n>>]
     \/ \E old \in DfNames, new \in DfNames : fsop' = [fsop EXCEPT ![p].pc = "link", ![p].name = <<old, new>>]
     \/ BeginWrite(p) \/ Fileclose(p)

(* sys_open() with O_CREATE.  When the file table is full, what create()   *)
(* made stays.                                                             *)
TableFull == Cardinality({q \in DfProcs : fsop[q].fd # 0}) >= NFILES
Opened(p, i) == \/ ~TableFull /\ Leave(p, i, 0)
                \/ TableFull /\ fsop' = [fsop EXCEPT ![p].pc = "put", ![p].ip = i] /\ Stays
Create(p) ==
  LET i == Min({j \in DfInum : fsdisk.ino[j].type = 0})
      d == [FreeDinode EXCEPT !.type = T_FILE, !.nlink = 1]
  IN  /\ Inside(p, "open") /\ fsdisk.dir[fsop[p].name[1]] = 0 /\ \E j \in DfInum : fsdisk.ino[j].type = 0
      /\ fsdisk' = [DfIupdate(fsdisk, i, d) EXCEPT !.dir[fsop[p].name[1]] = i]
      /\ icache' = Cached(icache, i, d, 1)
      /\ Opened(p, i)
DfLookup(p) ==
  LET i == fsdisk.dir[fsop[p].name[1]]
  IN  /\ Inside(p, "open") /\ i # 0
      /\ icache' = DfIget(i) /\ fsop' = [fsop EXCEPT ![p].pc = "locked", ![p].ip = i]
      /\ UNCHANGED fsdisk /\ Stays
DfOpen(p) ==
  LET i == fsop[p].ip
  IN  /\ Inside(p, "locked")
      /\ icache' = Cached(icache, i, DfLoaded(i), 0) /\ UNCHANGED fsdisk
      /\ Opened(p, i)

(* sys_link(): the count is raised, the inode unlocked, and then the entry *)
(* is made; it is lowered again when the name is taken.                    *)
LinkFinds(p) ==
  LET i == fsdisk.dir[fsop[p].name[1]]
  IN  /\ Inside(p, "link")
      /\ IF i = 0 THEN Failed(p)
         ELSE /\ icache' = DfIget(i) /\ fsop' = [fsop EXCEPT ![p].pc = "linkup", ![p].ip = i]
              /\ UNCHANGED fsdisk /\ Stays
Counted(p, k) ==
  LET i == fsop[p].ip
      d == Linked(DfLoaded(i), k)
  IN  icache' = Cached(icache, i, d, 0) /\ fsdisk' = DfIupdate(fsdisk, i, d)
LinkCounts(p) == Inside(p, "linkup") /\ Counted(p, 1) /\ Goto(p, "dirlink")
LinkEnters(p) ==
  LET new == fsop[p].name[2]
  IN  /\ Inside(p, "dirlink") /\ UNCHANGED icache
      /\ IF fsdisk.dir[new] # 0 THEN Goto(p, "bad") /\ UNCHANGED fsdisk
         ELSE Goto(p, "put") /\ fsdisk' = [fsdisk EXCEPT !.dir[new] = fsop[p].ip]
DfLinkBad(p) == Inside(p, "bad") /\ Counted(p, -1) /\ Goto(p, "put")

DfUnlink(p) ==
  LET i == fsdisk.dir[fsop[p].name[1]]
      d == Linked(DfLoaded(i), -1)
  IN  /\ Inside(p, "unlink")
      /\ IF i = 0 THEN Failed(p)
         ELSE /\ icache' = Cached(icache, i, d, 1)
              /\ fsdisk' = [DfIupdate(fsdisk, i, d) EXCEPT !.dir[fsop[p].name[1]] = 0]
              /\ fsop' = [fsop EXCEPT ![p].pc = "put", ![p].ip = i] /\ Stays

(* filewrite(): one part, a block.  iupdate() only follows a change of size.*)
DfWritei(s, i, bn) ==
  LET grown == [s.d EXCEPT !.size = Max({@, bn})]
  IN  /\ icache' = Cached(icache, i, grown, 0)
      /\ fsdisk' = IF bn > s.d.size THEN DfIupdate(s.disk, i, grown) ELSE s.disk
Filewrite(p) ==
  LET i == fsop[p].fd
      bn == fsop[p].off + 1
  IN  /\ Inside(p, "write") /\ Cardinality(DfFreeBlocks(fsdisk)) >= MayNeed(bn)
      /\ DfWritei(DfBmap([disk |-> fsdisk, d |-> DfLoaded(i)], bn), i, bn)
      /\ Leave(p, i, bn)

(* iput(): with the lock, whether this is the last reference to a file     *)
(* without links, whose blocks and inode are then freed; the reference     *)
(* itself goes after the lock.                                             *)
LastRef(i) == icache[i].valid /\ icache[i].d.nlink = 0 /\ icache[i].ref = 1
Truncated(d) == BlocksUsed(fsdisk, d)
DfIput(p) ==
  LET i == fsop[p].ip
      d == icache[i].d
  IN  /\ Inside(p, "put") /\ Goto(p, "unref")
      /\ IF LastRef(i)
         THEN /\ fsdisk' = DfIupdate(DfBfree(fsdisk, Truncated(d)), i, FreeDinode)
              /\ icache' = [icache EXCEPT ![i].valid = FALSE, ![i].d = FreeDinode]
         ELSE UNCHANGED <<fsdisk, icache>>
Unref(p) ==
  LET i == fsop[p].ip
  IN  /\ Inside(p, "unref") /\ UNCHANGED fsdisk
      /\ icache' = [icache EXCEPT ![i] = IF @.ref = 1 THEN NotCached ELSE [@ EXCEPT !.ref = @ - 1]]
      /\ Leave(p, fsop[p].fd, fsop[p].off)

Crash ==      \* power failure, or a panic, and recovery
  /\ fsdisk' = fsdurable /\ UNCHANGED fsdurable
  /\ icache' = [i \in DfInum |-> NotCached] /\ fsop' = [p \in DfProcs |-> Outside] /\ fsgroup' = 0

DiskFsNext ==
  \/ \E p \in DfProcs : BeginOp(p) \/ Create(p) \/ DfLookup(p) \/ DfOpen(p) \/ LinkFinds(p) \/ LinkCounts(p) \/ LinkEnters(p)
                          \/ DfLinkBad(p) \/ DfUnlink(p) \/ Filewrite(p) \/ DfIput(p) \/ Unref(p)
  \/ Crash
DiskFsSpec == DiskFsInit /\ [][DiskFsNext]_diskfsvars

-----------------------------------------------------------------------------
(* Whenever the power fails, recovery finds a file system that fsck would  *)
(* accept: entries name files that exist, each file's link count is the    *)
(* number of its entries, a free inode owns nothing, a file has the blocks *)
(* of its size, no two share one, and the bitmap marks those and no other. *)
(* What it may find are files without a name: they were open.              *)
FsckClean ==
  LET d == fsdurable
      files == {i \in DfInum : d.ino[i].type # 0}
  IN  /\ \A i \in files : d.ino[i].nlink = Cardinality({n \in DfNames : d.dir[n] = i})
      /\ \A n \in DfNames : d.dir[n] # 0 => d.dir[n] \in files
      /\ \A i \in DfInum \ files : d.ino[i] = FreeDinode
      /\ \A i \in files : Cardinality(DataBlocks(d, d.ino[i])) = d.ino[i].size
      /\ \A i, j \in files : i # j => BlocksUsed(d, d.ino[i]) \cap BlocksUsed(d, d.ino[j]) = {}
      /\ d.map = UNION {BlocksUsed(d, d.ino[i]) : i \in files}

(* The inode of an open file is neither freed nor given to another file:   *)
(* what a process has read or written of it is still there.                *)
OpenFileKept ==
  \A p \in DfProcs : LET i == fsop[p].fd IN
    i # 0 => fsdisk.ino[i].type # 0 /\ fsop[p].off <= fsdisk.ino[i].size
=============================================================================
