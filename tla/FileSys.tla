------------------------------ MODULE FileSys ------------------------------
(***************************************************************************)
(* The files of project03/xv6-public: inodes and their cache (fs.c),       *)
(* directories and path names, the file table (file.c) and the system      *)
(* calls on them (sysfile.c), by several processes at once.                *)
(*                                                                         *)
(* An inode's sleep-lock is held over everything a call does to it.  A     *)
(* section that takes no other lock is one action, from ilock() to         *)
(* iunlock(); loc[p].pc says where p is between two sections:              *)
(*   "idle"      in no call                                                *)
(*   "namex"     in the loop of namex(), which goes on at loc[p].ret        *)
(*   "put", "trunc", "drop"   in iput(), which goes on at loc[p].after     *)
(*   "create", "createOld", "created"   in create(): the parent found, the *)
(*               name found, the inode locked                              *)
(*   others      before the next ilock() of the call of that name          *)
(* A cache slot stands under the number of its inode: iget() never gives   *)
(* two slots to one inode.  The blocks of a directory are a function from  *)
(* names to inode numbers, of a symbolic link a path.                      *)
(***************************************************************************)
EXTENDS Integers, Sequences, FiniteSets

CONSTANTS
  Procs, Names,
  ninodes,     \* sb.ninodes; inode 0 is not used
  NINODE,      \* slots of the inode cache
  NFILE, NOFILE,
  Paths,       \* paths the programs use, sequences of names from the root
  Programs,    \* the calls each process makes, in their order
  FirstTypes   \* what the image holds beside the root

AllFsCalls == {"open", "close", "dup", "link", "symlink", "unlink", "mkdir",
               "mknod", "chdir"}
OpenModes == {"create", "read", "write", "stat"}   \* as sys_open() tells them

ASSUME FsAssumption ==
  /\ ninodes \in Nat \ {0, 1} /\ NINODE \in Nat \ {0}
  /\ NFILE \in Nat \ {0} /\ NOFILE \in Nat \ {0}
  /\ Paths \subseteq Seq(Names) /\ Programs \subseteq [Procs -> Seq(AllFsCalls)]
  /\ FirstTypes \subseteq {"none", "file", "dir"}

VARIABLES
  dinode,    \* inodes on disk: type, nlink
  inode,     \* the cache: valid, type, nlink, ref, lock
  data,      \* contents: the entries of a directory, the path of a symlink
  ftable, ofile, cwd,
  loc,       \* place and locals of each process
  calls,     \* the rest of each process's program
  halted,    \* the kernel has panicked
  lost       \* history: entries that went with the directory that held them

files == <<ftable, ofile, cwd>>
fsvars == <<dinode, inode, data, ftable, ofile, cwd, loc, calls, halted, lost>>

Inum == 1 .. ninodes - 1
ROOTINO == 1
NoInode == 0
NoOne == 0
File == 1 .. NFILE
Fd == 1 .. NOFILE
AllNames == Names \cup {".", ".."}
NoPath == <<>>

Entries(self, parent) ==
  [n \in AllNames |-> CASE n = "." -> self [] n = ".." -> parent
                        [] OTHER -> NoInode]
NoData == [entries |-> Entries(NoInode, NoInode), path |-> NoPath]

Idle == [pc |-> "idle", call |-> "none", cur |-> NoInode, path |-> NoPath,
         parent |-> FALSE, name |-> ".", ret |-> "idle", ip |-> NoInode,
         dp |-> NoInode, put |-> <<>>, after |-> "idle", arg |-> NoPath,
         old |-> NoPath,
         mode |-> "none"]

(* mkfs has made the root directory, and in it at most one file or empty   *)
(* directory with inode 2; the processes are in the root.                  *)
FsInit ==
  \E type \in FirstTypes, name \in Names :
    LET links(i) == CASE i = ROOTINO -> IF type = "dir" THEN 2 ELSE 1
                      [] i = 2 /\ type # "none" -> 1 [] OTHER -> 0
        root == [Entries(ROOTINO, ROOTINO) EXCEPT ![name] =
                   IF type = "none" THEN NoInode ELSE 2]
    IN
  /\ dinode = [i \in Inum |->
       [type |-> CASE i = ROOTINO -> "dir" [] i = 2 -> type [] OTHER -> "none",
        nlink |-> links(i)]]
  /\ inode = [i \in Inum |->
       [valid |-> i = ROOTINO, lock |-> NoOne,
        type |-> IF i = ROOTINO THEN "dir" ELSE "none",
        nlink |-> IF i = ROOTINO THEN links(i) ELSE 0,
        ref |-> IF i = ROOTINO THEN Cardinality(Procs) ELSE 0]]
  /\ data = [i \in Inum |->
       CASE i = ROOTINO -> [NoData EXCEPT !.entries = root]
         [] i = 2 /\ type = "dir" -> [NoData EXCEPT !.entries = Entries(2, 1)]
         [] OTHER -> NoData]
  /\ ftable = [f \in File |-> [ref |-> 0, ip |-> NoInode]]
  /\ ofile = [p \in Procs |-> [fd \in Fd |-> 0]]
  /\ cwd = [p \in Procs |-> ROOTINO]
  /\ loc = [p \in Procs |-> Idle]
  /\ calls \in Programs
  /\ halted = FALSE
  /\ lost = [i \in Inum |-> 0]

-----------------------------------------------------------------------------
(* Inodes.                                                                 *)

Free(i) == inode[i].lock = NoOne
Go(p, l) == loc' = [loc EXCEPT ![p] = l]
Fields(ip) == [type |-> ip.type, nlink |-> ip.nlink]
Lookup(i, name) == data[i].entries[name]

(* What ilock() makes of i: a slot that is not valid is read from disk.    *)
Loaded(i) ==
  IF inode[i].valid THEN inode[i]
  ELSE [inode[i] EXCEPT !.valid = TRUE, !.type = dinode[i].type,
                        !.nlink = dinode[i].nlink]
Ilock(i, p) == [inode EXCEPT ![i] = [Loaded(i) EXCEPT !.lock = p]]
Iunlock(I, i) == [I EXCEPT ![i].lock = NoOne]
Visited(i) == [inode EXCEPT ![i] = Loaded(i)]    \* ilock() ... iunlock()

(* iupdate(): the cache is write-through.                                  *)
Iupdate(D, I, i) == [D EXCEPT ![i] = Fields(I[i])]
AddLink(I, i, n) == [I EXCEPT ![i].nlink = @ + n]

Iget(I, i) ==
  [I EXCEPT ![i].ref = @ + 1, ![i].valid = @ /\ I[i].ref > 0]
CacheFull(I, i) ==
  I[i].ref = 0 /\ Cardinality({j \in Inum : I[j].ref > 0}) >= NINODE

(* ialloc() takes the first inode that is free on disk.                    *)
FreeInodes == {i \in Inum : dinode[i].type = "none"}
FirstFree == CHOOSE i \in FreeInodes : \A j \in FreeInodes : i <= j

-----------------------------------------------------------------------------
(* What the next section of a process locks and looks up, and the panics   *)
(* of ilock(), iget(), ialloc() and sys_unlink().                          *)

StopsEarly(l) == l.parent /\ Tail(l.path) = <<>>

Target(l) ==
  CASE l.pc = "put" -> Head(l.put)
    [] l.pc \in {"createOld", "unlink2", "linkBad"} -> l.ip
    [] l.pc \in {"namex", "open", "open2", "create", "link", "link2", "unlink",
                 "chdir"} -> l.cur
    [] OTHER -> NoInode

Wanted(l) ==
  IF Loaded(l.cur).type # "dir" THEN NoInode
  ELSE CASE l.pc = "namex" /\ ~StopsEarly(l) -> Lookup(l.cur, Head(l.path))
         [] l.pc \in {"create", "link2", "unlink"} -> Lookup(l.cur, l.name)
         [] OTHER -> NoInode

PanicNext(p) ==
  LET l == loc[p]
      i == Target(l)
      new == IF l.pc = "create" /\ Wanted(l) = NoInode /\ FreeInodes # {}
             THEN FirstFree ELSE Wanted(l)
  IN  /\ i # NoInode /\ Free(i) /\ l.pc # "put"
      /\ \/ Loaded(i).type = "none"
         \/ l.pc = "unlink2" /\ Loaded(i).nlink < 1
         \/ l.pc = "create" /\ Wanted(l) = NoInode /\ FreeInodes = {}
         \/ l.cur # NoInode /\ i = l.cur /\ new # NoInode
            /\ CacheFull(inode, new)

Panics(p) ==
  /\ ~halted /\ PanicNext(p)
  /\ halted' = TRUE
  /\ UNCHANGED <<dinode, inode, data, ftable, ofile, cwd, loc, lost>>

At(p, l) ==
  /\ loc[p].pc = l /\ ~halted /\ ~PanicNext(p)
  /\ Target(loc[p]) # NoInode => Free(Target(loc[p]))

-----------------------------------------------------------------------------
(* iput() of the inodes of a sequence, then on at after.                   *)

Iput(l, is, after) == [l EXCEPT !.pc = "put", !.put = is, !.after = after]

Freeable(i) == inode[i].valid /\ inode[i].nlink = 0 /\ inode[i].ref = 1

(* iput(), first under the inode's lock.                                   *)
IputTest(p) ==
  LET l == loc[p]
      i == Head(l.put)
  IN  /\ At(p, "put")
      /\ inode' = IF Freeable(i) THEN [inode EXCEPT ![i].lock = p] ELSE inode
      /\ Go(p, [l EXCEPT !.pc = IF Freeable(i) THEN "trunc" ELSE "drop"])
      /\ UNCHANGED <<dinode, data, files, halted, lost>>

(* No links and no other references: itrunc(), and the inode is free, with *)
(* the entries of a directory into which something was put after it had    *)
(* lost its own.                                                           *)
IputTrunc(p) ==
  LET i == Head(loc[p].put)
      I == [inode EXCEPT ![i].type = "none", ![i].valid = FALSE]
      entries == data[i].entries
  IN  /\ At(p, "trunc")
      /\ lost' = [k \in Inum |->
                   lost[k] + Cardinality({n \in Names : entries[n] = k})]
      /\ dinode' = Iupdate(dinode, I, i)
      /\ data' = [data EXCEPT ![i] = NoData]
      /\ inode' = Iunlock(I, i)
      /\ Go(p, [loc[p] EXCEPT !.pc = "drop"])
      /\ UNCHANGED <<files, halted>>

(* iput(), at last under icache.lock.                                      *)
IputDrop(p) ==
  LET l == loc[p]
      more == Tail(l.put)
  IN  /\ At(p, "drop")
      /\ inode' = [inode EXCEPT ![Head(l.put)].ref = @ - 1]
      /\ Go(p, IF more = <<>> /\ l.after = "idle" THEN Idle
               ELSE [l EXCEPT !.put = more,
                              !.pc = IF more = <<>> THEN l.after ELSE "put",
                              !.after = IF more = <<>> THEN "idle" ELSE @])
      /\ UNCHANGED <<dinode, data, files, halted, lost>>

-----------------------------------------------------------------------------
(* Path names.  The programs' paths are relative to the current directory. *)
(* namex() leaves the inode, or 0, in cur and goes on at ret.              *)

Namex(l, d, path, parent, ret) ==
  [l EXCEPT !.pc = "namex", !.cur = d, !.path = path, !.parent = parent,
            !.ret = ret]

NamexStep(p) ==
  LET l == loc[p]
      i == l.cur
      stops == StopsEarly(l) /\ Loaded(i).type = "dir"
      next == Wanted(l)
  IN  /\ At(p, "namex")
      /\ \/ /\ stops
            /\ inode' = Visited(i)
            /\ Go(p, [l EXCEPT !.pc = l.ret, !.name = Head(l.path),
                               !.path = NoPath])
         \/ /\ ~stops /\ next # NoInode
            /\ inode' = Iget(Visited(i), next)
            /\ Go(p, Iput([l EXCEPT !.cur = next, !.path = Tail(@)], <<i>>,
                          IF Tail(l.path) = <<>> THEN l.ret ELSE "namex"))
         \/ /\ ~stops /\ next = NoInode
            /\ inode' = Visited(i)
            /\ Go(p, Iput([l EXCEPT !.cur = NoInode, !.path = NoPath],
                          <<i>>, l.ret))
      /\ UNCHANGED <<dinode, data, files, halted, lost>>

(* A call fails without an inode, or gives up the one it has locked.       *)
NotFound(p, pc) ==
  /\ At(p, pc) /\ loc[p].cur = NoInode
  /\ Go(p, Idle)
  /\ UNCHANGED <<dinode, inode, data, files, halted, lost>>

GiveUp(p, i, after) ==
  /\ inode' = Iunlock(Visited(i), i)
  /\ Go(p, Iput([loc[p] EXCEPT !.cur = NoInode, !.ip = NoInode,
                               !.dp = NoInode], <<i>>, after))
  /\ UNCHANGED <<dinode, data, files, halted, lost>>

-----------------------------------------------------------------------------
(* create(), for sys_open, sys_symlink, sys_mkdir and sys_mknod.           *)

TypeOf(call) ==
  CASE call = "open" -> "file" [] call = "symlink" -> "sym"
    [] call = "mkdir" -> "dir" [] call = "mknod" -> "dev"

CreateFound(p) ==
  LET l == loc[p]
      old == Lookup(l.cur, l.name)
  IN  /\ At(p, "create") /\ l.cur # NoInode /\ old # NoInode
      /\ inode' = Iget(Visited(l.cur), old)
      /\ Go(p, Iput([l EXCEPT !.cur = NoInode, !.ip = old],
                    <<l.cur>>, "createOld"))
      /\ UNCHANGED <<dinode, data, files, halted, lost>>

CreateOld(p) ==
  LET l == loc[p]
  IN  /\ At(p, "createOld")
      /\ IF TypeOf(l.call) = "file" /\ Loaded(l.ip).type = "file"
         THEN /\ inode' = Ilock(l.ip, p)
              /\ Go(p, [l EXCEPT !.pc = "created"])
              /\ UNCHANGED <<dinode, data, files, halted, lost>>
         ELSE GiveUp(p, l.ip, "idle")

(* The new inode is nobody else's: its lock is free.  It stays locked      *)
(* when the parent is put.                                                 *)
CreateNew(p) ==
  LET l == loc[p]
      dp == l.cur
      ip == FirstFree
      type == TypeOf(l.call)
      got == Iget(Visited(dp), ip)
      made == [got EXCEPT ![ip].valid = TRUE, ![ip].lock = p,
                          ![ip].type = type, ![ip].nlink = 1]
      I == IF type = "dir" THEN AddLink(made, dp, 1) ELSE made
      entries == IF type = "dir" THEN Entries(ip, dp)
                 ELSE Entries(NoInode, NoInode)
  IN  /\ At(p, "create") /\ dp # NoInode
      /\ Lookup(dp, l.name) = NoInode /\ Free(ip)
      /\ inode' = I
      /\ dinode' = LET D == Iupdate(dinode, I, ip)
                   IN  IF type = "dir" THEN Iupdate(D, I, dp) ELSE D
      /\ data' = [data EXCEPT ![ip].entries = entries,
                              ![dp].entries[l.name] = ip]
      /\ Go(p, Iput([l EXCEPT !.cur = NoInode, !.ip = ip], <<dp>>, "created"))
      /\ UNCHANGED <<files, halted, lost>>

(* sys_mkdir() and sys_mknod(), when create() is done.                     *)
MadeNode(p) ==
  /\ At(p, "created") /\ loc[p].call \in {"mkdir", "mknod"}
  /\ GiveUp(p, loc[p].ip, "idle")

(* sys_symlink(): first namei(old), whose inode is not put, then create(); *)
(* the link is unlocked and not put.                                       *)
SymlinkOld(p) ==
  LET l == loc[p]
  IN  /\ At(p, "symlink") /\ l.cur # NoInode
      /\ inode' = Iget(inode, cwd[p])
      /\ Go(p, Namex(l, cwd[p], l.arg, TRUE, "create"))
      /\ UNCHANGED <<dinode, data, files, halted, lost>>

SymlinkWrite(p) ==
  LET l == loc[p]
  IN  /\ At(p, "created") /\ l.call = "symlink"
      /\ data' = [data EXCEPT ![l.ip].path = l.old]
      /\ inode' = Iunlock(inode, l.ip)
      /\ Go(p, Idle)
      /\ UNCHANGED <<dinode, files, halted, lost>>

-----------------------------------------------------------------------------
(* Files and descriptors.                                                  *)

FreeFiles == {f \in File : ftable[f].ref = 0}
FreeFds(p) == {fd \in Fd : ofile[p][fd] = 0}
Least(S) == CHOOSE x \in S : \A y \in S : x <= y
CanOpen(p) == FreeFiles # {} /\ FreeFds(p) # {}

(* The tail of sys_open(), under the inode's lock: a file and a descriptor *)
(* or neither.                                                             *)
OpenFile(p, i) ==
  LET f == Least(FreeFiles)
  IN  IF CanOpen(p)
      THEN /\ ftable' = [ftable EXCEPT ![f] = [ref |-> 1, ip |-> i]]
           /\ ofile' = [ofile EXCEPT ![p][Least(FreeFds(p))] = f]
           /\ inode' = Iunlock(Visited(i), i)
           /\ Go(p, Idle)
           /\ UNCHANGED <<dinode, data, cwd, halted, lost>>
      ELSE GiveUp(p, i, "idle")

OpenCreated(p) ==
  /\ At(p, "created") /\ loc[p].call = "open"
  /\ OpenFile(p, loc[p].ip)

Open(p) ==
  LET l == loc[p]
      i == l.cur
      type == Loaded(i).type
  IN  /\ At(p, "open") /\ i # NoInode
      /\ \/ type = "dir" /\ l.mode = "write" /\ GiveUp(p, i, "idle")
         \/ /\ type = "sym" /\ l.mode # "stat"
            /\ inode' = Iget(Visited(i), cwd[p])
            /\ Go(p, Namex(l, cwd[p], data[i].path, FALSE, "open2"))
            /\ UNCHANGED <<dinode, data, files, halted, lost>>
         \/ /\ ~(type = "dir" /\ l.mode = "write")
            /\ ~(type = "sym" /\ l.mode # "stat")
            /\ OpenFile(p, i)

(* The file a symbolic link leads to is opened whatever its type is.       *)
OpenTarget(p) ==
  /\ At(p, "open2") /\ loc[p].cur # NoInode
  /\ OpenFile(p, loc[p].cur)

Dup(p, fd) ==
  LET f == ofile[p][fd]
  IN  /\ f # 0 /\ FreeFds(p) # {}
      /\ ofile' = [ofile EXCEPT ![p][Least(FreeFds(p))] = f]
      /\ ftable' = [ftable EXCEPT ![f].ref = @ + 1]
      /\ UNCHANGED <<dinode, inode, data, cwd, loc, halted, lost>>

(* sys_close() and fileclose().  Mutant: a file that is still shared is    *)
(* closed.                                                                 *)
CloseShared(p, fd) ==
  LET f == ofile[p][fd]
  IN  /\ f # 0
      /\ ofile' = [ofile EXCEPT ![p][fd] = 0]
      /\ ftable' = [ftable EXCEPT ![f] = [ref |-> 0, ip |-> NoInode]]
      /\ Go(p, Iput([Idle EXCEPT !.call = "close"], <<ftable[f].ip>>, "idle"))
      /\ UNCHANGED <<dinode, inode, data, cwd, halted, lost>>

Close(p, fd) ==
  LET f == ofile[p][fd]
  IN  /\ f # 0
      /\ ofile' = [ofile EXCEPT ![p][fd] = 0]
      /\ IF ftable[f].ref > 1
         THEN /\ ftable' = [ftable EXCEPT ![f].ref = @ - 1]
              /\ UNCHANGED loc
         ELSE /\ ftable' = [ftable EXCEPT ![f] = [ref |-> 0, ip |-> NoInode]]
              /\ Go(p, Iput([Idle EXCEPT !.call = "close"],
                            <<ftable[f].ip>>, "idle"))
      /\ UNCHANGED <<dinode, inode, data, cwd, halted, lost>>

-----------------------------------------------------------------------------
(* Links.                                                                  *)

(* Mutant of Link: the new link is not counted before its name exists.     *)
LinkUncounted(p) ==
  LET l == loc[p]
      ip == l.cur
  IN  /\ At(p, "link") /\ ip # NoInode
      /\ inode' = Iget(Visited(ip), cwd[p])
      /\ Go(p, Namex([l EXCEPT !.ip = ip], cwd[p], l.arg, TRUE, "link2"))
      /\ UNCHANGED <<dinode, data, files, halted, lost>>

(* sys_link() refuses directories.                                         *)
Refuses(i) == Loaded(i).type = "dir"

Link(p) ==
  LET l == loc[p]
      ip == l.cur
      I == AddLink(Visited(ip), ip, 1)
  IN  /\ At(p, "link") /\ ip # NoInode
      /\ IF Refuses(ip) THEN GiveUp(p, ip, "idle")
         ELSE /\ inode' = Iget(I, cwd[p])
              /\ dinode' = Iupdate(dinode, I, ip)
              /\ Go(p, Namex([l EXCEPT !.ip = ip], cwd[p], l.arg, TRUE, "link2"))
              /\ UNCHANGED <<data, files, halted, lost>>

(* dirlink() of the parent: a name that is there is put under dp's lock.   *)
LinkParent(p) ==
  LET l == loc[p]
      dp == l.cur
      found == Lookup(dp, l.name)
      k == [l EXCEPT !.cur = NoInode]
  IN  /\ At(p, "link2")
      /\ \/ /\ dp = NoInode /\ Go(p, [l EXCEPT !.pc = "linkBad"])
            /\ UNCHANGED <<inode, data>>
         \/ /\ dp # NoInode /\ found = NoInode
            /\ inode' = Visited(dp)
            /\ data' = [data EXCEPT ![dp].entries[l.name] = l.ip]
            /\ Go(p, Iput([k EXCEPT !.ip = NoInode], <<dp, l.ip>>, "idle"))
         \/ /\ dp # NoInode /\ found # NoInode
            /\ inode' = Iget(Ilock(dp, p), found)
            /\ Go(p, Iput([k EXCEPT !.dp = dp], <<found>>, "link3"))
            /\ UNCHANGED data
      /\ UNCHANGED <<dinode, files, halted, lost>>

LinkExists(p) ==
  LET l == loc[p]
  IN  /\ At(p, "link3")
      /\ inode' = Iunlock(inode, l.dp)
      /\ Go(p, Iput([l EXCEPT !.dp = NoInode], <<l.dp>>, "linkBad"))
      /\ UNCHANGED <<dinode, data, files, halted, lost>>

LinkBad(p) ==
  LET ip == loc[p].ip
      I == AddLink(Visited(ip), ip, -1)
  IN  /\ At(p, "linkBad")
      /\ inode' = I
      /\ dinode' = Iupdate(dinode, I, ip)
      /\ Go(p, Iput([loc[p] EXCEPT !.ip = NoInode], <<ip>>, "idle"))
      /\ UNCHANGED <<data, files, halted, lost>>

(* sys_unlink(), with dp locked from here on.                              *)
Unlink(p) ==
  LET l == loc[p]
      dp == l.cur
      found == Lookup(dp, l.name)
  IN  /\ At(p, "unlink") /\ dp # NoInode
      /\ IF found = NoInode THEN GiveUp(p, dp, "idle")
         ELSE /\ inode' = Iget(Ilock(dp, p), found)
              /\ Go(p, [l EXCEPT !.pc = "unlink2", !.cur = NoInode,
                                 !.dp = dp, !.ip = found])
              /\ UNCHANGED <<dinode, data, files, halted, lost>>

IsDirEmpty(i) == \A n \in Names : data[i].entries[n] = NoInode

(* The parent loses the ".." of a directory.                               *)
ParentLoses(i) == Loaded(i).type = "dir"

(* A directory that is not empty is put while dp is locked; otherwise the  *)
(* entry goes, and dp is put while ip is locked.                           *)
UnlinkEntry(p) ==
  LET l == loc[p]
      dp == l.dp
      held == Ilock(l.ip, p)
      I == IF ParentLoses(l.ip) THEN AddLink(held, dp, -1) ELSE held
  IN  /\ At(p, "unlink2")
      /\ IF Loaded(l.ip).type = "dir" /\ ~IsDirEmpty(l.ip)
         THEN /\ inode' = Visited(l.ip)
              /\ Go(p, Iput([l EXCEPT !.ip = NoInode], <<l.ip>>, "unlinkBad"))
              /\ UNCHANGED <<dinode, data>>
         ELSE /\ inode' = Iunlock(I, dp)
              /\ data' = [data EXCEPT ![dp].entries[l.name] = NoInode]
              /\ dinode' = IF ParentLoses(l.ip) THEN Iupdate(dinode, I, dp) ELSE dinode
              /\ Go(p, Iput([l EXCEPT !.dp = NoInode], <<dp>>, "unlink3"))
      /\ UNCHANGED <<files, halted, lost>>

UnlinkBad(p) ==
  /\ At(p, "unlinkBad")
  /\ GiveUp(p, loc[p].dp, "idle")

UnlinkInode(p) ==
  LET ip == loc[p].ip
      I == AddLink(inode, ip, -1)
  IN  /\ At(p, "unlink3")
      /\ inode' = Iunlock(I, ip)
      /\ dinode' = Iupdate(dinode, I, ip)
      /\ Go(p, Iput([loc[p] EXCEPT !.ip = NoInode], <<ip>>, "idle"))
      /\ UNCHANGED <<data, files, halted, lost>>

(* sys_chdir(): the process is in the new directory when the old is put.   *)
Chdir(p) ==
  LET i == loc[p].cur
  IN  /\ At(p, "chdir") /\ i # NoInode
      /\ IF Loaded(i).type # "dir" THEN GiveUp(p, i, "idle")
         ELSE /\ inode' = Visited(i)
              /\ cwd' = [cwd EXCEPT ![p] = i]
              /\ Go(p, Iput([loc[p] EXCEPT !.cur = NoInode], <<cwd[p]>>, "idle"))
              /\ UNCHANGED <<dinode, data, ftable, ofile, halted, lost>>

-----------------------------------------------------------------------------
(* System calls begin with the lookup of their path.  Bound: Programs.     *)

Begin(p, call, path, arg, mode) ==
  LET parent == call \in {"unlink", "mkdir", "mknod"} \/ mode = "create"
      ret == CASE call \in {"mkdir", "mknod"} \/ mode = "create" -> "create"
               [] OTHER -> call
  IN  /\ inode' = Iget(inode, cwd[p])
      /\ Go(p, [Namex(Idle, cwd[p], path, parent, ret) EXCEPT
                  !.call = call, !.arg = arg, !.mode = mode,
                  !.old = IF call = "symlink" THEN path ELSE NoPath])
      /\ UNCHANGED <<dinode, data, files, halted, lost>>

SystemCall(p) ==
  LET c == Head(calls[p])
  IN  /\ loc[p].pc = "idle" /\ calls[p] # <<>> /\ ~halted
      /\ calls' = [calls EXCEPT ![p] = Tail(@)]
      /\ \/ /\ c \in {"unlink", "mkdir", "mknod", "chdir"}
            /\ \E path \in Paths : Begin(p, c, path, NoPath, "none")
         \/ /\ c \in {"link", "symlink"}
            /\ \E old, new \in Paths : Begin(p, c, old, new, "none")
         \/ /\ c = "open"
            /\ \E path \in Paths, mode \in OpenModes : Begin(p, c, path, NoPath, mode)
         \/ c = "close" /\ \E fd \in Fd : Close(p, fd)
         \/ c = "dup" /\ \E fd \in Fd : Dup(p, fd)

InCall(p) ==
  \/ Panics(p) \/ NamexStep(p)
  \/ IputTest(p) \/ IputTrunc(p) \/ IputDrop(p)
  \/ \E pc \in {"open", "open2", "create", "symlink", "link", "unlink", "chdir"} :
        NotFound(p, pc)
  \/ CreateFound(p) \/ CreateOld(p) \/ CreateNew(p) \/ MadeNode(p)
  \/ SymlinkOld(p) \/ SymlinkWrite(p)
  \/ OpenCreated(p) \/ Open(p) \/ OpenTarget(p)
  \/ Link(p) \/ LinkParent(p) \/ LinkExists(p) \/ LinkBad(p)
  \/ Unlink(p) \/ UnlinkEntry(p) \/ UnlinkBad(p) \/ UnlinkInode(p)
  \/ Chdir(p)

FsNext ==
  \E p \in Procs : SystemCall(p) \/ (InCall(p) /\ UNCHANGED calls)

FsSpec == FsInit /\ [][FsNext]_fsvars

-----------------------------------------------------------------------------
(* Properties.                                                             *)

Types == {"none", "dir", "file", "dev", "sym"}
InumOrNone == Inum \cup {NoInode}
Pcs == {"idle", "namex", "put", "trunc", "drop", "create", "createOld", "created",
        "open", "open2", "symlink", "link", "link2", "link3", "linkBad", "unlink",
        "unlink2", "unlink3", "unlinkBad", "chdir"}

FsTypeOK ==
  /\ dinode \in [Inum -> [type : Types, nlink : Nat]]
  /\ inode \in [Inum -> [valid : BOOLEAN, lock : Procs \cup {NoOne},
                         type : Types, nlink : Nat, ref : Nat]]
  /\ \A i \in Inum : /\ data[i].entries \in [AllNames -> InumOrNone]
                      /\ data[i].path \in Paths \cup {NoPath}
  /\ ftable \in [File -> [ref : Nat, ip : InumOrNone]]
  /\ ofile \in [Procs -> [Fd -> File \cup {0}]]
  /\ cwd \in [Procs -> Inum]
  /\ \A p \in Procs :
       /\ loc[p].pc \in Pcs /\ loc[p].after \in Pcs /\ loc[p].ret \in Pcs
       /\ {loc[p].cur, loc[p].ip, loc[p].dp} \subseteq InumOrNone
       /\ loc[p].put \in Seq(Inum)
  /\ halted \in BOOLEAN

(* The in-memory pointers to an inode: files, current directories, and the *)
(* variables of the calls under way.                                       *)
Held(p, i) ==
  Cardinality({v \in {"cur", "ip", "dp"} : loc[p][v] = i})
  + Cardinality({k \in DOMAIN loc[p].put : loc[p].put[k] = i})
CallPointers(i) ==
  Cardinality({<<p, k>> \in Procs \X (1 .. 9) : k <= Held(p, i)})
Pointers(i) ==
  Cardinality({f \in File : ftable[f].ref > 0 /\ ftable[f].ip = i})
  + Cardinality({p \in Procs : cwd[p] = i}) + CallPointers(i)

(* No pointer is left without its reference, and no file is closed under a *)
(* descriptor: an inode's slot is recycled only when no file, directory or *)
(* call can reach it.                                                      *)
RefsCoverPointers ==
  /\ \A i \in Inum : inode[i].ref >= Pointers(i)
  /\ \A f \in File : ftable[f].ref =
        Cardinality({<<p, fd>> \in Procs \X Fd : ofile[p][fd] = f})

(* What a process has open, is in, or is working on is not freed on disk   *)
(* under it, whatever others unlink meanwhile.                             *)
InUseAllocated ==
  \A i \in Inum : Pointers(i) > 0 /\ dinode[i].type = "none" =>
    \E p \in Procs : loc[p].pc = "drop" /\ Head(loc[p].put) = i

(* The links to an inode: the entries that lead to it and, for a           *)
(* directory, the ".." of each directory that has an entry in it.          *)
EntriesTo(i) == {<<d, n>> \in Inum \X Names : data[d].entries[n] = i}
ParentLinks(i) ==
  {c \in Inum : EntriesTo(c) # {} /\ data[c].entries[".."] = i}
Links(i) == Cardinality(EntriesTo(i)) + Cardinality(ParentLinks(i))

(* Calls that have counted i and not yet written its entry, or removed its *)
(* entry and not yet counted it down.                                      *)
Pending(i) ==
  Cardinality({p \in Procs :
    /\ loc[p].ip = i
    /\ \/ loc[p].call = "link"
       \/ loc[p].call = "unlink" /\ loc[p].dp = NoInode})

(* An entry leads to an inode that is allocated, and nlink on disk is      *)
(* neither more nor less than the links there are: no order of link,       *)
(* unlink, mkdir, open and close leaves a name on a freed inode, a count   *)
(* that is too low, or one that is too high, except that the links lost in *)
(* a removed directory are still counted, and those are never of           *)
(* directories.                                                            *)
LinksCounted ==
  \A i \in Inum :
    /\ EntriesTo(i) # {} => dinode[i].type # "none"
    /\ dinode[i].nlink = Links(i) + Pending(i) + lost[i]
                          + (IF i = ROOTINO THEN 1 ELSE 0)
    /\ dinode[i].type = "dir" => lost[i] = 0

(* Directories: at most one entry leads to each, its ".." leads back, the  *)
(* root has none, and no directory is below itself.  Whoever follows ".."  *)
(* comes to the root, or to a directory whose own entry was removed.       *)
Parents(i) == {e[1] : e \in EntriesTo(i)}
DirectoriesFormTree ==
  /\ EntriesTo(ROOTINO) = {}
  /\ \A i \in Inum : dinode[i].type = "dir" =>
       \A e, f \in EntriesTo(i) : e = f /\ data[i].entries[".."] = e[1]
  /\ \A S \in SUBSET Inum \ {{}} : \E i \in S : Parents(i) \cap S = {}

-----------------------------------------------------------------------------
(* What the comments of the code say besides, and the code does not keep.  *)

NoCallLeft == ~halted /\ \A p \in Procs : loc[p].pc = "idle"

(* nlink is the "number of links to inode in file system" (fs.h:35):       *)
(* between calls an inode that has links can be found from the root.       *)
FoundFromRoot(i) ==
  \A S \in SUBSET Inum :
    ROOTINO \in S /\ (\A k \in Inum : Parents(k) \cap S # {} => k \in S) => i \in S
LinkedIsFound ==
  NoCallLeft => \A i \in Inum : dinode[i].nlink > 0 => FoundFromRoot(i)

(* ref "tracks the number of in-memory pointers" (fs.c:103): between calls *)
(* it is not above it either.                                              *)
RefsArePointers ==
  NoCallLeft => \A i \in Inum : inode[i].ref <= Pointers(i)

(* iput() frees an inode without links when the last reference goes        *)
(* (fs.c:324): between calls, one that nothing refers to is free.          *)
UnlinkedIsFreed ==
  NoCallLeft => \A i \in Inum :
    dinode[i].nlink = 0 /\ inode[i].ref = 0 => dinode[i].type = "none"

(* The cache is write-through (fs.c:173): between two sections a valid     *)
(* slot says of an inode what the disk says.                               *)
WriteThrough ==
  \A i \in Inum : inode[i].valid => Fields(inode[i]) = dinode[i]
=============================================================================
