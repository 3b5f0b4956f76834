------------------------------ MODULE MCFiles ------------------------------
(***************************************************************************)
(* The instances of the modules about files, in one state space: the       *)
(* variable part says which of them runs; the variables of the others are  *)
(* 0.                                                                      *)
(***************************************************************************)
EXTENDS FileSys, DiskFs, Blocks, Names, TLC

CONSTANTS p1, p2, n1, n2

\* FileSys: two processes, names and directories one level deep.
MCPaths == {<<n1>>, <<n2>>, <<n1, n2>>}
Program(s, t) == (p1 :> s) @@ (p2 :> t)
MCPrograms ==
  { Program(<<"open", "close">>, <<"open", "unlink", "close">>),
    Program(<<"open", "dup", "close", "close">>, <<"open", "open">>),
    Program(<<"link", "unlink">>, <<"unlink">>),
    Program(<<"mkdir", "chdir">>, <<"unlink", "open">>),
    Program(<<"chdir", "link">>, <<"unlink">>),
    Program(<<"symlink", "open">>, <<"unlink">>),
    Program(<<"mknod", "open">>, <<"unlink">>) }

\* Blocks: the first file empty or of the largest size, the second fixed.
MCMaxBlocks == ("f" :> MAXFILE) @@ ("h" :> 0)
MCImage == {[f |-> i, h |-> k] : i \in {0, NDIRECT + NINDIRECT}, k \in {1, 4}}

VARIABLE part

FsAbsent ==
  /\ dinode = 0 /\ inode = 0 /\ data = 0 /\ ftable = 0 /\ ofile = 0
  /\ cwd = 0 /\ loc = 0 /\ calls = 0 /\ halted = 0 /\ lost = 0
DiskFsAbsent ==
  /\ fsdisk = 0 /\ fsdurable = 0 /\ icache = 0 /\ fsop = 0 /\ fsgroup = 0
BlocksAbsent ==
  /\ disk = 0 /\ freed_twice = 0
NamesAbsent ==
  /\ npath = 0 /\ nname = 0 /\ nelem = 0 /\ nentry = 0 /\ nlinked = 0
  /\ pname = 0

FilesInit ==
  /\ part \in {"fs", "diskfs", "blocks", "names"}
  /\ IF part = "fs" THEN FsInit ELSE FsAbsent
  /\ IF part = "diskfs" THEN DiskFsInit ELSE DiskFsAbsent
  /\ IF part = "blocks" THEN BlocksInit ELSE BlocksAbsent
  /\ IF part = "names" THEN NamesInit ELSE NamesAbsent

FilesNext ==
  /\ UNCHANGED part
  /\ IF part = "fs" THEN FsNext ELSE UNCHANGED fsvars
  /\ IF part = "diskfs" THEN DiskFsNext ELSE UNCHANGED diskfsvars
  /\ IF part = "blocks" THEN BlocksNext ELSE UNCHANGED blockvars
  /\ IF part = "names" THEN NamesNext ELSE UNCHANGED namesvars

filesvars == <<part, fsvars, diskfsvars, blockvars, namesvars>>
FilesSpec == FilesInit /\ [][FilesNext]_filesvars

-----------------------------------------------------------------------------
(* The properties of the parts, each where its part runs.                  *)

(* fs.c, file.c, sysfile.c: the references of an inode cover the pointers  *)
(* to it, what is in use stays allocated, and a cached inode that nobody   *)
(* has locked says what the disk says.                                     *)
ReferencesKept ==
  part = "fs" => FsTypeOK /\ RefsCoverPointers /\ InUseAllocated /\ WriteThrough

(* The link counts on disk are the links there are and the directories     *)
(* form a tree, whatever calls race.  What mkdir, create or link put into  *)
(* a directory that another process removes meanwhile keeps its counts and *)
(* its shape, but no longer hangs on the root, or is lost with it.         *)
NamesFormTree == part = "fs" => LinksCounted /\ DirectoriesFormTree

(* A crash at any point leaves a file system that fsck would find clean,   *)
(* and a file that is open keeps its inode and its blocks until then.      *)
CrashLeavesClean == part = "diskfs" => FsckClean /\ OpenFileKept

(* bmap(), itrunc(), balloc(), filewrite(): files of every size keep their *)
(* contents apart, the bitmap tells what is in use, and a part of a write  *)
(* fits its reservation.                                                   *)
BlocksKept == part = "blocks" => ContentKept /\ BitmapExact /\ PartsFit

(* namex() and dirlink() agree on what is the same name, the walk stops at *)
(* the last element, and the name of a process is terminated.              *)
NamesMatch == part = "names" => NameFoundIffSame /\ RestIsNext /\ ProcessNameEnds
=============================================================================
