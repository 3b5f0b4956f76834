------------------------------ MODULE SysArgs ------------------------------
(***************************************************************************)
(* How a system call reads what the user passed (project01: syscall.c and  *)
(* sysfile.c).  The stack pointer and every word of memory are the user's; *)
(* the kernel runs on the user's page table, so an address at or above sz  *)
(* is the kernel's own memory.  Arithmetic on addresses is modulo 2^w.     *)
(* A helper that may fail returns the set of its results: {} is -1.        *)
(***************************************************************************)
EXTENDS Integers, FiniteSets, FiniteSetsExt

CONSTANTS AddrMod,     \* 2^w: the addresses are 0..AddrMod-1
          IntSize,     \* sizeof(int), in bytes
          ByteMod,     \* a byte is one of 0..ByteMod-1
          Sizes,       \* the sizes of the process to start from
          Images,      \* the contents of memory to start from
          NOFILE, NFILE, MAXARG

ASSUME SysArgsConstants ==
  /\ \A n \in {AddrMod, IntSize, ByteMod, NOFILE, NFILE, MAXARG} : n \in Nat \ {0}
  /\ ByteMod^IntSize = AddrMod /\ 4 * IntSize <= AddrMod
  /\ \A s \in Sizes : s \in 0..(AddrMod \div 2)                 \* KERNBASE

VARIABLES sz,          \* curproc->sz
          mem,         \* the bytes at every address
          ofile,       \* ofile[fd]: a file of the table, 0 if the slot is free
          fref,        \* f->ref of each file of the table
          touched      \* the addresses the last call used for the user

sysargsvars == <<sz, mem, ofile, fref, touched>>

Addrs == 0..(AddrMod - 1)
OpenFds == 0..(NOFILE - 1)
OpenFiles == 1..NFILE

SysArgsInit ==
  /\ sz = 0 /\ mem = [a \in 0..(AddrMod - 1) |-> 0]        \* no process yet
  /\ ofile = [fd \in OpenFds |-> 0]
  /\ fref = [f \in OpenFiles |-> 0]
  /\ touched = {}

\* The unsigned reading of a word, the n bytes from an address on, and the
\* signed word, the only one of Words, that the bytes at an address make.
Uint(i) == i % AddrMod
Span(a, n) == {Uint(a + k) : k \in 0..(n - 1)}
Words == {i - (AddrMod \div 2) : i \in Addrs}
WordAt(a) == {w \in Words : \A k \in 0..(IntSize - 1) : (Uint(w) \div ByteMod^k) % ByteMod = mem[Uint(a + k)]}

-----------------------------------------------------------------------------
(* syscall.c *)

FetchintBase(a) == IF Uint(a) < sz THEN WordAt(a) ELSE {}
Fetchint(a) == IF Uint(a) < sz /\ Uint(a + IntSize) <= sz THEN WordAt(a) ELSE {}

Fetchstr(a) == {k \in 0..(sz - Uint(a) - 1) : mem[Uint(a + k)] = 0 /\ \A j \in 0..(k - 1) : mem[Uint(a + j)] # 0}

Argint(esp, n) == Fetchint(esp + IntSize + IntSize * n)

Argptr(esp, n, size) == {i \in Argint(esp, n) : size >= 0 /\ Uint(i) < sz /\ Uint(Uint(i) + size) <= sz}

\* The pointer and the length of a string argument.
Argstr(esp, n) == {s \in Argint(esp, n) \X (0..AddrMod) : s[2] \in Fetchstr(s[1])}

\* The words of the user's stack a call with n arguments reads.
ArgWords(esp, n) == Span(esp + IntSize, n * IntSize)

-----------------------------------------------------------------------------
(* sysfile.c and file.c *)

Argfd(esp, n) == {fd \in Argint(esp, n) : fd \in OpenFds /\ ofile[fd] # 0}
FreeFds == {fd \in OpenFds : ofile[fd] = 0}
Fdalloc == IF FreeFds = {} THEN {} ELSE {Min(FreeFds)}
FreeFiles == {f \in OpenFiles : fref[f] = 0}
Unused == UNCHANGED <<sz, mem>>

SysReadWrite(esp) == \E fd \in Argfd(esp, 0), n \in Argint(esp, 2) : \E p \in Argptr(esp, 1, n) :
  /\ touched' = ArgWords(esp, 3) \cup Span(p, n)
  /\ UNCHANGED <<sz, mem, ofile, fref>>

SysDup(esp) == \E old \in Argfd(esp, 0) :
  \/ \E fd \in Fdalloc :
       /\ ofile' = [ofile EXCEPT ![fd] = ofile[old]]
       /\ fref' = [fref EXCEPT ![ofile[old]] = @ + 1]
       /\ touched' = ArgWords(esp, 1) /\ Unused
  \/ Fdalloc = {} /\ touched' = ArgWords(esp, 1) /\ UNCHANGED <<sz, mem, ofile, fref>>

SysClose(esp) == \E fd \in Argfd(esp, 0) :
  /\ ofile' = [ofile EXCEPT ![fd] = 0]
  /\ fref' = [fref EXCEPT ![ofile[fd]] = @ - 1]
  /\ touched' = ArgWords(esp, 1) /\ Unused

\* The path names an inode the call may open: filealloc(), then a descriptor
\* for the file or fileclose().
SysOpen(esp) == \E s \in Argstr(esp, 0), omode \in Argint(esp, 1) :
  /\ touched' = ArgWords(esp, 2) \cup Span(s[1], s[2] + 1) /\ Unused
  /\ \/ \E fd \in Fdalloc : /\ FreeFiles # {}
                            /\ ofile' = [ofile EXCEPT ![fd] = Min(FreeFiles)]
                            /\ fref' = [fref EXCEPT ![Min(FreeFiles)] = 1]
     \/ (Fdalloc = {} \/ FreeFiles = {}) /\ UNCHANGED <<ofile, fref>>

\* pipealloc() gives rf and wf; fdalloc() of either may fail.
PipeUndone(fd, rf) == [[ofile EXCEPT ![fd] = rf] EXCEPT ![fd] = 0]

\* fd[0] = fd0; fd[1] = fd1, each an int of IntSize bytes.
FdsStored(p, fd0, fd1) ==
  [a \in Addrs |-> IF a \notin Span(p, 2 * IntSize) THEN mem[a]
                   ELSE IF a = Uint(p) THEN fd0
                   ELSE IF a = Uint(p + IntSize) THEN fd1 ELSE 0]

SysPipe(esp) == \E p \in Argptr(esp, 0, 2 * IntSize) :
  IF Cardinality(FreeFiles) < 2
    THEN touched' = ArgWords(esp, 1) /\ UNCHANGED <<sz, mem, ofile, fref>>
    ELSE LET rf == Min(FreeFiles)  wf == Min(FreeFiles \ {rf})
         IN \/ /\ Cardinality(FreeFds) >= 2
               /\ LET fd0 == Min(FreeFds)  fd1 == Min(FreeFds \ {fd0})
                  IN /\ ofile' = [ofile EXCEPT ![fd0] = rf, ![fd1] = wf]
                     /\ mem' = FdsStored(p, fd0, fd1)
               /\ fref' = [fref EXCEPT ![rf] = 1, ![wf] = 1]
               /\ touched' = ArgWords(esp, 1) \cup Span(p, 2 * IntSize) /\ sz' = sz
            \/ /\ Cardinality(FreeFds) < 2
               /\ ofile' = IF FreeFds = {} THEN ofile ELSE PipeUndone(Min(FreeFds), rf)
               /\ touched' = ArgWords(esp, 1) /\ UNCHANGED <<sz, mem, fref>>

\* sys_exec(): the words of uargv up to the null one, each the address of a string.
UargvWord(uargv, i) == Fetchint(uargv + IntSize * i)
ArgcOf(uargv) ==
  {n \in 0..(MAXARG - 1) : /\ UargvWord(uargv, n) = {0}
                           /\ \A i \in 0..(n - 1) : \E a \in UargvWord(uargv, i) : a # 0 /\ Fetchstr(a) # {}}

SysExec(esp) == \E s \in Argstr(esp, 0), uargv \in Argint(esp, 1) : \E argc \in ArgcOf(uargv) :
  /\ touched' = ArgWords(esp, 2) \cup Span(s[1], s[2] + 1) \cup Span(uargv, IntSize * (argc + 1))
                  \cup UNION {UNION {UNION {Span(a, k + 1) : k \in Fetchstr(a)} : a \in UargvWord(uargv, i)} : i \in 0..(argc - 1)}
  /\ UNCHANGED <<sz, mem, ofile, fref>>

\* syscall() through its table: an unknown number, or any argument that is refused, returns -1.
Refused == touched' = {} /\ UNCHANGED <<sz, mem, ofile, fref>>

\* The program of the process, with whatever stack and data it makes for itself.
ProgramLoaded == sz = 0 /\ sz' \in Sizes /\ mem' \in Images /\ UNCHANGED <<ofile, fref, touched>>

SysArgsNext ==
  \/ ProgramLoaded
  \/ \E esp \in Addrs : SysReadWrite(esp) \/ SysDup(esp) \/ SysClose(esp) \/ SysOpen(esp) \/ SysPipe(esp) \/ SysExec(esp)
  \/ Refused

SysArgsSpec == SysArgsInit /\ [][SysArgsNext]_sysargsvars

-----------------------------------------------------------------------------
(* What the kernel reads and writes for the user, through stack, pointer,  *)
(* length, string and argument vector the user chose, is memory of the     *)
(* process, wherever the sums wrap around.                                 *)
TouchedInside == touched \subseteq 0..(sz - 1)

(* The references of a file are the descriptors that stand for it: a       *)
(* dup(), open() or pipe() that runs out of descriptors or files half way  *)
(* leaves neither a descriptor of a closed file nor a file nobody closes.  *)
DescriptorsCounted ==
  \A f \in OpenFiles : fref[f] = Cardinality({fd \in OpenFds : ofile[fd] = f})

(* syscall.c, sysfile.c: the kernel reads and writes for a call only what  *)
(* belongs to the process, and counts every descriptor it hands out.       *)
ArgumentsChecked == TouchedInside /\ DescriptorsCounted
=============================================================================
