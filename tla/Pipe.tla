------------------------------- MODULE Pipe -------------------------------
(***************************************************************************)
(* A pipe of project01/xv6-public (pipe.c): pipealloc(), pipewrite(),      *)
(* piperead() and pipeclose() by processes that share its two ends, sleep  *)
(* on it and may be killed.                                                *)
(*                                                                         *)
(* What a call does from taking p->lock to giving it back or sleeping is   *)
(* one action.  pproc[p].pc: "out", "in" at the lock, "asleep", "woken".   *)
(***************************************************************************)
EXTENDS Integers, Sequences, FiniteSets, FiniteSetsExt

CONSTANTS
  PIPESIZE, PipeUInt,       \* PipeUInt is 2^32 in the code
  PipeReaders, PipeWriters, PipeBytes,
  Counts, Texts             \* what read() asks for and write() brings

ASSUME PipeAssumption ==
  /\ PIPESIZE \in Nat \ {0} /\ Counts \subseteq Nat \ {0}
  /\ PipeBytes # {} /\ Texts \subseteq Seq(PipeBytes) \ {<<>>}
  /\ PipeUInt \in Nat /\ PipeUInt % PIPESIZE = 0 /\ PipeUInt > PIPESIZE
  /\ PipeReaders # {} /\ PipeWriters # {} /\ PipeReaders \cap PipeWriters = {}

VARIABLES
  pipe,      \* data, nread, nwrite, readopen, writeopen; files, pages in use
  pproc      \* pc, open, killed, the bytes still to write or the count

pipevars == <<pipe, pproc>>

PipeProc == PipeReaders \cup PipeWriters
EndOf(p) == IF p \in PipeWriters THEN "write" ELSE "read"

SomeByte == CHOOSE b \in PipeBytes : TRUE

PipeInit ==
  /\ pipe = [data |-> [i \in 0 .. PIPESIZE - 1 |-> SomeByte],
             nread |-> 0, nwrite |-> 0, readopen |-> FALSE, writeopen |-> FALSE,
             files |-> 0, pages |-> 0]
  /\ pproc = [p \in PipeProc |->
                [pc |-> "new", open |-> FALSE, killed |-> FALSE, todo |-> <<>>, count |-> 0]]

PipeAt(p, pc) == pproc[p].pc = pc
PipeGo(p, pc) == [pproc EXCEPT ![p].pc = pc]

(* wakeup() of the processes asleep on &p->nread or &p->nwrite.            *)
PipeWoken(procs, end) ==
  [p \in PipeProc |-> IF procs[p].pc = "asleep" /\ EndOf(p) = end
                      THEN [procs[p] EXCEPT !.pc = "woken"] ELSE procs[p]]

-----------------------------------------------------------------------------
(* pipealloc(): two files, then a page; what was had is given back when    *)
(* something is missing.                                                   *)
GivenBack == pipe

PipeAlloc ==
  /\ \A p \in PipeProc : PipeAt(p, "new")
  /\ \/ /\ pipe' = [pipe EXCEPT !.readopen = TRUE, !.writeopen = TRUE,
                                !.files = 2, !.pages = 1]
        /\ pproc' = [p \in PipeProc |-> [pproc[p] EXCEPT !.pc = "out", !.open = TRUE]]
     \/ /\ pipe' = GivenBack                        \* "bad"
        /\ pproc' = [p \in PipeProc |-> [pproc[p] EXCEPT !.pc = "gone"]]

(* read() and write() reach the lock.                                      *)
PipeCall(p) ==
  /\ PipeAt(p, "out") /\ pproc[p].open /\ ~pproc[p].killed
  /\ \/ /\ p \in PipeReaders
        /\ \E n \in Counts :
             pproc' = [PipeGo(p, "in") EXCEPT ![p].count = n, ![p].todo = <<>>]
     \/ /\ p \in PipeWriters
        /\ \E s \in Texts : pproc' = [PipeGo(p, "in") EXCEPT ![p].todo = s]
  /\ UNCHANGED pipe

-----------------------------------------------------------------------------
(* The bytes inside: nwrite - nread in unsigned arithmetic.  Mutant: the   *)
(* room is one byte more.                                                  *)
Fill == (pipe.nwrite - pipe.nread) % PipeUInt
RoomPlus == PIPESIZE + 1 - Fill
Room == PIPESIZE - Fill

Inside(p) == PipeAt(p, "in") \/ PipeAt(p, "woken")
PipeSmaller(a, b) == Min({a, b})

(* pipewrite() writes what fits and, if that is not all, wakes readers and *)
(* sleeps; it gives up when nobody will read or it was killed.             *)
PipeWrite(p) ==
  LET todo == pproc[p].todo
      k == PipeSmaller(Len(todo), Room)
      filled == [pipe EXCEPT
        !.data = [i \in DOMAIN @ |-> LET d == (i - pipe.nwrite) % PIPESIZE
                                     IN  IF d < k THEN todo[d + 1] ELSE @[i]],
        !.nwrite = (@ + k) % PipeUInt]
      rest == SubSeq(todo, k + 1, Len(todo))
  IN  /\ p \in PipeWriters /\ Inside(p)
      /\ pipe' = filled
      /\ \/ /\ rest = <<>>
            /\ pproc' = PipeWoken([PipeGo(p, "out") EXCEPT ![p].todo = <<>>], "read")
         \/ /\ rest # <<>> /\ (~pipe.readopen \/ pproc[p].killed)
            /\ pproc' = [PipeGo(p, "out") EXCEPT ![p].todo = <<>>]
         \/ /\ rest # <<>> /\ pipe.readopen /\ ~pproc[p].killed
            /\ pproc' = PipeWoken([PipeGo(p, "asleep") EXCEPT ![p].todo = rest], "read")

(* piperead() takes what there is.  A reader's todo is what it has got.    *)
(* The bytes left behind are not looked at again and are forgotten.        *)
PipeRead(p) ==
  LET k == PipeSmaller(pproc[p].count, Fill)
      got == [i \in 1 .. k |-> pipe.data[(pipe.nread + i - 1) % PIPESIZE]]
      waits == Fill = 0 /\ pipe.writeopen
  IN  /\ p \in PipeReaders /\ Inside(p)
      /\ \/ /\ ~waits
            /\ pipe' = [pipe EXCEPT !.nread = (@ + k) % PipeUInt,
                                    !.data = [i \in DOMAIN @ |-> IF (i - pipe.nread) % PIPESIZE < k
                                                                 THEN SomeByte ELSE @[i]]]
            /\ pproc' = PipeWoken([PipeGo(p, "out") EXCEPT ![p].todo = got, ![p].count = 0], "write")
         \/ /\ waits
            /\ pproc' = [PipeGo(p, IF pproc[p].killed THEN "out" ELSE "asleep")
                          EXCEPT ![p].count = IF pproc[p].killed THEN 0 ELSE @]
            /\ UNCHANGED pipe

(* close(), or exit(); the last reference to an end calls pipeclose().     *)
(* Mutant: the sleepers of the end that closes are woken.                  *)
OtherEndSame(end) == end
OtherEnd(end) == IF end = "write" THEN "read" ELSE "write"

PipeClose(p) ==
  LET shut == [pproc EXCEPT ![p].open = FALSE]
      last == \A q \in PipeProc : EndOf(q) = EndOf(p) /\ pproc[q].open => q = p
      closed == IF p \in PipeWriters THEN [pipe EXCEPT !.writeopen = FALSE, !.files = @ - 1]
                ELSE [pipe EXCEPT !.readopen = FALSE, !.files = @ - 1]
  IN  /\ PipeAt(p, "out") /\ pproc[p].open
      /\ IF last
         THEN /\ pproc' = PipeWoken(shut, OtherEnd(EndOf(p)))
              /\ pipe' = IF closed.readopen \/ closed.writeopen THEN closed
                         ELSE [closed EXCEPT !.pages = 0]
         ELSE pproc' = shut /\ UNCHANGED pipe

PipeKill(p) ==
  /\ ~pproc[p].killed /\ pproc[p].open
  /\ pproc' = [pproc EXCEPT ![p].killed = TRUE,
                            ![p].pc = IF @ = "asleep" THEN "woken" ELSE @]
  /\ UNCHANGED pipe

PipeNext ==
  PipeAlloc \/ \E p \in PipeProc : PipeCall(p) \/ PipeWrite(p) \/ PipeRead(p) \/ PipeClose(p) \/ PipeKill(p)

PipeSpec == PipeInit /\ [][PipeNext]_pipevars

-----------------------------------------------------------------------------
(* Properties.                                                             *)

(* Type correctness: data, indices and counts in their ranges.             *)
PipeTypeOK ==
  /\ pipe \in [data : [0 .. PIPESIZE - 1 -> PipeBytes], nread : 0 .. PipeUInt - 1,
               nwrite : 0 .. PipeUInt - 1, readopen : BOOLEAN, writeopen : BOOLEAN,
               files : 0 .. 2, pages : 0 .. 1]
  /\ pproc \in [PipeProc -> [pc : {"new", "out", "in", "asleep", "woken", "gone"}, open : BOOLEAN,
                             killed : BOOLEAN, todo : Seq(PipeBytes), count : Nat]]

(* Who sleeps has a reason: a reader that the pipe is empty and somebody   *)
(* may write, a writer that it is full and somebody may read, and neither  *)
(* was killed.  No wakeup of a byte, a close or a kill is lost, but one: a *)
(* writer that is killed fills the pipe and leaves without waking readers. *)
PipeSleepersWait ==
  \A p \in PipeProc : PipeAt(p, "asleep") =>
    /\ ~pproc[p].killed
    /\ p \in PipeReaders =>
         /\ pipe.writeopen
         /\ Fill > 0 => \E w \in PipeWriters : pproc[w].killed
    /\ p \in PipeWriters => Fill = PIPESIZE /\ pipe.readopen

(* The files and the page of the pipe are in use exactly as long as an end *)
(* of it is open, also when it could not be made.                          *)
PipeStorage ==
  /\ pipe.files = Cardinality({EndOf(p) : p \in {q \in PipeProc : pproc[q].open}})
  /\ pipe.pages = IF pipe.files > 0 THEN 1 ELSE 0

(* pipe.c: the state keeps its types, who sleeps has a reason, and the     *)
(* files and the page of a pipe are in use as long as an end of it is open.*)
PipeSafe == PipeTypeOK /\ PipeSleepersWait /\ PipeStorage

(* What a pipe is for: the bytes between nread and nwrite are on their     *)
(* way, todo is what a reader has got.                                     *)
TheFifo == INSTANCE Fifo WITH
  FifoSize <- PIPESIZE, FifoBytes <- PipeBytes, FifoReaders <- PipeReaders,
  inside <- IF pipe.pages = 0 THEN <<>>
            ELSE [i \in 1 .. Fill |-> pipe.data[(pipe.nread + i - 1) % PIPESIZE]],
  taken <- [r \in PipeReaders |-> pproc[r].todo]

(* pipe.c implements Fifo: what a reader gets is what was written, in      *)
(* order and once, over any wrap of the indices.                           *)
PipeIsFifo == TheFifo!FifoSpec
=============================================================================
