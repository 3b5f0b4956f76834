--------------------------------- MODULE Log ---------------------------------
(***************************************************************************)
(* The write-ahead log of project03/xv6-public (log.c) with the part of    *)
(* the buffer cache it relies on (bio.c) and crashes.                      *)
(*                                                                         *)
(* A section under log.lock is one action.  A disk write is one action:    *)
(* bwrite() returns when the disk is done, and a block is one sector, so a *)
(* crash falls between writes and never inside one.  pc[o] says where      *)
(* operation o is:                                                         *)
(*   "idle"     outside any operation                                      *)
(*   "begin"    in begin_op(), about to test; "asleep" in its sleep()      *)
(*   "active"   between begin_op() and end_op()                            *)
(*   "logging"  in log_write(), after its tests, before it takes log.lock  *)
(*   "commit"   in end_op(), committing                                    *)
(***************************************************************************)
EXTENDS Integers, Sequences, FiniteSets

CONSTANTS
  Ops,          \* processes that run file system operations
  Blocks,       \* home blocks of the file system
  Vals,         \* block contents
  MAXOPBLOCKS, LOGSIZE,   \* param.h
  LogBlocks,    \* sb.nlog, blocks of the log on disk with its header:
                \* mkfs.c makes it LOGSIZE
  OpBlocks      \* how many distinct blocks one operation writes

ASSUME LogAssumption ==
  /\ IsFiniteSet(Ops)
  /\ MAXOPBLOCKS \in Nat \ {0} /\ LOGSIZE \in Nat /\ MAXOPBLOCKS <= LOGSIZE
  /\ LogBlocks \in Nat /\ LogBlocks = LOGSIZE
  /\ OpBlocks \in 0 .. MAXOPBLOCKS

VARIABLES
  \* in memory
  lh,           \* log.lh.block[0 .. log.lh.n - 1]
  outstanding, committing,
  cache,        \* b->data of every block
  dirty,        \* blocks whose buffer has B_DIRTY and cannot be evicted
  pc, blk,      \* place of an operation, and the block it is logging
  wrote,        \* distinct blocks the operation has written
  phase, tail,  \* place in commit() or recover_from_log(), loop variable
  panicked,
  \* on disk
  home, logArea, head

memvars == <<lh, outstanding, committing>>
opvars == <<pc, blk, wrote>>
bufvars == <<cache, dirty>>
diskvars == <<home, logArea, head>>
ctlvars == <<phase, tail, panicked>>
vars == <<memvars, bufvars, opvars, ctlvars, diskvars>>

Phases == {"none", "writelog", "head", "install", "erase", "done",
           "boot", "reinstall", "clear"}
Booting == phase \in {"boot", "reinstall", "clear"}

Logged == {lh[i] : i \in 1 .. Len(lh)}

Init ==
  /\ home \in [Blocks -> Vals] /\ cache = home
  /\ logArea \in [1 .. LOGSIZE -> Vals] /\ head = <<>>
  /\ lh = <<>> /\ outstanding = 0 /\ committing = FALSE /\ dirty = {}
  /\ pc = [o \in Ops |-> "idle"] /\ wrote = [o \in Ops |-> {}]
  /\ blk \in [Ops -> Blocks]
  /\ phase = "none" /\ tail = 0 /\ panicked = FALSE

-----------------------------------------------------------------------------
(* wakeup(&log)                                                            *)
Woken == [o \in Ops |-> IF pc[o] = "asleep" THEN "begin" ELSE pc[o]]

Running == ~panicked /\ ~Booting

(* Mutant: the space the operations in progress may still use is ignored.  *)
RoomForOneOp == Len(lh) + MAXOPBLOCKS <= LOGSIZE

RoomForOp == Len(lh) + (outstanding + 1) * MAXOPBLOCKS <= LOGSIZE

BeginOpSleeps(o) ==
  /\ Running /\ pc[o] \in {"idle", "begin"}
  /\ committing \/ ~RoomForOp
  /\ pc' = [pc EXCEPT ![o] = "asleep"]
  /\ UNCHANGED <<memvars, bufvars, blk, wrote, ctlvars, diskvars>>

(* Mutant: begin_op() does not wait for a commit to end.                   *)
BeginOpDuringCommit(o) ==
  /\ Running /\ pc[o] \in {"idle", "begin"}
  /\ RoomForOp
  /\ outstanding' = outstanding + 1
  /\ pc' = [pc EXCEPT ![o] = "active"]
  /\ wrote' = [wrote EXCEPT ![o] = {}]
  /\ UNCHANGED <<lh, committing, bufvars, blk, ctlvars, diskvars>>

BeginOp(o) ==
  /\ Running /\ pc[o] \in {"idle", "begin"}
  /\ ~committing /\ RoomForOp
  /\ outstanding' = outstanding + 1
  /\ pc' = [pc EXCEPT ![o] = "active"]
  /\ wrote' = [wrote EXCEPT ![o] = {}]
  /\ UNCHANGED <<lh, committing, bufvars, blk, ctlvars, diskvars>>

(* The tests at the top of log_write(), made without log.lock and before   *)
(* it is known whether the block will be absorbed.                         *)
TooBig == Len(lh) >= LOGSIZE \/ Len(lh) >= LogBlocks - 1
Refused == TooBig \/ outstanding < 1

Panic ==
  /\ panicked' = TRUE
  /\ UNCHANGED <<memvars, bufvars, opvars, phase, tail, diskvars>>

(* An operation modifies a block, whose buffer it holds locked, and calls  *)
(* log_write().                                                            *)
LogWrite(o, b, v) ==
  /\ Running /\ pc[o] = "active"
  /\ Cardinality(wrote[o] \cup {b}) <= OpBlocks
  /\ \A q \in Ops : pc[q] = "logging" => blk[q] # b
  /\ IF Refused
     THEN Panic
     ELSE /\ cache' = [cache EXCEPT ![b] = v]
          /\ blk' = [blk EXCEPT ![o] = b]
          /\ pc' = [pc EXCEPT ![o] = "logging"]
          /\ UNCHANGED <<memvars, dirty, wrote, ctlvars, diskvars>>

(* Mutant: the buffer is not pinned.                                       *)
LogAppendNoPin(o) ==
  /\ Running /\ pc[o] = "logging"
  /\ lh' = IF blk[o] \in Logged THEN lh ELSE Append(lh, blk[o])
  /\ wrote' = [wrote EXCEPT ![o] = @ \cup {blk[o]}]
  /\ pc' = [pc EXCEPT ![o] = "active"]
  /\ UNCHANGED <<outstanding, committing, bufvars, blk, ctlvars, diskvars>>

(* Under log.lock: the block is absorbed, or appended to the header.       *)
LogAppend(o) ==
  /\ Running /\ pc[o] = "logging"
  /\ lh' = IF blk[o] \in Logged THEN lh ELSE Append(lh, blk[o])
  /\ dirty' = dirty \cup {blk[o]}
  /\ wrote' = [wrote EXCEPT ![o] = @ \cup {blk[o]}]
  /\ pc' = [pc EXCEPT ![o] = "active"]
  /\ UNCHANGED <<outstanding, committing, cache, blk, ctlvars, diskvars>>

(* end_op() that leaves others active: the space it had reserved is free.  *)
EndOp(o) ==
  /\ Running /\ pc[o] = "active"
  /\ committing \/ outstanding > 1
  /\ IF committing
     THEN Panic
     ELSE /\ outstanding' = outstanding - 1
          /\ pc' = [Woken EXCEPT ![o] = "idle"]
          /\ UNCHANGED <<lh, committing, bufvars, blk, wrote, ctlvars, diskvars>>

(* Mutant: the last operation is not counted out.                          *)
EndOpCommitsUncounted(o) ==
  /\ Running /\ pc[o] = "active" /\ ~committing /\ outstanding = 1
  /\ committing' = TRUE
  /\ pc' = [pc EXCEPT ![o] = "commit"]
  /\ phase' = IF lh = <<>> THEN "done" ELSE "writelog"
  /\ tail' = 0
  /\ UNCHANGED <<lh, outstanding, bufvars, blk, wrote, panicked, diskvars>>

EndOpCommits(o) ==
  /\ Running /\ pc[o] = "active" /\ ~committing /\ outstanding = 1
  /\ outstanding' = 0 /\ committing' = TRUE
  /\ pc' = [pc EXCEPT ![o] = "commit"]
  /\ phase' = IF lh = <<>> THEN "done" ELSE "writelog"
  /\ tail' = 0
  /\ UNCHANGED <<lh, bufvars, blk, wrote, panicked, diskvars>>

-----------------------------------------------------------------------------
(* commit(), one action per disk write.                                    *)

WriteLog ==
  /\ Running /\ phase = "writelog" /\ tail < Len(lh)
  /\ logArea' = [logArea EXCEPT ![tail + 1] = cache[lh[tail + 1]]]
  /\ tail' = tail + 1
  /\ phase' = IF tail' = Len(lh) THEN "head" ELSE phase
  /\ UNCHANGED <<memvars, bufvars, opvars, panicked, home, head>>

WriteHead ==
  /\ Running /\ phase = "head"
  /\ head' = lh
  /\ phase' = "install" /\ tail' = 0
  /\ UNCHANGED <<memvars, bufvars, opvars, panicked, home, logArea>>

(* The destination buffer is in the cache: it is pinned until this write   *)
(* clears B_DIRTY.                                                         *)
InstallTrans ==
  /\ Running /\ phase = "install" /\ tail < Len(lh)
  /\ home' = [home EXCEPT ![lh[tail + 1]] = logArea[tail + 1]]
  /\ cache' = [cache EXCEPT ![lh[tail + 1]] = logArea[tail + 1]]
  /\ dirty' = dirty \ {lh[tail + 1]}
  /\ tail' = tail + 1
  /\ phase' = IF tail' = Len(lh) THEN "erase" ELSE phase
  /\ UNCHANGED <<memvars, opvars, panicked, logArea, head>>

EraseHead ==
  /\ Running /\ phase = "erase"
  /\ lh' = <<>> /\ head' = <<>>
  /\ phase' = "done" /\ tail' = 0
  /\ UNCHANGED <<outstanding, committing, bufvars, opvars, panicked, home, logArea>>

(* Mutants: nobody is woken after a commit; the operation is counted out a *)
(* second time.                                                            *)
EndOpDoneNoWakeup(o) ==
  /\ Running /\ pc[o] = "commit" /\ phase = "done"
  /\ committing' = FALSE
  /\ pc' = [pc EXCEPT ![o] = "idle"]
  /\ phase' = "none"
  /\ UNCHANGED <<lh, outstanding, bufvars, blk, wrote, tail, panicked, diskvars>>

EndOpDoneTwice(o) ==
  /\ Running /\ pc[o] = "commit" /\ phase = "done"
  /\ committing' = FALSE
  /\ outstanding' = outstanding - 1
  /\ pc' = [Woken EXCEPT ![o] = "idle"]
  /\ phase' = "none"
  /\ UNCHANGED <<lh, bufvars, blk, wrote, tail, panicked, diskvars>>

EndOpDone(o) ==
  /\ Running /\ pc[o] = "commit" /\ phase = "done"
  /\ committing' = FALSE
  /\ pc' = [Woken EXCEPT ![o] = "idle"]
  /\ phase' = "none"
  /\ UNCHANGED <<lh, outstanding, bufvars, blk, wrote, tail, panicked, diskvars>>

-----------------------------------------------------------------------------
(* bget() recycles a buffer that is neither dirty nor in use; the next     *)
(* bread() of its block reads the disk.                                    *)
Evict(b) ==
  /\ Running /\ b \notin dirty
  /\ \A o \in Ops : pc[o] = "logging" => blk[o] # b
  /\ cache' = [cache EXCEPT ![b] = home[b]]
  /\ UNCHANGED <<memvars, dirty, opvars, ctlvars, diskvars>>

(* Power failure, or reboot after a panic: memory is gone.                 *)
Crash ==
  /\ lh' = <<>> /\ outstanding' = 0 /\ committing' = FALSE /\ dirty' = {}
  /\ pc' = [o \in Ops |-> "idle"] /\ wrote' = [o \in Ops |-> {}]
  /\ phase' = "boot" /\ tail' = 0 /\ panicked' = FALSE
  /\ cache' = home
  /\ UNCHANGED <<blk, diskvars>>

(* recover_from_log(), called before the first process reaches user mode.  *)
ReadHead ==
  /\ phase = "boot"
  /\ lh' = head
  /\ phase' = IF head = <<>> THEN "clear" ELSE "reinstall"
  /\ tail' = 0
  /\ UNCHANGED <<outstanding, committing, bufvars, opvars, panicked, diskvars>>

Reinstall ==
  /\ phase = "reinstall" /\ tail < Len(lh)
  /\ home' = [home EXCEPT ![lh[tail + 1]] = logArea[tail + 1]]
  /\ cache' = [cache EXCEPT ![lh[tail + 1]] = logArea[tail + 1]]
  /\ tail' = tail + 1
  /\ phase' = IF tail' = Len(lh) THEN "clear" ELSE phase
  /\ UNCHANGED <<memvars, dirty, opvars, panicked, logArea, head>>

ClearHead ==
  /\ phase = "clear"
  /\ lh' = <<>> /\ head' = <<>>
  /\ phase' = "none" /\ tail' = 0
  /\ UNCHANGED <<outstanding, committing, bufvars, opvars, panicked, home, logArea>>

Commit == WriteLog \/ WriteHead \/ InstallTrans \/ EraseHead
Recover == ReadHead \/ Reinstall \/ ClearHead

Op(o) ==
  \/ BeginOpSleeps(o) \/ BeginOp(o)
  \/ \E b \in Blocks, v \in Vals : LogWrite(o, b, v)
  \/ LogAppend(o)
  \/ EndOp(o) \/ EndOpCommits(o) \/ EndOpDone(o)

Next ==
  \/ \E o \in Ops : Op(o)
  \/ WriteLog \/ WriteHead \/ InstallTrans \/ EraseHead
  \/ ReadHead \/ Reinstall \/ ClearHead
  \/ Crash
  \/ \E b \in Blocks : Evict(b)

Spec == Init /\ [][Next]_vars

(* The disk answers, kernel code goes on, and an operation does not write  *)
(* for ever: it reaches its end_op().                                      *)
Fairness ==
  /\ WF_vars(Commit) /\ WF_vars(Recover)
  /\ \A o \in Ops :
       WF_vars(LogAppend(o)) /\ WF_vars(EndOpDone(o))
         /\ SF_vars(EndOp(o) \/ EndOpCommits(o))

FairSpec == Spec /\ Fairness

-----------------------------------------------------------------------------
(* Properties.                                                             *)

(* Every variable has its type.                                            *)
TypeOK ==
  /\ lh \in Seq(Blocks) /\ outstanding \in Nat /\ committing \in BOOLEAN
  /\ cache \in [Blocks -> Vals] /\ dirty \in SUBSET Blocks
  /\ pc \in [Ops -> {"idle", "begin", "asleep", "active", "logging", "commit"}]
  /\ blk \in [Ops -> Blocks] /\ wrote \in [Ops -> SUBSET Blocks]
  /\ phase \in Phases /\ tail \in Nat /\ panicked \in BOOLEAN
  /\ home \in [Blocks -> Vals]
  /\ logArea \in [1 .. LOGSIZE -> Vals] /\ head \in Seq(Blocks)

(* log.outstanding counts the operations in progress, and a commit runs    *)
(* only when there are none, in one operation's end_op().                  *)
InProgress == {o \in Ops : pc[o] \in {"active", "logging"}}
Committers == {o \in Ops : pc[o] = "commit"}

OutstandingCounts == outstanding = Cardinality(InProgress)

CommitAlone ==
  /\ committing => InProgress = {}
  /\ committing <=> Committers # {}
  /\ \A o, q \in Committers : o = q

(* No lost wakeup in begin_op(): while an operation sleeps there, somebody *)
(* is left whose end_op() will wake it.                                    *)
SleeperHasWaker ==
  (\E o \in Ops : pc[o] = "asleep") => committing \/ outstanding > 0

(* The log fits its blocks on disk: write_log() never writes past them.    *)
LogFits == lh # <<>> => Len(lh) <= LogBlocks - 1

(* No operation that keeps to its limit runs into a panic of log.c.        *)
NoPanic == ~panicked

(* What recovery would make of the disk.                                   *)
Recovered ==
  [b \in Blocks |->
     IF \E i \in 1 .. Len(head) : head[i] = b
     THEN logArea[CHOOSE i \in 1 .. Len(head) : head[i] = b]
     ELSE home[b]]

(* The log implements atomic, durable groups of operations.                *)
Atomic == INSTANCE AtomicLog
            WITH volatile <- IF Booting THEN Recovered ELSE cache,
                 durable <- Recovered,
                 active <- InProgress
AtomicSpec == Atomic!ASpec

(* A sleeper in begin_op() is woken.                                       *)
SleepersWake == \A o \in Ops : pc[o] = "asleep" ~> pc[o] # "asleep"

-----------------------------------------------------------------------------
(* The inductive invariant behind the theorems of LogProofs.               *)

CommitPhases == {"writelog", "head", "install", "erase", "done"}

(* Who is where: the place in commit() belongs to the one committer, and   *)
(* nobody runs while the log is recovered.                                 *)
ControlInv ==
  /\ CommitAlone
  /\ committing <=> phase \in CommitPhases
  /\ Booting => \A o \in Ops : pc[o] = "idle"
  /\ Booting => outstanding = 0

(* The room begin_op() has set aside and not yet used: one credit for each *)
(* block an operation in progress may still add to the log.                *)
Credits == {c \in Ops \X (1 .. MAXOPBLOCKS) :
              c[1] \in InProgress /\ c[2] > Cardinality(wrote[c[1]])}

SpaceInv ==
  /\ Len(lh) + Cardinality(Credits) <= LOGSIZE
  /\ Len(head) <= LOGSIZE
  /\ \A o \in InProgress :
       /\ IsFiniteSet(wrote[o]) /\ wrote[o] \subseteq Logged
       /\ Cardinality(wrote[o]) <= OpBlocks
       /\ pc[o] = "logging" => Cardinality(wrote[o] \cup {blk[o]}) <= OpBlocks

Injective(s) == \A i, j \in 1 .. Len(s) : s[i] = s[j] => i = j

(* The header on disk is empty until the log is written, and then is what  *)
(* is being installed.                                                     *)
HeadInv ==
  /\ Injective(lh) /\ Injective(head)
  /\ phase \in {"none", "writelog", "head", "done"} => head = <<>>
  /\ phase \in {"install", "erase", "reinstall", "clear"} => head = lh
  /\ phase = "done" => lh = <<>>
  /\ phase = "none" /\ outstanding = 0 => lh = <<>>

(* A block is pinned from log_write() to its installation.                 *)
PinInv ==
  /\ phase \in {"none", "writelog", "head"} => dirty = Logged
  /\ phase = "install" => dirty = {lh[i] : i \in tail + 1 .. Len(lh)}
  /\ phase \in {"erase", "done"} \/ Booting => dirty = {}

(* What is not pinned is in the cache as on disk; the log holds what is to *)
(* be installed.                                                           *)
CopyInv ==
  /\ \A b \in Blocks \ dirty :
       (\A o \in Ops : pc[o] = "logging" => blk[o] # b) => cache[b] = home[b]
  /\ phase \in {"writelog", "install", "reinstall"} => tail < Len(lh)
  /\ phase = "head" => lh # <<>>
  /\ phase = "writelog" => \A i \in 1 .. tail : logArea[i] = cache[lh[i]]
  /\ phase \in {"head", "install", "erase"} =>
       \A i \in 1 .. Len(lh) : logArea[i] = cache[lh[i]]
  /\ phase = "reinstall" => \A i \in 1 .. tail : logArea[i] = home[lh[i]]
  /\ phase = "clear" => \A i \in 1 .. Len(lh) : logArea[i] = home[lh[i]]

DataInv == HeadInv /\ PinInv /\ CopyInv

IndInv ==
  TypeOK /\ ControlInv /\ OutstandingCounts /\ SleeperHasWaker /\ SpaceInv
    /\ DataInv
=============================================================================
