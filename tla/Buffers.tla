------------------------------ MODULE Buffers ------------------------------
(***************************************************************************)
(* The buffer cache of project03/xv6-public (bio.c), its sleep-locks       *)
(* (sleeplock.c) and the disk driver under it (ide.c): processes read and  *)
(* write blocks while the disk answers one request at a time.              *)
(*                                                                         *)
(* A section under bcache.lock, idelock or a sleep-lock's spinlock is one  *)
(* action.  bstep[p].pc: "idle"; "acquire" in acquiresleep(), "asleep" on  *)
(* the sleep-lock; "bread" and "use" with the buffer locked; "disk" asleep *)
(* in iderw(), "woken" up again; "brelse" with the sleep-lock released.    *)
(***************************************************************************)
EXTENDS Integers, Sequences, FiniteSets, SequencesExt

CONSTANTS BufProcs, Bufs, Blknos, BufVals

Nobody == "nobody"
NoBlkno == "none"

\* NPROC and NBUF bound them, and the models of nobody and of the blkno of
\* a buffer that binit() leaves are neither a process nor a block.
ASSUME BuffersAssumption ==
  /\ IsFiniteSet(BufProcs) /\ Nobody \notin BufProcs
  /\ Bufs # {} /\ IsFiniteSet(Bufs)
  /\ Blknos # {} /\ NoBlkno \notin Blknos /\ BufVals # {}

VARIABLES
  buf,         \* blockno, valid, dirty, refcnt, lock, data of each buffer;
               \* unread: its data are not the disk's because reading failed
  lru,         \* the list of buffers, most recently used first
  idequeue,    \* requests; the disk works on the first
  platter,     \* the blocks of the disk
  bstep,       \* place and locals of each process
  bcachePanic  \* "bget: no buffers"

buffervars == <<buf, lru, idequeue, platter, bstep, bcachePanic>>

BufIdle == [pc |-> "idle", blk |-> NoBlkno, b |-> "none"]
BufBlank == CHOOSE v \in BufVals : TRUE

(* binit(), and a disk that mkfs zeroed.                                   *)
BuffersInit ==
  /\ buf = [b \in Bufs |-> [blk |-> NoBlkno, valid |-> FALSE, dirty |-> FALSE,
                            refcnt |-> 0, lock |-> Nobody,
                            data |-> BufBlank, unread |-> FALSE]]
  /\ lru = SetToSeq(Bufs)
  /\ idequeue = <<>>
  /\ platter = [k \in Blknos |-> BufBlank]
  /\ bstep = [p \in BufProcs |-> BufIdle]
  /\ bcachePanic = FALSE

BufAt(p, pc) == bstep[p].pc = pc /\ ~bcachePanic
BufGo(p, pc) == bstep' = [bstep EXCEPT ![p].pc = pc]

-----------------------------------------------------------------------------
(* bget(): the block's buffer, or the least recently used one that is not  *)
(* referenced and not dirty.                                               *)

Cached(blk) == {b \in Bufs : buf[b].blk = blk}
Recyclable(b) == buf[b].refcnt = 0 /\ ~buf[b].dirty
Victim == lru[CHOOSE i \in DOMAIN lru : /\ Recyclable(lru[i])
                                        /\ \A j \in DOMAIN lru : j > i => ~Recyclable(lru[j])]

(* It holds nothing yet.  Mutant: its flags are left.                      *)
ClaimedFlags(b, blk) == [buf[b] EXCEPT !.blk = blk, !.refcnt = 1]
Claimed(b, blk) == [buf[b] EXCEPT !.blk = blk, !.refcnt = 1,
                                  !.valid = FALSE, !.dirty = FALSE, !.unread = FALSE]

Bget(p, blk) ==
  LET hit == CHOOSE b \in Cached(blk) : TRUE
      got(b) == bstep' = [bstep EXCEPT ![p] = [pc |-> "acquire", blk |-> blk, b |-> b]]
  IN  /\ BufAt(p, "idle")
      /\ \/ /\ Cached(blk) # {}
            /\ buf' = [buf EXCEPT ![hit].refcnt = @ + 1]
            /\ got(hit) /\ UNCHANGED bcachePanic
         \/ /\ Cached(blk) = {} /\ \E b \in Bufs : Recyclable(b)
            /\ buf' = [buf EXCEPT ![Victim] = Claimed(Victim, blk)]
            /\ got(Victim) /\ UNCHANGED bcachePanic
         \/ /\ Cached(blk) = {} /\ \A b \in Bufs : ~Recyclable(b)
            /\ bcachePanic' = TRUE /\ UNCHANGED <<buf, bstep>>
      /\ UNCHANGED <<lru, idequeue, platter>>

-----------------------------------------------------------------------------
(* Sleep-locks.                                                            *)

AcquireSleep(p) ==
  LET b == bstep[p].b
  IN  /\ BufAt(p, "acquire")
      /\ IF buf[b].lock = Nobody
         THEN buf' = [buf EXCEPT ![b].lock = p] /\ BufGo(p, "bread")
         ELSE BufGo(p, "asleep") /\ UNCHANGED buf
      /\ UNCHANGED <<lru, idequeue, platter, bcachePanic>>

(* wakeup() on a channel.                                                  *)
BufWakeup(steps, asleep, b, to) ==
  [q \in BufProcs |-> IF steps[q].pc = asleep /\ steps[q].b = b
                      THEN [steps[q] EXCEPT !.pc = to] ELSE steps[q]]

(* brelse(), first releasesleep().                                         *)
ReleaseSleep(p) ==
  LET b == bstep[p].b
  IN  /\ BufAt(p, "use")
      /\ buf' = [buf EXCEPT ![b].lock = Nobody]
      /\ bstep' = BufWakeup([bstep EXCEPT ![p].pc = "brelse"], "asleep", b, "acquire")
      /\ UNCHANGED <<lru, idequeue, platter, bcachePanic>>

(* The list with b moved to the front.                                     *)
ToFront(b) == <<b>> \o RemoveAt(lru, CHOOSE i \in DOMAIN lru : lru[i] = b)

(* Then under bcache.lock; the last to leave moves the buffer to the front *)
Brelse(p) ==
  LET b == bstep[p].b
  IN  /\ BufAt(p, "brelse")
      /\ buf' = [buf EXCEPT ![b].refcnt = @ - 1]
      /\ lru' = IF buf[b].refcnt = 1 THEN ToFront(b) ELSE lru
      /\ bstep' = [bstep EXCEPT ![p] = BufIdle]
      /\ UNCHANGED <<idequeue, platter, bcachePanic>>

-----------------------------------------------------------------------------
(* iderw() queues the buffer and sleeps until it is in step with the disk. *)

Iderw(p, b) ==
  /\ idequeue' = Append(idequeue, b)
  /\ BufGo(p, "disk")

Bread(p) ==
  LET b == bstep[p].b
  IN  /\ BufAt(p, "bread")
      /\ IF buf[b].valid THEN BufGo(p, "use") /\ UNCHANGED idequeue
         ELSE Iderw(p, b)
      /\ UNCHANGED <<buf, lru, platter, bcachePanic>>

(* The holder changes the block and writes it with bwrite().               *)
Bwrite(p, v) ==
  LET b == bstep[p].b
  IN  /\ BufAt(p, "use")
      /\ buf' = [buf EXCEPT ![b].data = v, ![b].dirty = TRUE]
      /\ idequeue' = Append(idequeue, b)
      /\ BufGo(p, "disk")
      /\ UNCHANGED <<lru, platter, bcachePanic>>

(* Or leaves that to the log: log_write() sets B_DIRTY, which pins it.     *)
BlogWrite(p, v) ==
  LET b == bstep[p].b
  IN  /\ BufAt(p, "use")
      /\ buf' = [buf EXCEPT ![b].data = v, ![b].dirty = TRUE]
      /\ UNCHANGED <<lru, idequeue, platter, bstep, bcachePanic>>

(* After wakeup() it tests the flags again.  Mutant: a copy from before.   *)
IderwStale(p) == BufAt(p, "woken") /\ UNCHANGED buffervars

IderwAgain(p) ==
  LET b == bstep[p].b
  IN  /\ BufAt(p, "woken")
      /\ BufGo(p, IF buf[b].valid /\ ~buf[b].dirty THEN "use" ELSE "disk")
      /\ UNCHANGED <<buf, lru, idequeue, platter, bcachePanic>>

(* ideintr(): the disk has answered the first request; the next is         *)
(* started.  When idewait() reports an error the data are not read, yet    *)
(* the buffer becomes valid.  What became of a write the driver does not   *)
(* ask: the disk is taken to do it.                                        *)
Ideintr ==
  LET b == Head(idequeue)
      blk == buf[b].blk
  IN  /\ idequeue # <<>> /\ ~bcachePanic
      /\ idequeue' = Tail(idequeue)
      /\ \/ /\ buf[b].dirty
            /\ platter' = [platter EXCEPT ![blk] = buf[b].data]
            /\ buf' = [buf EXCEPT ![b].valid = TRUE, ![b].dirty = FALSE, ![b].unread = FALSE]
         \/ /\ ~buf[b].dirty
            /\ buf' = [buf EXCEPT ![b].valid = TRUE, ![b].data = platter[blk], ![b].unread = FALSE]
            /\ UNCHANGED platter
         \/ /\ ~buf[b].dirty
            /\ buf' = [buf EXCEPT ![b].valid = TRUE, ![b].unread = TRUE]
            /\ UNCHANGED platter
      /\ bstep' = BufWakeup(bstep, "disk", b, "woken")
      /\ UNCHANGED <<lru, bcachePanic>>

BufStep(p) ==
  \/ \E blk \in Blknos : Bget(p, blk)
  \/ AcquireSleep(p) \/ Bread(p) \/ IderwAgain(p)
  \/ \E v \in BufVals : Bwrite(p, v) \/ BlogWrite(p, v)
  \/ ReleaseSleep(p) \/ Brelse(p)

BuffersNext == Ideintr \/ \E p \in BufProcs : BufStep(p)

BuffersSpec == BuffersInit /\ [][BuffersNext]_buffervars

-----------------------------------------------------------------------------
(* Properties.                                                             *)

(* Type correctness.  A process that is not idle has a buffer.             *)
BuffersTypeOK ==
  /\ buf \in [Bufs -> [blk : Blknos \cup {NoBlkno}, valid : BOOLEAN, dirty : BOOLEAN,
                      refcnt : Nat, lock : BufProcs \cup {Nobody}, data : BufVals,
                      unread : BOOLEAN]]
  /\ lru \in Seq(Bufs) /\ idequeue \in Seq(Bufs) /\ platter \in [Blknos -> BufVals]
  /\ bstep \in [BufProcs -> {BufIdle} \cup
        [pc : {"acquire", "asleep", "bread", "use", "disk", "woken", "brelse"}, blk : Blknos, b : Bufs]]
  /\ bcachePanic \in BOOLEAN

(* A process works on the buffer of the block it asked for, alone, and the *)
(* buffer is not recycled under it although bget() releases bcache.lock    *)
(* before it takes the sleep-lock.                                         *)
HoldersHaveTheirBlock ==
  \A p \in BufProcs : bstep[p].pc # "idle" =>
    /\ buf[bstep[p].b].blk = bstep[p].blk
    /\ bstep[p].pc \in {"bread", "use", "disk", "woken"} => buf[bstep[p].b].lock = p

(* A block is in at most one buffer, and a buffer nobody has locked or     *)
(* pinned says of it what the disk says, unless reading it failed.         *)
CacheCoherent ==
  /\ \A b, c \in Bufs : buf[b].blk = buf[c].blk /\ buf[b].blk # NoBlkno => b = c
  /\ \A b \in Bufs :
       buf[b].lock = Nobody /\ buf[b].valid /\ ~buf[b].dirty /\ ~buf[b].unread =>
         buf[b].data = platter[buf[b].blk]

(* bio.c: B_VALID says that the data have been read from the disk, so that *)
(* a valid buffer that is not dirty holds its block.                       *)
ValidIsRead ==
  \A b \in Bufs : buf[b].valid /\ ~buf[b].dirty => buf[b].data = platter[buf[b].blk]

(* Nobody sleeps on a sleep-lock that is free, nor on a request that is    *)
(* not queued: no wakeup is lost.                                          *)
SleepersAwaited ==
  \A p \in BufProcs :
    /\ bstep[p].pc = "asleep" => buf[bstep[p].b].lock # Nobody
    /\ bstep[p].pc = "disk" => \E i \in DOMAIN idequeue : idequeue[i] = bstep[p].b

(* The list keeps every buffer once.                                       *)
LruComplete == Len(lru) = Cardinality(Bufs) /\ ToSet(lru) = Bufs

(* bio.c, ide.c, sleeplock.c: a block has one buffer and its data are the  *)
(* disk's but for a failed read, who holds a buffer has the block it asked *)
(* for, no sleeper is forgotten, and the list of buffers stays whole.      *)
BufferSafe ==
  BuffersTypeOK /\ CacheCoherent /\ HoldersHaveTheirBlock /\ SleepersAwaited /\ LruComplete
=============================================================================
