--------------------------- MODULE BuffersProofs ---------------------------
(***************************************************************************)
(* Proofs about Buffers, for every number of processes, buffers and        *)
(* blocks: what the buffer cache, the sleep-locks and the disk queue       *)
(* promise each other at every step.                                       *)
(***************************************************************************)
EXTENDS Buffers, FiniteSetTheorems, WellFoundedInduction, TLAPS

(* What an entry of buf and of bstep holds.                                *)
BufRecord ==
  [blk : Blknos \cup {NoBlkno}, valid : BOOLEAN, dirty : BOOLEAN,
   refcnt : Nat, lock : BufProcs \cup {Nobody}, data : BufVals,
   unread : BOOLEAN]
BusyPlaces == {"acquire", "asleep", "bread", "use", "disk", "woken", "brelse"}
StepRecord == [pc : BusyPlaces, blk : Blknos, b : Bufs]

Busy(p) == bstep[p].pc # "idle"
HasLock(p) == bstep[p].pc \in {"bread", "use", "disk", "woken"}

(* b->refcnt counts the processes between bget() and brelse(), and those   *)
(* have the buffer of the block they asked for: it is not recycled.        *)
UsersOf(b) == {p \in BufProcs : Busy(p) /\ bstep[p].b = b}
RefsInv ==
  /\ \A b \in Bufs : buf[b].refcnt = Cardinality(UsersOf(b))
  /\ \A p \in BufProcs : Busy(p) => buf[bstep[p].b].blk = bstep[p].blk

(* The sleep-lock of a buffer is held by the process that works on it.     *)
LocksInv ==
  /\ \A p \in BufProcs : HasLock(p) => buf[bstep[p].b].lock = p
  /\ \A b \in Bufs, p \in BufProcs : buf[b].lock = p => HasLock(p) /\ bstep[p].b = b

(* B_DIRTY comes with B_VALID, and a valid buffer that is not dirty has    *)
(* what is on the disk, locked or not, unless reading it failed.           *)
FlagsInv ==
  /\ \A b, c \in Bufs : buf[b].blk = buf[c].blk /\ buf[b].blk # NoBlkno => b = c
  /\ \A b \in Bufs :
       /\ buf[b].dirty => buf[b].valid
       /\ buf[b].valid => buf[b].blk # NoBlkno
       /\ buf[b].valid /\ ~buf[b].dirty /\ ~buf[b].unread => buf[b].data = platter[buf[b].blk]

(* A process that bread() returned to has a valid buffer, and one that     *)
(* ideintr() woke has it in step with the disk.                            *)
UsesInv ==
  \A p \in BufProcs :
    /\ bstep[p].pc = "use" => buf[bstep[p].b].valid
    /\ bstep[p].pc = "woken" => buf[bstep[p].b].valid /\ ~buf[bstep[p].b].dirty

(* idequeue has each buffer once, each for a process asleep in iderw() with *)
(* the buffer locked.                                                      *)
QueueInv ==
  /\ \A i, j \in DOMAIN idequeue : idequeue[i] = idequeue[j] => i = j
  /\ \A i \in DOMAIN idequeue :
       \E q \in BufProcs : bstep[q].pc = "disk" /\ bstep[q].b = idequeue[i]

BuffersInv ==
  /\ BuffersTypeOK /\ RefsInv /\ LocksInv /\ FlagsInv
  /\ UsesInv /\ QueueInv /\ SleepersAwaited /\ LruComplete

-----------------------------------------------------------------------------
(* What stays when an action leaves part of the state alone.               *)

LEMMA TypesOf ==
  ASSUME BuffersTypeOK
  PROVE  /\ buf \in [Bufs -> BufRecord]
         /\ \A p \in BufProcs : /\ bstep[p].pc \in BusyPlaces \cup {"idle"}
                                /\ Busy(p) => bstep[p] \in StepRecord
                                /\ ~Busy(p) => bstep[p] = BufIdle
                                /\ bstep[p].pc \in BusyPlaces => Busy(p)
BY DEF BuffersTypeOK, BufRecord, StepRecord, BusyPlaces, Busy, BufIdle

LEMMA RefsKept ==
  ASSUME RefsInv, BuffersTypeOK,
         \A p \in BufProcs : /\ Busy(p)' <=> Busy(p)
                             /\ Busy(p) => bstep'[p].b = bstep[p].b /\ bstep'[p].blk = bstep[p].blk,
         \A b \in Bufs : buf'[b].refcnt = buf[b].refcnt /\ buf'[b].blk = buf[b].blk
  PROVE  RefsInv'
<1>1. \A b \in Bufs : UsersOf(b)' = UsersOf(b)
  BY DEF UsersOf
<1>2. \A p \in BufProcs : Busy(p) => bstep[p].b \in Bufs
  BY TypesOf DEF StepRecord
<1> QED
  BY <1>1, <1>2 DEF RefsInv

LEMMA LocksKept ==
  ASSUME LocksInv, BuffersTypeOK,
         \A p \in BufProcs : /\ HasLock(p)' <=> HasLock(p)
                             /\ HasLock(p) => bstep'[p].b = bstep[p].b,
         \A b \in Bufs : buf'[b].lock = buf[b].lock
  PROVE  LocksInv'
<1>1. \A p \in BufProcs : HasLock(p) => bstep[p].b \in Bufs
  BY TypesOf DEF HasLock, StepRecord, Busy
<1> QED
  BY <1>1 DEF LocksInv

LEMMA FlagsKept ==
  ASSUME FlagsInv, platter' = platter,
         \A b \in Bufs : /\ buf'[b].blk = buf[b].blk /\ buf'[b].data = buf[b].data
                         /\ buf'[b].valid = buf[b].valid /\ buf'[b].dirty = buf[b].dirty
                         /\ buf'[b].unread = buf[b].unread
  PROVE  FlagsInv'
BY DEF FlagsInv

(* The steps of one process: bstep[p] becomes r.                           *)
Stepped(p, r) == bstep' = [q \in BufProcs |-> IF q = p THEN r ELSE bstep[q]]

LEMMA GoSteps ==
  ASSUME BuffersTypeOK, NEW p \in BufProcs, Busy(p), NEW pc \in BusyPlaces, BufGo(p, pc)
  PROVE  LET r == [pc |-> pc, blk |-> bstep[p].blk, b |-> bstep[p].b]
         IN  Stepped(p, r) /\ r \in StepRecord
<1>1. bstep[p] \in StepRecord
  BY TypesOf
<1>2. [bstep[p] EXCEPT !.pc = pc] = [pc |-> pc, blk |-> bstep[p].blk, b |-> bstep[p].b]
  BY <1>1 DEF StepRecord
<1> QED
  BY <1>1, <1>2 DEF BufGo, Stepped, StepRecord, BuffersTypeOK

LEMMA StepsTyped ==
  ASSUME BuffersTypeOK, NEW p \in BufProcs, NEW r \in StepRecord \cup {BufIdle}, Stepped(p, r)
  PROVE  bstep' \in [BufProcs -> {BufIdle} \cup StepRecord]
BY DEF BuffersTypeOK, Stepped, StepRecord, BusyPlaces

(* One buffer changes: buf[b] becomes r.                                   *)
Rewritten(b, r) == buf' = [c \in Bufs |-> IF c = b THEN r ELSE buf[c]]

LEMMA BuffersTyped ==
  ASSUME BuffersTypeOK, NEW b \in Bufs, NEW r \in BufRecord, Rewritten(b, r)
  PROVE  buf' \in [Bufs -> BufRecord]
BY DEF BuffersTypeOK, Rewritten, BufRecord

LEMMA TypesFrom ==
  ASSUME buf' \in [Bufs -> BufRecord], lru' \in Seq(Bufs), idequeue' \in Seq(Bufs),
         platter' \in [Blknos -> BufVals], bstep' \in [BufProcs -> {BufIdle} \cup StepRecord],
         bcachePanic' \in BOOLEAN
  PROVE  BuffersTypeOK'
BY DEF BuffersTypeOK, BufRecord, StepRecord, BusyPlaces
-----------------------------------------------------------------------------
(* acquiresleep().                                                         *)

LEMMA AcquireSleepInv ==
  ASSUME BuffersInv, NEW p \in BufProcs, AcquireSleep(p)
  PROVE  BuffersInv'
<1> DEFINE b == bstep[p].b
<1> USE DEF BusyPlaces
<1>0. BuffersTypeOK
  BY DEF BuffersInv
<1>1. Busy(p) /\ bstep[p].pc = "acquire" /\ bstep[p] \in StepRecord /\ b \in Bufs
  BY <1>0, TypesOf DEF AcquireSleep, BufAt, Busy, StepRecord
<1>2. buf[b] \in BufRecord /\ buf \in [Bufs -> BufRecord]
  BY <1>0, <1>1, TypesOf
<1>3. UNCHANGED <<lru, idequeue, platter, bcachePanic>>
  BY DEF AcquireSleep
<1>4. CASE buf[b].lock = Nobody
  <2> DEFINE r == [buf[b] EXCEPT !.lock = p]
             s == [pc |-> "bread", blk |-> bstep[p].blk, b |-> b]
  <2>1. BufGo(p, "bread") /\ buf' = [buf EXCEPT ![b].lock = p]
    BY <1>4 DEF AcquireSleep
  <2>2. Rewritten(b, r) /\ r \in BufRecord
    BY <2>1, <1>2, <1>1 DEF Rewritten, BufRecord
  <2>3. Stepped(p, s) /\ s \in StepRecord
    BY <2>1, <1>0, <1>1, GoSteps
  <2>4. BuffersTypeOK'
    <3>1. buf' \in [Bufs -> BufRecord]
      BY <1>0, <1>1, <2>2, BuffersTyped
    <3>2. bstep' \in [BufProcs -> {BufIdle} \cup StepRecord]
      BY <1>0, <2>3, StepsTyped
    <3> QED
      BY <1>0, <1>3, <3>1, <3>2, TypesFrom DEF BuffersTypeOK
  <2>5. /\ r.lock = p /\ r.blk = buf[b].blk /\ r.data = buf[b].data /\ r.refcnt = buf[b].refcnt
        /\ r.unread = buf[b].unread
        /\ r.valid = buf[b].valid /\ r.dirty = buf[b].dirty
    BY <1>2 DEF BufRecord
  <2>6. /\ \A c \in Bufs : buf'[c] = IF c = b THEN r ELSE buf[c]
        /\ \A q \in BufProcs : bstep'[q] = IF q = p THEN s ELSE bstep[q]
    BY <2>2, <2>3 DEF Rewritten, Stepped
  <2>7. \A q \in BufProcs : Busy(q) => bstep[q].b \in Bufs
    BY <1>0, TypesOf DEF StepRecord
  <2> HIDE DEF r
  <2>8. RefsInv'
    <3>1. \A q \in BufProcs : /\ Busy(q)' <=> Busy(q)
                              /\ Busy(q) => bstep'[q].b = bstep[q].b /\ bstep'[q].blk = bstep[q].blk
      BY <1>1, <2>6 DEF Busy
    <3>2. \A c \in Bufs : buf'[c].refcnt = buf[c].refcnt /\ buf'[c].blk = buf[c].blk
      BY <2>5, <2>6
    <3> QED
      BY <1>0, <3>1, <3>2, RefsKept DEF BuffersInv
  <2>9. LocksInv'
    <3>1. \A q \in BufProcs \ {p} : (HasLock(q)' <=> HasLock(q)) /\ bstep'[q] = bstep[q]
      BY <2>6 DEF HasLock
    <3>2. HasLock(p)' /\ ~HasLock(p) /\ bstep'[p].b = b
      BY <1>1, <2>6 DEF HasLock
    <3>3. \A q \in BufProcs : HasLock(q) => bstep[q].b # b
      BY <1>4, BuffersAssumption DEF LocksInv, BuffersInv, BuffersAssumption
    <3>4. \A q \in BufProcs : HasLock(q)' => buf'[bstep'[q].b].lock = q
      <4>1. \A q \in BufProcs : HasLock(q) => bstep[q].b \in Bufs
        BY <2>7 DEF HasLock, Busy
      <4> QED
        BY <4>1, <1>1, <2>5, <2>6, <3>1, <3>2, <3>3 DEF LocksInv, BuffersInv
    <3>5. \A c \in Bufs, q \in BufProcs : buf'[c].lock = q => HasLock(q)' /\ bstep'[q].b = c
      BY <2>5, <2>6, <3>1, <3>2 DEF LocksInv, BuffersInv
    <3> QED
      BY <3>4, <3>5 DEF LocksInv
  <2>10. FlagsInv'
    BY <1>3, <2>5, <2>6, FlagsKept DEF BuffersInv
  <2>11. UsesInv' /\ QueueInv' /\ LruComplete'
    BY <1>1, <1>3, <2>5, <2>6, <2>7 DEF UsesInv, QueueInv, LruComplete, BuffersInv, Busy
  <2>12. SleepersAwaited'
    BY <1>1, <1>3, <2>5, <2>6, <2>7, BuffersAssumption DEF SleepersAwaited, BuffersInv, Busy, BuffersAssumption
  <2> QED
    BY <2>4, <2>8, <2>9, <2>10, <2>11, <2>12 DEF BuffersInv
<1>5. CASE buf[b].lock # Nobody
  <2> DEFINE s == [pc |-> "asleep", blk |-> bstep[p].blk, b |-> b]
  <2>1. BufGo(p, "asleep") /\ buf' = buf
    BY <1>5 DEF AcquireSleep
  <2>3. Stepped(p, s) /\ s \in StepRecord
    BY <2>1, <1>0, <1>1, GoSteps
  <2>4. BuffersTypeOK'
    <3>2. bstep' \in [BufProcs -> {BufIdle} \cup StepRecord]
      BY <1>0, <2>3, StepsTyped
    <3> QED
      BY <1>0, <1>2, <1>3, <2>1, <3>2, TypesFrom DEF BuffersTypeOK
  <2>6. \A q \in BufProcs : bstep'[q] = IF q = p THEN s ELSE bstep[q]
    BY <2>3 DEF Stepped
  <2>8. RefsInv'
    <3>1. \A q \in BufProcs : /\ Busy(q)' <=> Busy(q)
                              /\ Busy(q) => bstep'[q].b = bstep[q].b /\ bstep'[q].blk = bstep[q].blk
      BY <1>1, <2>6 DEF Busy
    <3> QED
      BY <1>0, <2>1, <3>1, RefsKept DEF BuffersInv
  <2>9. LocksInv'
    <3>1. \A q \in BufProcs : /\ HasLock(q)' <=> HasLock(q)
                              /\ HasLock(q) => bstep'[q] = bstep[q]
      BY <1>1, <2>6 DEF HasLock
    <3>2. \A c \in Bufs : buf[c].lock \in BufProcs \cup {Nobody}
      BY <1>2 DEF BufRecord
    <3> QED
      BY <2>1, <3>1, <3>2 DEF LocksInv, BuffersInv
  <2>10. FlagsInv'
    BY <1>3, <2>1 DEF FlagsInv, BuffersInv
  <2>11. UsesInv' /\ QueueInv' /\ LruComplete'
    BY <1>1, <1>3, <2>1, <2>6 DEF UsesInv, QueueInv, LruComplete, BuffersInv, Busy
  <2>12. SleepersAwaited'
    BY <1>1, <1>3, <1>5, <2>1, <2>6 DEF SleepersAwaited, BuffersInv, Busy
  <2> QED
    BY <2>4, <2>8, <2>9, <2>10, <2>11, <2>12 DEF BuffersInv
<1> QED
  BY <1>4, <1>5
-----------------------------------------------------------------------------
(* brelse(): the sleep-lock is released, which wakes the sleepers on it;   *)
(* then the reference is dropped.                                          *)

LEMMA ReleaseSleepInv ==
  ASSUME BuffersInv, NEW p \in BufProcs, ReleaseSleep(p)
  PROVE  BuffersInv'
<1> DEFINE b == bstep[p].b
           r == [buf[b] EXCEPT !.lock = Nobody]
           wakes(q) == bstep[q].pc = "asleep" /\ bstep[q].b = b
<1> USE DEF BusyPlaces
<1>0. BuffersTypeOK
  BY DEF BuffersInv
<1>1. Busy(p) /\ bstep[p].pc = "use" /\ bstep[p] \in StepRecord /\ b \in Bufs
  BY <1>0, TypesOf DEF ReleaseSleep, BufAt, Busy, StepRecord
<1>2. buf[b] \in BufRecord /\ buf \in [Bufs -> BufRecord]
  BY <1>0, <1>1, TypesOf
<1>3. UNCHANGED <<lru, idequeue, platter, bcachePanic>>
  BY DEF ReleaseSleep
<1>4. Rewritten(b, r) /\ r \in BufRecord
  BY <1>1, <1>2 DEF Rewritten, BufRecord, ReleaseSleep
<1>5. /\ r.lock = Nobody /\ r.blk = buf[b].blk /\ r.data = buf[b].data
      /\ r.unread = buf[b].unread
      /\ r.refcnt = buf[b].refcnt /\ r.valid = buf[b].valid /\ r.dirty = buf[b].dirty
  BY <1>2 DEF BufRecord
<1>6. \A c \in Bufs : buf'[c] = IF c = b THEN r ELSE buf[c]
  BY <1>4 DEF Rewritten
<1>7. bstep' = [q \in BufProcs |->
        IF q = p THEN [bstep[p] EXCEPT !.pc = "brelse"]
        ELSE IF wakes(q) THEN [bstep[q] EXCEPT !.pc = "acquire"] ELSE bstep[q]]
  BY <1>0, <1>1 DEF ReleaseSleep, BufWakeup, BuffersTypeOK, StepRecord
<1>8. \A q \in BufProcs : wakes(q) => Busy(q) /\ bstep[q] \in StepRecord
  BY <1>0, TypesOf
<1>9. \A q \in BufProcs :
        /\ bstep'[q].pc = IF q = p THEN "brelse" ELSE IF wakes(q) THEN "acquire" ELSE bstep[q].pc
        /\ bstep'[q].b = bstep[q].b /\ bstep'[q].blk = bstep[q].blk
        /\ bstep'[q] \in {BufIdle} \cup StepRecord
  <2> TAKE q \in BufProcs
  <2>1. CASE q = p
    BY <2>1, <1>1, <1>7 DEF StepRecord
  <2>2. CASE q # p /\ wakes(q)
    BY <2>2, <1>7, <1>8 DEF StepRecord
  <2>3. CASE q # p /\ ~wakes(q)
    BY <2>3, <1>7, <1>0 DEF BuffersTypeOK, StepRecord
  <2> QED
    BY <2>1, <2>2, <2>3
<1>10. \A q \in BufProcs : Busy(q) => bstep[q].b \in Bufs
  BY <1>0, TypesOf DEF StepRecord
<1>11. bstep' \in [BufProcs -> {BufIdle} \cup StepRecord]
  BY <1>7, <1>9
<1> HIDE DEF r
<1>12. BuffersTypeOK'
  <2>1. buf' \in [Bufs -> BufRecord]
    BY <1>0, <1>1, <1>4, BuffersTyped
  <2> QED
    BY <1>0, <1>3, <2>1, <1>11, TypesFrom DEF BuffersTypeOK
<1>13. RefsInv'
  <2>1. \A q \in BufProcs : /\ Busy(q)' <=> Busy(q)
                            /\ Busy(q) => bstep'[q].b = bstep[q].b /\ bstep'[q].blk = bstep[q].blk
    BY <1>1, <1>9 DEF Busy
  <2>2. \A c \in Bufs : buf'[c].refcnt = buf[c].refcnt /\ buf'[c].blk = buf[c].blk
    BY <1>5, <1>6
  <2> QED
    BY <1>0, <2>1, <2>2, RefsKept DEF BuffersInv
<1>14. LocksInv'
  <2>1. \A q \in BufProcs \ {p} : HasLock(q)' <=> HasLock(q)
    BY <1>9 DEF HasLock
  <2>2. ~HasLock(p)' /\ buf[b].lock = p
    BY <1>1, <1>9 DEF HasLock, LocksInv, BuffersInv
  <2>3. \A q \in BufProcs \ {p} : HasLock(q) => bstep[q].b # b /\ bstep[q].b \in Bufs
    BY <2>2, <1>10 DEF LocksInv, BuffersInv, HasLock, Busy
  <2>4. \A q \in BufProcs : HasLock(q)' => buf'[bstep'[q].b].lock = q
    BY <2>1, <2>2, <2>3, <1>6, <1>9 DEF LocksInv, BuffersInv
  <2>5. \A c \in Bufs, q \in BufProcs : buf'[c].lock = q => HasLock(q)' /\ bstep'[q].b = c
    BY <2>1, <2>2, <1>5, <1>6, <1>9, BuffersAssumption DEF LocksInv, BuffersInv, BuffersAssumption
  <2> QED
    BY <2>4, <2>5 DEF LocksInv
<1>15. FlagsInv'
  BY <1>3, <1>5, <1>6, FlagsKept DEF BuffersInv
<1>16. UsesInv'
  BY <1>5, <1>6, <1>9, <1>10 DEF UsesInv, BuffersInv, Busy
<1>17. QueueInv' /\ LruComplete'
  BY <1>1, <1>3, <1>9 DEF QueueInv, LruComplete, BuffersInv
<1>18. SleepersAwaited'
  BY <1>1, <1>3, <1>5, <1>6, <1>9, <1>10 DEF SleepersAwaited, BuffersInv, Busy
<1> QED
  BY <1>12, <1>13, <1>14, <1>15, <1>16, <1>17, <1>18 DEF BuffersInv
-----------------------------------------------------------------------------
(* bread(), bwrite(), log_write() and iderw(): a process goes on with its  *)
(* buffer locked.                                                          *)

HeldPlaces == {"bread", "use", "disk", "woken"}

(* What is the same for all of them: p had the lock and keeps it.          *)
LEMMA HolderGoes ==
  ASSUME BuffersInv, NEW p \in BufProcs, bstep[p].pc \in HeldPlaces,
         NEW pc \in HeldPlaces, BufGo(p, pc)
  PROVE  /\ bstep[p].b \in Bufs /\ buf[bstep[p].b] \in BufRecord /\ buf[bstep[p].b].lock = p
         /\ \A q \in BufProcs : /\ bstep'[q].pc = IF q = p THEN pc ELSE bstep[q].pc
                                /\ bstep'[q].b = bstep[q].b /\ bstep'[q].blk = bstep[q].blk
         /\ bstep' \in [BufProcs -> {BufIdle} \cup StepRecord]
         /\ \A q \in BufProcs \ {p} : HasLock(q) => bstep[q].b # bstep[p].b
<1> DEFINE s == [pc |-> pc, blk |-> bstep[p].blk, b |-> bstep[p].b]
<1> USE DEF BusyPlaces, HeldPlaces
<1>0. BuffersTypeOK
  BY DEF BuffersInv
<1>1. Busy(p) /\ bstep[p] \in StepRecord /\ HasLock(p)
  BY <1>0, TypesOf DEF Busy, HasLock
<1>2. bstep[p].b \in Bufs /\ buf[bstep[p].b] \in BufRecord
  BY <1>0, <1>1, TypesOf DEF StepRecord
<1>3. buf[bstep[p].b].lock = p
  BY <1>1 DEF LocksInv, BuffersInv
<1>4. Stepped(p, s) /\ s \in StepRecord
  BY <1>0, <1>1, GoSteps
<1>5. bstep' \in [BufProcs -> {BufIdle} \cup StepRecord]
  BY <1>0, <1>4, StepsTyped
<1>6. \A q \in BufProcs : bstep'[q] = IF q = p THEN s ELSE bstep[q]
  BY <1>4 DEF Stepped
<1>7. \A q \in BufProcs \ {p} : HasLock(q) => bstep[q].b # bstep[p].b
  BY <1>3 DEF LocksInv, BuffersInv
<1> QED
  BY <1>2, <1>3, <1>5, <1>6, <1>7

(* And what follows when only its place and, at most, the flags, the data  *)
(* and the queue change.                                                   *)
LEMMA HolderKeeps ==
  ASSUME BuffersInv, NEW p \in BufProcs, bstep[p].pc \in HeldPlaces,
         NEW pc \in HeldPlaces, BufGo(p, pc), UNCHANGED <<lru, platter, bcachePanic>>,
         \A c \in Bufs : /\ buf'[c].refcnt = buf[c].refcnt /\ buf'[c].blk = buf[c].blk
                         /\ buf'[c].lock = buf[c].lock,
         buf' \in [Bufs -> BufRecord], idequeue' \in Seq(Bufs)
  PROVE  BuffersTypeOK' /\ RefsInv' /\ LocksInv' /\ LruComplete'
<1> USE DEF BusyPlaces, HeldPlaces
<1>0. BuffersTypeOK
  BY DEF BuffersInv
<1>1. /\ \A q \in BufProcs : /\ bstep'[q].pc = IF q = p THEN pc ELSE bstep[q].pc
                             /\ bstep'[q].b = bstep[q].b /\ bstep'[q].blk = bstep[q].blk
      /\ bstep' \in [BufProcs -> {BufIdle} \cup StepRecord]
  BY HolderGoes
<1>2. BuffersTypeOK'
  BY <1>0, <1>1, TypesFrom DEF BuffersTypeOK
<1>3. RefsInv'
  <2>1. \A q \in BufProcs : /\ Busy(q)' <=> Busy(q)
                            /\ Busy(q) => bstep'[q].b = bstep[q].b /\ bstep'[q].blk = bstep[q].blk
    BY <1>1 DEF Busy
  <2> QED
    BY <1>0, <2>1, RefsKept DEF BuffersInv
<1>4. LocksInv'
  <2>1. \A q \in BufProcs : /\ HasLock(q)' <=> HasLock(q)
                            /\ HasLock(q) => bstep'[q].b = bstep[q].b
    BY <1>1 DEF HasLock
  <2> QED
    BY <1>0, <2>1, LocksKept DEF BuffersInv
<1>5. LruComplete'
  BY DEF LruComplete, BuffersInv
<1> QED
  BY <1>2, <1>3, <1>4, <1>5

LEMMA IderwAgainInv ==
  ASSUME BuffersInv, NEW p \in BufProcs, IderwAgain(p)
  PROVE  BuffersInv'
<1> DEFINE b == bstep[p].b
<1>1. bstep[p].pc = "woken" /\ UNCHANGED <<buf, lru, idequeue, platter, bcachePanic>>
  BY DEF IderwAgain, BufAt
<1>2. buf[b].valid /\ ~buf[b].dirty
  BY <1>1 DEF UsesInv, BuffersInv
<1>3. BufGo(p, "use")
  BY <1>2 DEF IderwAgain
<1>4. bstep[p].pc \in HeldPlaces /\ "use" \in HeldPlaces
  BY <1>1 DEF HeldPlaces
<1>5. buf \in [Bufs -> BufRecord] /\ idequeue \in Seq(Bufs)
  BY TypesOf DEF BuffersInv, BuffersTypeOK
<1>6. \A q \in BufProcs : /\ bstep'[q].pc = IF q = p THEN "use" ELSE bstep[q].pc
                          /\ bstep'[q].b = bstep[q].b
  BY <1>3, <1>4, HolderGoes
<1>7. BuffersTypeOK' /\ RefsInv' /\ LocksInv' /\ LruComplete'
  BY <1>1, <1>3, <1>4, <1>5, HolderKeeps
<1>8. FlagsInv' /\ UsesInv'
  BY <1>1, <1>2, <1>6 DEF FlagsInv, UsesInv, BuffersInv
<1>9. QueueInv' /\ SleepersAwaited'
  BY <1>1, <1>6 DEF QueueInv, SleepersAwaited, BuffersInv
<1> QED
  BY <1>7, <1>8, <1>9 DEF BuffersInv

(* A request joins the queue.                                              *)
LEMMA QueueGrows ==
  ASSUME BuffersInv, NEW p \in BufProcs, bstep[p].pc \in {"bread", "use"},
         BufGo(p, "disk"), idequeue' = Append(idequeue, bstep[p].b),
         \A c \in Bufs : buf'[c].lock = buf[c].lock
  PROVE  QueueInv' /\ SleepersAwaited' /\ idequeue' \in Seq(Bufs)
<1> DEFINE b == bstep[p].b
           n == Len(idequeue)
<1>1. bstep[p].pc \in HeldPlaces /\ "disk" \in HeldPlaces
  BY DEF HeldPlaces
<1>2. /\ b \in Bufs
      /\ \A q \in BufProcs : /\ bstep'[q].pc = IF q = p THEN "disk" ELSE bstep[q].pc
                             /\ bstep'[q].b = bstep[q].b
      /\ \A q \in BufProcs \ {p} : HasLock(q) => bstep[q].b # b
  BY <1>1, HolderGoes
<1>3. idequeue \in Seq(Bufs) /\ n \in Nat /\ DOMAIN idequeue = 1 .. n
  BY DEF BuffersInv, BuffersTypeOK
<1>4. /\ idequeue' \in Seq(Bufs) /\ DOMAIN idequeue' = 1 .. n + 1
      /\ \A i \in 1 .. n : idequeue'[i] = idequeue[i]
      /\ idequeue'[n + 1] = b
  BY <1>2, <1>3
<1>5. \A i \in 1 .. n : idequeue[i] # b
  <2> SUFFICES ASSUME NEW i \in 1 .. n, idequeue[i] = b PROVE FALSE
    OBVIOUS
  <2>1. PICK q \in BufProcs : bstep[q].pc = "disk" /\ bstep[q].b = b
    BY <1>3 DEF QueueInv, BuffersInv
  <2>2. HasLock(q) /\ q # p
    BY <2>1 DEF HasLock
  <2> QED
    BY <1>2, <2>1, <2>2
<1>6. QueueInv'
  <2>1. \A i \in 1 .. n + 1 : i \in 1 .. n \/ i = n + 1
    BY <1>3
  <2>2. \A i, j \in DOMAIN idequeue' : idequeue'[i] = idequeue'[j] => i = j
    BY <1>3, <1>4, <1>5, <2>1 DEF QueueInv, BuffersInv
  <2>3. \A i \in DOMAIN idequeue' :
          \E q \in BufProcs : bstep'[q].pc = "disk" /\ bstep'[q].b = idequeue'[i]
    BY <1>2, <1>3, <1>4, <2>1 DEF QueueInv, BuffersInv
  <2> QED
    BY <2>2, <2>3 DEF QueueInv
<1>7. SleepersAwaited'
  <2> SUFFICES ASSUME NEW q \in BufProcs
               PROVE  /\ bstep'[q].pc = "asleep" => buf'[bstep'[q].b].lock # Nobody
                      /\ bstep'[q].pc = "disk" =>
                           \E i \in DOMAIN idequeue' : idequeue'[i] = bstep'[q].b
    BY DEF SleepersAwaited
  <2>1. bstep'[q].pc = "asleep" => buf'[bstep'[q].b].lock # Nobody
    <3>1. bstep[q].pc = "asleep" => bstep[q].b \in Bufs
      BY TypesOf DEF BuffersInv, StepRecord, BusyPlaces
    <3> QED
      BY <3>1, <1>2 DEF SleepersAwaited, BuffersInv
  <2>2. ASSUME bstep'[q].pc = "disk" PROVE \E i \in DOMAIN idequeue' : idequeue'[i] = bstep'[q].b
    <3>1. CASE q = p
      BY <3>1, <1>2, <1>3, <1>4
    <3>2. CASE q # p
      <4>1. PICK i \in 1 .. n : idequeue[i] = bstep[q].b
        BY <3>2, <2>2, <1>2, <1>3 DEF SleepersAwaited, BuffersInv
      <4> QED
        BY <4>1, <1>2, <1>3, <1>4
    <3> QED
      BY <3>1, <3>2
  <2> QED
    BY <2>1, <2>2
<1> QED
  BY <1>4, <1>6, <1>7

LEMMA BreadInv ==
  ASSUME BuffersInv, NEW p \in BufProcs, Bread(p)
  PROVE  BuffersInv'
<1> DEFINE b == bstep[p].b
<1>1. bstep[p].pc = "bread" /\ UNCHANGED <<buf, lru, platter, bcachePanic>>
  BY DEF Bread, BufAt
<1>2. bstep[p].pc \in HeldPlaces /\ "use" \in HeldPlaces /\ "disk" \in HeldPlaces
  BY <1>1 DEF HeldPlaces
<1>3. buf \in [Bufs -> BufRecord] /\ idequeue \in Seq(Bufs)
  BY TypesOf DEF BuffersInv, BuffersTypeOK
<1>4. FlagsInv'
  BY <1>1 DEF FlagsInv, BuffersInv
<1>5. CASE buf[b].valid
  <2>1. BufGo(p, "use") /\ UNCHANGED idequeue
    BY <1>5 DEF Bread
  <2>2. \A q \in BufProcs : /\ bstep'[q].pc = IF q = p THEN "use" ELSE bstep[q].pc
                            /\ bstep'[q].b = bstep[q].b
    BY <2>1, <1>2, HolderGoes
  <2>3. BuffersTypeOK' /\ RefsInv' /\ LocksInv' /\ LruComplete'
    BY <1>1, <1>2, <1>3, <2>1, HolderKeeps
  <2>4. UsesInv' /\ QueueInv' /\ SleepersAwaited'
    BY <1>1, <1>5, <2>1, <2>2 DEF UsesInv, QueueInv, SleepersAwaited, BuffersInv
  <2> QED
    BY <1>4, <2>3, <2>4 DEF BuffersInv
<1>6. CASE ~buf[b].valid
  <2>1. BufGo(p, "disk") /\ idequeue' = Append(idequeue, b)
    BY <1>6 DEF Bread, Iderw
  <2>2. \A q \in BufProcs : /\ bstep'[q].pc = IF q = p THEN "disk" ELSE bstep[q].pc
                            /\ bstep'[q].b = bstep[q].b
    BY <2>1, <1>2, HolderGoes
  <2>3. QueueInv' /\ SleepersAwaited' /\ idequeue' \in Seq(Bufs)
    BY <1>1, <2>1, QueueGrows
  <2>4. BuffersTypeOK' /\ RefsInv' /\ LocksInv' /\ LruComplete'
    BY <1>1, <1>2, <1>3, <2>1, <2>3, HolderKeeps
  <2>5. UsesInv'
    BY <1>1, <2>2 DEF UsesInv, BuffersInv
  <2> QED
    BY <1>4, <2>3, <2>4, <2>5 DEF BuffersInv
<1> QED
  BY <1>5, <1>6

LEMMA FlagsOfDirty ==
  ASSUME FlagsInv, NEW b \in Bufs, buf[b].valid, buf'[b].dirty, UNCHANGED platter,
         \A c \in Bufs : buf'[c].blk = buf[c].blk /\ buf'[c].valid = buf[c].valid,
         \A c \in Bufs \ {b} : buf'[c] = buf[c]
  PROVE  FlagsInv'
<1>1. \A c, d \in Bufs : buf'[c].blk = buf'[d].blk /\ buf'[c].blk # NoBlkno => c = d
  BY DEF FlagsInv
<1>2. ASSUME NEW c \in Bufs
      PROVE  /\ buf'[c].dirty => buf'[c].valid
             /\ buf'[c].valid => buf'[c].blk # NoBlkno
             /\ buf'[c].valid /\ ~buf'[c].dirty /\ ~buf'[c].unread => buf'[c].data = platter'[buf'[c].blk]
  <2>1. CASE c = b
    BY <2>1 DEF FlagsInv
  <2>2. CASE c # b
    BY <2>2 DEF FlagsInv
  <2> QED
    BY <2>1, <2>2
<1> QED
  BY <1>1, <1>2 DEF FlagsInv

(* The holder writes its buffer, and B_DIRTY marks it.                     *)
Dirtied(b, v) == buf' = [buf EXCEPT ![b].data = v, ![b].dirty = TRUE]

LEMMA DirtyKeeps ==
  ASSUME BuffersInv, NEW p \in BufProcs, bstep[p].pc = "use", NEW v \in BufVals,
         Dirtied(bstep[p].b, v),
         UNCHANGED platter
  PROVE  /\ buf' \in [Bufs -> BufRecord]
         /\ FlagsInv'
         /\ \A c \in Bufs : /\ buf'[c].refcnt = buf[c].refcnt /\ buf'[c].blk = buf[c].blk
                            /\ buf'[c].lock = buf[c].lock /\ buf'[c].valid = buf[c].valid
         /\ \A c \in Bufs \ {bstep[p].b} : buf'[c] = buf[c]
<1> DEFINE b == bstep[p].b
           r == [buf[b] EXCEPT !.data = v, !.dirty = TRUE]
<1>0. BuffersTypeOK
  BY DEF BuffersInv
<1>1. b \in Bufs /\ buf[b].valid
  BY <1>0, TypesOf DEF StepRecord, BusyPlaces, UsesInv, BuffersInv
<1>2. buf[b] \in BufRecord /\ buf \in [Bufs -> BufRecord]
  BY <1>0, <1>1, TypesOf
<1>3. Rewritten(b, r) /\ r \in BufRecord
  BY <1>1, <1>2 DEF Rewritten, BufRecord, Dirtied
<1>4. /\ r.dirty = TRUE /\ r.blk = buf[b].blk /\ r.lock = buf[b].lock
      /\ r.refcnt = buf[b].refcnt /\ r.valid = buf[b].valid
  BY <1>2 DEF BufRecord
<1>5. \A c \in Bufs : buf'[c] = IF c = b THEN r ELSE buf[c]
  BY <1>3 DEF Rewritten
<1>6. buf' \in [Bufs -> BufRecord]
  BY <1>0, <1>1, <1>3, BuffersTyped
<1> HIDE DEF r
<1>7. \A c \in Bufs : /\ buf'[c].refcnt = buf[c].refcnt /\ buf'[c].blk = buf[c].blk
                      /\ buf'[c].lock = buf[c].lock /\ buf'[c].valid = buf[c].valid
  BY <1>4, <1>5
<1>8. FlagsInv'
  BY <1>1, <1>4, <1>5, <1>7, FlagsOfDirty DEF BuffersInv
<1> QED
  BY <1>5, <1>6, <1>7, <1>8

LEMMA BwriteInv ==
  ASSUME BuffersInv, NEW p \in BufProcs, NEW v \in BufVals, Bwrite(p, v)
  PROVE  BuffersInv'
<1> DEFINE b == bstep[p].b
<1>1. bstep[p].pc = "use" /\ UNCHANGED <<lru, platter, bcachePanic>>
  BY DEF Bwrite, BufAt
<1>2. bstep[p].pc \in HeldPlaces /\ "disk" \in HeldPlaces
  BY <1>1 DEF HeldPlaces
<1>3. BufGo(p, "disk") /\ idequeue' = Append(idequeue, b)
  BY DEF Bwrite
<1>4. /\ buf' \in [Bufs -> BufRecord]
      /\ FlagsInv'
      /\ \A c \in Bufs : /\ buf'[c].refcnt = buf[c].refcnt /\ buf'[c].blk = buf[c].blk
                         /\ buf'[c].lock = buf[c].lock /\ buf'[c].valid = buf[c].valid
      /\ \A c \in Bufs \ {b} : buf'[c] = buf[c]
  BY <1>1, DirtyKeeps DEF Bwrite, Dirtied
<1>5. /\ \A q \in BufProcs : /\ bstep'[q].pc = IF q = p THEN "disk" ELSE bstep[q].pc
                             /\ bstep'[q].b = bstep[q].b
      /\ \A q \in BufProcs \ {p} : HasLock(q) => bstep[q].b # b
  BY <1>2, <1>3, HolderGoes
<1>6. QueueInv' /\ SleepersAwaited' /\ idequeue' \in Seq(Bufs)
  BY <1>1, <1>3, <1>4, QueueGrows
<1>7. BuffersTypeOK' /\ RefsInv' /\ LocksInv' /\ LruComplete'
  BY <1>1, <1>2, <1>3, <1>4, <1>6, HolderKeeps
<1>8. UsesInv'
  <2>1. \A q \in BufProcs \ {p} : bstep[q].pc \in {"use", "woken"} => bstep[q].b \in Bufs \ {b}
    BY <1>5, TypesOf DEF HasLock, BuffersInv, StepRecord, BusyPlaces
  <2> QED
    BY <1>4, <1>5, <2>1 DEF UsesInv, BuffersInv
<1> QED
  BY <1>4, <1>6, <1>7, <1>8 DEF BuffersInv

LEMMA BlogWriteInv ==
  ASSUME BuffersInv, NEW p \in BufProcs, NEW v \in BufVals, BlogWrite(p, v)
  PROVE  BuffersInv'
<1> DEFINE b == bstep[p].b
<1>1. bstep[p].pc = "use" /\ UNCHANGED <<lru, idequeue, platter, bstep, bcachePanic>>
  BY DEF BlogWrite, BufAt
<1>2. bstep[p].pc \in HeldPlaces /\ "use" \in HeldPlaces
  BY <1>1 DEF HeldPlaces
<1>3. BufGo(p, "use")
  <2>1. bstep[p] \in StepRecord
    BY <1>1, TypesOf DEF BuffersInv, BusyPlaces, Busy
  <2>2. [bstep[p] EXCEPT !.pc = "use"] = bstep[p]
    BY <1>1, <2>1 DEF StepRecord
  <2> QED
    BY <1>1, <2>2 DEF BufGo, BuffersInv, BuffersTypeOK
<1>4. /\ buf' \in [Bufs -> BufRecord]
      /\ FlagsInv'
      /\ \A c \in Bufs : /\ buf'[c].refcnt = buf[c].refcnt /\ buf'[c].blk = buf[c].blk
                         /\ buf'[c].lock = buf[c].lock /\ buf'[c].valid = buf[c].valid
      /\ \A c \in Bufs \ {b} : buf'[c] = buf[c]
  BY <1>1, DirtyKeeps DEF BlogWrite, Dirtied
<1>5. \A q \in BufProcs \ {p} : HasLock(q) => bstep[q].b # b
  BY <1>2, <1>3, HolderGoes
<1>6. idequeue \in Seq(Bufs)
  BY DEF BuffersInv, BuffersTypeOK
<1>7. BuffersTypeOK' /\ RefsInv' /\ LocksInv' /\ LruComplete'
  BY <1>1, <1>2, <1>3, <1>4, <1>6, HolderKeeps
<1>8. \A q \in BufProcs : Busy(q) => bstep[q].b \in Bufs
  BY TypesOf DEF BuffersInv, StepRecord
<1>9. UsesInv'
  <2>1. \A q \in BufProcs : bstep[q].pc \in {"use", "woken"} => bstep[q].b \in Bufs
    BY <1>8 DEF Busy
  <2>2. \A q \in BufProcs : bstep[q].pc = "woken" => bstep[q].b \in Bufs \ {b}
    BY <1>1, <1>5, <2>1 DEF HasLock
  <2> QED
    BY <1>1, <1>4, <2>1, <2>2 DEF UsesInv, BuffersInv
<1>10. QueueInv' /\ SleepersAwaited'
  BY <1>1, <1>4, <1>8 DEF QueueInv, SleepersAwaited, BuffersInv, Busy
<1> QED
  BY <1>4, <1>7, <1>9, <1>10 DEF BuffersInv
-----------------------------------------------------------------------------
(* ideintr(): the process that waits for the first request goes on.        *)

LEMMA IdeintrInv == ASSUME BuffersInv, Ideintr PROVE BuffersInv'
<1> DEFINE b == Head(idequeue)
           blk == buf[b].blk
           wakes(q) == bstep[q].pc = "disk" /\ bstep[q].b = b
           n == Len(idequeue)
<1> USE DEF BusyPlaces
<1>0. BuffersTypeOK
  BY DEF BuffersInv
<1>1. /\ idequeue # <<>> /\ idequeue \in Seq(Bufs)
      /\ n \in Nat \ {0} /\ DOMAIN idequeue = 1 .. n /\ b = idequeue[1] /\ b \in Bufs
  BY <1>0 DEF Ideintr, BuffersTypeOK
<1>2. UNCHANGED <<lru, bcachePanic>> /\ idequeue' = Tail(idequeue)
  BY DEF Ideintr
<1>3. PICK h \in BufProcs : wakes(h)
  BY <1>1 DEF QueueInv, BuffersInv
<1>4. HasLock(h) /\ buf[b].lock = h /\ Busy(h)
  BY <1>3 DEF HasLock, LocksInv, BuffersInv, Busy
<1>5. \A q \in BufProcs : HasLock(q) /\ bstep[q].b = b => q = h
  BY <1>4 DEF LocksInv, BuffersInv
<1>6. buf[b] \in BufRecord /\ buf \in [Bufs -> BufRecord] /\ bstep[h] \in StepRecord
  BY <1>0, <1>1, <1>4, TypesOf
<1>7. blk \in Blknos
  BY <1>3, <1>4, <1>6 DEF RefsInv, BuffersInv, StepRecord
<1>8. PICK r \in BufRecord, v \in BufVals :
        /\ Rewritten(b, r)
        /\ r.blk = blk /\ r.refcnt = buf[b].refcnt /\ r.lock = h
        /\ r.valid /\ ~r.dirty /\ (~r.unread => r.data = v)
        /\ platter' = [platter EXCEPT ![blk] = v]
  <2> DEFINE wrote == [buf[b] EXCEPT !.valid = TRUE, !.dirty = FALSE, !.unread = FALSE]
             read == [buf[b] EXCEPT !.valid = TRUE, !.data = platter[blk], !.unread = FALSE]
             failed == [buf[b] EXCEPT !.valid = TRUE, !.unread = TRUE]
  <2>1. \/ buf[b].dirty /\ platter' = [platter EXCEPT ![blk] = buf[b].data] /\ buf' = [buf EXCEPT ![b] = wrote]
        \/ ~buf[b].dirty /\ platter' = platter /\ buf' = [buf EXCEPT ![b] = read]
        \/ ~buf[b].dirty /\ platter' = platter /\ buf' = [buf EXCEPT ![b] = failed]
    BY <1>1, <1>6 DEF Ideintr
  <2>2. platter[blk] \in BufVals /\ platter = [platter EXCEPT ![blk] = platter[blk]]
    BY <1>0, <1>7 DEF BuffersTypeOK
  <2>3. /\ wrote \in BufRecord /\ wrote.blk = blk /\ wrote.refcnt = buf[b].refcnt /\ wrote.lock = h
        /\ wrote.valid /\ ~wrote.dirty /\ wrote.data = buf[b].data /\ buf[b].data \in BufVals
    BY <1>4, <1>6 DEF BufRecord
  <2>4. ASSUME ~buf[b].dirty
        PROVE  /\ read \in BufRecord /\ read.blk = blk /\ read.refcnt = buf[b].refcnt /\ read.lock = h
               /\ read.valid /\ ~read.dirty /\ read.data = platter[blk]
    BY <1>4, <1>6, <2>2, <2>4 DEF BufRecord
  <2>5. ASSUME ~buf[b].dirty
        PROVE  /\ failed \in BufRecord /\ failed.blk = blk /\ failed.refcnt = buf[b].refcnt
               /\ failed.lock = h /\ failed.valid /\ ~failed.dirty /\ failed.unread
    BY <1>4, <1>6, <2>5 DEF BufRecord
  <2> HIDE DEF wrote, read, failed
  <2>6. \A x \in BufRecord : buf' = [buf EXCEPT ![b] = x] => Rewritten(b, x)
    BY <1>1, <1>6 DEF Rewritten
  <2> QED
    BY <2>1, <2>2, <2>3, <2>4, <2>5, <2>6
<1>9. \A c \in Bufs : buf'[c] = IF c = b THEN r ELSE buf[c]
  BY <1>8 DEF Rewritten
<1>10. \A k \in Blknos : platter'[k] = IF k = blk THEN v ELSE platter[k]
  BY <1>0, <1>7, <1>8 DEF BuffersTypeOK
<1>11. \A q \in BufProcs : wakes(q) <=> q = h
  BY <1>3, <1>5 DEF HasLock
<1>12. /\ \A q \in BufProcs : /\ bstep'[q].pc = IF q = h THEN "woken" ELSE bstep[q].pc
                              /\ bstep'[q].b = bstep[q].b /\ bstep'[q].blk = bstep[q].blk
       /\ bstep' \in [BufProcs -> {BufIdle} \cup StepRecord]
  <2>1. bstep' = [q \in BufProcs |-> IF q = h THEN [bstep[h] EXCEPT !.pc = "woken"] ELSE bstep[q]]
    BY <1>11 DEF Ideintr, BufWakeup
  <2>2. [bstep[h] EXCEPT !.pc = "woken"] = [pc |-> "woken", blk |-> bstep[h].blk, b |-> bstep[h].b]
    BY <1>6 DEF StepRecord
  <2>3. \A q \in BufProcs : bstep[q] \in {BufIdle} \cup StepRecord
    BY <1>0, TypesOf
  <2> QED
    BY <2>1, <2>2, <2>3, <1>6 DEF StepRecord
<1>13. /\ idequeue' \in Seq(Bufs) /\ DOMAIN idequeue' = 1 .. n - 1
       /\ \A i \in 1 .. n - 1 : idequeue'[i] = idequeue[i + 1] /\ i + 1 \in 1 .. n
  BY <1>1, <1>2
<1>14. \A q \in BufProcs : Busy(q) => bstep[q].b \in Bufs
  BY <1>0, TypesOf DEF StepRecord
<1>15. BuffersTypeOK'
  <2>1. buf' \in [Bufs -> BufRecord]
    BY <1>0, <1>1, <1>8, BuffersTyped
  <2>2. platter' \in [Blknos -> BufVals]
    BY <1>0, <1>7, <1>8 DEF BuffersTypeOK, BufRecord
  <2> QED
    BY <1>0, <1>2, <1>12, <1>13, <2>1, <2>2, TypesFrom DEF BuffersTypeOK
<1>16. RefsInv'
  <2>1. \A q \in BufProcs : /\ Busy(q)' <=> Busy(q)
                            /\ Busy(q) => bstep'[q].b = bstep[q].b /\ bstep'[q].blk = bstep[q].blk
    BY <1>4, <1>12 DEF Busy
  <2>2. \A c \in Bufs : buf'[c].refcnt = buf[c].refcnt /\ buf'[c].blk = buf[c].blk
    BY <1>8, <1>9
  <2> QED
    BY <1>0, <2>1, <2>2, RefsKept DEF BuffersInv
<1>17. LocksInv'
  <2>1. \A q \in BufProcs : /\ HasLock(q)' <=> HasLock(q)
                            /\ HasLock(q) => bstep'[q].b = bstep[q].b
    BY <1>4, <1>12 DEF HasLock
  <2>2. \A c \in Bufs : buf'[c].lock = buf[c].lock
    BY <1>4, <1>8, <1>9
  <2> QED
    BY <1>0, <2>1, <2>2, LocksKept DEF BuffersInv
<1>18. FlagsInv'
  <2>1. \A c, d \in Bufs : buf'[c].blk = buf'[d].blk /\ buf'[c].blk # NoBlkno => c = d
    BY <1>8, <1>9 DEF FlagsInv, BuffersInv
  <2>2. ASSUME NEW c \in Bufs
        PROVE  /\ buf'[c].dirty => buf'[c].valid
               /\ buf'[c].valid => buf'[c].blk # NoBlkno
               /\ buf'[c].valid /\ ~buf'[c].dirty /\ ~buf'[c].unread => buf'[c].data = platter'[buf'[c].blk]
    <3>1. CASE c = b
      BY <3>1, <1>7, <1>8, <1>9, <1>10, BuffersAssumption DEF BuffersAssumption
    <3>2. CASE c # b
      <4>1. buf'[c] = buf[c] /\ buf[c].blk \in Blknos \cup {NoBlkno}
        BY <3>2, <1>6, <1>9 DEF BufRecord
      <4>2. buf[c].valid => buf[c].blk \in Blknos /\ buf[c].blk # blk
        BY <3>2, <4>1, <1>1 DEF FlagsInv, BuffersInv
      <4>3. buf[c].valid => platter'[buf[c].blk] = platter[buf[c].blk]
        BY <4>2, <1>10
      <4> QED
        BY <4>1, <4>3 DEF FlagsInv, BuffersInv
    <3> QED
      BY <3>1, <3>2
  <2> QED
    BY <2>1, <2>2 DEF FlagsInv
<1>19. UsesInv'
  <2>1. \A q \in BufProcs \ {h} : bstep[q].pc \in {"use", "woken"} => bstep[q].b \in Bufs \ {b}
    BY <1>5, <1>14 DEF HasLock, Busy
  <2>2. ASSUME NEW q \in BufProcs \ {h}
        PROVE  /\ bstep'[q].pc = "use" => buf'[bstep'[q].b].valid
               /\ bstep'[q].pc = "woken" => buf'[bstep'[q].b].valid /\ ~buf'[bstep'[q].b].dirty
    <3>1. bstep'[q].pc = bstep[q].pc /\ bstep'[q].b = bstep[q].b
      BY <1>12
    <3>2. bstep[q].pc \in {"use", "woken"} => buf'[bstep[q].b] = buf[bstep[q].b]
      BY <1>9, <2>1
    <3> QED
      BY <3>1, <3>2 DEF UsesInv, BuffersInv
  <2>3. bstep'[h].pc = "woken" /\ buf'[bstep'[h].b] = r
    BY <1>1, <1>3, <1>9, <1>12
  <2> QED
    BY <1>8, <2>2, <2>3 DEF UsesInv
<1>20. QueueInv'
  <2>1. \A i, j \in DOMAIN idequeue' : idequeue'[i] = idequeue'[j] => i = j
    <3> TAKE i, j \in DOMAIN idequeue'
    <3>1. idequeue[i + 1] = idequeue[j + 1] => i + 1 = j + 1
      BY <1>1, <1>13 DEF QueueInv, BuffersInv
    <3> QED
      BY <3>1, <1>1, <1>13
  <2>2. ASSUME NEW i \in DOMAIN idequeue'
        PROVE  \E q \in BufProcs : bstep'[q].pc = "disk" /\ bstep'[q].b = idequeue'[i]
    <3>1. i \in 1 .. n - 1 /\ i + 1 \in 1 .. n /\ i + 1 # 1 /\ 1 \in 1 .. n
      BY <1>1, <1>13
    <3>2. PICK q \in BufProcs : bstep[q].pc = "disk" /\ bstep[q].b = idequeue[i + 1]
      BY <1>1, <3>1 DEF QueueInv, BuffersInv
    <3>3. idequeue[i + 1] # idequeue[1]
      BY <1>1, <3>1 DEF QueueInv, BuffersInv
    <3>4. q # h
      BY <1>1, <1>3, <3>2, <3>3
    <3> QED
      BY <1>12, <1>13, <3>1, <3>2, <3>4
  <2> QED
    BY <2>1, <2>2 DEF QueueInv
<1>21. SleepersAwaited'
  <2>1. ASSUME NEW q \in BufProcs, bstep'[q].pc = "asleep" PROVE buf'[bstep'[q].b].lock # Nobody
    <3>1. bstep[q].pc = "asleep" /\ bstep[q].b \in Bufs /\ buf[bstep[q].b].lock # Nobody
      BY <1>12, <1>14, <2>1 DEF SleepersAwaited, BuffersInv, Busy
    <3> QED
      BY <3>1, <1>4, <1>8, <1>9, <1>12
  <2>2. ASSUME NEW q \in BufProcs, bstep'[q].pc = "disk"
        PROVE  \E i \in DOMAIN idequeue' : idequeue'[i] = bstep'[q].b
    <3>1. q # h /\ bstep[q].pc = "disk"
      BY <2>2, <1>12
    <3>2. PICK i \in 1 .. n : idequeue[i] = bstep[q].b
      BY <3>1, <1>1 DEF SleepersAwaited, BuffersInv
    <3>3. i # 1
      BY <3>1, <3>2, <1>1, <1>5 DEF HasLock
    <3>4. i - 1 \in 1 .. n - 1 /\ (i - 1) + 1 = i
      BY <3>3, <1>1
    <3>5. idequeue'[i - 1] = idequeue[i]
      BY <3>4, <1>13
    <3> QED
      BY <3>2, <3>4, <3>5, <1>12, <1>13
  <2> QED
    BY <2>1, <2>2 DEF SleepersAwaited
<1>22. LruComplete'
  BY <1>2 DEF LruComplete, BuffersInv
<1> QED
  BY <1>15, <1>16, <1>17, <1>18, <1>19, <1>20, <1>21, <1>22 DEF BuffersInv
-----------------------------------------------------------------------------
(* The list of buffers.                                                    *)

(* A nonempty set of numbers up to n has a last one.                       *)
LEMMA LastOf ==
  ASSUME NEW n \in Nat, NEW S \in SUBSET (1 .. n), S # {}
  PROVE  \E i \in S : \A j \in S : j <= i
<1> DEFINE R == OpToRel(<, Nat)
           T == {n - i : i \in S}
<1>1. IsWellFoundedOn(R, Nat)
  BY NatLessThanWellFounded
<1>2. \A d, e \in Nat : e < d => <<e, d>> \in R
  BY DEF OpToRel
<1>3. T \subseteq Nat /\ T # {}
  <2>1. \A i \in S : n - i \in Nat
    OBVIOUS
  <2>2. PICK i \in S : TRUE
    OBVIOUS
  <2> QED
    BY <2>1, <2>2
<1> HIDE DEF R
<1>4. PICK t \in T : \A e \in T : ~(<<e, t>> \in R)
  BY <1>1, <1>3, WFMin
<1>5. PICK i \in S : t = n - i
  BY <1>4
<1>6. ASSUME NEW j \in S PROVE j <= i
  <2>1. n - j \in T /\ n - j \in Nat /\ t \in Nat
    BY <1>3, <1>4
  <2>2. ~(n - j < t)
    BY <1>2, <1>4, <2>1
  <2> QED
    BY <1>5, <2>1, <2>2
<1> QED
  BY <1>6

(* binit() links every buffer once.                                        *)
LEMMA LruInit == BuffersInit => lru \in Seq(Bufs) /\ LruComplete
<1> SUFFICES ASSUME BuffersInit PROVE lru \in Seq(Bufs) /\ LruComplete
  OBVIOUS
<1> DEFINE n == Cardinality(Bufs)
<1>1. IsFiniteSet(Bufs)
  BY BuffersAssumption DEF BuffersAssumption
<1>2. n \in Nat /\ ExistsBijection(1 .. n, Bufs)
  BY <1>1, FS_CardinalityType
<1>3. PICK f \in Bijection(1 .. n, Bufs) : TRUE
  BY <1>2 DEF ExistsBijection
<1>4. f \in [1 .. n -> Bufs] /\ IsInjective(f)
  BY <1>3 DEF Bijection, Injection
<1>5. lru \in [1 .. n -> Bufs] /\ IsInjective(lru)
  BY <1>4 DEF BuffersInit, SetToSeq
<1>6. lru \in Injection(1 .. n, Bufs)
  BY <1>5 DEF Injection
<1>7. Cardinality(1 .. n) = n
  BY <1>2, FS_Interval
<1>8. lru \in Surjection(1 .. n, Bufs)
  BY <1>1, <1>6, <1>7, FS_Injection
<1>9. lru \in Seq(Bufs) /\ Len(lru) = n /\ DOMAIN lru = 1 .. n
  BY <1>2, <1>5
<1>10. ToSet(lru) = Bufs
  BY <1>5, <1>8, <1>9 DEF ToSet, Surjection
<1> QED
  BY <1>9, <1>10 DEF LruComplete

(* Moving a buffer to the front keeps them.                                *)
LEMMA LruMoves ==
  ASSUME lru \in Seq(Bufs), LruComplete, NEW b \in Bufs
  PROVE  /\ ToFront(b) \in Seq(Bufs)
         /\ Len(ToFront(b)) = Cardinality(Bufs) /\ ToSet(ToFront(b)) = Bufs
<1> DEFINE n == Len(lru)
           i == CHOOSE j \in DOMAIN lru : lru[j] = b
           s == ToFront(b)
<1>1. n \in Nat /\ DOMAIN lru = 1 .. n /\ n = Cardinality(Bufs)
  BY DEF LruComplete
<1>2. \E j \in DOMAIN lru : lru[j] = b
  BY DEF LruComplete, ToSet
<1>3. i \in 1 .. n /\ lru[i] = b
  BY <1>1, <1>2
<1>4. PICK k \in 1 .. n : k = i
  BY <1>3
<1>5. lru[k] = b
  BY <1>3, <1>4
<1>6. s = <<b>> \o (SubSeq(lru, 1, k - 1) \o SubSeq(lru, k + 1, n))
  BY <1>4 DEF ToFront, RemoveAt
<1> HIDE DEF i, s
<1>7. /\ SubSeq(lru, 1, k - 1) \in Seq(Bufs) /\ Len(SubSeq(lru, 1, k - 1)) = k - 1
      /\ \A j \in 1 .. k - 1 : SubSeq(lru, 1, k - 1)[j] = lru[j]
  BY <1>1
<1>8. /\ SubSeq(lru, k + 1, n) \in Seq(Bufs) /\ Len(SubSeq(lru, k + 1, n)) = n - k
      /\ \A j \in 1 .. n - k : SubSeq(lru, k + 1, n)[j] = lru[k + j]
  BY <1>1
<1>9. PICK x \in Seq(Bufs) : x = SubSeq(lru, 1, k - 1)
  BY <1>7
<1>10. PICK y \in Seq(Bufs) : y = SubSeq(lru, k + 1, n)
  BY <1>8
<1>11. s = <<b>> \o (x \o y) /\ Len(x) = k - 1 /\ Len(y) = n - k
  BY <1>6, <1>7, <1>8, <1>9, <1>10
<1>12. /\ s \in Seq(Bufs) /\ Len(s) = n /\ s[1] = b
       /\ \A j \in 1 .. k - 1 : s[j + 1] = x[j]
       /\ \A j \in 1 .. n - k : s[k + j] = y[j]
  BY <1>1, <1>11
<1>13. /\ \A j \in 1 .. k - 1 : s[j + 1] = lru[j]
       /\ \A j \in 1 .. n - k : s[k + j] = lru[k + j]
  BY <1>7, <1>8, <1>9, <1>10, <1>12
<1>14. ToSet(s) \subseteq Bufs
  BY <1>12 DEF ToSet
<1>15. \A j \in 1 .. n : \E l \in 1 .. n : s[l] = lru[j]
  <2> TAKE j \in 1 .. n
  <2>1. CASE j < k
    <3>1. j \in 1 .. k - 1 /\ j + 1 \in 1 .. n
      BY <1>1, <2>1
    <3> QED
      BY <1>12, <1>13, <3>1
  <2>2. CASE j = k
    BY <1>1, <1>5, <1>12, <2>2
  <2>3. CASE j > k
    <3>1. j - k \in 1 .. n - k /\ k + (j - k) = j
      BY <1>1, <2>3
    <3> QED
      BY <1>12, <1>13, <3>1
  <2> QED
    BY <1>1, <2>1, <2>2, <2>3
<1>16. \A c \in Bufs : \E j \in 1 .. n : lru[j] = c
  BY <1>1 DEF LruComplete, ToSet
<1>17. Bufs \subseteq ToSet(s)
  <2>1. \A c \in Bufs : \E l \in 1 .. n : s[l] = c
    BY <1>15, <1>16
  <2>2. DOMAIN s = 1 .. n
    BY <1>12
  <2> QED
    BY <2>1, <2>2 DEF ToSet
<1> QED
  BY <1>1, <1>12, <1>14, <1>17 DEF s

(* The victim of bget() is a buffer that may be recycled, when there is one. *)
LEMMA VictimRecyclable ==
  ASSUME lru \in Seq(Bufs), LruComplete, \E b \in Bufs : Recyclable(b)
  PROVE  Victim \in Bufs /\ Recyclable(Victim)
<1> DEFINE n == Len(lru)
           S == {i \in 1 .. n : Recyclable(lru[i])}
           P(i) == /\ Recyclable(lru[i])
                   /\ \A j \in DOMAIN lru : j > i => ~Recyclable(lru[j])
<1>1. n \in Nat /\ DOMAIN lru = 1 .. n
  OBVIOUS
<1>2. S # {} /\ S \in SUBSET (1 .. n)
  BY <1>1 DEF LruComplete, ToSet
<1>3. PICK i \in S : \A j \in S : j <= i
  BY <1>1, <1>2, LastOf
<1>4. i \in DOMAIN lru /\ P(i)
  BY <1>1, <1>3
<1>5. \E l \in DOMAIN lru : P(l)
  BY <1>4
<1> HIDE DEF P
<1>6. (CHOOSE l \in DOMAIN lru : P(l)) \in DOMAIN lru /\ P(CHOOSE l \in DOMAIN lru : P(l))
  BY <1>5
<1>7. PICK l \in DOMAIN lru : Victim = lru[l] /\ P(l)
  BY <1>6 DEF Victim, P
<1> QED
  BY <1>1, <1>7 DEF P
-----------------------------------------------------------------------------
(* brelse() under bcache.lock, and bget().                                 *)

LEMMA UsersFinite == \A b \in Bufs : IsFiniteSet(UsersOf(b))
<1>1. \A b \in Bufs : UsersOf(b) \in SUBSET BufProcs
  BY DEF UsersOf
<1> QED
  BY <1>1, BuffersAssumption, FS_Subset DEF BuffersAssumption

LEMMA BrelseInv ==
  ASSUME BuffersInv, NEW p \in BufProcs, Brelse(p)
  PROVE  BuffersInv'
<1> USE DEF BusyPlaces
<1>0. BuffersTypeOK
  BY DEF BuffersInv
<1>1. Busy(p) /\ bstep[p].pc = "brelse" /\ ~HasLock(p) /\ bstep[p].b \in Bufs
  BY <1>0, TypesOf DEF Brelse, BufAt, Busy, HasLock, StepRecord
<1> PICK b \in Bufs : b = bstep[p].b
  BY <1>1
<1> DEFINE r == [buf[b] EXCEPT !.refcnt = @ - 1]
<1>2. buf[b] \in BufRecord /\ buf \in [Bufs -> BufRecord]
  BY <1>0, <1>1, TypesOf
<1>3. UNCHANGED <<idequeue, platter, bcachePanic>>
  BY DEF Brelse
<1>4. Stepped(p, BufIdle)
  BY <1>0 DEF Brelse, Stepped, BuffersTypeOK
<1>5. \A q \in BufProcs : bstep'[q] = IF q = p THEN BufIdle ELSE bstep[q]
  BY <1>4 DEF Stepped
<1>6. p \in UsersOf(b) /\ UsersOf(b)' = UsersOf(b) \ {p}
  BY <1>1, <1>5 DEF UsersOf, Busy, BufIdle
<1>7. \A c \in Bufs \ {b} : UsersOf(c)' = UsersOf(c)
  BY <1>1, <1>5 DEF UsersOf, Busy, BufIdle
<1>8. IsFiniteSet(UsersOf(b)) /\ buf[b].refcnt = Cardinality(UsersOf(b))
  BY <1>1, UsersFinite DEF RefsInv, BuffersInv
<1>9. Cardinality(UsersOf(b)') = buf[b].refcnt - 1 /\ Cardinality(UsersOf(b)') \in Nat
  BY <1>6, <1>8, FS_RemoveElement, FS_CardinalityType
<1>10. Rewritten(b, r) /\ r \in BufRecord
  BY <1>1, <1>2, <1>9 DEF Rewritten, BufRecord, Brelse
<1>11. /\ r.refcnt = buf[b].refcnt - 1 /\ r.blk = buf[b].blk /\ r.lock = buf[b].lock
       /\ r.valid = buf[b].valid /\ r.dirty = buf[b].dirty /\ r.data = buf[b].data
       /\ r.unread = buf[b].unread
  BY <1>2 DEF BufRecord
<1>12. \A c \in Bufs : buf'[c] = IF c = b THEN r ELSE buf[c]
  BY <1>10 DEF Rewritten
<1>13. \A q \in BufProcs : Busy(q) => bstep[q].b \in Bufs
  BY <1>0, TypesOf DEF StepRecord
<1>14. \A c \in Bufs : /\ buf'[c].blk = buf[c].blk /\ buf'[c].lock = buf[c].lock
                       /\ buf'[c].valid = buf[c].valid /\ buf'[c].dirty = buf[c].dirty
                       /\ buf'[c].data = buf[c].data /\ buf'[c].unread = buf[c].unread
  BY <1>11, <1>12
<1>15. lru' \in Seq(Bufs) /\ LruComplete'
  <2>1. lru \in Seq(Bufs) /\ LruComplete
    BY <1>0 DEF BuffersTypeOK, BuffersInv
  <2>2. CASE lru' = lru
    BY <2>1, <2>2 DEF LruComplete
  <2>3. CASE lru' = ToFront(b)
    BY <1>1, <2>1, <2>3, LruMoves DEF LruComplete
  <2> QED
    BY <2>2, <2>3 DEF Brelse
<1> HIDE DEF r
<1>16. BuffersTypeOK'
  <2>1. buf' \in [Bufs -> BufRecord]
    BY <1>0, <1>1, <1>10, BuffersTyped
  <2>2. bstep' \in [BufProcs -> {BufIdle} \cup StepRecord]
    BY <1>0, <1>4, StepsTyped
  <2> QED
    BY <1>0, <1>3, <1>15, <2>1, <2>2, TypesFrom DEF BuffersTypeOK
<1>17. RefsInv'
  <2>1. \A c \in Bufs : buf'[c].refcnt = Cardinality(UsersOf(c)')
    BY <1>7, <1>9, <1>11, <1>12 DEF RefsInv, BuffersInv
  <2>2. \A q \in BufProcs : Busy(q)' => buf'[bstep'[q].b].blk = bstep'[q].blk
    BY <1>5, <1>13, <1>14 DEF RefsInv, BuffersInv, Busy, BufIdle
  <2> QED
    BY <2>1, <2>2 DEF RefsInv
<1>18. LocksInv'
  <2>1. \A q \in BufProcs : /\ HasLock(q)' <=> HasLock(q)
                            /\ HasLock(q) => bstep'[q].b = bstep[q].b
    BY <1>1, <1>5 DEF HasLock, BufIdle
  <2> QED
    BY <1>0, <1>14, <2>1, LocksKept DEF BuffersInv
<1>19. FlagsInv'
  BY <1>3, <1>14, FlagsKept DEF BuffersInv
<1>20. UsesInv'
  <2>1. \A q \in BufProcs : bstep'[q].pc \in {"use", "woken"} => bstep'[q] = bstep[q] /\ bstep[q].b \in Bufs
    BY <1>5, <1>13 DEF BufIdle, Busy
  <2> QED
    BY <1>14, <2>1 DEF UsesInv, BuffersInv
<1>21. QueueInv'
  BY <1>1, <1>3, <1>5 DEF QueueInv, BuffersInv
<1>22. SleepersAwaited'
  <2>1. \A q \in BufProcs : bstep'[q].pc \in {"asleep", "disk"} => bstep'[q] = bstep[q] /\ bstep[q].b \in Bufs
    BY <1>5, <1>13 DEF BufIdle, Busy
  <2> QED
    BY <1>3, <1>14, <2>1 DEF SleepersAwaited, BuffersInv
<1> QED
  BY <1>15, <1>16, <1>17, <1>18, <1>19, <1>20, <1>21, <1>22 DEF BuffersInv

(* A process gets buffer b of block blk: r is what bget() makes of it.     *)
Gets(p, b, blk, r) ==
  /\ bstep[p].pc = "idle"
  /\ Rewritten(b, r)
  /\ r \in BufRecord /\ r.blk = blk /\ r.refcnt = buf[b].refcnt + 1 /\ r.lock = buf[b].lock
  /\ Stepped(p, [pc |-> "acquire", blk |-> blk, b |-> b])
  /\ UNCHANGED <<lru, idequeue, platter, bcachePanic>>

(* All of the invariant but the flags does not ask whether b was cached.   *)
LEMMA GetsKeeps ==
  ASSUME BuffersInv, NEW p \in BufProcs, NEW b \in Bufs, NEW blk \in Blknos, NEW r,
         Gets(p, b, blk, r), buf[b].blk = blk \/ buf[b].refcnt = 0,
         buf[b].refcnt # 0 => r = [buf[b] EXCEPT !.refcnt = @ + 1]
  PROVE  /\ BuffersTypeOK' /\ RefsInv' /\ LocksInv' /\ UsesInv' /\ QueueInv'
         /\ SleepersAwaited' /\ LruComplete'
<1> DEFINE s == [pc |-> "acquire", blk |-> blk, b |-> b]
<1> USE DEF BusyPlaces
<1>0. BuffersTypeOK
  BY DEF BuffersInv
<1>1. ~Busy(p) /\ ~HasLock(p) /\ buf[b] \in BufRecord /\ s \in StepRecord
  BY <1>0, TypesOf DEF Gets, Busy, HasLock, StepRecord
<1>2. /\ r \in BufRecord /\ r.blk = blk /\ r.refcnt = buf[b].refcnt + 1 /\ r.lock = buf[b].lock
      /\ UNCHANGED <<lru, idequeue, platter, bcachePanic>>
      /\ \A c \in Bufs : buf'[c] = IF c = b THEN r ELSE buf[c]
      /\ \A q \in BufProcs : bstep'[q] = IF q = p THEN s ELSE bstep[q]
  BY DEF Gets, Rewritten, Stepped
<1>3. \A q \in BufProcs : Busy(q) => bstep[q].b \in Bufs
  BY <1>0, TypesOf DEF StepRecord
<1>4. IsFiniteSet(UsersOf(b)) /\ buf[b].refcnt = Cardinality(UsersOf(b)) /\ p \notin UsersOf(b)
  BY <1>1, UsersFinite DEF RefsInv, BuffersInv, UsersOf
<1>5. buf[b].refcnt = 0 => \A q \in BufProcs : Busy(q) => bstep[q].b # b
  BY <1>4, FS_EmptySet DEF UsersOf
<1>6. \A q \in BufProcs : Busy(q) /\ bstep[q].b = b =>
        /\ buf[b].blk = blk /\ buf[b].refcnt # 0
        /\ r.valid = buf[b].valid /\ r.dirty = buf[b].dirty
  BY <1>1, <1>5 DEF BufRecord
<1>7. BuffersTypeOK'
  <2>1. buf' \in [Bufs -> BufRecord]
    BY <1>0, <1>2, BuffersTyped DEF Gets
  <2>2. bstep' \in [BufProcs -> {BufIdle} \cup StepRecord]
    BY <1>0, <1>1, StepsTyped DEF Gets
  <2> QED
    BY <1>0, <1>2, <2>1, <2>2, TypesFrom DEF BuffersTypeOK
<1>8. RefsInv'
  <2>1. UsersOf(b)' = UsersOf(b) \cup {p} /\ \A c \in Bufs \ {b} : UsersOf(c)' = UsersOf(c)
    BY <1>1, <1>2 DEF UsersOf, Busy
  <2>2. Cardinality(UsersOf(b)') = buf[b].refcnt + 1
    BY <1>4, <2>1, FS_AddElement
  <2>3. \A c \in Bufs : buf'[c].refcnt = Cardinality(UsersOf(c)')
    BY <1>2, <2>1, <2>2 DEF RefsInv, BuffersInv
  <2>4. \A q \in BufProcs : Busy(q)' => buf'[bstep'[q].b].blk = bstep'[q].blk
    BY <1>2, <1>3, <1>6 DEF RefsInv, BuffersInv, Busy
  <2> QED
    BY <2>3, <2>4 DEF RefsInv
<1>9. LocksInv'
  <2>1. \A q \in BufProcs : /\ HasLock(q)' <=> HasLock(q)
                            /\ HasLock(q) => bstep'[q].b = bstep[q].b
    BY <1>1, <1>2 DEF HasLock
  <2>2. \A c \in Bufs : buf'[c].lock = buf[c].lock
    BY <1>2
  <2> QED
    BY <1>0, <2>1, <2>2, LocksKept DEF BuffersInv
<1>10. UsesInv'
  <2> SUFFICES ASSUME NEW q \in BufProcs
               PROVE  /\ bstep'[q].pc = "use" => buf'[bstep'[q].b].valid
                      /\ bstep'[q].pc = "woken" => buf'[bstep'[q].b].valid /\ ~buf'[bstep'[q].b].dirty
    BY DEF UsesInv
  <2>1. CASE q = p
    BY <1>2, <2>1
  <2>2. CASE q # p /\ Busy(q)
    <3>1. buf'[bstep[q].b].valid = buf[bstep[q].b].valid /\ buf'[bstep[q].b].dirty = buf[bstep[q].b].dirty
      BY <1>2, <1>3, <1>6, <2>2
    <3> QED
      BY <3>1, <1>2, <2>2 DEF UsesInv, BuffersInv
  <2>3. CASE q # p /\ ~Busy(q)
    BY <1>2, <2>3 DEF Busy
  <2> QED
    BY <2>1, <2>2, <2>3
<1>11. QueueInv' /\ LruComplete'
  <2>1. \A q \in BufProcs : bstep[q].pc = "disk" => bstep'[q] = bstep[q]
    BY <1>1, <1>2 DEF Busy
  <2> QED
    BY <1>2, <2>1 DEF QueueInv, LruComplete, BuffersInv
<1>12. SleepersAwaited'
  <2>1. \A q \in BufProcs : bstep'[q].pc \in {"asleep", "disk"} => bstep'[q] = bstep[q] /\ bstep[q].b \in Bufs
    BY <1>2, <1>3 DEF Busy
  <2>2. \A c \in Bufs : buf'[c].lock = buf[c].lock
    BY <1>2
  <2> QED
    BY <1>2, <2>1, <2>2 DEF SleepersAwaited, BuffersInv
<1> QED
  BY <1>7, <1>8, <1>9, <1>10, <1>11, <1>12

LEMMA BgetInv ==
  ASSUME BuffersInv, NEW p \in BufProcs, NEW blk \in Blknos, Bget(p, blk)
  PROVE  BuffersInv'
<1>0. BuffersTypeOK /\ buf \in [Bufs -> BufRecord]
  BY TypesOf DEF BuffersInv
<1>1. bstep[p].pc = "idle" /\ UNCHANGED <<lru, idequeue, platter>>
  BY DEF Bget, BufAt
<1>2. bstep \in [BufProcs -> {BufIdle} \cup StepRecord]
  BY <1>0 DEF BuffersTypeOK, StepRecord, BusyPlaces
<1>3. CASE Cached(blk) # {} /\ Bget(p, blk)
  <2> DEFINE hit == CHOOSE c \in Cached(blk) : TRUE
  <2>1. hit \in Bufs /\ buf[hit].blk = blk
    BY <1>3 DEF Cached
  <2>2. /\ buf' = [buf EXCEPT ![hit].refcnt = @ + 1]
        /\ bstep' = [bstep EXCEPT ![p] = [pc |-> "acquire", blk |-> blk, b |-> hit]]
        /\ UNCHANGED bcachePanic
    BY <1>3 DEF Bget
  <2> HIDE DEF hit
  <2>3. PICK b \in Bufs : b = hit
    BY <2>1
  <2> DEFINE r == [buf[b] EXCEPT !.refcnt = @ + 1]
  <2>4. buf[b] \in BufRecord /\ buf[b].blk = blk
    BY <1>0, <2>1, <2>3
  <2>5. r \in BufRecord /\ r.refcnt = buf[b].refcnt + 1 /\ r.blk = blk /\ r.lock = buf[b].lock
        /\ r.valid = buf[b].valid /\ r.dirty = buf[b].dirty /\ r.data = buf[b].data
        /\ r.unread = buf[b].unread
    BY <2>4 DEF BufRecord
  <2>6. Rewritten(b, r) /\ Stepped(p, [pc |-> "acquire", blk |-> blk, b |-> b])
    BY <1>0, <1>2, <2>2, <2>3 DEF Rewritten, Stepped
  <2>7. Gets(p, b, blk, r)
    BY <1>1, <2>2, <2>5, <2>6 DEF Gets
  <2>8. /\ BuffersTypeOK' /\ RefsInv' /\ LocksInv' /\ UsesInv' /\ QueueInv'
        /\ SleepersAwaited' /\ LruComplete'
    BY <2>4, <2>7, GetsKeeps
  <2>9. FlagsInv'
    <3>1. \A c \in Bufs : buf'[c] = IF c = b THEN r ELSE buf[c]
      BY <2>6 DEF Rewritten
    <3> HIDE DEF r
    <3> QED
      BY <1>1, <2>4, <2>5, <3>1, FlagsKept DEF BuffersInv
  <2> QED
    BY <2>8, <2>9 DEF BuffersInv
<1>4. CASE Cached(blk) = {} /\ (\E c \in Bufs : Recyclable(c)) /\ Bget(p, blk)
  <2>1. Victim \in Bufs /\ Recyclable(Victim)
    BY <1>0, <1>4, VictimRecyclable DEF BuffersTypeOK, BuffersInv
  <2>2. /\ buf' = [buf EXCEPT ![Victim] = Claimed(Victim, blk)]
        /\ bstep' = [bstep EXCEPT ![p] = [pc |-> "acquire", blk |-> blk, b |-> Victim]]
        /\ UNCHANGED bcachePanic
    BY <1>4 DEF Bget
  <2>3. PICK b \in Bufs : b = Victim
    BY <2>1
  <2>4. PICK r : r = Claimed(b, blk)
    OBVIOUS
  <2>5. buf[b] \in BufRecord /\ buf[b].refcnt = 0
    BY <1>0, <2>1, <2>3 DEF Recyclable
  <2>6. r \in BufRecord /\ r.refcnt = buf[b].refcnt + 1 /\ r.blk = blk /\ r.lock = buf[b].lock
        /\ r.valid = FALSE /\ r.dirty = FALSE
    <3> DEFINE o == buf[b]
               c == [o EXCEPT !.blk = blk, !.refcnt = 1, !.valid = FALSE, !.dirty = FALSE,
                              !.unread = FALSE]
    <3>1. o \in BufRecord
      BY <2>5
    <3> HIDE DEF o
    <3>2. /\ c \in BufRecord /\ c.refcnt = 1 /\ c.blk = blk /\ c.lock = o.lock
          /\ c.valid = FALSE /\ c.dirty = FALSE
      BY <3>1 DEF BufRecord
    <3>3. r = c
      BY <2>4 DEF Claimed, o
    <3> HIDE DEF c
    <3> QED
      BY <2>5, <3>2, <3>3 DEF o
  <2>7. Rewritten(b, r) /\ Stepped(p, [pc |-> "acquire", blk |-> blk, b |-> b])
    BY <1>0, <1>2, <2>2, <2>3, <2>4 DEF Rewritten, Stepped
  <2>8. Gets(p, b, blk, r)
    BY <1>1, <2>2, <2>6, <2>7 DEF Gets
  <2>9. /\ BuffersTypeOK' /\ RefsInv' /\ LocksInv' /\ UsesInv' /\ QueueInv'
        /\ SleepersAwaited' /\ LruComplete'
    BY <2>5, <2>8, GetsKeeps
  <2>10. FlagsInv'
    <3>1. \A c \in Bufs : buf'[c] = IF c = b THEN r ELSE buf[c]
      BY <2>7 DEF Rewritten
    <3>2. \A c \in Bufs : buf[c].blk # blk
      BY <1>4 DEF Cached
    <3>3. \A c, d \in Bufs : buf'[c].blk = buf'[d].blk /\ buf'[c].blk # NoBlkno => c = d
      BY <2>6, <3>1, <3>2 DEF FlagsInv, BuffersInv
    <3>4. ASSUME NEW c \in Bufs
          PROVE  /\ buf'[c].dirty => buf'[c].valid
                 /\ buf'[c].valid => buf'[c].blk # NoBlkno
                 /\ buf'[c].valid /\ ~buf'[c].dirty /\ ~buf'[c].unread => buf'[c].data = platter'[buf'[c].blk]
      <4>1. CASE c = b
        BY <2>6, <3>1, <4>1
      <4>2. CASE c # b
        BY <1>1, <3>1, <4>2 DEF FlagsInv, BuffersInv
      <4> QED
        BY <4>1, <4>2
    <3> QED
      BY <3>3, <3>4 DEF FlagsInv
  <2> QED
    BY <2>9, <2>10 DEF BuffersInv
<1>5. CASE Cached(blk) = {} /\ (\A c \in Bufs : ~Recyclable(c)) /\ Bget(p, blk)
  <2>1. UNCHANGED <<buf, bstep, lru, idequeue, platter>> /\ bcachePanic' = TRUE
    BY <1>5 DEF Bget
  <2>2. BuffersTypeOK'
    BY <1>0, <1>2, <2>1, TypesFrom DEF BuffersTypeOK
  <2>3. RefsInv' /\ LocksInv' /\ FlagsInv'
    BY <2>1 DEF RefsInv, LocksInv, FlagsInv, BuffersInv, UsersOf, Busy, HasLock
  <2>4. UsesInv' /\ QueueInv' /\ SleepersAwaited' /\ LruComplete'
    BY <2>1 DEF UsesInv, QueueInv, SleepersAwaited, LruComplete, BuffersInv
  <2> QED
    BY <2>2, <2>3, <2>4 DEF BuffersInv
<1> QED
  BY <1>3, <1>4, <1>5

-----------------------------------------------------------------------------
(* The invariant, and the theorems.                                        *)

LEMMA BuffersInitInv == BuffersInit => BuffersInv
<1> SUFFICES ASSUME BuffersInit PROVE BuffersInv
  OBVIOUS
<1> USE DEF BuffersInit
<1>1. BufBlank \in BufVals
  BY BuffersAssumption DEF BufBlank, BuffersAssumption
<1>2. lru \in Seq(Bufs) /\ LruComplete
  BY LruInit
<1>3. \A p \in BufProcs : bstep[p].pc = "idle" /\ ~Busy(p) /\ ~HasLock(p)
  BY DEF BufIdle, Busy, HasLock
<1>4. BuffersTypeOK
  <2>1. buf \in [Bufs -> BufRecord] /\ platter \in [Blknos -> BufVals]
    BY <1>1 DEF BufRecord
  <2>2. idequeue \in Seq(Bufs) /\ bcachePanic \in BOOLEAN
    <3>1. idequeue = <<>> /\ bcachePanic = FALSE
      OBVIOUS
    <3> HIDE DEF BuffersInit
    <3>2. idequeue \in Seq(Bufs)
      BY <3>1
    <3> QED
      BY <3>1, <3>2
  <2>3. bstep \in [BufProcs -> {BufIdle} \cup StepRecord]
    <3>1. bstep = [p \in BufProcs |-> BufIdle] /\ BufIdle \in {BufIdle} \cup StepRecord
      OBVIOUS
    <3> HIDE DEF BuffersInit
    <3> QED
      BY <3>1
  <2> QED
    BY <1>2, <2>1, <2>2, <2>3 DEF BuffersTypeOK, BufRecord, StepRecord, BusyPlaces
<1>5. RefsInv
  <2>1. \A b \in Bufs : UsersOf(b) = {}
    BY <1>3 DEF UsersOf
  <2> QED
    BY <1>3, <2>1, FS_EmptySet DEF RefsInv
<1>6. LocksInv /\ FlagsInv
  BY <1>3, BuffersAssumption DEF LocksInv, FlagsInv, BuffersAssumption
<1>7. UsesInv /\ QueueInv /\ SleepersAwaited
  BY <1>3 DEF UsesInv, QueueInv, SleepersAwaited
<1> QED
  BY <1>2, <1>4, <1>5, <1>6, <1>7 DEF BuffersInv

LEMMA BuffersStepInv == BuffersInv /\ [BuffersNext]_buffervars => BuffersInv'
<1> SUFFICES ASSUME BuffersInv, [BuffersNext]_buffervars PROVE BuffersInv'
  OBVIOUS
<1>1. CASE Ideintr
  BY <1>1, IdeintrInv
<1>2. ASSUME NEW p \in BufProcs, BufStep(p) PROVE BuffersInv'
  <2>1. ASSUME NEW blk \in Blknos, Bget(p, blk) PROVE BuffersInv'
    BY <2>1, BgetInv
  <2>2. CASE AcquireSleep(p)
    BY <2>2, AcquireSleepInv
  <2>3. CASE Bread(p)
    BY <2>3, BreadInv
  <2>4. CASE IderwAgain(p)
    BY <2>4, IderwAgainInv
  <2>5. ASSUME NEW v \in BufVals, Bwrite(p, v) \/ BlogWrite(p, v) PROVE BuffersInv'
    BY <2>5, BwriteInv, BlogWriteInv
  <2>6. CASE ReleaseSleep(p)
    BY <2>6, ReleaseSleepInv
  <2>7. CASE Brelse(p)
    BY <2>7, BrelseInv
  <2> QED
    BY <1>2, <2>1, <2>2, <2>3, <2>4, <2>5, <2>6, <2>7 DEF BufStep
<1>3. CASE UNCHANGED buffervars
  <2> USE <1>3 DEF buffervars
  <2>1. BuffersTypeOK' /\ UsesInv' /\ QueueInv'
    BY DEF BuffersTypeOK, UsesInv, QueueInv, BuffersInv
  <2>2. RefsInv' /\ LocksInv' /\ FlagsInv'
    BY DEF RefsInv, LocksInv, FlagsInv, BuffersInv, UsersOf, Busy, HasLock
  <2>3. SleepersAwaited' /\ LruComplete'
    BY DEF SleepersAwaited, LruComplete, BuffersInv
  <2> QED
    BY <2>1, <2>2, <2>3 DEF BuffersInv
<1> QED
  BY <1>1, <1>2, <1>3 DEF BuffersNext

LEMMA BuffersInvSafe == BuffersInv => BufferSafe
<1> SUFFICES ASSUME BuffersInv PROVE BufferSafe
  OBVIOUS
<1>1. CacheCoherent
  BY DEF CacheCoherent, FlagsInv, BuffersInv
<1>2. HoldersHaveTheirBlock
  BY DEF HoldersHaveTheirBlock, RefsInv, LocksInv, HasLock, Busy, BuffersInv
<1> QED
  BY <1>1, <1>2 DEF BufferSafe, BuffersInv

(* Types, for every number of processes and buffers: no counter of a       *)
(* buffer falls below 0, and the disk only answers for blocks it has.      *)
THEOREM CacheTyped == BuffersSpec => []BuffersTypeOK
<1>1. BuffersInv => BuffersTypeOK
  BY DEF BuffersInv
<1> QED
  BY <1>1, BuffersInitInv, BuffersStepInv, PTL DEF BuffersSpec

(* bio.c, sleeplock.c, ide.c: a block is in one buffer, whose data are the *)
(* disk's unless it is dirty, locked or the read of it failed; a process   *)
(* works on the block it asked for and alone, a sleeper waits for          *)
(* something that comes, and the list of buffers stays whole.              *)
THEOREM BuffersAreSafe == BuffersSpec => []BufferSafe
BY BuffersInvSafe, BuffersInitInv, BuffersStepInv, PTL DEF BuffersSpec
=============================================================================
