------------------------------ MODULE LogProofs ------------------------------
(***************************************************************************)
(* Theorems about Log, for any operations, blocks, contents and log sizes: *)
(* it is type correct, its operations neither deadlock in begin_op() nor   *)
(* overrun the log, and it implements AtomicLog.                           *)
(***************************************************************************)
EXTENDS Log, FiniteSetTheorems, TLAPS

(* The invariant holds when the first process has started.                 *)
LEMMA InitInv == ASSUME Init PROVE IndInv
<1> USE DEF Init
<1>1. TypeOK
  <2>1. wrote \in [Ops -> SUBSET Blocks] /\ dirty \in SUBSET Blocks
    OBVIOUS
  <2>2. lh \in Seq(Blocks) /\ head \in Seq(Blocks)
    OBVIOUS
  <2> QED
    BY <2>1, <2>2 DEF TypeOK, Phases
<1>2. InProgress = {} /\ Committers = {}
  BY DEF InProgress, Committers
<1>3. ControlInv
  BY <1>2 DEF ControlInv, CommitAlone, Committers, InProgress, CommitPhases, Booting
<1>4. OutstandingCounts
  BY <1>2, FS_EmptySet DEF OutstandingCounts
<1>5. SleeperHasWaker
  BY DEF SleeperHasWaker
<1>6. SpaceInv
  <2>1. Credits = {}
    BY <1>2 DEF Credits
  <2>2. Cardinality(Credits) = 0
    BY <2>1, FS_EmptySet
  <2> QED
    BY <2>2, <1>2, LogAssumption DEF SpaceInv, LogAssumption
<1>7. DataInv
  BY DEF DataInv, HeadInv, PinInv, CopyInv, Injective, Logged, Booting
<1> QED
  BY <1>1, <1>3, <1>4, <1>5, <1>6, <1>7 DEF IndInv

(* Type correctness of one step.                                           *)
LEMMA TypeStep ==
  ASSUME IndInv, [Next]_vars
  PROVE  TypeOK'
<1> USE DEF TypeOK, Phases, memvars, bufvars, opvars, ctlvars, diskvars, Woken
<1> USE LogAssumption DEF LogAssumption
<1> SUFFICES ASSUME Next PROVE TypeOK'
  BY DEF vars, IndInv
<1>0. TypeOK /\ OutstandingCounts /\ Len(lh) <= LOGSIZE /\ Len(head) <= LOGSIZE
  <2>1. Cardinality(Credits) \in Nat
    <3>1. IsFiniteSet(Ops \X (1 .. MAXOPBLOCKS))
      <4>1. IsFiniteSet(1 .. MAXOPBLOCKS)
        BY FS_Interval
      <4> QED
        BY <4>1, FS_Product
    <3> QED
      BY <3>1, FS_Subset, FS_CardinalityType DEF Credits
  <2> QED
    BY <2>1 DEF IndInv, SpaceInv
<1>1. ASSUME NEW o \in Ops, BeginOpSleeps(o) PROVE TypeOK'
  BY <1>0, <1>1 DEF BeginOpSleeps
<1>2. ASSUME NEW o \in Ops, BeginOp(o) PROVE TypeOK'
  BY <1>0, <1>2 DEF BeginOp
<1>3. ASSUME NEW o \in Ops, NEW b \in Blocks, NEW v \in Vals, LogWrite(o, b, v)
      PROVE TypeOK'
  BY <1>0, <1>3 DEF LogWrite, Panic
<1>4. ASSUME NEW o \in Ops, LogAppend(o) PROVE TypeOK'
  BY <1>0, <1>4 DEF LogAppend
<1>5. ASSUME NEW o \in Ops, EndOp(o) PROVE TypeOK'
  <2>1. CASE committing
    BY <1>0, <1>5, <2>1 DEF EndOp, Panic
  <2>2. CASE ~committing
    <3>1. outstanding' \in Nat
      BY <1>0, <1>5, <2>2 DEF EndOp
    <3>2. pc' \in [Ops -> {"idle", "begin", "asleep", "active", "logging", "commit"}]
      BY <1>0, <1>5, <2>2 DEF EndOp
    <3> QED
      BY <1>0, <1>5, <2>2, <3>1, <3>2 DEF EndOp
  <2> QED
    BY <2>1, <2>2
<1>6. ASSUME NEW o \in Ops, EndOpCommits(o) PROVE TypeOK'
  BY <1>0, <1>6 DEF EndOpCommits
<1>7. ASSUME NEW o \in Ops, EndOpDone(o) PROVE TypeOK'
  BY <1>0, <1>7 DEF EndOpDone
<1>8. CASE WriteLog
  BY <1>0, <1>8 DEF WriteLog
<1>9. CASE WriteHead
  BY <1>0, <1>9 DEF WriteHead
<1>10. CASE InstallTrans
  BY <1>0, <1>10 DEF InstallTrans
<1>11. CASE EraseHead
  BY <1>0, <1>11 DEF EraseHead
<1>12. CASE ReadHead
  BY <1>0, <1>12 DEF ReadHead
<1>13. CASE Reinstall
  BY <1>0, <1>13 DEF Reinstall
<1>14. CASE ClearHead
  BY <1>0, <1>14 DEF ClearHead
<1>15. CASE Crash
  <2>1. wrote' \in [Ops -> SUBSET Blocks] /\ dirty' \in SUBSET Blocks
    BY <1>15 DEF Crash
  <2>2. lh' \in Seq(Blocks)
    BY <1>15 DEF Crash
  <2> QED
    BY <1>0, <1>15, <2>1, <2>2 DEF Crash
<1>16. ASSUME NEW b \in Blocks, Evict(b) PROVE TypeOK'
  BY <1>0, <1>16 DEF Evict
<1> QED
  BY <1>1, <1>2, <1>3, <1>4, <1>5, <1>6, <1>7, <1>8, <1>9, <1>10, <1>11,
     <1>12, <1>13, <1>14, <1>15, <1>16 DEF Next, Op

(* A commit excludes operations in progress and other commits, and while   *)
(* the log is recovered nobody runs.                                       *)
LEMMA ControlStep ==
  ASSUME IndInv, [Next]_vars
  PROVE  ControlInv'
<1> USE DEF ControlInv, CommitAlone, Committers, InProgress, CommitPhases,
            Booting, Running
<1> USE DEF memvars, bufvars, opvars, ctlvars, diskvars, Woken
<1>0. TypeOK /\ ControlInv /\ OutstandingCounts
  BY DEF IndInv
<1>a. ASSUME NEW o \in Ops, pc[o] \in {"active", "logging"}, outstanding <= 1
      PROVE  InProgress = {o} /\ outstanding = 1
  <2>1. IsFiniteSet(InProgress)
    BY FS_Subset, LogAssumption DEF LogAssumption, InProgress
  <2>2. Cardinality({o}) = 1 /\ IsFiniteSet({o})
    BY FS_Singleton
  <2>3. {o} \in SUBSET InProgress
    BY <1>a
  <2>4. Cardinality({o}) <= Cardinality(InProgress)
    BY <2>1, <2>3, FS_Subset
  <2>5. outstanding = 1 /\ Cardinality({o}) = Cardinality(InProgress)
    BY <2>4, <2>2, <1>0, <1>a DEF OutstandingCounts, TypeOK
  <2> QED
    BY <2>1, <2>3, <2>5, FS_Subset
<1>b. CASE UNCHANGED vars
  BY <1>0, <1>b DEF vars
<1>1. ASSUME NEW o \in Ops, BeginOpSleeps(o) PROVE ControlInv'
  BY <1>0, <1>1 DEF BeginOpSleeps, TypeOK
<1>2. ASSUME NEW o \in Ops, BeginOp(o) PROVE ControlInv'
  BY <1>0, <1>2 DEF BeginOp, TypeOK
<1>3. ASSUME NEW o \in Ops, NEW b \in Blocks, NEW v \in Vals, LogWrite(o, b, v)
      PROVE ControlInv'
  BY <1>0, <1>3 DEF LogWrite, Panic, TypeOK
<1>4. ASSUME NEW o \in Ops, LogAppend(o) PROVE ControlInv'
  BY <1>0, <1>4 DEF LogAppend, TypeOK
<1>5. ASSUME NEW o \in Ops, EndOp(o) PROVE ControlInv'
  BY <1>0, <1>5 DEF EndOp, Panic, TypeOK
<1>6. ASSUME NEW o \in Ops, EndOpCommits(o) PROVE ControlInv'
  <2>1. InProgress = {o}
    BY <1>6, <1>a, <1>0 DEF EndOpCommits
  <2> QED
    BY <1>0, <1>6, <2>1 DEF EndOpCommits, TypeOK
<1>7. ASSUME NEW o \in Ops, EndOpDone(o) PROVE ControlInv'
  <2>1. Committers = {o} /\ InProgress = {}
    BY <1>0, <1>7 DEF EndOpDone
  <2>2. Committers' = {} /\ InProgress' = {}
    BY <1>0, <1>7, <2>1 DEF EndOpDone, TypeOK
  <2> QED
    BY <1>0, <1>7, <2>2 DEF EndOpDone
<1>8. CASE Commit
  BY <1>0, <1>8 DEF Commit, WriteLog, WriteHead, InstallTrans, EraseHead
<1>9. CASE Recover
  BY <1>0, <1>9 DEF Recover, ReadHead, Reinstall, ClearHead
<1>10. CASE Crash
  BY <1>0, <1>10 DEF Crash
<1>11. ASSUME NEW b \in Blocks, Evict(b) PROVE ControlInv'
  BY <1>0, <1>11 DEF Evict
<1> QED
  BY <1>b, <1>1, <1>2, <1>3, <1>4, <1>5, <1>6, <1>7, <1>8, <1>9, <1>10, <1>11
  DEF Next, Op, Commit, Recover

(* log.outstanding counts the operations in progress.                      *)
LEMMA OutstandingStep ==
  ASSUME IndInv, [Next]_vars
  PROVE  OutstandingCounts'
<1> USE DEF OutstandingCounts, InProgress
<1> USE DEF memvars, bufvars, opvars, ctlvars, diskvars, Woken
<1>0. TypeOK /\ ControlInv /\ OutstandingCounts
  BY DEF IndInv
<1>a. IsFiniteSet(InProgress)
  BY FS_Subset, LogAssumption DEF LogAssumption
<1>b. CASE UNCHANGED vars
  BY <1>0, <1>b DEF vars
<1>1. ASSUME NEW o \in Ops, BeginOpSleeps(o) PROVE OutstandingCounts'
  <2>1. InProgress' = InProgress
    BY <1>0, <1>1 DEF BeginOpSleeps, TypeOK
  <2> QED
    BY <2>1, <1>0, <1>1 DEF BeginOpSleeps
<1>2. ASSUME NEW o \in Ops, BeginOp(o) PROVE OutstandingCounts'
  <2>1. InProgress' = InProgress \cup {o} /\ o \notin InProgress
    BY <1>0, <1>2 DEF BeginOp, TypeOK
  <2> QED
    BY <2>1, <1>a, <1>0, <1>2, FS_AddElement DEF BeginOp, TypeOK
<1>3. ASSUME NEW o \in Ops, NEW b \in Blocks, NEW v \in Vals, LogWrite(o, b, v)
      PROVE OutstandingCounts'
  <2>1. InProgress' = InProgress
    BY <1>0, <1>3 DEF LogWrite, Panic, TypeOK
  <2> QED
    BY <2>1, <1>0, <1>3 DEF LogWrite, Panic
<1>4. ASSUME NEW o \in Ops, LogAppend(o) PROVE OutstandingCounts'
  <2>1. InProgress' = InProgress
    BY <1>0, <1>4 DEF LogAppend, TypeOK
  <2> QED
    BY <2>1, <1>0, <1>4 DEF LogAppend
<1>5. ASSUME NEW o \in Ops, EndOp(o) PROVE OutstandingCounts'
  <2>1. ~committing /\ o \in InProgress
    BY <1>0, <1>5 DEF EndOp, ControlInv, CommitAlone
  <2>2. InProgress' = InProgress \ {o}
    BY <1>0, <1>5, <2>1 DEF EndOp, TypeOK
  <2>3. Cardinality(InProgress') = Cardinality(InProgress) - 1
    BY <2>1, <2>2, <1>a, FS_RemoveElement
  <2> QED
    BY <2>1, <2>3, <1>0, <1>5 DEF EndOp, TypeOK
<1>6. ASSUME NEW o \in Ops, EndOpCommits(o) PROVE OutstandingCounts'
  <2>1. o \in InProgress
    BY <1>6 DEF EndOpCommits
  <2>2. InProgress' = InProgress \ {o}
    BY <1>0, <1>6 DEF EndOpCommits, TypeOK
  <2>3. Cardinality(InProgress') = Cardinality(InProgress) - 1
    BY <2>1, <2>2, <1>a, FS_RemoveElement
  <2> QED
    BY <2>1, <2>3, <1>0, <1>6 DEF EndOpCommits, TypeOK
<1>7. ASSUME NEW o \in Ops, EndOpDone(o) PROVE OutstandingCounts'
  <2>1. InProgress' = InProgress
    BY <1>0, <1>7 DEF EndOpDone, TypeOK
  <2> QED
    BY <2>1, <1>0, <1>7 DEF EndOpDone
<1>8. CASE Commit
  BY <1>0, <1>8 DEF Commit, WriteLog, WriteHead, InstallTrans, EraseHead
<1>9. CASE Recover
  BY <1>0, <1>9 DEF Recover, ReadHead, Reinstall, ClearHead
<1>10. CASE Crash
  <2>1. InProgress' = {}
    BY <1>10 DEF Crash
  <2> QED
    BY <2>1, <1>10, FS_EmptySet DEF Crash
<1>11. ASSUME NEW b \in Blocks, Evict(b) PROVE OutstandingCounts'
  BY <1>0, <1>11 DEF Evict
<1> QED
  BY <1>b, <1>1, <1>2, <1>3, <1>4, <1>5, <1>6, <1>7, <1>8, <1>9, <1>10, <1>11
  DEF Next, Op, Commit, Recover

(* Whoever sleeps in begin_op() has somebody who will wake him: were       *)
(* nobody left, the log would be empty and there would be room.            *)
LEMMA SleeperStep ==
  ASSUME IndInv, [Next]_vars
  PROVE  SleeperHasWaker'
<1> USE DEF SleeperHasWaker
<1> USE DEF memvars, bufvars, opvars, ctlvars, diskvars, Woken
<1>0. TypeOK /\ ControlInv /\ OutstandingCounts /\ SleeperHasWaker /\ HeadInv
  BY DEF IndInv, DataInv
<1>b. CASE UNCHANGED vars
  BY <1>0, <1>b DEF vars
<1>1. ASSUME NEW o \in Ops, BeginOpSleeps(o) PROVE SleeperHasWaker'
  <2>1. CASE ~committing /\ outstanding = 0
    <3>1. phase = "none"
      BY <1>0, <1>1, <2>1 DEF BeginOpSleeps, Running, Booting, ControlInv,
         CommitPhases, TypeOK, Phases
    <3>2. Len(lh) = 0
      BY <3>1, <2>1, <1>0 DEF HeadInv
    <3> QED
      BY <3>2, <2>1, <1>1, LogAssumption DEF BeginOpSleeps, RoomForOp, LogAssumption
  <2>2. CASE committing \/ outstanding # 0
    BY <1>0, <1>1, <2>2 DEF BeginOpSleeps, TypeOK
  <2> QED
    BY <2>1, <2>2
<1>2. ASSUME NEW o \in Ops, BeginOp(o) PROVE SleeperHasWaker'
  BY <1>0, <1>2 DEF BeginOp, TypeOK
<1>3. ASSUME NEW o \in Ops, NEW b \in Blocks, NEW v \in Vals, LogWrite(o, b, v)
      PROVE SleeperHasWaker'
  BY <1>0, <1>3 DEF LogWrite, Panic, TypeOK
<1>4. ASSUME NEW o \in Ops, LogAppend(o) PROVE SleeperHasWaker'
  BY <1>0, <1>4 DEF LogAppend, TypeOK
<1>5. ASSUME NEW o \in Ops, EndOp(o) PROVE SleeperHasWaker'
  BY <1>0, <1>5 DEF EndOp, Panic, TypeOK
<1>6. ASSUME NEW o \in Ops, EndOpCommits(o) PROVE SleeperHasWaker'
  BY <1>0, <1>6 DEF EndOpCommits
<1>7. ASSUME NEW o \in Ops, EndOpDone(o) PROVE SleeperHasWaker'
  BY <1>0, <1>7 DEF EndOpDone, TypeOK
<1>8. CASE Commit
  BY <1>0, <1>8 DEF Commit, WriteLog, WriteHead, InstallTrans, EraseHead
<1>9. CASE Recover
  BY <1>0, <1>9 DEF Recover, ReadHead, Reinstall, ClearHead
<1>10. CASE Crash
  BY <1>10 DEF Crash
<1>11. ASSUME NEW b \in Blocks, Evict(b) PROVE SleeperHasWaker'
  BY <1>0, <1>11 DEF Evict
<1> QED
  BY <1>b, <1>1, <1>2, <1>3, <1>4, <1>5, <1>6, <1>7, <1>8, <1>9, <1>10, <1>11
  DEF Next, Op, Commit, Recover

LEMMA CreditsFinite ==
  ASSUME NEW S \in SUBSET (Ops \X (1 .. MAXOPBLOCKS))
  PROVE  IsFiniteSet(S) /\ Cardinality(S) \in Nat
<1>1. IsFiniteSet(1 .. MAXOPBLOCKS)
  BY FS_Interval, LogAssumption DEF LogAssumption
<1>2. IsFiniteSet(Ops \X (1 .. MAXOPBLOCKS))
  BY <1>1, FS_Product, LogAssumption DEF LogAssumption
<1> QED
  BY <1>2, FS_Subset, FS_CardinalityType

(* A step that adds no credit and no block keeps the space invariant.      *)
LEMMA FewerCredits ==
  ASSUME IndInv, Credits' \subseteq Credits, Len(lh') <= Len(lh), Len(lh') \in Nat
  PROVE  Len(lh') + Cardinality(Credits') <= LOGSIZE
<1>1. Credits \in SUBSET (Ops \X (1 .. MAXOPBLOCKS))
  BY DEF Credits
<1>2. IsFiniteSet(Credits) /\ Cardinality(Credits) \in Nat
  BY <1>1, CreditsFinite
<1>3. Cardinality(Credits') <= Cardinality(Credits) /\ Cardinality(Credits') \in Nat
  BY <1>2, FS_Subset, FS_CardinalityType
<1>4. Len(lh) \in Nat /\ Len(lh) + Cardinality(Credits) <= LOGSIZE /\ LOGSIZE \in Nat
  BY LogAssumption DEF IndInv, TypeOK, SpaceInv, LogAssumption
<1> QED
  BY <1>2, <1>3, <1>4

(* The reservations of begin_op() cover every block that is ever logged.   *)
LEMMA SpaceStep ==
  ASSUME IndInv, [Next]_vars
  PROVE  SpaceInv'
<1> USE DEF memvars, bufvars, opvars, ctlvars, diskvars, Woken, InProgress
<1> USE LogAssumption DEF LogAssumption
<1>0. TypeOK /\ ControlInv /\ OutstandingCounts /\ SpaceInv
  BY DEF IndInv
<1>t. Len(lh) \in Nat /\ Len(head) \in Nat
  BY <1>0 DEF TypeOK
<1>n. ASSUME InProgress = {} PROVE Credits = {}
  BY <1>n DEF Credits
<1>c. Len(lh) <= LOGSIZE
  <2>1. Credits \in SUBSET (Ops \X (1 .. MAXOPBLOCKS))
    BY DEF Credits
  <2> QED
    BY <2>1, CreditsFinite, <1>0, <1>t DEF SpaceInv
<1>p. ASSUME NEW n \in Nat, n <= LOGSIZE PROVE n + Cardinality({}) <= LOGSIZE
  BY <1>p, FS_EmptySet
<1>b. CASE UNCHANGED vars
  BY <1>0, <1>b DEF vars, SpaceInv, Credits, Logged
<1>1. ASSUME NEW o \in Ops, BeginOpSleeps(o) PROVE SpaceInv'
  <2>1. InProgress' = InProgress /\ wrote' = wrote /\ lh' = lh /\ head' = head
    BY <1>0, <1>1 DEF BeginOpSleeps, TypeOK
  <2>2. Credits' = Credits
    BY <2>1 DEF Credits
  <2>3. \A q \in InProgress : pc'[q] = pc[q] /\ blk'[q] = blk[q]
    BY <1>0, <1>1 DEF BeginOpSleeps, TypeOK
  <2> QED
    <3>1. ASSUME NEW q \in InProgress' PROVE q \in InProgress /\ wrote'[q] = wrote[q]
                                            /\ pc'[q] = pc[q] /\ blk'[q] = blk[q]
      BY <2>1, <2>3, <3>1
    <3> HIDE DEF InProgress
    <3> QED
      BY ZenonT(60), <1>0, <2>1, <2>2, <3>1 DEF SpaceInv, Logged
<1>2. ASSUME NEW o \in Ops, BeginOp(o) PROVE SpaceInv'
  <2>1. InProgress' = InProgress \cup {o} /\ o \notin InProgress
    BY <1>0, <1>2 DEF BeginOp, TypeOK
  <2>2. IsFiniteSet(InProgress)
    BY FS_Subset
  <2>3. IsFiniteSet(InProgress') /\ Cardinality(InProgress') = outstanding + 1
    BY <2>1, <2>2, <1>0, FS_AddElement DEF OutstandingCounts
  <2>4. IsFiniteSet(1 .. MAXOPBLOCKS) /\ Cardinality(1 .. MAXOPBLOCKS) = MAXOPBLOCKS
    BY FS_Interval
  <2>5. /\ IsFiniteSet(InProgress' \X (1 .. MAXOPBLOCKS))
        /\ Cardinality(InProgress' \X (1 .. MAXOPBLOCKS))
             = (outstanding + 1) * MAXOPBLOCKS
    <3>1. Cardinality(InProgress') * Cardinality(1 .. MAXOPBLOCKS)
            = (outstanding + 1) * MAXOPBLOCKS
      BY <2>3, <2>4
    <3> HIDE DEF InProgress
    <3> QED
      BY <2>3, <2>4, <3>1, FS_Product
  <2>6. Credits' \in SUBSET (InProgress' \X (1 .. MAXOPBLOCKS))
    BY DEF Credits
  <2>7. Cardinality(Credits') <= (outstanding + 1) * MAXOPBLOCKS
    BY <2>5, <2>6, FS_Subset
  <2>8. Cardinality(Credits') \in Nat
    BY <2>5, <2>6, FS_Subset, FS_CardinalityType
  <2>9. Len(lh) + (outstanding + 1) * MAXOPBLOCKS <= LOGSIZE
    BY <1>2 DEF BeginOp, RoomForOp
  <2>10. Len(lh') + Cardinality(Credits') <= LOGSIZE
    <3>1. lh' = lh /\ (outstanding + 1) * MAXOPBLOCKS \in Int
      BY <1>0, <1>2 DEF BeginOp, TypeOK
    <3> QED
      BY <3>1, <2>7, <2>8, <2>9, <1>t
  <2>11. \A q \in InProgress : pc'[q] = pc[q] /\ wrote'[q] = wrote[q]
    BY <2>1, <1>0, <1>2 DEF BeginOp, TypeOK
  <2>12. wrote'[o] = {} /\ pc'[o] = "active" /\ blk' = blk /\ lh' = lh /\ head' = head
    BY <1>0, <1>2 DEF BeginOp, TypeOK
  <2>13. IsFiniteSet({}) /\ Cardinality({}) = 0
    BY FS_EmptySet
  <2>14. ASSUME NEW q \in InProgress'
         PROVE  /\ IsFiniteSet(wrote'[q]) /\ wrote'[q] \subseteq Logged'
                /\ Cardinality(wrote'[q]) <= OpBlocks
                /\ pc'[q] = "logging" =>
                     Cardinality(wrote'[q] \cup {blk'[q]}) <= OpBlocks
    <3>1. CASE q = o
      BY <3>1, <2>12, <2>13
    <3>2. CASE q # o
      <4>1. q \in InProgress
        BY <3>2, <2>1, <2>14
      <4> HIDE DEF InProgress
      <4> QED
        BY <4>1, <2>11, <2>12, <1>0 DEF SpaceInv, Logged
    <3> QED
      BY <3>1, <3>2
  <2> HIDE DEF InProgress
  <2> QED
    BY <1>0, <2>10, <2>12, <2>14 DEF SpaceInv
<1>3. ASSUME NEW o \in Ops, NEW b \in Blocks, NEW v \in Vals, LogWrite(o, b, v)
      PROVE SpaceInv'
  <2>1. CASE Refused
    BY <1>0, <1>3, <2>1 DEF LogWrite, Panic, SpaceInv, Credits, Logged
  <2>2. CASE ~Refused
    <3>1. InProgress' = InProgress /\ wrote' = wrote /\ lh' = lh /\ head' = head
      BY <1>0, <1>3, <2>2 DEF LogWrite, TypeOK
    <3>2. Credits' = Credits
      BY <3>1 DEF Credits
    <3>3. \A q \in Ops \ {o} : pc'[q] = pc[q] /\ blk'[q] = blk[q]
      BY <1>0, <1>3, <2>2 DEF LogWrite, TypeOK
    <3>4. blk'[o] = b /\ Cardinality(wrote[o] \cup {b}) <= OpBlocks
      BY <1>0, <1>3, <2>2 DEF LogWrite, TypeOK
    <3>5. ASSUME NEW q \in InProgress'
          PROVE  /\ IsFiniteSet(wrote'[q]) /\ wrote'[q] \subseteq Logged'
                 /\ Cardinality(wrote'[q]) <= OpBlocks
                 /\ pc'[q] = "logging" =>
                      Cardinality(wrote'[q] \cup {blk'[q]}) <= OpBlocks
      <4>1. q \in InProgress /\ wrote'[q] = wrote[q] /\ Logged' = Logged
        BY <3>1, <3>5 DEF Logged
      <4>2. CASE q = o
        <5> HIDE DEF InProgress
        <5> QED
          BY <1>0, <3>4, <4>1, <4>2 DEF SpaceInv
      <4>3. CASE q # o
        <5>1. pc'[q] = pc[q] /\ blk'[q] = blk[q]
          BY <3>3, <4>3, <3>5
        <5> HIDE DEF InProgress
        <5> QED
          BY <1>0, <4>1, <5>1 DEF SpaceInv
      <4> QED
        BY <4>2, <4>3
    <3> HIDE DEF InProgress
    <3> QED
      BY <1>0, <3>1, <3>2, <3>5 DEF SpaceInv
  <2> QED
    BY <2>1, <2>2
<1>5. ASSUME NEW o \in Ops, EndOp(o) PROVE SpaceInv'
  <2>1. CASE committing
    BY <1>0, <1>5, <2>1 DEF EndOp, Panic, SpaceInv, Credits, Logged
  <2>2. CASE ~committing
    <3>1. /\ InProgress' \subseteq InProgress /\ wrote' = wrote /\ lh' = lh
          /\ head' = head /\ blk' = blk
      BY <1>0, <1>5, <2>2 DEF EndOp, TypeOK
    <3>2. Credits' \subseteq Credits
      BY <3>1 DEF Credits
    <3>3. Len(lh') + Cardinality(Credits') <= LOGSIZE
      BY <3>1, <3>2, <1>t, FewerCredits
    <3>4. \A q \in InProgress' : pc'[q] = pc[q]
      BY <1>0, <1>5, <2>2 DEF EndOp, TypeOK
    <3> QED
      BY ZenonT(60), <1>0, <3>1, <3>3, <3>4 DEF SpaceInv, Logged
  <2> QED
    BY <2>1, <2>2
<1>6. ASSUME NEW o \in Ops, EndOpCommits(o) PROVE SpaceInv'
  <2>1. /\ InProgress' \subseteq InProgress /\ wrote' = wrote /\ lh' = lh
        /\ head' = head /\ blk' = blk
    BY <1>0, <1>6 DEF EndOpCommits, TypeOK
  <2>2. Credits' \subseteq Credits
    BY <2>1 DEF Credits
  <2>3. Len(lh') + Cardinality(Credits') <= LOGSIZE
    BY <2>1, <2>2, <1>t, FewerCredits
  <2>4. \A q \in InProgress' : pc'[q] = pc[q]
    BY <1>0, <1>6 DEF EndOpCommits, TypeOK
  <2> QED
    BY ZenonT(60), <1>0, <2>1, <2>3, <2>4 DEF SpaceInv, Logged
<1>7. ASSUME NEW o \in Ops, EndOpDone(o) PROVE SpaceInv'
  <2>1. /\ InProgress' = InProgress /\ wrote' = wrote /\ lh' = lh
        /\ head' = head /\ blk' = blk
    BY <1>0, <1>7 DEF EndOpDone, TypeOK
  <2>2. Credits' = Credits
    BY <2>1 DEF Credits
  <2>3. \A q \in InProgress' : pc'[q] = pc[q]
    BY <1>0, <1>7 DEF EndOpDone, TypeOK
  <2> QED
    BY SMTT(30), <1>0, <2>1, <2>2, <2>3 DEF SpaceInv, Logged
<1>8. CASE WriteLog \/ InstallTrans \/ Reinstall
  <2>1. /\ lh' = lh /\ head' = head /\ pc' = pc /\ blk' = blk /\ wrote' = wrote
    BY <1>8 DEF WriteLog, InstallTrans, Reinstall
  <2> QED
    BY <1>0, <2>1 DEF SpaceInv, Credits, Logged
<1>9. CASE WriteHead
  BY <1>0, <1>c, <1>9 DEF WriteHead, SpaceInv, Credits, Logged
<1>10. CASE EraseHead \/ ReadHead \/ ClearHead \/ Crash
  <2>1. InProgress' = {}
    BY <1>0, <1>10 DEF EraseHead, ReadHead, ClearHead, Crash, ControlInv, Booting,
       CommitAlone, CommitPhases
  <2>2. Credits' = {}
    BY <2>1 DEF Credits
  <2>3. lh' \in {<<>>, head} /\ head' \in {<<>>, head}
    BY <1>10 DEF EraseHead, ReadHead, ClearHead, Crash
  <2>4. Len(lh') \in Nat /\ Len(lh') <= LOGSIZE /\ Len(head') <= LOGSIZE
    BY <1>0, <2>3, <1>t DEF SpaceInv
  <2>5. Len(lh') + Cardinality(Credits') <= LOGSIZE
    BY <2>2, <2>4, FS_EmptySet
  <2> QED
    BY <2>1, <2>4, <2>5 DEF SpaceInv
<1>11. ASSUME NEW b \in Blocks, Evict(b) PROVE SpaceInv'
  BY <1>0, <1>11 DEF Evict, SpaceInv, Credits, Logged
<1>4. ASSUME NEW o \in Ops, LogAppend(o) PROVE SpaceInv'
  <2> DEFINE n == Cardinality(wrote[o])  new == wrote[o] \cup {blk[o]}
  <2>1. /\ o \in InProgress /\ IsFiniteSet(wrote[o]) /\ wrote[o] \subseteq Logged
        /\ Cardinality(new) <= OpBlocks
    BY <1>0, <1>4 DEF LogAppend, SpaceInv
  <2>2. /\ IsFiniteSet(new) /\ n \in Nat
        /\ Cardinality(new) = IF blk[o] \in wrote[o] THEN n ELSE n + 1
    BY <2>1, FS_AddElement, FS_CardinalityType
  <2>3. /\ InProgress' = InProgress /\ head' = head /\ blk' = blk
        /\ wrote'[o] = new /\ pc'[o] = "active"
        /\ \A q \in Ops \ {o} : pc'[q] = pc[q] /\ wrote'[q] = wrote[q]
    BY <1>0, <1>4 DEF LogAppend, TypeOK
  <2>4. Credits' \subseteq Credits
    <3> SUFFICES ASSUME NEW c \in Credits' PROVE c \in Credits
      OBVIOUS
    <3>1. c \in Ops \X (1 .. MAXOPBLOCKS) /\ c[1] \in InProgress
          /\ c[2] > Cardinality(wrote'[c[1]])
      BY <2>3 DEF Credits
    <3>2. CASE c[1] = o
      BY <3>1, <3>2, <2>2, <2>3 DEF Credits
    <3>3. CASE c[1] # o
      BY <3>1, <3>3, <2>3 DEF Credits
    <3> QED
      BY <3>2, <3>3
  <2>5. Logged \subseteq Logged' /\ blk[o] \in Logged'
    <3>1. CASE blk[o] \in Logged
      BY <1>4, <3>1 DEF LogAppend, Logged
    <3>2. CASE blk[o] \notin Logged
      <4>1. lh' = Append(lh, blk[o]) /\ lh \in Seq(Blocks) /\ blk[o] \in Blocks
        BY <1>0, <1>4, <3>2 DEF LogAppend, TypeOK
      <4>2. /\ Len(lh') = Len(lh) + 1 /\ lh'[Len(lh) + 1] = blk[o]
            /\ \A i \in 1 .. Len(lh) : lh'[i] = lh[i]
        BY <4>1
      <4> QED
        BY <4>2, <1>t DEF Logged
    <3> QED
      BY <3>1, <3>2
  <2>6. Len(lh') + Cardinality(Credits') <= LOGSIZE
    <3>1. CASE blk[o] \in Logged
      BY <3>1, <1>4, <1>t, <2>4, FewerCredits DEF LogAppend
    <3>2. CASE blk[o] \notin Logged
      <4>1. Len(lh') = Len(lh) + 1
        BY <1>0, <1>4, <3>2 DEF LogAppend, TypeOK
      <4>2. Cardinality(new) = n + 1 /\ n + 1 <= MAXOPBLOCKS
        BY <2>1, <2>2, <3>2
      <4>3. <<o, n + 1>> \in Credits
        BY <2>1, <2>2, <4>2 DEF Credits
      <4>4. <<o, n + 1>> \notin Credits'
        <5>1. Cardinality(wrote'[o]) = n + 1
          BY <2>3, <4>2
        <5>2. <<o, n + 1>>[1] = o /\ <<o, n + 1>>[2] = n + 1
          OBVIOUS
        <5> HIDE DEF n, new, InProgress
        <5> QED
          BY <5>1, <5>2, <2>2 DEF Credits
      <4>5. Credits \in SUBSET (Ops \X (1 .. MAXOPBLOCKS))
        BY DEF Credits
      <4>6. IsFiniteSet(Credits) /\ Cardinality(Credits) \in Nat
        BY <4>5, CreditsFinite
      <4>7. /\ IsFiniteSet(Credits \ {<<o, n + 1>>})
            /\ Cardinality(Credits \ {<<o, n + 1>>}) = Cardinality(Credits) - 1
        BY <4>3, <4>6, FS_RemoveElement
      <4>8. Credits' \in SUBSET (Credits \ {<<o, n + 1>>})
        BY <2>4, <4>4
      <4>9. Cardinality(Credits') <= Cardinality(Credits) - 1
            /\ Cardinality(Credits') \in Nat
        BY <4>7, <4>8, FS_Subset, FS_CardinalityType
      <4> QED
        BY <4>1, <4>6, <4>9, <1>0, <1>t DEF SpaceInv
    <3> QED
      BY <3>1, <3>2
  <2>7. ASSUME NEW q \in InProgress'
        PROVE  /\ IsFiniteSet(wrote'[q]) /\ wrote'[q] \subseteq Logged'
               /\ Cardinality(wrote'[q]) <= OpBlocks
               /\ pc'[q] = "logging" =>
                    Cardinality(wrote'[q] \cup {blk'[q]}) <= OpBlocks
    <3>1. CASE q = o
      BY <3>1, <2>1, <2>2, <2>3, <2>5
    <3>2. CASE q # o
      <4>1. q \in InProgress /\ wrote'[q] = wrote[q] /\ pc'[q] = pc[q] /\ blk' = blk
        BY <3>2, <2>3, <2>7
      <4> QED
        BY <4>1, <2>5, <1>0 DEF SpaceInv
    <3> QED
      BY <3>1, <3>2
  <2> QED
    BY <2>3, <2>6, <2>7, <1>0 DEF SpaceInv
<1> QED
  BY <1>b, <1>1, <1>2, <1>3, <1>4, <1>5, <1>6, <1>7, <1>8, <1>9, <1>10, <1>11
  DEF Next, Op

(* What holds while an operation is in progress, and how long the log is.  *)
LEMMA InProgressFacts ==
  ASSUME IndInv, ~Booting, NEW o \in Ops, pc[o] \in {"active", "logging"}
  PROVE  ~committing /\ phase = "none" /\ outstanding \in Nat \ {0}
<1>1. o \in InProgress
  BY DEF InProgress
<1>2. ~committing
  BY <1>1 DEF IndInv, ControlInv, CommitAlone
<1>3. phase = "none"
  BY <1>2 DEF IndInv, TypeOK, ControlInv, Phases, CommitPhases, Booting
<1>4. IsFiniteSet(InProgress)
  BY FS_Subset, LogAssumption DEF InProgress, LogAssumption
<1>5. Cardinality(InProgress) # 0
  BY <1>1, <1>4, FS_EmptySet
<1> QED
  BY <1>2, <1>3, <1>5 DEF IndInv, TypeOK, OutstandingCounts

LEMMA LogLength ==
  ASSUME IndInv
  PROVE  Len(lh) \in Nat /\ Len(lh) <= LOGSIZE /\ LOGSIZE \in Nat
<1>1. Credits \in SUBSET (Ops \X (1 .. MAXOPBLOCKS))
  BY DEF Credits
<1>2. Cardinality(Credits) \in Nat
  BY <1>1, CreditsFinite
<1>3. Len(lh) \in Nat
  BY DEF IndInv, TypeOK
<1> QED
  BY <1>2, <1>3, LogAssumption DEF IndInv, SpaceInv, LogAssumption

(* The header of the log, in memory and on disk.                           *)
LEMMA HeadStep ==
  ASSUME IndInv, [Next]_vars
  PROVE  HeadInv'
<1> USE DEF memvars, bufvars, opvars, ctlvars, diskvars, Woken, Running
<1>0. TypeOK /\ ControlInv /\ HeadInv
  BY DEF IndInv, DataInv
<1> USE DEF HeadInv, Injective
<1>b. CASE UNCHANGED vars
  BY <1>0, <1>b DEF vars
<1>1. ASSUME NEW o \in Ops,
             BeginOpSleeps(o) \/ \E b \in Blocks, v \in Vals : LogWrite(o, b, v)
      PROVE  HeadInv'
  <2>1. UNCHANGED <<lh, head, phase, outstanding>>
    BY <1>1 DEF BeginOpSleeps, LogWrite, Panic
  <2> QED
    BY <1>0, <2>1
<1>2. ASSUME NEW o \in Ops, BeginOp(o) PROVE HeadInv'
  <2>1. UNCHANGED <<lh, head, phase>> /\ outstanding' # 0
    BY <1>0, <1>2 DEF BeginOp, TypeOK
  <2> QED
    BY <1>0, <2>1
<1>3. ASSUME NEW o \in Ops, LogAppend(o) PROVE HeadInv'
  <2>1. phase = "none" /\ outstanding # 0 /\ UNCHANGED <<phase, outstanding, head>>
    BY <1>3, InProgressFacts DEF LogAppend
  <2>2. CASE blk[o] \in Logged
    BY <1>0, <1>3, <2>1, <2>2 DEF LogAppend
  <2>3. CASE blk[o] \notin Logged
    <3>1. lh' = Append(lh, blk[o]) /\ lh \in Seq(Blocks) /\ blk[o] \in Blocks
      BY <1>0, <1>3, <2>3 DEF LogAppend, TypeOK
    <3>2. /\ Len(lh') = Len(lh) + 1 /\ lh'[Len(lh) + 1] = blk[o]
          /\ \A i \in 1 .. Len(lh) : lh'[i] = lh[i] /\ lh[i] # blk[o]
          /\ Len(lh) \in Nat
      BY <3>1, <2>3 DEF Logged
    <3>3. Injective(lh')
      BY <1>0, <3>2
    <3> QED
      BY <1>0, <2>1, <3>3
  <2> QED
    BY <2>2, <2>3
<1>4. ASSUME NEW o \in Ops, EndOp(o) PROVE HeadInv'
  <2>1. UNCHANGED <<lh, head, phase>> /\ (outstanding' = 0 => outstanding = 0)
    BY <1>0, <1>4, InProgressFacts DEF EndOp, Panic, TypeOK
  <2> QED
    BY <1>0, <2>1
<1>5. ASSUME NEW o \in Ops, EndOpCommits(o) PROVE HeadInv'
  <2>1. phase = "none"
    BY <1>5, InProgressFacts DEF EndOpCommits
  <2> QED
    BY <1>0, <1>5, <2>1 DEF EndOpCommits
<1>6. ASSUME NEW o \in Ops, EndOpDone(o) PROVE HeadInv'
  BY <1>0, <1>6 DEF EndOpDone
<1>7. CASE Commit
  BY <1>0, <1>7 DEF Commit, WriteLog, WriteHead, InstallTrans, EraseHead
<1>8. CASE Recover
  BY <1>0, <1>8 DEF Recover, ReadHead, Reinstall, ClearHead
<1>9. CASE Crash
  BY <1>0, <1>9 DEF Crash
<1>10. ASSUME NEW b \in Blocks, Evict(b) PROVE HeadInv'
  BY <1>0, <1>10 DEF Evict
<1> QED
  BY <1>b, <1>1, <1>2, <1>3, <1>4, <1>5, <1>6, <1>7, <1>8, <1>9, <1>10
  DEF Next, Op, Commit, Recover

(* A block is pinned from log_write() to its installation.                 *)
LEMMA PinStep ==
  ASSUME IndInv, [Next]_vars
  PROVE  PinInv'
<1> USE DEF memvars, bufvars, opvars, ctlvars, diskvars, Running
<1>0. TypeOK /\ ControlInv /\ HeadInv /\ PinInv
  BY DEF IndInv, DataInv
<1> USE DEF PinInv, Booting
<1>b. CASE UNCHANGED vars
  BY <1>0, <1>b DEF vars, Logged
<1>1. ASSUME NEW o \in Ops,
             \/ BeginOpSleeps(o) \/ BeginOp(o) \/ EndOp(o)
             \/ \E b \in Blocks, v \in Vals : LogWrite(o, b, v)
      PROVE  PinInv'
  <2>1. UNCHANGED <<lh, dirty, phase, tail>>
    BY <1>1 DEF BeginOpSleeps, BeginOp, EndOp, LogWrite, Panic
  <2> QED
    BY <1>0, <2>1 DEF Logged
<1>2. ASSUME NEW o \in Ops, LogAppend(o) PROVE PinInv'
  <2>1. phase = "none" /\ phase' = "none" /\ dirty' = dirty \cup {blk[o]}
    BY <1>2, InProgressFacts DEF LogAppend
  <2>2. Logged' = Logged \cup {blk[o]}
    <3>1. CASE blk[o] \in Logged
      BY <1>2, <3>1 DEF LogAppend, Logged
    <3>2. CASE blk[o] \notin Logged
      <4>1. lh' = Append(lh, blk[o]) /\ lh \in Seq(Blocks) /\ blk[o] \in Blocks
        BY <1>0, <1>2, <3>2 DEF LogAppend, TypeOK
      <4>2. /\ Len(lh') = Len(lh) + 1 /\ lh'[Len(lh) + 1] = blk[o]
            /\ \A i \in 1 .. Len(lh) : lh'[i] = lh[i]
            /\ Len(lh) \in Nat
        BY <4>1
      <4> QED
        BY <4>2 DEF Logged
    <3> QED
      BY <3>1, <3>2
  <2> QED
    BY <1>0, <2>1, <2>2
<1>3. ASSUME NEW o \in Ops, EndOpCommits(o) PROVE PinInv'
  <2>1. phase = "none" /\ UNCHANGED <<lh, dirty>>
    BY <1>3, InProgressFacts DEF EndOpCommits
  <2>2. lh = <<>> => Logged = {}
    BY DEF Logged
  <2> QED
    BY <1>0, <1>3, <2>1, <2>2 DEF EndOpCommits, Logged
<1>4. ASSUME NEW o \in Ops, EndOpDone(o) PROVE PinInv'
  <2>1. Logged' = {} /\ dirty' = {}
    BY <1>0, <1>4 DEF EndOpDone, HeadInv, Logged
  <2> QED
    BY <1>4, <2>1 DEF EndOpDone
<1>5. CASE WriteLog
  BY <1>0, <1>5 DEF WriteLog, Logged
<1>6. CASE WriteHead
  BY <1>0, <1>6 DEF WriteHead, Logged
<1>7. CASE InstallTrans
  <2>1. /\ lh' = lh /\ tail' = tail + 1 /\ dirty' = dirty \ {lh[tail + 1]}
        /\ dirty = {lh[i] : i \in tail + 1 .. Len(lh)}
        /\ tail \in Nat /\ Len(lh) \in Nat /\ tail < Len(lh)
        /\ phase' = IF tail' = Len(lh) THEN "erase" ELSE "install"
    BY <1>0, <1>7 DEF InstallTrans, TypeOK
  <2>2. \A i \in tail + 2 .. Len(lh) : lh[i] # lh[tail + 1]
    <3> SUFFICES ASSUME NEW i \in tail + 2 .. Len(lh) PROVE lh[i] # lh[tail + 1]
      OBVIOUS
    <3>1. i \in 1 .. Len(lh) /\ tail + 1 \in 1 .. Len(lh) /\ i # tail + 1
      BY <2>1
    <3> QED
      BY <3>1, <1>0 DEF HeadInv, Injective
  <2>4. \A i \in tail + 2 .. Len(lh) : i \in tail + 1 .. Len(lh)
    BY <2>1
  <2>5. \A i \in tail + 1 .. Len(lh) : i = tail + 1 \/ i \in tail + 2 .. Len(lh)
    BY <2>1
  <2>3. dirty' = {lh[i] : i \in tail + 2 .. Len(lh)}
    BY <2>1, <2>2, <2>4, <2>5
  <2>6. phase' = "erase" => dirty' = {}
    <3>1. tail + 1 = Len(lh) => tail + 2 .. Len(lh) = {}
      BY <2>1
    <3> QED
      BY <2>1, <2>3, <3>1
  <2>7. tail' + 1 = tail + 2 /\ phase' \in {"install", "erase"}
    BY <2>1
  <2>8. dirty' = {lh'[i] : i \in tail' + 1 .. Len(lh')}
    BY <2>1, <2>3, <2>7
  <2> QED
    BY <2>6, <2>7, <2>8
<1>8. CASE EraseHead
  BY <1>0, <1>8 DEF EraseHead
<1>9. CASE ReadHead \/ Reinstall
  BY <1>0, <1>9 DEF ReadHead, Reinstall
<1>10. CASE ClearHead
  BY <1>0, <1>10 DEF ClearHead, Logged
<1>11. CASE Crash
  BY <1>11 DEF Crash
<1>12. ASSUME NEW b \in Blocks, Evict(b) PROVE PinInv'
  BY <1>0, <1>12 DEF Evict, Logged
<1> QED
  BY <1>b, <1>1, <1>2, <1>3, <1>4, <1>5, <1>6, <1>7, <1>8, <1>9, <1>10, <1>11, <1>12
  DEF Next, Op

(* Unpinned buffers, the log area and the home blocks agree.               *)
LEMMA CopyStep ==
  ASSUME IndInv, [Next]_vars
  PROVE  CopyInv'
<1> USE DEF memvars, bufvars, opvars, ctlvars, diskvars, Running
<1>0. TypeOK /\ ControlInv /\ HeadInv /\ PinInv /\ CopyInv
  BY DEF IndInv, DataInv
<1>t. Len(lh) \in Nat /\ Len(lh) <= LOGSIZE /\ LOGSIZE \in Nat /\ tail \in Nat
  BY <1>0, LogLength DEF TypeOK
<1>u. \A i \in 1 .. Len(lh) : lh[i] \in Blocks
  BY <1>0 DEF TypeOK
<1>b. CASE UNCHANGED vars
  BY <1>0, <1>b DEF vars, CopyInv
<1>1. ASSUME NEW o \in Ops, BeginOpSleeps(o) \/ BeginOp(o) \/ EndOp(o)
      PROVE  CopyInv'
  <2>1. UNCHANGED <<lh, bufvars, blk, phase, tail, diskvars>>
    BY <1>1 DEF BeginOpSleeps, BeginOp, EndOp, Panic
  <2>2. \A q \in Ops : pc[q] = "logging" => pc'[q] = "logging"
    BY <1>0, <1>1 DEF BeginOpSleeps, BeginOp, EndOp, Panic, Woken, TypeOK
  <2> QED
    BY <1>0, <2>1, <2>2 DEF CopyInv
<1>2. ASSUME NEW o \in Ops, NEW b \in Blocks, NEW v \in Vals, LogWrite(o, b, v)
      PROVE  CopyInv'
  <2>1. CASE Refused
    BY <1>0, <1>2, <2>1 DEF LogWrite, Panic, CopyInv
  <2>2. CASE ~Refused
    <3>1. phase = "none" /\ phase' = "none"
      BY <1>2, <2>2, InProgressFacts DEF LogWrite
    <3>2. /\ UNCHANGED <<dirty, home>> /\ pc'[o] = "logging" /\ blk'[o] = b
          /\ \A c \in Blocks \ {b} : cache'[c] = cache[c]
          /\ \A q \in Ops \ {o} : pc'[q] = pc[q] /\ blk'[q] = blk[q]
          /\ pc[o] = "active"
      BY <1>0, <1>2, <2>2 DEF LogWrite, TypeOK
    <3>3. ASSUME NEW c \in Blocks \ dirty',
                 \A q \in Ops : pc'[q] = "logging" => blk'[q] # c
          PROVE  cache'[c] = home'[c]
      BY <1>0, <3>2, <3>3 DEF CopyInv
    <3> QED
      BY <3>1, <3>3 DEF CopyInv
  <2> QED
    BY <2>1, <2>2
<1>3. ASSUME NEW o \in Ops, LogAppend(o) PROVE CopyInv'
  <2>1. phase = "none" /\ phase' = "none"
    BY <1>3, InProgressFacts DEF LogAppend
  <2>2. /\ UNCHANGED <<cache, home, blk>> /\ dirty' = dirty \cup {blk[o]}
        /\ \A q \in Ops \ {o} : pc'[q] = pc[q]
    BY <1>0, <1>3 DEF LogAppend, TypeOK
  <2>3. ASSUME NEW c \in Blocks \ dirty',
               \A q \in Ops : pc'[q] = "logging" => blk'[q] # c
        PROVE  cache'[c] = home'[c]
    BY <1>0, <2>2, <2>3 DEF CopyInv
  <2> QED
    BY <2>1, <2>3 DEF CopyInv
<1>4. ASSUME NEW o \in Ops, EndOpCommits(o) PROVE CopyInv'
  <2>1. /\ UNCHANGED <<lh, bufvars, blk, diskvars>> /\ tail' = 0
        /\ phase' = IF lh = <<>> THEN "done" ELSE "writelog"
    BY <1>4 DEF EndOpCommits
  <2>2. \A q \in Ops : pc[q] = "logging" => pc'[q] = "logging"
    BY <1>0, <1>4 DEF EndOpCommits, TypeOK
  <2>3. lh # <<>> => 0 < Len(lh)
    BY <1>0, <1>t DEF TypeOK
  <2> QED
    BY <1>0, <2>1, <2>2, <2>3 DEF CopyInv
<1>5. ASSUME NEW o \in Ops, EndOpDone(o) PROVE CopyInv'
  <2>1. UNCHANGED <<lh, bufvars, blk, diskvars>> /\ phase' = "none"
    BY <1>5 DEF EndOpDone
  <2>2. \A q \in Ops : pc[q] = "logging" => pc'[q] = "logging"
    BY <1>0, <1>5 DEF EndOpDone, Woken, TypeOK
  <2> QED
    BY <1>0, <2>1, <2>2 DEF CopyInv
<1>6. CASE WriteLog
  <2>1. /\ UNCHANGED <<lh, bufvars, opvars, home>>
        /\ tail' = tail + 1 /\ tail < Len(lh) /\ phase = "writelog"
        /\ phase' = IF tail' = Len(lh) THEN "head" ELSE "writelog"
    BY <1>6 DEF WriteLog
  <2>2. tail + 1 \in 1 .. LOGSIZE
    BY <2>1, <1>t
  <2>3. /\ logArea'[tail + 1] = cache[lh[tail + 1]]
        /\ \A i \in 1 .. tail : logArea'[i] = logArea[i]
    BY <1>0, <1>6, <2>1, <2>2, <1>t DEF WriteLog, TypeOK
  <2>4. \A i \in 1 .. tail + 1 : i = tail + 1 \/ i \in 1 .. tail
    BY <1>t
  <2>5. \A i \in 1 .. tail' : logArea'[i] = cache'[lh'[i]]
    BY <1>0, <2>1, <2>3, <2>4 DEF CopyInv
  <2>6. phase' = "writelog" => tail' < Len(lh')
    BY <2>1, <1>t
  <2>7. phase' = "head" => lh' # <<>> /\ tail' = Len(lh')
    BY <2>1, <1>t
  <2> QED
    BY <1>0, <2>1, <2>5, <2>6, <2>7 DEF CopyInv
<1>7. CASE WriteHead
  <2>1. lh # <<>> => 0 < Len(lh)
    BY <1>0, <1>t DEF TypeOK
  <2> QED
    BY <1>0, <1>7, <2>1 DEF WriteHead, CopyInv
<1>8. CASE InstallTrans
  <2> DEFINE x == lh[tail + 1]
  <2>1. /\ UNCHANGED <<lh, opvars, logArea>>
        /\ tail' = tail + 1 /\ tail < Len(lh) /\ phase = "install"
        /\ phase' = IF tail' = Len(lh) THEN "erase" ELSE "install"
        /\ tail + 1 \in 1 .. Len(lh)
    BY <1>8, <1>t DEF InstallTrans
  <2>2. logArea[tail + 1] = cache[x] /\ x \in Blocks
    BY <1>0, <1>u, <2>1 DEF CopyInv
  <2>3. /\ cache' = cache /\ dirty' = dirty \ {x}
        /\ home' = [home EXCEPT ![x] = cache[x]]
    BY <1>0, <1>8, <2>2 DEF InstallTrans, TypeOK
  <2>4. ASSUME NEW c \in Blocks \ dirty',
               \A q \in Ops : pc'[q] = "logging" => blk'[q] # c
        PROVE  cache'[c] = home'[c]
    <3>1. CASE c = x
      BY <1>0, <2>3, <3>1 DEF TypeOK
    <3>2. CASE c # x
      BY <1>0, <2>1, <2>3, <2>4, <3>2 DEF CopyInv, TypeOK
    <3> QED
      BY <3>1, <3>2
  <2>5. phase' = "install" => tail' < Len(lh')
    BY <2>1, <1>t
  <2> QED
    BY <1>0, <2>1, <2>3, <2>4, <2>5 DEF CopyInv
<1>9. CASE EraseHead
  BY <1>0, <1>9 DEF EraseHead, CopyInv
<1>10. CASE ReadHead
  <2>1. /\ UNCHANGED <<bufvars, opvars, home, logArea>> /\ lh' = head /\ tail' = 0
        /\ phase' = IF head = <<>> THEN "clear" ELSE "reinstall"
    BY <1>10 DEF ReadHead
  <2>2. head # <<>> => 0 < Len(head)
    BY <1>0 DEF TypeOK
  <2>3. head = <<>> => 1 .. Len(lh') = {}
    BY <2>1
  <2> QED
    BY <1>0, <2>1, <2>2, <2>3 DEF CopyInv
<1>11. CASE Reinstall
  <2> DEFINE x == lh[tail + 1]
  <2>1. /\ UNCHANGED <<lh, dirty, opvars, logArea>>
        /\ tail' = tail + 1 /\ tail < Len(lh) /\ phase = "reinstall"
        /\ phase' = IF tail' = Len(lh) THEN "clear" ELSE "reinstall"
        /\ tail + 1 \in 1 .. Len(lh)
    BY <1>11, <1>t DEF Reinstall
  <2>2. /\ x \in Blocks
        /\ cache' = [cache EXCEPT ![x] = logArea[tail + 1]]
        /\ home' = [home EXCEPT ![x] = logArea[tail + 1]]
    BY <1>11, <1>u, <2>1 DEF Reinstall
  <2>3. ASSUME NEW c \in Blocks \ dirty',
               \A q \in Ops : pc'[q] = "logging" => blk'[q] # c
        PROVE  cache'[c] = home'[c]
    BY <1>0, <2>1, <2>2, <2>3 DEF CopyInv, TypeOK
  <2>4. ASSUME NEW i \in 1 .. tail + 1 PROVE logArea'[i] = home'[lh'[i]]
    <3>1. CASE i = tail + 1
      BY <1>0, <2>1, <2>2, <3>1 DEF TypeOK
    <3>2. CASE i # tail + 1
      <4>1. i \in 1 .. tail /\ i \in 1 .. Len(lh)
        BY <3>2, <2>1, <1>t
      <4>2. lh[i] # x
        BY <3>2, <4>1, <2>1, <1>0 DEF HeadInv, Injective
      <4>3. logArea[i] = home[lh[i]] /\ lh[i] \in Blocks
        BY <4>1, <2>1, <1>0, <1>u DEF CopyInv
      <4> QED
        BY <4>2, <4>3, <2>1, <2>2, <1>0 DEF TypeOK
    <3> QED
      BY <3>1, <3>2
  <2>5. /\ phase' = "reinstall" => tail' < Len(lh')
        /\ phase' = "clear" => tail + 1 = Len(lh')
    BY <2>1, <1>t
  <2> QED
    BY <1>0, <2>1, <2>3, <2>4, <2>5 DEF CopyInv
<1>12. CASE ClearHead
  BY <1>0, <1>12 DEF ClearHead, CopyInv
<1>13. CASE Crash
  BY <1>0, <1>13 DEF Crash, CopyInv
<1>14. ASSUME NEW b \in Blocks, Evict(b) PROVE CopyInv'
  <2>1. cache' = cache
    BY <1>0, <1>14 DEF Evict, CopyInv, TypeOK
  <2> QED
    BY <1>0, <1>14, <2>1 DEF Evict, CopyInv
<1> QED
  BY <1>b, <1>1, <1>2, <1>3, <1>4, <1>5, <1>6, <1>7, <1>8, <1>9, <1>10, <1>11,
     <1>12, <1>13, <1>14
  DEF Next, Op

-----------------------------------------------------------------------------
(* Every state of the log satisfies the inductive invariant.               *)
THEOREM Invariance == Spec => []IndInv
<1>1. Init => IndInv
  BY InitInv
<1>2. IndInv /\ [Next]_vars => IndInv'
  BY TypeStep, ControlStep, OutstandingStep, SleeperStep, SpaceStep, HeadStep,
     PinStep, CopyStep
  DEF IndInv, DataInv
<1> QED
  BY <1>1, <1>2, PTL DEF Spec

(* The types of the variables, through every crash and recovery.           *)
THEOREM TypeCorrect == Spec => []TypeOK
<1>1. IndInv => TypeOK
  BY DEF IndInv
<1> QED
  BY <1>1, Invariance, PTL

(* Nobody is in an operation while the log is committed, and one process   *)
(* commits: commit() runs without locks, and is alone.                     *)
THEOREM CommitExcludes == Spec => []CommitAlone
<1>1. IndInv => CommitAlone
  BY DEF IndInv, ControlInv
<1> QED
  BY <1>1, Invariance, PTL

(* The counter end_op() and begin_op() keep is exact.                      *)
THEOREM CounterExact == Spec => []OutstandingCounts
<1>1. IndInv => OutstandingCounts
  BY DEF IndInv
<1> QED
  BY <1>1, Invariance, PTL

(* begin_op() loses no wakeup: a sleeper has a commit or an operation in   *)
(* progress to wait for.                                                   *)
THEOREM NoLostWakeup == Spec => []SleeperHasWaker
<1>1. IndInv => SleeperHasWaker
  BY DEF IndInv
<1> QED
  BY <1>1, Invariance, PTL

-----------------------------------------------------------------------------
(* An operation that has not used up its reservation leaves room.          *)
LEMMA RoomLeft ==
  ASSUME IndInv, NEW o \in InProgress, NEW k \in 1 .. MAXOPBLOCKS,
         Cardinality(wrote[o]) < k
  PROVE  Len(lh) + (MAXOPBLOCKS - k + 1) <= LOGSIZE
<1> USE LogAssumption DEF LogAssumption
<1> DEFINE mine == {o} \X (k .. MAXOPBLOCKS)
<1>1. o \in Ops /\ Cardinality(wrote[o]) \in Nat
  BY FS_CardinalityType DEF IndInv, SpaceInv, InProgress
<1>2. mine \in SUBSET Credits
  <2> SUFFICES ASSUME NEW c \in mine PROVE c \in Credits
    OBVIOUS
  <2>1. c[1] = o /\ c[2] \in k .. MAXOPBLOCKS /\ c = <<c[1], c[2]>>
    OBVIOUS
  <2>2. c[2] \in 1 .. MAXOPBLOCKS /\ c[2] > Cardinality(wrote[o])
    BY <1>1, <2>1
  <2> QED
    BY <1>1, <2>1, <2>2 DEF Credits
<1>3. Credits \in SUBSET (Ops \X (1 .. MAXOPBLOCKS))
  BY DEF Credits
<1>4. IsFiniteSet(Credits) /\ Cardinality(Credits) \in Nat
  BY <1>3, CreditsFinite
<1>5. /\ IsFiniteSet(k .. MAXOPBLOCKS)
      /\ Cardinality(k .. MAXOPBLOCKS) = MAXOPBLOCKS - k + 1
  BY FS_Interval
<1>6. IsFiniteSet({o}) /\ Cardinality({o}) = 1
  BY FS_Singleton
<1>7. Cardinality(mine) = Cardinality({o}) * Cardinality(k .. MAXOPBLOCKS)
  BY <1>5, <1>6, FS_Product
<1>8. Cardinality(mine) = MAXOPBLOCKS - k + 1
  BY <1>5, <1>6, <1>7
<1>9. Cardinality(mine) <= Cardinality(Credits)
  BY <1>2, <1>4, FS_Subset
<1>10. Len(lh) + Cardinality(Credits) <= LOGSIZE /\ Len(lh) \in Nat
  BY DEF IndInv, SpaceInv, TypeOK
<1> HIDE DEF mine
<1> QED
  BY <1>4, <1>8, <1>9, <1>10

(* write_log() stays inside the log on disk when an operation writes one   *)
(* block less than MAXOPBLOCKS: the block the header takes is paid for.    *)
THEOREM LogNeverOverruns ==
  ASSUME OpBlocks <= MAXOPBLOCKS - 1
  PROVE  Spec => []LogFits
<1> DEFINE HeadFits == head # <<>> => Len(head) <= LogBlocks - 1
<1>1. Init => LogFits /\ HeadFits
  BY DEF Init, LogFits
<1>2. ASSUME IndInv, IndInv', [Next]_vars, LogFits, HeadFits
      PROVE  LogFits' /\ HeadFits'
  <2> USE <1>2 DEF LogFits, memvars, diskvars
  <2>1. ASSUME NEW o \in Ops, LogAppend(o) PROVE LogFits' /\ HeadFits'
    <3>1. o \in InProgress' /\ head' = head
      BY <2>1 DEF LogAppend, InProgress, IndInv, TypeOK
    <3>2. Cardinality(wrote'[o]) <= OpBlocks /\ IsFiniteSet(wrote'[o])
      BY <3>1 DEF IndInv, SpaceInv
    <3>3. Cardinality(wrote'[o]) < MAXOPBLOCKS /\ MAXOPBLOCKS \in 1 .. MAXOPBLOCKS
      BY <3>2, FS_CardinalityType, LogAssumption DEF LogAssumption
    <3>4. Len(lh') + 1 <= LOGSIZE
      <4>1. <<o, MAXOPBLOCKS>> \in Credits'
        BY <3>1, <3>3 DEF Credits, InProgress
      <4>2. Credits' \in SUBSET (Ops \X (1 .. MAXOPBLOCKS))
        BY DEF Credits
      <4>3. IsFiniteSet(Credits') /\ Cardinality(Credits') \in Nat
        BY <4>2, CreditsFinite
      <4>4. Cardinality(Credits') # 0
        BY <4>1, <4>3, FS_EmptySet
      <4>5. Len(lh') + Cardinality(Credits') <= LOGSIZE /\ Len(lh') \in Nat
        BY DEF IndInv, SpaceInv, TypeOK
      <4> QED
        BY <4>3, <4>4, <4>5, LogAssumption DEF LogAssumption
    <3> QED
      BY <3>1, <3>4, LogAssumption DEF LogAssumption, IndInv, TypeOK
  <2>2. ASSUME lh' \in {lh, head, <<>>}, head' \in {lh, head, <<>>}
        PROVE  LogFits' /\ HeadFits'
    BY <2>2
  <2>3. CASE UNCHANGED vars
    BY <2>2, <2>3 DEF vars
  <2>4. ASSUME NEW o \in Ops,
               \/ BeginOpSleeps(o) \/ BeginOp(o) \/ EndOp(o)
               \/ EndOpCommits(o) \/ EndOpDone(o)
               \/ \E b \in Blocks, v \in Vals : LogWrite(o, b, v)
        PROVE  LogFits' /\ HeadFits'
    BY <2>2, <2>4 DEF BeginOpSleeps, BeginOp, EndOp, EndOpCommits, EndOpDone,
       LogWrite, Panic
  <2>5. CASE Commit \/ Recover \/ Crash
    BY <2>2, <2>5 DEF Commit, WriteLog, WriteHead, InstallTrans, EraseHead,
       Recover, ReadHead, Reinstall, ClearHead, Crash
  <2>6. ASSUME NEW b \in Blocks, Evict(b) PROVE LogFits' /\ HeadFits'
    BY <2>2, <2>6 DEF Evict
  <2> QED
    BY <2>1, <2>3, <2>4, <2>5, <2>6 DEF Next, Op, Commit, Recover
<1> QED
  BY <1>1, <1>2, Invariance, PTL DEF Spec

(* Operations that write two blocks less than MAXOPBLOCKS never panic in   *)
(* log_write(): its test also refuses a block that would be absorbed, and  *)
(* it leaves the header's block out.                                       *)
THEOREM SmallOpsNeverPanic ==
  ASSUME OpBlocks <= MAXOPBLOCKS - 2
  PROVE  Spec => []NoPanic
<1>1. Init => NoPanic
  BY DEF Init, NoPanic
<1>2. ASSUME IndInv, [Next]_vars, NoPanic PROVE NoPanic'
  <2> USE <1>2 DEF NoPanic, ctlvars
  <2>1. ASSUME NEW o \in Ops, NEW b \in Blocks, NEW v \in Vals, LogWrite(o, b, v)
        PROVE  NoPanic'
    <3>1. o \in InProgress /\ outstanding \in Nat \ {0}
      BY <2>1, InProgressFacts DEF LogWrite, Running, InProgress
    <3>2. Cardinality(wrote[o]) <= OpBlocks /\ Cardinality(wrote[o]) \in Nat
      BY <3>1, FS_CardinalityType DEF IndInv, SpaceInv
    <3>3. MAXOPBLOCKS - 1 \in 1 .. MAXOPBLOCKS /\ Cardinality(wrote[o]) < MAXOPBLOCKS - 1
      BY <3>2, LogAssumption DEF LogAssumption
    <3>4. Len(lh) + 2 <= LOGSIZE
      <4>1. Len(lh) + (MAXOPBLOCKS - (MAXOPBLOCKS - 1) + 1) <= LOGSIZE
        BY <3>1, <3>3, RoomLeft
      <4> QED
        BY <4>1, LogAssumption DEF LogAssumption
    <3>5. ~Refused
      BY <3>1, <3>4, LogAssumption DEF Refused, TooBig, LogAssumption, IndInv, TypeOK
    <3> QED
      BY <2>1, <3>5 DEF LogWrite
  <2>2. ASSUME NEW o \in Ops, EndOp(o) PROVE NoPanic'
    BY <2>2, InProgressFacts DEF EndOp, Running
  <2>3. ASSUME NEW o \in Ops,
               \/ BeginOpSleeps(o) \/ BeginOp(o) \/ LogAppend(o)
               \/ EndOpCommits(o) \/ EndOpDone(o)
        PROVE  NoPanic'
    BY <2>3 DEF BeginOpSleeps, BeginOp, LogAppend, EndOpCommits, EndOpDone
  <2>4. CASE UNCHANGED vars \/ Commit \/ Recover \/ Crash
    BY <2>4 DEF vars, Commit, WriteLog, WriteHead, InstallTrans, EraseHead,
       Recover, ReadHead, Reinstall, ClearHead, Crash
  <2>5. ASSUME NEW b \in Blocks, Evict(b) PROVE NoPanic'
    BY <2>5 DEF Evict
  <2> QED
    BY <2>1, <2>2, <2>3, <2>4, <2>5 DEF Next, Op, Commit, Recover
<1> QED
  BY <1>1, <1>2, Invariance, PTL DEF Spec

-----------------------------------------------------------------------------
(* What recovery makes of a block.                                         *)
LEMMA RecoveredLogged ==
  ASSUME Injective(head), NEW i \in 1 .. Len(head), head[i] \in Blocks
  PROVE  Recovered[head[i]] = logArea[i]
<1> DEFINE j == CHOOSE k \in 1 .. Len(head) : head[k] = head[i]
<1>1. j \in 1 .. Len(head) /\ head[j] = head[i]
  OBVIOUS
<1>2. j = i
  BY <1>1 DEF Injective
<1>3. Recovered[head[i]] = logArea[j]
  BY DEF Recovered
<1> QED
  BY <1>2, <1>3

LEMMA RecoveredHome ==
  ASSUME NEW b \in Blocks, \A i \in 1 .. Len(head) : head[i] # b
  PROVE  Recovered[b] = home[b]
BY DEF Recovered

(* Without a header recovery changes nothing; and when the header covers   *)
(* every difference, the disk stands for c.                                *)
LEMMA RecoveredNothing ==
  ASSUME head = <<>>, home \in [Blocks -> Vals]
  PROVE  Recovered = home
<1>1. 1 .. Len(head) = {}
  OBVIOUS
<1> QED
  BY <1>1 DEF Recovered

LEMMA RecoveredIs ==
  ASSUME NEW c \in [Blocks -> Vals], Injective(head), head \in Seq(Blocks),
         \A i \in 1 .. Len(head) : logArea[i] = c[head[i]],
         \A b \in Blocks : (\A i \in 1 .. Len(head) : head[i] # b) => home[b] = c[b]
  PROVE  Recovered = c
<1> SUFFICES ASSUME NEW b \in Blocks PROVE Recovered[b] = c[b]
  BY DEF Recovered
<1>1. CASE \E i \in 1 .. Len(head) : head[i] = b
  <2>1. PICK i \in 1 .. Len(head) : head[i] = b
    BY <1>1
  <2> QED
    BY <2>1, RecoveredLogged
<1>2. CASE \A i \in 1 .. Len(head) : head[i] # b
  BY <1>2, RecoveredHome
<1> QED
  BY <1>1, <1>2

(* What the operations see, as AtomicLog's volatile.                       *)
Seen == IF Booting THEN Recovered ELSE cache

LEMMA RefineInit == Init => Atomic!AInit
<1> SUFFICES ASSUME Init PROVE Atomic!AInit
  OBVIOUS
<1>1. Recovered = home /\ home \in [Blocks -> Vals]
  BY RecoveredNothing DEF Init
<1>2. InProgress = {} /\ cache = home /\ ~Booting
  BY DEF Init, InProgress, Booting
<1> QED
  BY <1>1, <1>2 DEF Atomic!AInit

(* Each step of the log is a step of AtomicLog, or changes nothing there.  *)
LEMMA RefineStep ==
  ASSUME IndInv, IndInv', [Next]_vars
  PROVE  [Atomic!ANext]_(Atomic!avars)
<1> USE DEF memvars, bufvars, opvars, ctlvars, diskvars, Running
<1>0. TypeOK /\ ControlInv /\ HeadInv /\ PinInv /\ CopyInv
  BY DEF IndInv, DataInv
<1>0p. TypeOK' /\ ControlInv' /\ HeadInv' /\ PinInv' /\ CopyInv'
  BY DEF IndInv, DataInv
<1>u. \A i \in 1 .. Len(lh) : lh[i] \in Blocks
  BY <1>0 DEF TypeOK
<1>s. ASSUME Seen' = Seen, Recovered' = Recovered, InProgress' = InProgress
      PROVE  [Atomic!ANext]_(Atomic!avars)
  BY <1>s DEF Atomic!avars, Seen
<1>d. ASSUME head' = head, logArea' = logArea, home' = home
      PROVE  Recovered' = Recovered
  BY <1>d DEF Recovered
<1>e. ASSUME head' = head, head = <<>>, home' = home PROVE Recovered' = Recovered
  BY <1>e, RecoveredNothing, <1>0 DEF TypeOK, Recovered
<1>p. ASSUME phase' = phase PROVE Booting' = Booting
  BY <1>p DEF Booting
<1>b. CASE UNCHANGED vars
  <2>1. UNCHANGED <<Booting, Recovered, cache, InProgress>>
    BY <1>b DEF vars, Booting, Recovered, InProgress
  <2> QED
    BY <2>1, <1>s DEF Seen
<1>panic. ASSUME Panic PROVE [Atomic!ANext]_(Atomic!avars)
  <2>1. UNCHANGED <<Booting, Recovered, cache, InProgress>>
    BY <1>panic DEF Panic, Booting, Recovered, InProgress
  <2> QED
    BY <2>1, <1>s DEF Seen
<1>1. ASSUME NEW o \in Ops, BeginOpSleeps(o) PROVE [Atomic!ANext]_(Atomic!avars)
  <2>1. InProgress' = InProgress
    BY <1>0, <1>1 DEF BeginOpSleeps, InProgress, TypeOK
  <2>2. cache' = cache /\ Booting' = Booting /\ Recovered' = Recovered
    BY <1>1, <1>d, <1>p DEF BeginOpSleeps
  <2> QED
    BY <2>1, <2>2, <1>s DEF Seen
<1>2. ASSUME NEW o \in Ops, BeginOp(o) PROVE [Atomic!ANext]_(Atomic!avars)
  <2>1. InProgress' = InProgress \cup {o} /\ o \notin InProgress
    BY <1>0, <1>2 DEF BeginOp, InProgress, TypeOK
  <2>2. cache' = cache /\ Booting' = Booting /\ Recovered' = Recovered
    BY <1>2, <1>d, <1>p DEF BeginOp
  <2>3. Atomic!ABegin(o)
    BY <2>1, <2>2 DEF Atomic!ABegin
  <2> QED
    BY <2>3 DEF Atomic!ANext
<1>3. ASSUME NEW o \in Ops, NEW b \in Blocks, NEW v \in Vals, LogWrite(o, b, v)
      PROVE [Atomic!ANext]_(Atomic!avars)
  <2>1. CASE Refused
    BY <1>3, <2>1, <1>panic DEF LogWrite
  <2>2. CASE ~Refused
    <3>1. InProgress' = InProgress /\ o \in InProgress
      BY <1>0, <1>3, <2>2 DEF LogWrite, InProgress, TypeOK
    <3>2. /\ cache' = [cache EXCEPT ![b] = v]
          /\ ~Booting /\ ~Booting' /\ Recovered' = Recovered
      BY <1>3, <2>2, <1>d, <1>p DEF LogWrite
    <3>3. Atomic!AWrite(o)
      BY <3>1, <3>2 DEF Atomic!AWrite
    <3> QED
      BY <3>3 DEF Atomic!ANext
  <2> QED
    BY <2>1, <2>2
<1>4. ASSUME NEW o \in Ops, LogAppend(o) PROVE [Atomic!ANext]_(Atomic!avars)
  <2>1. InProgress' = InProgress
    BY <1>0, <1>4 DEF LogAppend, InProgress, TypeOK
  <2>2. cache' = cache /\ Booting' = Booting /\ Recovered' = Recovered
    BY <1>4, <1>d, <1>p DEF LogAppend
  <2> QED
    BY <2>1, <2>2, <1>s DEF Seen
<1>5. ASSUME NEW o \in Ops, EndOp(o) PROVE [Atomic!ANext]_(Atomic!avars)
  <2>1. CASE committing
    BY <1>5, <2>1, <1>panic DEF EndOp
  <2>2. CASE ~committing
    <3>1. InProgress' = InProgress \ {o} /\ o \in InProgress
      BY <1>0, <1>5, <2>2 DEF EndOp, InProgress, Woken, TypeOK
    <3>2. cache' = cache /\ Booting' = Booting /\ Recovered' = Recovered
      BY <1>5, <2>2, <1>d, <1>p DEF EndOp
    <3>3. Atomic!AEnd(o)
      BY <3>1, <3>2 DEF Atomic!AEnd
    <3> QED
      BY <3>3 DEF Atomic!ANext
  <2> QED
    BY <2>1, <2>2
<1>6. ASSUME NEW o \in Ops, EndOpCommits(o) PROVE [Atomic!ANext]_(Atomic!avars)
  <2>1. InProgress' = InProgress \ {o} /\ o \in InProgress
    BY <1>0, <1>6 DEF EndOpCommits, InProgress, TypeOK
  <2>2. cache' = cache /\ ~Booting /\ ~Booting' /\ Recovered' = Recovered
    BY <1>6, <1>d DEF EndOpCommits, Booting
  <2>3. Atomic!AEnd(o)
    BY <2>1, <2>2 DEF Atomic!AEnd
  <2> QED
    BY <2>3 DEF Atomic!ANext
<1>7. ASSUME NEW o \in Ops, EndOpDone(o) PROVE [Atomic!ANext]_(Atomic!avars)
  <2>1. InProgress' = InProgress
    BY <1>0, <1>7 DEF EndOpDone, InProgress, Woken, TypeOK
  <2>2. cache' = cache /\ ~Booting /\ ~Booting' /\ Recovered' = Recovered
    BY <1>7, <1>d DEF EndOpDone, Booting
  <2> QED
    BY <2>1, <2>2, <1>s DEF Seen
<1>8. CASE WriteLog
  <2>1. InProgress' = InProgress /\ cache' = cache /\ ~Booting /\ ~Booting'
    BY <1>8 DEF WriteLog, InProgress, Booting
  <2>2. Recovered' = Recovered
    BY <1>0, <1>8, <1>e DEF WriteLog, HeadInv
  <2> QED
    BY <2>1, <2>2, <1>s DEF Seen
<1>9. CASE WriteHead
  <2>1. InProgress' = InProgress /\ cache' = cache /\ ~Booting /\ ~Booting'
    BY <1>9 DEF WriteHead, InProgress, Booting
  <2>2. InProgress = {}
    BY <1>0, <1>9 DEF WriteHead, ControlInv, CommitAlone, CommitPhases
  <2>3. Recovered' = cache
    <3>1. head' = lh /\ logArea' = logArea /\ home' = home /\ dirty = Logged
      BY <1>0, <1>9 DEF WriteHead, PinInv
    <3>2. \A i \in 1 .. Len(lh) : logArea[i] = cache[lh[i]]
      BY <1>0, <1>9 DEF WriteHead, CopyInv
    <3>3. ASSUME NEW b \in Blocks, \A i \in 1 .. Len(lh) : lh[i] # b
          PROVE  home[b] = cache[b]
      BY <1>0, <2>2, <3>1, <3>3 DEF CopyInv, Logged, InProgress
    <3>4. ASSUME NEW b \in Blocks PROVE Recovered'[b] = cache[b]
      <4>1. CASE \E i \in 1 .. Len(lh) : lh[i] = b
        <5> DEFINE j == CHOOSE k \in 1 .. Len(lh) : lh[k] = b
        <5>1. j \in 1 .. Len(lh) /\ lh[j] = b
          BY <4>1
        <5>2. Recovered'[b] = logArea[j]
          BY <3>1, <4>1 DEF Recovered
        <5> QED
          BY <5>1, <5>2, <3>2
      <4>2. CASE \A i \in 1 .. Len(lh) : lh[i] # b
        BY <3>1, <3>3, <4>2 DEF Recovered
      <4> QED
        BY <4>1, <4>2
    <3> QED
      BY <3>4, <1>0 DEF Recovered, TypeOK
  <2>4. Atomic!ACommit
    BY <2>1, <2>2, <2>3 DEF Atomic!ACommit
  <2> QED
    BY <2>4 DEF Atomic!ANext
<1>10. CASE InstallTrans
  <2>1. /\ InProgress' = InProgress /\ ~Booting /\ ~Booting' /\ head' = head
        /\ logArea' = logArea /\ head = lh /\ tail + 1 \in 1 .. Len(lh)
    BY <1>0, <1>10 DEF InstallTrans, InProgress, Booting, HeadInv, TypeOK
  <2>2. logArea[tail + 1] = cache[lh[tail + 1]]
    BY <1>0, <1>10, <2>1 DEF InstallTrans, CopyInv
  <2>3. cache' = cache
    BY <1>0, <1>10, <2>2 DEF InstallTrans, TypeOK
  <2>4. home' = [home EXCEPT ![lh[tail + 1]] = logArea[tail + 1]]
    BY <1>10 DEF InstallTrans
  <2>5. \A b \in Blocks : (\A i \in 1 .. Len(head) : head[i] # b) => home'[b] = home[b]
    BY <2>1, <2>4, <1>0 DEF TypeOK
  <2>6. Recovered' = Recovered
    BY <2>1, <2>5 DEF Recovered
  <2> QED
    BY <2>1, <2>3, <2>6, <1>s DEF Seen
<1>11. CASE EraseHead
  <2>1. InProgress' = InProgress /\ cache' = cache /\ ~Booting /\ ~Booting'
    BY <1>11 DEF EraseHead, InProgress, Booting
  <2>2. head' = <<>> /\ home' = home /\ home \in [Blocks -> Vals]
    BY <1>0, <1>11 DEF EraseHead, TypeOK
  <2>3. Recovered' = home
    BY <2>2 DEF Recovered
  <2>4. InProgress = {} /\ dirty = {} /\ head = lh
    BY <1>0, <1>11 DEF EraseHead, ControlInv, CommitAlone, CommitPhases, PinInv, HeadInv
  <2>5. \A b \in Blocks : cache[b] = home[b]
    BY <1>0, <2>4 DEF CopyInv, InProgress
  <2>6. \A i \in 1 .. Len(head) : logArea[i] = home[head[i]]
    BY <1>0, <1>11, <2>4, <2>5, <1>u DEF EraseHead, CopyInv
  <2>7. Recovered = home
    BY <1>0, <2>2, <2>6, RecoveredIs DEF HeadInv, TypeOK
  <2> QED
    BY <2>1, <2>3, <2>7, <1>s DEF Seen
<1>12. CASE ReadHead
  <2>1. InProgress' = InProgress /\ Booting /\ Booting' /\ Recovered' = Recovered
    BY <1>12, <1>d DEF ReadHead, InProgress, Booting
  <2> QED
    BY <2>1, <1>s DEF Seen
<1>13. CASE Reinstall
  <2>1. /\ InProgress' = InProgress /\ Booting /\ Booting' /\ head' = head
        /\ logArea' = logArea /\ head = lh /\ tail + 1 \in 1 .. Len(lh)
    BY <1>0, <1>13 DEF Reinstall, InProgress, Booting, HeadInv, TypeOK
  <2>2. home' = [home EXCEPT ![lh[tail + 1]] = logArea[tail + 1]]
    BY <1>13 DEF Reinstall
  <2>3. \A b \in Blocks : (\A i \in 1 .. Len(head) : head[i] # b) => home'[b] = home[b]
    BY <2>1, <2>2, <1>0 DEF TypeOK
  <2>4. Recovered' = Recovered
    BY <2>1, <2>3 DEF Recovered
  <2> QED
    BY <2>1, <2>4, <1>s DEF Seen
<1>14. CASE ClearHead
  <2>1. /\ InProgress' = InProgress /\ Booting /\ ~Booting' /\ head' = <<>>
        /\ home' = home /\ cache' = cache /\ head = lh /\ home \in [Blocks -> Vals]
        /\ dirty = {} /\ \A o \in Ops : pc[o] = "idle"
    BY <1>0, <1>14 DEF ClearHead, InProgress, Booting, HeadInv, TypeOK, PinInv, ControlInv
  <2>2. cache = home
    BY <1>0, <2>1 DEF CopyInv, TypeOK
  <2>3. Recovered' = home
    BY <2>1 DEF Recovered
  <2>4. Recovered = home
    BY <1>0, <1>14, <2>1, RecoveredIs DEF ClearHead, CopyInv, HeadInv, TypeOK
  <2> QED
    BY <2>1, <2>2, <2>3, <2>4, <1>s DEF Seen
<1>15. CASE Crash
  <2>1. InProgress' = {} /\ Booting' /\ Recovered' = Recovered
    BY <1>15, <1>d DEF Crash, InProgress, Booting
  <2>2. Atomic!ACrash
    BY <2>1 DEF Atomic!ACrash
  <2> QED
    BY <2>2 DEF Atomic!ANext
<1>16. ASSUME NEW b \in Blocks, Evict(b) PROVE [Atomic!ANext]_(Atomic!avars)
  <2>1. cache' = cache
    BY <1>0, <1>16 DEF Evict, CopyInv, TypeOK
  <2>2. InProgress' = InProgress /\ Booting' = Booting /\ Recovered' = Recovered
    BY <1>16, <1>d, <1>p DEF Evict, InProgress
  <2> QED
    BY <2>1, <2>2, <1>s DEF Seen
<1> QED
  BY <1>b, <1>1, <1>2, <1>3, <1>4, <1>5, <1>6, <1>7, <1>8, <1>9, <1>10, <1>11,
     <1>12, <1>13, <1>14, <1>15, <1>16
  DEF Next, Op

(* The log is atomic: whatever a crash interrupts, what recovery leaves is *)
(* what the last commit wrote, all of it and nothing else.                 *)
THEOREM LogIsAtomic == Spec => AtomicSpec
<1>1. Init => Atomic!AInit
  BY RefineInit
<1>2. IndInv /\ IndInv' /\ [Next]_vars => [Atomic!ANext]_(Atomic!avars)
  BY RefineStep
<1> QED
  BY <1>1, <1>2, Invariance, PTL DEF Spec, AtomicSpec, Atomic!ASpec
=============================================================================
