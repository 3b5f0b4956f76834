----------------------------- MODULE MlfqQueues -----------------------------
(***************************************************************************)
(* The run queues of project01 (proc.c: mlfq[3], enqueue, movefront,       *)
(* dequeue, prboost, wakeup1, setPriority) as operators on a record k of   *)
(* the scheduling state, so that a handler is a composition of the calls   *)
(* it makes:                                                               *)
(*   k.mlfq       level -> sequence of processes, head first               *)
(*   k.state      p->state       k.qlevel  p->qlevel                       *)
(*   k.tq         p->tq          k.priority  p->priority                   *)
(*   k.schedlock  the global schedlock                                     *)
(* A sequence stands for the list linked through p->next.  It is exact as  *)
(* long as no process is linked twice, which QueuesExclusive states.       *)
(***************************************************************************)
EXTENDS MlfqState

CONSTANTS
  NPROC,      \* size of ptable.proc
  Priority0   \* initial priority, 3 in the code

Proc == 1 .. NPROC

(* Plausible bugs, each stated next to the definition it could be in, are  *)
(* marked `Mutant'.                                                        *)

(* The position after which enqueue(p, 2) links p: the walk starts AT the  *)
(* head and moves on while the next entry's priority is not larger.        *)
PrioPosition(s, prio, p) ==
  CHOOSE i \in 1 .. Len(s) :
    /\ i = Len(s) \/ prio[p] < prio[s[i + 1]]
    /\ \A j \in 1 .. i - 1 : prio[p] >= prio[s[j + 1]]

Enqueue(k, p, lev) ==
  LET s == k.mlfq[lev]
      linked == IF lev = 2 /\ s # <<>>
                THEN InsertAt(s, PrioPosition(s, k.priority, p) + 1, p)
                ELSE Append(s, p)
  IN  [k EXCEPT !.mlfq[lev] = linked, !.qlevel[p] = lev]

Movefront(k, p) ==
  [k EXCEPT !.mlfq[0] = <<p>> \o @, !.qlevel[p] = 0]

Dequeue(k, lev) == [k EXCEPT !.mlfq[lev] = Tail(@)]

Queued(k, p) == \E lev \in LevelsAndBefore : p \in Range(k.mlfq[lev])

(* Mutant: the boost drains L1 only.                                       *)
PrboostForgetsL2(k, r) ==
  LET k1 == [k EXCEPT !.mlfq[0] = @ \o k.mlfq[1], !.mlfq[1] = <<>>,
                      !.qlevel = [p \in Proc |->
                         IF p \in Range(k.mlfq[1]) THEN 0 ELSE @[p]]]
  IN  IF r = NoProc THEN k1
      ELSE [k1 EXCEPT !.priority[r] = Priority0, !.tq[r] = 1, !.qlevel[r] = -1]

(* Mutant: the boost moves the lists but not what p->qlevel says.          *)
PrboostKeepsLevels(k, r) ==
  LET k1 == [k EXCEPT !.mlfq = [lev \in LevelsAndBefore |->
                         CASE lev = 0 -> @[0] \o k.mlfq[1] \o k.mlfq[2]
                           [] lev \in {1, 2} -> <<>>
                           [] OTHER -> @[lev]]]
  IN  IF r = NoProc THEN k1
      ELSE [k1 EXCEPT !.priority[r] = Priority0, !.tq[r] = 1, !.qlevel[r] = -1]

(* prboost(): every queued process to L0; the running process r (if any)   *)
(* keeps the CPU and is prepared for the yield that follows.               *)
Prboost(k, r) ==
  LET lower == k.mlfq[1] \o k.mlfq[2]
      In(s) == {p \in Proc : p \in Range(s)}
      drained ==
        [k EXCEPT
          !.mlfq = [lev \in LevelsAndBefore |->
                      CASE lev = 0 -> @[0] \o lower
                        [] lev \in {1, 2} -> <<>>
                        [] OTHER -> @[lev]],
          !.tq = [p \in Proc |->
                    IF p \in In(k.mlfq[0] \o lower) THEN Quantum0 ELSE @[p]],
          !.priority = [p \in Proc |->
                          IF p \in In(lower) THEN Priority0 ELSE @[p]],
          !.qlevel = [p \in Proc |-> IF p \in In(lower) THEN 0 ELSE @[p]]]
  IN  CASE r = NoProc -> drained
        [] r # NoProc /\ k.schedlock ->
             Movefront([drained EXCEPT !.schedlock = FALSE], r)
        [] OTHER ->
             [drained EXCEPT !.priority[r] = Priority0, !.tq[r] = 1,
                             !.qlevel[r] = -1]

(* Mutant: as before the queues were introduced, a wakeup links nobody.    *)
Wakeup1NoEnqueue(k, ws) ==
  [k EXCEPT !.state = [p \in Proc |->
     IF p \in ws /\ @[p] = "SLEEPING" THEN "RUNNABLE" ELSE @[p]]]

(* wakeup1(): the sleepers ws of a channel, in table order.                *)
WakeOne(k, ws, p) ==
  IF p \in ws /\ k.state[p] = "SLEEPING"
  THEN Enqueue([k EXCEPT !.state[p] = "RUNNABLE"], p, k.qlevel[p])
  ELSE k

Wakeup1(k, ws) ==
  LET upto[p \in 0 .. NPROC] == IF p = 0 THEN k ELSE WakeOne(upto[p - 1], ws, p)
  IN  upto[NPROC]

(* Mutant: a demoted process keeps what is left of its quantum.            *)
YieldEnqueueKeepsQuantum(k, p) ==
  LET r == [k EXCEPT !.state[p] = "RUNNABLE"]
  IN  Enqueue(r, p, IF k.tq[p] <= 0 /\ k.qlevel[p] # 2 THEN k.qlevel[p] + 1
                    ELSE k.qlevel[p])

(* The state change of yield(), up to its sched().                         *)
YieldEnqueue(k, p) ==
  LET r == [k EXCEPT !.state[p] = "RUNNABLE"]
      lev == k.qlevel[p]
  IN  CASE k.tq[p] > 0 -> Enqueue(r, p, lev)
        [] k.tq[p] <= 0 /\ lev = 2 ->
             Enqueue([r EXCEPT !.priority[p] = IF @ # 0 THEN @ - 1 ELSE @,
                               !.tq[p] = 4 + Quantum0], p, 2)
        [] OTHER ->
             Enqueue([r EXCEPT !.tq[p] = 2 * (lev + 1) + Quantum0], p, lev + 1)

(* setPriority(): the caller just stores; otherwise the first queue that   *)
(* holds the target is updated, and only in L2, and only if the target is  *)
(* not its head, is the target linked anew.  A process found in no queue   *)
(* is left alone.                                                          *)
SetPriority(k, caller, t, v) ==
  LET changed == [k EXCEPT !.priority[t] = v]
      place == CHOOSE i \in DOMAIN k.mlfq[2] : k.mlfq[2][i] = t
      relinked == [changed EXCEPT !.mlfq[2] = RemoveAt(@, place)]
      InQ(lev) == t \in Range(k.mlfq[lev])
  IN  CASE t = caller -> changed
        [] t # caller /\ InQ(2) /\ Head(k.mlfq[2]) # t ->
             Enqueue(relinked, t, 2)
        [] t # caller /\ InQ(2) /\ Head(k.mlfq[2]) = t -> changed
        [] t # caller /\ (InQ(0) \/ InQ(1)) -> changed
        [] OTHER -> k

(* kill(): marks the target, gives up the scheduler lock, makes a sleeper  *)
(* RUNNABLE -- and links it into no queue.                                 *)
KillState(k, t) ==
  [k EXCEPT !.schedlock = FALSE,
            !.state[t] = IF @ = "SLEEPING" THEN "RUNNABLE" ELSE @]
=============================================================================
