------------------------------ MODULE AtomicLog ------------------------------
(***************************************************************************)
(* What the write-ahead log of project03 promises to the file system       *)
(* (log.c:9-30): operations update blocks in memory; now and then, when no *)
(* operation is active, everything written so far becomes durable at once; *)
(* a crash takes the memory back to the durable contents.                  *)
(***************************************************************************)
CONSTANTS Ops, Blocks, Vals

VARIABLES
  volatile,  \* block contents as the operations see them
  durable,   \* block contents as they would be found after a crash
  active     \* operations between begin_op() and end_op()

avars == <<volatile, durable, active>>

AInit ==
  /\ durable \in [Blocks -> Vals]
  /\ volatile = durable
  /\ active = {}

ABegin(o) ==
  /\ o \notin active
  /\ active' = active \cup {o}
  /\ UNCHANGED <<volatile, durable>>

AWrite(o) ==
  /\ o \in active
  /\ \E b \in Blocks, v \in Vals : volatile' = [volatile EXCEPT ![b] = v]
  /\ UNCHANGED <<durable, active>>

AEnd(o) ==
  /\ o \in active
  /\ active' = active \ {o}
  /\ UNCHANGED <<volatile, durable>>

ACommit ==
  /\ active = {}
  /\ durable' = volatile
  /\ UNCHANGED <<volatile, active>>

ACrash ==
  /\ volatile' = durable
  /\ active' = {}
  /\ UNCHANGED durable

ANext ==
  \/ \E o \in Ops : ABegin(o) \/ AWrite(o) \/ AEnd(o)
  \/ ACommit \/ ACrash

ASpec == AInit /\ [][ANext]_avars
=============================================================================
