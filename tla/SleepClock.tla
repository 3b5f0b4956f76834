----------------------------- MODULE SleepClock -----------------------------
(***************************************************************************)
(* A clock beside the scheduler of project01.  sys_sleep() measures time   *)
(* with ticks, which a boost and schedulerLock() set back to 0, so what    *)
(* sleep(n) promises is stated with variables of the specification alone,  *)
(* which count the timer's interrupts and which no line of the code reads. *)
(***************************************************************************)
EXTENDS MlfqState

VARIABLES
  todo,      \* the timer interrupts p's sleep() has still to last
  setback,   \* ticks was set back since that call
  missed     \* an interrupt of the timer came and left p asleep

clockvars == <<todo, setback, missed>>

ClockFirst ==
  /\ todo = [p \in Slots |-> 0]
  /\ setback = [p \in Slots |-> FALSE] /\ missed = [p \in Slots |-> FALSE]

InSleep(p) == state[p] = "SLEEPING" /\ pc[p] = "slept"

CallsSleep(p) == pc[p] = "sleep" /\ pc'[p] = "slept"

(* A killed process that returns is owed nothing.                          *)
StillOwed(p) == pc'[p] = "slept" \/ (pc'[p] = "ret" /\ ~killed[p])

(* A step in which the timer interrupted t times: once or not at all.      *)
Clock(t) ==
  /\ todo' = [p \in Slots |->
       IF CallsSleep(p) THEN slp'[p].n
       ELSE IF StillOwed(p) /\ todo[p] > t THEN todo[p] - t ELSE 0]
  /\ setback' = [p \in Slots |->
       /\ pc'[p] \in {"slept", "ret"}
       /\ setback[p] \/ (pc[p] = "slept" /\ ticks' # ticks + t)]
  /\ missed' = [p \in Slots |-> InSleep(p) /\ InSleep(p)' /\ (missed[p] \/ t = 1)]

(* sleep(n) lasts n timer interrupts: who is asleep there has some left to *)
(* wait for, and who returns without having been killed has none.          *)
SleepsAreFull ==
  \A p \in Slots :
    /\ InSleep(p) => todo[p] > 0
    /\ pc[p] = "ret" => todo[p] = 0

(* sysproc.c, sys_sleep(): no interrupt of the timer, that of a boost      *)
(* included, leaves a sleeper asleep that has not looked at ticks again;   *)
(* and as long as ticks is not set back, a sleep lasts what was asked for, *)
(* whenever the sleeper gets the CPU, neither longer nor shorter.  A sleep *)
(* that meets a boost or a schedulerLock() may end early or never.         *)
SleepersInTime ==
  /\ \A p \in Slots : ~missed[p]
  /\ \A p \in Slots : ~setback[p] =>
       /\ InSleep(p) => todo[p] > 0
       /\ pc[p] = "ret" => todo[p] = 0
=============================================================================
