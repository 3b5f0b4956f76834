----------------------------- MODULE MlfqSleep -----------------------------
(* Mlfq with the clock of SleepClock beside it.                            *)
EXTENDS Mlfq, SleepClock

ClockInit == Init /\ ClockFirst

Untimed ==
  \/ SchedulerDispatch \/ SchedulerNextLevel \/ IoInterrupt
  \/ \E p \in Proc : Process(p)

ClockNext ==
  \/ Timer /\ Clock(1)
  \/ Untimed /\ Clock(0)

ClockSpec == ClockInit /\ [][ClockNext]_<<vars, clockvars>>
=============================================================================
