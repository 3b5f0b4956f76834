---------------------------- MODULE MCProcesses ----------------------------
(***************************************************************************)
(* Processes in one state space: the threads of project02 on one processor *)
(* or the processes of project03 on several, as the variable part says;    *)
(* the variables of the other stay as they begin.                          *)
(***************************************************************************)
EXTENDS Threads, RoundRobin

VARIABLE part

ProcessesInit == part \in {"threads", "processors"} /\ Init /\ RoundRobinInit

ProcessesNext ==
  /\ UNCHANGED part
  /\ IF part = "threads" THEN Next ELSE UNCHANGED vars
  /\ IF part = "processors" THEN RoundRobinNext ELSE UNCHANGED rrvars

ProcessesSpec == ProcessesInit /\ [][ProcessesNext]_<<part, vars, rrvars>>
=============================================================================
