------------------------------- MODULE MCMlfq -------------------------------
(* Mlfq as TLC checks it alone: every workload is a cfg of this module.    *)
EXTENDS Mlfq

(* The liveness run: the calls of Mlfq that Calls names, at least one.     *)
LiveNext == Calls # {} /\ Next
LiveSpec == Init /\ [][LiveNext]_vars /\ Fairness /\ KernelFairness
=============================================================================
