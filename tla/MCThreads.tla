----------------------------- MODULE MCThreads -----------------------------
(* Threads on small instances, for TLC.                                    *)
EXTENDS Threads
=============================================================================
