-------------------------------- MODULE MCLog --------------------------------
(* Log as TLC checks it.  No property tells two operations apart.          *)
EXTENDS Log, TLC

Symmetry == Permutations(Ops)
=============================================================================
