--------------------------- MODULE MCPublication ---------------------------
(***************************************************************************)
(* Publication on small instances.                                         *)
(***************************************************************************)
EXTENDS Publication, TLC

CONSTANTS w1, w2

OneWorker == {w1}
TwoWorkers == {w1, w2}
Symmetry == Permutations(TwoWorkers)
=============================================================================
