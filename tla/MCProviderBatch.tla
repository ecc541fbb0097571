-------------------------- MODULE MCProviderBatch --------------------------
(* Small instances of ProviderBatch for TLC.                               *)
EXTENDS ProviderBatch, TLC

CONSTANTS w1, w2, r1, r2

OneWorker == {w1}
TwoWorkers == {w1, w2}
TwoRequests == {r1, r2}
AllSymmetry == Permutations(TwoWorkers) \cup Permutations(TwoRequests)
=============================================================================
