-------------------------- MODULE MCNodeAllocator --------------------------
(* An instance of NodeAllocator for TLC. *)
EXTENDS NodeAllocator, TLC

CONSTANTS w1, w2

TwoWorkers == {w1, w2}
WorkerSymmetry == Permutations(TwoWorkers)
=============================================================================
