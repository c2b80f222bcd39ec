-------------------------- MODULE MCRetryContract --------------------------
(* RetryContract on a small instance. *)
EXTENDS RetryContract, TLC

Symmetry == Permutations(Attempts \ Frail) \cup Permutations(Frail)
=============================================================================
