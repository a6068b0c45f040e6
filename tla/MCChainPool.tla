---------------------------- MODULE MCChainPool -----------------------------
(* ChainPool on small instances: invocations are interchangeable. *)
EXTENDS ChainPool, TLC

Symmetry == Permutations(Worker)
=============================================================================
