--------------------------- MODULE MCRootChainCalls --------------------------
(* RootChainCalls on small instances: chains are interchangeable.          *)
EXTENDS RootChainCalls, TLC

Symmetry == Permutations(Chain)
=============================================================================
