--------------------------- MODULE MCInvokeCache ----------------------------
(* InvokeCache on small instances: replicas and slots are interchangeable. *)
EXTENDS InvokeCache, TLC

Symmetry == Permutations(Replica) \cup Permutations(Slot)
=============================================================================
