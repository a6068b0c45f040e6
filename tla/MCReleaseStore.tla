-------------------------- MODULE MCReleaseStore ----------------------------
(* ReleaseStore on small instances: administrators and contents are        *)
(* interchangeable.                                                        *)
EXTENDS ReleaseStore, TLC

Symmetry == Permutations(Admin) \cup Permutations(Doc)
=============================================================================
