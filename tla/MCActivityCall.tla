--------------------------- MODULE MCActivityCall ---------------------------
(* ActivityCall on a node of two stages, the first with two activities, or *)
(* an activity on its own.  Executions share the worker and the list of    *)
(* lines alone: what a second one adds to these, the three activities and  *)
(* the worker's stop do.                                                   *)
EXTENDS ActivityCall, TLC

CONSTANTS x, a, b, c

TwoStages == {<<{a, b}, {c}>>, <<{a}>>}
=============================================================================
