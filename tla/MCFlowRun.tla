----------------------------- MODULE MCFlowRun ------------------------------
(* FlowRun on a chain that forks behind a condition, into an activity and  *)
(* a sub chain, and has an end node behind the activity; its sub chain has *)
(* none.                                                                   *)
EXTENDS FlowRun, TLC

CONSTANTS r1, r2

DoorOf == (r1 :> {"release", "test"}) @@ (r2 :> {"draft", "published"})

Edits == [root |-> 1, sub |-> 0]

N(i, t) == [id |-> i, type |-> t]
C(f, t, rel) == [from |-> f, to |-> t, type |-> rel]

Forked ==
  [nodes |-> <<N("act", "activity"), N("if", "cond"), N("sub", "flow"), N("end", "end")>>,
   conns |-> <<C("if", "act", "True"), C("if", "sub", "True"), C("act", "end", "Success")>>]

Plain ==
  [nodes |-> <<N("sin", "param"), N("sret", "return")>>,
   conns |-> <<C("sin", "sret", "Success")>>]
=============================================================================
