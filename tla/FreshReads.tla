----------------------------- MODULE FreshReads -----------------------------
(***************************************************************************)
(* What the invoke path promises its callers about the release it runs,    *)
(* with no cache, no generation number and no message in it.               *)
(*                                                                         *)
(* Releases of one root chain are numbered by the change of is_current     *)
(* that put them online: after the n-th publish, rollback or set-current   *)
(* the online release is "point" n, and point 0 is a chain nobody has      *)
(* published.  Every replica has been told of the changes up to            *)
(* cleared[replica]; an invocation that starts there later may run any     *)
(* point between that one and the newest, and nothing older.               *)
(***************************************************************************)
EXTENDS Naturals

CONSTANTS
  Replica,   \* processes that serve invocations
  Slot       \* request slots of a replica

Worker == Replica \X Slot

VARIABLES
  db,        \* number of changes of is_current committed so far
  cleared,   \* per replica: the newest change it has been told of
  status,    \* per worker: "idle", "pending" or "run"
  floor,     \* per worker: the oldest point its invocation may run
  point      \* per worker: the point its invocation runs

vars == <<db, cleared, status, floor, point>>

Init ==
  /\ db = 0
  /\ cleared = [r \in Replica |-> 0]
  /\ status = [w \in Worker |-> "idle"]
  /\ floor = [w \in Worker |-> 0]
  /\ point = [w \in Worker |-> 0]

(* A release goes online in the database. *)
Change ==
  /\ db' = db + 1
  /\ UNCHANGED <<cleared, status, floor, point>>

(* A replica learns of every change committed so far. *)
Invalidate(r) ==
  /\ cleared' = [cleared EXCEPT ![r] = db]
  /\ UNCHANGED <<db, status, floor, point>>

(* An invocation arrives. *)
Start(w) ==
  /\ status[w] = "idle"
  /\ status' = [status EXCEPT ![w] = "pending"]
  /\ floor' = [floor EXCEPT ![w] = cleared[w[1]]]
  /\ point' = [point EXCEPT ![w] = 0]
  /\ UNCHANGED <<db, cleared>>

(* The invocation settles on a published release, none older than its      *)
(* floor.                                                                  *)
Choose(w) ==
  /\ status[w] = "pending"
  /\ \E n \in 1 .. db :
       /\ floor[w] <= n
       /\ point' = [point EXCEPT ![w] = n]
  /\ status' = [status EXCEPT ![w] = "run"]
  /\ UNCHANGED <<db, cleared, floor>>

(* The invocation ends: its flow is over, or it failed before choosing.    *)
End(W) ==
  /\ status' = [w \in Worker |-> IF w \in W THEN "idle" ELSE status[w]]
  /\ floor' = [w \in Worker |-> IF w \in W THEN 0 ELSE floor[w]]
  /\ point' = [w \in Worker |-> IF w \in W THEN 0 ELSE point[w]]
  /\ UNCHANGED <<db, cleared>>

Next ==
  \/ Change
  \/ \E r \in Replica : Invalidate(r)
  \/ \E w \in Worker : Start(w) \/ Choose(w)
  \/ \E W \in SUBSET Worker : End(W)

Spec == Init /\ [][Next]_vars
=============================================================================
