---------------------------- MODULE ActivityCall ----------------------------
(***************************************************************************)
(* What an activity node does (activity_node.go): it runs its activities   *)
(* in stages, those of a stage side by side, each by a request to a        *)
(* distributed worker over a queue in Redis (mq_activity.go) that is given *)
(* up after a timeout, and then tells a relation.  The console tests nodes *)
(* in the same way, and activities on their own (TestNode, TestActivity).  *)
(* Every run of an activity leaves a line in a list in Redis that the      *)
(* collectors of all replicas drain into the database                      *)
(* (activity_collector.go).                                                *)
(***************************************************************************)
EXTENDS Naturals, Sequences, FiniteSets

CONSTANTS
  Exec,      \* executions
  Act,       \* activities, one for each place in a node
  Shapes,    \* the stages a node may have
  Declared,  \* activities whose definition lists return values
  Collector, \* log collectors, one per replica
  MaxLines,  \* bound of the list of log lines (maxLogsSize)
  MaxStops   \* bound: stops of the worker

ASSUME ShapesAssumption ==
  /\ Shapes \subseteq Seq(SUBSET Act)
  /\ \A s \in Shapes : \A i, j \in DOMAIN s : i # j => s[i] \cap s[j] = {}
ASSUME FiniteAssumption == IsFiniteSet(Exec) /\ IsFiniteSet(Act) /\ IsFiniteSet(Collector)
ASSUME BoundAssumption == MaxLines \in Nat \ {0} /\ MaxStops \in Nat

VARIABLES
  node,    \* the node of each execution, which does not change
  pc,      \* idle, running (at a stage), told
  stage,   \* the stage an execution is at
  call,    \* what the requester knows of each activity of an execution
  task,    \* the request in the queue, and its result
  told,    \* the relation told
  record,  \* the execution's own log record, saved in the background
  test,    \* the test record of a test
  up,      \* is a worker consuming the queues
  stops,   \* bounded
  unstored,\* log lines pushed so far, less those in the database
  list,    \* log lines in the list in Redis
  hand     \* collectors that hold a line they popped

nodeVars == <<node, pc, stage, told, record, test>>
workVars == <<up, stops>>
logVars == <<unstored, list, hand>>
vars == <<nodeVars, call, task, workVars, logVars>>

Calls == {"none", "asked", "ok", "failed"}
Results == {"value", "nil", "error"}
Tasks == {"none", "queued", "taken"} \cup Results
Relations == {"Success", "Failure", "branch"}
Records == [status : {"none", "pending", "over"}, says : Relations \cup {"none"}]
Pending(relation) == [status |-> "pending", says |-> relation]
NoRecord == [status |-> "none", says |-> "none"]

(* A node runs in a flow or in a test; an activity is tested on its own,   *)
(* by a request to a worker or by HTTP.                                    *)
Kinds == {"node", "test", "direct", "http"}
Alone == {"direct", "http"}
Nodes ==
  {n \in [kind : Kinds, stages : Shapes, enable : BOOLEAN, switch : BOOLEAN] :
     n.kind \in Alone => \E a \in Act : n.stages = <<{a}>> /\ ~n.enable /\ ~n.switch}

Stages(e) == node[e].stages
Activities(e) == UNION {Stages(e)[i] : i \in DOMAIN Stages(e)}

Init ==
  /\ node \in [Exec -> Nodes]
  /\ pc = [e \in Exec |-> "idle"]
  /\ stage = [e \in Exec |-> 1]
  /\ call = [e \in Exec |-> [a \in Act |-> "none"]]
  /\ task = [e \in Exec |-> [a \in Act |-> "none"]]
  /\ told = [e \in Exec |-> "none"]
  /\ record = [e \in Exec |-> NoRecord]
  /\ test = [e \in Exec |-> NoRecord]
  /\ up = FALSE
  /\ stops = 0
  /\ unstored = 0
  /\ list = 0
  /\ hand = {}

-----------------------------------------------------------------------------
(* The node.                                                               *)
Tell(e, relation) ==
  /\ pc' = [pc EXCEPT ![e] = "told"]
  /\ told' = [told EXCEPT ![e] = relation]

(* A test answers its caller with what was told, and keeps a record of it. *)
Answer(e, relation) ==
  test' = IF node[e].kind = "node" THEN test
          ELSE [test EXCEPT ![e] = Pending(relation)]

(* The record of the execution says what is told, and is saved by a        *)
(* goroutine of its own.                                                   *)
pushNodeLog(e, relation) == record' = [record EXCEPT ![e] = Pending(relation)]

(* A test is refused for a parameter left out, a test of an activity for   *)
(* its environment's Redis too.  Nothing is recorded.                      *)
validateRequiredParams(e) ==
  /\ pc[e] = "idle"
  /\ node[e].kind # "node"
  /\ Tell(e, "Failure")
  /\ UNCHANGED <<node, stage, record, test, call, task, workVars, logVars>>

(* A node cannot start: no activities, a message that is no flow context,  *)
(* arguments it cannot compute; in a test, no Redis.  No log record.       *)
NodeArguments(e) ==
  /\ pc[e] = "idle"
  /\ node[e].kind \notin Alone
  /\ Tell(e, "Failure")
  /\ Answer(e, "Failure")
  /\ UNCHANGED <<node, stage, record, call, task, workVars, logVars>>

(* The enable_condition fails, or does not hold: the node is skipped.      *)
onMsgEnableCondition(e) ==
  /\ pc[e] = "idle"
  /\ node[e].enable
  /\ \E relation \in {"Failure", "Success"} : Tell(e, relation) /\ Answer(e, relation)
  /\ UNCHANGED <<node, stage, record, call, task, workVars, logVars>>

(* A node without activities is refused.                                   *)
OnMsg(e) ==
  /\ pc[e] = "idle"
  /\ node[e].kind # "http"
  /\ Stages(e) # <<>>
  /\ pc' = [pc EXCEPT ![e] = "running"]
  /\ UNCHANGED <<node, stage, told, record, test, call, task, workVars, logVars>>

(* An activity of the kind http is asked directly, within a timeout.       *)
testHTTPActivity(e) ==
  /\ pc[e] = "idle"
  /\ node[e].kind = "http"
  /\ \E relation \in {"Failure", "Success"} : Tell(e, relation) /\ Answer(e, relation)
  /\ UNCHANGED <<node, stage, record, call, task, workVars, logVars>>

Current(e) == IF stage[e] \in DOMAIN Stages(e) THEN Stages(e)[stage[e]] ELSE {}

(* One goroutine per activity of the stage asks: its client and arguments  *)
(* are made and the task is put in the activity's queue, or one of these   *)
(* fails.                                                                  *)
execOneActivity(e, a) ==
  /\ pc[e] = "running"
  /\ a \in Current(e)
  /\ call[e][a] = "none"
  /\ \/ /\ call' = [call EXCEPT ![e][a] = "asked"]
        /\ task' = [task EXCEPT ![e][a] = "queued"]
     \/ /\ call' = [call EXCEPT ![e][a] = "failed"]
        /\ UNCHANGED task
  /\ UNCHANGED <<nodeVars, workVars, logVars>>

(* What the requester makes of a result: nothing where return values are   *)
(* declared is a failure, and a response template may fail on any answer.  *)
execActivityResponse(a, result) ==
  IF result = "error" \/ (result = "nil" /\ a \in Declared) THEN {"failed"} ELSE {"ok", "failed"}

RequestActivity(e, a) ==
  /\ call[e][a] = "asked"
  /\ task[e][a] \in Results
  /\ \E c \in execActivityResponse(a, task[e][a]) : call' = [call EXCEPT ![e][a] = c]
  /\ UNCHANGED <<nodeVars, task, workVars, logVars>>

(* Mutant: the timeout is the worker's, for a task it has taken.           *)
GiveUpTaken(e, a) ==
  /\ call[e][a] = "asked"
  /\ task[e][a] = "taken"
  /\ call' = [call EXCEPT ![e][a] = "failed"]
  /\ UNCHANGED <<nodeVars, task, workVars, logVars>>

(* The request times out, wherever the task is: an answer may be on its    *)
(* way, and a task still queued or taken is run nevertheless.              *)
GiveUp(e, a) ==
  /\ call[e][a] = "asked"
  /\ call' = [call EXCEPT ![e][a] = "failed"]
  /\ UNCHANGED <<nodeVars, task, workVars, logVars>>

(* Mutant: a stage that does not wait for its slower activities once one   *)
(* has answered.                                                           *)
OverAtFirst(e) == Current(e) = {} \/ \E a \in Current(e) : call[e][a] \in {"ok", "failed"}

Over(e) == \A a \in Current(e) : call[e][a] \in {"ok", "failed"}
FailedIn(e) == \E a \in Current(e) : call[e][a] = "failed"

execParallelStage(e) ==
  /\ pc[e] = "running"
  /\ node[e].kind \notin Alone
  /\ stage[e] <= Len(Stages(e))
  /\ Over(e)
  /\ ~FailedIn(e)
  /\ stage' = [stage EXCEPT ![e] = @ + 1]
  /\ UNCHANGED <<node, pc, told, record, test, call, task, workVars, logVars>>

(* A stage in which an activity failed ends the execution, when all of it  *)
(* is over.                                                                *)
onMsgFailureEndExec(e) ==
  /\ pc[e] = "running"
  /\ node[e].kind \notin Alone
  /\ Over(e)
  /\ FailedIn(e)
  /\ Tell(e, "Failure")
  /\ Answer(e, "Failure")
  /\ pushNodeLog(e, "Failure")
  /\ UNCHANGED <<node, stage, call, task, workVars, logVars>>

(* With a switch_condition the return values choose the relation; an       *)
(* expression that cannot be evaluated is a failure.                       *)
routeBySwitchCondition(e) == IF node[e].switch THEN {"branch", "Failure"} ELSE {"Success"}

(* After the last stage.                                                   *)
onMsgSuccessEndExec(e) ==
  /\ pc[e] = "running"
  /\ node[e].kind \notin Alone
  /\ stage[e] > Len(Stages(e))
  /\ \E relation \in routeBySwitchCondition(e) :
       /\ Tell(e, relation)
       /\ Answer(e, relation)
       /\ pushNodeLog(e, relation)
  /\ UNCHANGED <<node, stage, call, task, workVars, logVars>>

(* An activity tested on its own has no stages: its answer is told, and    *)
(* recorded beside the worker's line.                                      *)
asyncPushLog(e, relation) == record' = [record EXCEPT ![e] = Pending(relation)]

RequestDirectly(e) ==
  /\ pc[e] = "running"
  /\ node[e].kind = "direct"
  /\ Over(e)
  /\ LET relation == IF FailedIn(e) THEN "Failure" ELSE "Success"
     IN Tell(e, relation) /\ Answer(e, relation) /\ asyncPushLog(e, relation)
  /\ UNCHANGED <<node, stage, call, task, workVars, logVars>>

(* The goroutine that saves the record, or fails to, which is only logged. *)
CreateNodeLog(e) ==
  /\ record[e].status = "pending"
  /\ record' = [record EXCEPT ![e].status = "over"]
  /\ UNCHANGED <<node, pc, stage, told, test, call, task, workVars, logVars>>

(* The test record, unless none is wanted or it cannot be saved.           *)
saveTestRecord(e) ==
  /\ test[e].status = "pending"
  /\ test' = [test EXCEPT ![e].status = "over"]
  /\ UNCHANGED <<node, pc, stage, told, record, call, task, workVars, logVars>>

-----------------------------------------------------------------------------
(* The worker.  It starts once its activities are subscribed.              *)
registerActivities ==
  /\ ~up
  /\ up' = TRUE
  /\ UNCHANGED <<nodeVars, call, task, stops, logVars>>

Take(e, a) ==
  /\ up
  /\ task[e][a] = "queued"
  /\ task' = [task EXCEPT ![e][a] = "taken"]
  /\ UNCHANGED <<nodeVars, call, workVars, logVars>>

(* Mutant: the list is not trimmed.                                        *)
pushUntrimmed(n) ==
  /\ unstored' = unstored + n
  /\ list' = list + n
  /\ UNCHANGED hand

(* RPUSH and LTRIM in one pipeline: beyond the bound the oldest line goes. *)
pushActivityLog(n) ==
  /\ unstored' = unstored + n
  /\ list' = IF list + n <= MaxLines THEN list + n ELSE MaxLines
  /\ UNCHANGED hand

(* The handler runs; the line is pushed before the result is written, and  *)
(* a push that fails is only logged.                                       *)
SubscribeActivity(e, a) ==
  /\ up
  /\ task[e][a] = "taken"
  /\ \E r \in Results : task' = [task EXCEPT ![e][a] = r]
  /\ \E n \in 0 .. 1 : pushActivityLog(n)
  /\ UNCHANGED <<nodeVars, call, workVars>>

(* A worker that stops or crashes leaves what it had taken to be taken     *)
(* again, whether the handler had run (and its line was pushed) or not.    *)
Taken == {t \in Exec \X Act : task[t[1]][t[2]] = "taken"}
Requeue(row) == [a \in Act |-> IF row[a] = "taken" THEN "queued" ELSE row[a]]
Stop ==
  /\ up
  /\ stops < MaxStops
  /\ up' = FALSE
  /\ stops' = stops + 1
  /\ task' = [e \in Exec |-> Requeue(task[e])]
  /\ \E n \in 0 .. Cardinality(Taken) : pushActivityLog(n)
  /\ UNCHANGED <<nodeVars, call>>

-----------------------------------------------------------------------------
(* The collectors.                                                         *)

(* Mutant: a batch is read first and trimmed off the list when stored.     *)
LRange(c) ==
  /\ c \notin hand
  /\ list > 0
  /\ hand' = hand \cup {c}
  /\ UNCHANGED <<nodeVars, call, task, workVars, unstored, list>>

(* A line is popped for good: no other collector will see it.              *)
LPop(c) ==
  /\ c \notin hand
  /\ list > 0
  /\ list' = list - 1
  /\ hand' = hand \cup {c}
  /\ UNCHANGED <<nodeVars, call, task, workVars, unstored>>

(* The line is stored, or the insert fails and it is gone.                 *)
drainLogKey(c) ==
  /\ c \in hand
  /\ hand' = hand \ {c}
  /\ unstored' = unstored - 1 \/ UNCHANGED unstored
  /\ UNCHANGED <<nodeVars, call, task, workVars, list>>

-----------------------------------------------------------------------------
Begin(e) ==
  \/ validateRequiredParams(e) \/ NodeArguments(e) \/ onMsgEnableCondition(e)
  \/ OnMsg(e) \/ testHTTPActivity(e)
Saves(e) == CreateNodeLog(e) \/ saveTestRecord(e)
Ends(e) ==
  execParallelStage(e) \/ onMsgFailureEndExec(e) \/ onMsgSuccessEndExec(e) \/ RequestDirectly(e)
Asks(e) == \E a \in Act : execOneActivity(e, a) \/ RequestActivity(e, a) \/ GiveUp(e, a)
Works == \E e \in Exec, a \in Act : Take(e, a) \/ SubscribeActivity(e, a)
Collects == \E c \in Collector : LPop(c) \/ drainLogKey(c)

Next ==
  \/ \E e \in Exec : Begin(e) \/ Asks(e) \/ Ends(e) \/ Saves(e)
  \/ registerActivities \/ Works \/ Stop
  \/ Collects

Spec == Init /\ [][Next]_vars

(* The goroutines of the nodes run on, and the timer of a request fires;   *)
(* no worker and no collector is assumed to run at all.                    *)
FairSpec == Spec /\ WF_vars(\E e \in Exec : Asks(e) \/ Ends(e))

-----------------------------------------------------------------------------
TypeOK ==
  /\ node \in [Exec -> Nodes]
  /\ pc \in [Exec -> {"idle", "running", "told"}]
  /\ stage \in [Exec -> Nat \ {0}]
  /\ call \in [Exec -> [Act -> Calls]]
  /\ task \in [Exec -> [Act -> Tasks]]
  /\ told \in [Exec -> Relations \cup {"none"}]
  /\ record \in [Exec -> Records]
  /\ test \in [Exec -> Records]
  /\ up \in BOOLEAN
  /\ stops \in 0 .. MaxStops
  /\ unstored \in Nat
  /\ list \in 0 .. MaxLines
  /\ hand \subseteq Collector

(* When an activity of a stage is asked for, every activity of the stages  *)
(* before it has run, for good, and was answered in time: no straggler of  *)
(* an earlier stage is still queued or running beside a later one.         *)
InOrder(e) ==
  \A i, j \in DOMAIN Stages(e) : i < j =>
    \A a \in Stages(e)[i], b \in Stages(e)[j] :
      call[e][b] # "none" => call[e][a] = "ok" /\ task[e][a] \in {"value", "nil"}

(* A node that has told waits for no answer any more.                      *)
Awaited(e) == pc[e] = "told" => \A a \in Act : call[e][a] # "asked"

(* It tells success, or a branch, when all its activities succeeded, or    *)
(* when it asked for none (skipped, or by HTTP); and a failure when one of *)
(* them failed, when the switch_condition did, or when it asked for none.  *)
Untouched(e) == \A a \in Act : call[e][a] = "none"
Skipped(e) == Untouched(e) /\ (node[e].enable \/ node[e].kind = "http")
AllOk(e) == \A a \in Activities(e) : call[e][a] = "ok" /\ task[e][a] \in {"value", "nil"}
Earned(e) ==
  CASE told[e] = "none" -> TRUE
    [] told[e] = "Failure" -> \/ Untouched(e)
                              \/ \E a \in Activities(e) : call[e][a] = "failed"
                              \/ node[e].switch /\ AllOk(e)
    [] told[e] = "Success" -> Skipped(e) \/ AllOk(e)
    [] told[e] = "branch" -> node[e].switch /\ AllOk(e)

(* Its record, if it got as far as asking, and its test's record say what  *)
(* it told.                                                                *)
Recorded(e) ==
  /\ pc[e] = "told" /\ ~Untouched(e) => record[e].status # "none"
  /\ \A r \in {record[e], test[e]} : r.status # "none" => r.says = told[e]

(* An execution of a node is whole, in the order of its stages, or a       *)
(* failure: what it tells, and records, is what its workers did            *)
(* (execNode, execParallelStage, onMsgFailureEndExec, onMsgSuccessEndExec).*)
WholeInOrder == \A e \in Exec : InOrder(e) /\ Awaited(e) /\ Earned(e) /\ Recorded(e)

(* However many collectors drain the list, no line is stored twice: the    *)
(* lines in the list and in the collectors' hands are among those not      *)
(* stored yet, one each; the others are lost (drainLogKey,                 *)
(* pushActivityLog).                                                       *)
StoredOnce == list + Cardinality(hand) <= unstored

(* A node that runs tells in the end, with no worker listening too.        *)
Told == \A e \in Exec : (pc[e] = "running") ~> (pc[e] = "told")
=============================================================================
