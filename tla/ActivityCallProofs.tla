------------------------- MODULE ActivityCallProofs -------------------------
(***************************************************************************)
(* ActivityCall for any number of executions, activities, stages and       *)
(* collectors: its types, that executions are whole and in order, and that *)
(* no log line is stored twice.                                            *)
(*                                                                         *)
(* AtStage says how far an execution has got: what the stages before its   *)
(* own asked for has succeeded, and nothing of a later one is asked for.   *)
(* OkRan ties an answer to the task: a task with a result never changes,   *)
(* so an answer stays true whatever the queue does.  Both are about one    *)
(* execution; a step changes one execution, and the queue of all of them.  *)
(***************************************************************************)
EXTENDS ActivityCall, FiniteSetTheorems, TLAPS

(* Before it tells, an execution has recorded nothing. *)
Fresh(e) == pc[e] # "told" => told[e] = "none" /\ record[e] = NoRecord /\ test[e] = NoRecord

AtStage(e) ==
  /\ pc[e] = "idle" => Untouched(e)
  /\ node[e].kind \in Alone => stage[e] = 1
  /\ \A i \in DOMAIN Stages(e) : i < stage[e] => \A a \in Stages(e)[i] : call[e][a] = "ok"
  /\ \A a \in Act : call[e][a] # "none" =>
       \E i \in DOMAIN Stages(e) : i <= stage[e] /\ a \in Stages(e)[i]

OkRan(e) == \A a \in Act : call[e][a] = "ok" => task[e][a] \in {"value", "nil"}

(* What execution e is, and has made of its workers' answers. *)
Whole(e) == Fresh(e) /\ AtStage(e) /\ OkRan(e) /\ Awaited(e) /\ Earned(e) /\ Recorded(e)

IInv == TypeOK /\ StoredOnce /\ \A e \in Exec : Whole(e)

-----------------------------------------------------------------------------
(* The shape of a node.                                                    *)

LEMMA StagesType ==
  ASSUME TypeOK, NEW e \in Exec
  PROVE  /\ node[e] \in Nodes
         /\ Stages(e) \in Seq(SUBSET Act)
         /\ DOMAIN Stages(e) = 1 .. Len(Stages(e)) /\ Len(Stages(e)) \in Nat
         /\ \A i \in DOMAIN Stages(e) : Stages(e)[i] \subseteq Act
         /\ \A i, j \in DOMAIN Stages(e) : i # j => Stages(e)[i] \cap Stages(e)[j] = {}
<1>1. node[e] \in Nodes
  BY DEF TypeOK
<1>2. Stages(e) \in Shapes
  BY <1>1 DEF Nodes, Stages
<1>3. Stages(e) \in Seq(SUBSET Act)
  BY <1>2, ShapesAssumption
<1> QED BY <1>1, <1>2, <1>3, ShapesAssumption

LEMMA CurrentType ==
  ASSUME TypeOK, NEW e \in Exec
  PROVE  /\ Current(e) \subseteq Act
         /\ stage[e] \in DOMAIN Stages(e) => Current(e) = Stages(e)[stage[e]]
         /\ Current(e) # {} => stage[e] \in DOMAIN Stages(e)
BY StagesType DEF Current

(* The activities a node is made of are those of its stages. *)
LEMMA ActivityInStage ==
  ASSUME TypeOK, NEW e \in Exec
  PROVE  /\ Activities(e) \subseteq Act
         /\ \A a \in Activities(e) : \E i \in DOMAIN Stages(e) : a \in Stages(e)[i]
         /\ \A i \in DOMAIN Stages(e) : Stages(e)[i] \subseteq Activities(e)
BY StagesType DEF Activities

(* A node whose activity is tested on its own has that one. *)
LEMMA AloneHasOne ==
  ASSUME TypeOK, NEW e \in Exec, node[e].kind \in Alone
  PROVE  \E a \in Act : Stages(e) = <<{a}>>
BY StagesType DEF Nodes, Stages

(* When the stage is over, nothing is asked for any more. *)
LEMMA OverIsAwaited ==
  ASSUME TypeOK, NEW e \in Exec, AtStage(e), Over(e)
  PROVE  \A a \in Act : call[e][a] # "asked"
<1> SUFFICES ASSUME NEW a \in Act, call[e][a] = "asked" PROVE FALSE
  OBVIOUS
<1>1. PICK i \in DOMAIN Stages(e) : i <= stage[e] /\ a \in Stages(e)[i]
  BY DEF AtStage
<1>2. i \in Nat /\ stage[e] \in Nat
  BY StagesType DEF TypeOK
<1>3. CASE i = stage[e]
  BY <1>1, <1>3, CurrentType DEF Over
<1>4. CASE i < stage[e]
  BY <1>1, <1>4 DEF AtStage
<1> QED BY <1>1, <1>2, <1>3, <1>4

(* What is earned by telling. *)
Earns(e, relation) ==
  /\ relation = "Failure" => \/ Untouched(e)
                             \/ \E a \in Activities(e) : call[e][a] = "failed"
                             \/ node[e].switch /\ AllOk(e)
  /\ relation = "Success" => Skipped(e) \/ AllOk(e)
  /\ relation = "branch" => node[e].switch /\ AllOk(e)

-----------------------------------------------------------------------------
(* Steps that leave an execution whole.                                    *)

(* A step that changes no more of execution e than tasks without a result. *)
LEMMA Frame ==
  ASSUME TypeOK, NEW e \in Exec, Whole(e), node' = node,
         pc'[e] = pc[e], stage'[e] = stage[e], call'[e] = call[e], told'[e] = told[e],
         record'[e] = record[e], test'[e] = test[e],
         \A a \in Act : task[e][a] \in {"value", "nil"} => task'[e][a] = task[e][a]
  PROVE  Whole(e)'
<1>1. Stages(e)' = Stages(e) /\ Activities(e)' = Activities(e)
  BY DEF Stages, Activities
<1>2. Activities(e) \subseteq Act
  BY ActivityInStage
<1>3. Fresh(e)' /\ Awaited(e)' /\ Recorded(e)'
  BY DEF Whole, Fresh, Awaited, Recorded, Untouched
<1>4. AtStage(e)'
  BY <1>1 DEF Whole, AtStage, Untouched
<1>5. OkRan(e)'
  BY DEF Whole, OkRan
<1>6. AllOk(e) => AllOk(e)'
  BY <1>1, <1>2 DEF AllOk
<1>7. Untouched(e)' = Untouched(e) /\ Skipped(e)' = Skipped(e)
  BY DEF Untouched, Skipped
<1>8. told[e] \in Relations \cup {"none"}
  BY DEF TypeOK
<1>9. Earned(e)'
  <2>1. CASE told[e] = "none"
    BY <2>1 DEF Earned
  <2>2. CASE told[e] = "Failure"
    BY <1>1, <1>6, <1>7, <2>2 DEF Whole, Earned
  <2>3. CASE told[e] = "Success"
    BY <1>6, <1>7, <2>3 DEF Whole, Earned
  <2>4. CASE told[e] = "branch"
    BY <1>6, <2>4 DEF Whole, Earned
  <2> QED BY <1>8, <2>1, <2>2, <2>3, <2>4 DEF Relations
<1> QED BY <1>3, <1>4, <1>5, <1>9 DEF Whole

(* Execution e tells what it has earned, and records nothing else. *)
LEMMA Telling ==
  ASSUME TypeOK, NEW e \in Exec, Whole(e), NEW relation \in Relations, node' = node,
         pc[e] # "told", pc'[e] = "told", told'[e] = relation, stage'[e] = stage[e],
         call'[e] = call[e], task'[e] = task[e],
         record'[e] \in {record[e], Pending(relation)},
         test'[e] \in {test[e], Pending(relation)},
         Untouched(e) \/ record'[e] = Pending(relation),
         \A a \in Act : call[e][a] # "asked",
         Earns(e, relation)
  PROVE  Whole(e)'
<1>1. Stages(e)' = Stages(e) /\ Activities(e)' = Activities(e)
  BY DEF Stages, Activities
<1>2. Fresh(e)' /\ Awaited(e)'
  BY DEF Fresh, Awaited
<1>3. AtStage(e)'
  BY <1>1 DEF Whole, AtStage, Untouched
<1>4. OkRan(e)'
  BY DEF Whole, OkRan
<1>5. AllOk(e)' = AllOk(e) /\ Untouched(e)' = Untouched(e) /\ Skipped(e)' = Skipped(e)
  BY <1>1 DEF AllOk, Untouched, Skipped
<1>6. Earned(e)'
  BY <1>1, <1>5 DEF Earned, Earns, Relations
<1>7. record[e] = NoRecord /\ test[e] = NoRecord
  BY DEF Whole, Fresh
<1>8. Recorded(e)'
  BY <1>5, <1>7 DEF Recorded, NoRecord, Pending
<1> QED BY <1>2, <1>3, <1>4, <1>6, <1>8 DEF Whole

(* An execution that has asked for nothing yet, and is not waiting. *)
LEMMA IdleUntouched ==
  ASSUME NEW e \in Exec, Whole(e), pc[e] = "idle"
  PROVE  Untouched(e) /\ \A a \in Act : call[e][a] # "asked"
BY DEF Whole, AtStage, Untouched

(* After the last stage, every activity has succeeded. *)
LEMMA AllStagesOk ==
  ASSUME TypeOK, NEW e \in Exec, Whole(e),
         \A i \in DOMAIN Stages(e) : \A a \in Stages(e)[i] : call[e][a] = "ok"
  PROVE  AllOk(e)
<1> SUFFICES ASSUME NEW a \in Activities(e)
             PROVE  call[e][a] = "ok" /\ task[e][a] \in {"value", "nil"}
  BY DEF AllOk
<1>1. a \in Act /\ call[e][a] = "ok"
  BY ActivityInStage
<1> QED BY <1>1 DEF Whole, OkRan

-----------------------------------------------------------------------------
(* Every step leaves every execution whole.                                *)

(* A step of execution e on itself leaves the others as they are. *)
LEMMA NodeStep ==
  ASSUME TypeOK, NEW e \in Exec, NEW d \in Exec, d # e, Whole(d),
         \/ Begin(e)
         \/ Asks(e)
         \/ Ends(e)
         \/ Saves(e)
  PROVE  Whole(d)'
<1>1. /\ node' = node
      /\ pc'[d] = pc[d] /\ stage'[d] = stage[d] /\ told'[d] = told[d]
      /\ record'[d] = record[d] /\ test'[d] = test[d]
      /\ call'[d] = call[d] /\ task'[d] = task[d]
  <2>1. CASE Begin(e)
    BY <2>1 DEF TypeOK, Begin, validateRequiredParams, NodeArguments, onMsgEnableCondition,
                OnMsg, testHTTPActivity, Tell, Answer
  <2>2. CASE Asks(e)
    BY <2>2 DEF TypeOK, Asks, execOneActivity, RequestActivity, GiveUp, nodeVars
  <2>3. CASE Ends(e)
    BY <2>3 DEF TypeOK, Ends, execParallelStage, onMsgFailureEndExec, onMsgSuccessEndExec,
                RequestDirectly, Tell, Answer, pushNodeLog, asyncPushLog
  <2>4. CASE Saves(e)
    BY <2>4 DEF TypeOK, Saves, CreateNodeLog, saveTestRecord
  <2> QED BY <2>1, <2>2, <2>3, <2>4
<1> QED BY <1>1, Frame

LEMMA BeginStep ==
  ASSUME TypeOK, NEW e \in Exec, Whole(e), Begin(e)
  PROVE  Whole(e)'
<1>1. pc[e] = "idle" /\ Untouched(e) /\ \A a \in Act : call[e][a] # "asked"
  BY IdleUntouched
     DEF Begin, validateRequiredParams, NodeArguments, onMsgEnableCondition, OnMsg, testHTTPActivity
<1>2. CASE validateRequiredParams(e)
  <2>1. Earns(e, "Failure")
    BY <1>1 DEF Earns
  <2> QED BY <1>1, <1>2, <2>1, Telling
          DEF TypeOK, validateRequiredParams, Tell, Relations
<1>3. CASE NodeArguments(e)
  <2>1. Earns(e, "Failure")
    BY <1>1 DEF Earns
  <2> QED BY <1>1, <1>3, <2>1, Telling
          DEF TypeOK, NodeArguments, Tell, Answer, Relations
<1>4. CASE onMsgEnableCondition(e)
  <2>1. PICK relation \in {"Failure", "Success"} : Tell(e, relation) /\ Answer(e, relation)
    BY <1>4 DEF onMsgEnableCondition
  <2>2. Earns(e, relation)
    BY <1>1, <1>4, <2>1 DEF Earns, Skipped, onMsgEnableCondition
  <2> QED BY <1>1, <1>4, <2>1, <2>2, Telling
          DEF TypeOK, onMsgEnableCondition, Tell, Answer, Relations
<1>5. CASE testHTTPActivity(e)
  <2>1. PICK relation \in {"Failure", "Success"} : Tell(e, relation) /\ Answer(e, relation)
    BY <1>5 DEF testHTTPActivity
  <2>2. Earns(e, relation)
    BY <1>1, <1>5, <2>1 DEF Earns, Skipped, testHTTPActivity
  <2> QED BY <1>1, <1>5, <2>1, <2>2, Telling
          DEF TypeOK, testHTTPActivity, Tell, Answer, Relations
<1>6. CASE OnMsg(e)
  <2>1. /\ node' = node /\ stage' = stage /\ call' = call /\ task' = task /\ told' = told
        /\ record' = record /\ test' = test /\ pc'[e] = "running"
    BY <1>6 DEF OnMsg, TypeOK
  <2>2. Stages(e)' = Stages(e) /\ Activities(e)' = Activities(e)
    BY <2>1 DEF Stages, Activities
  <2>3. told[e] = "none"
    BY <1>1 DEF Whole, Fresh
  <2> QED BY <1>1, <2>1, <2>2, <2>3
          DEF Whole, Fresh, AtStage, OkRan, Awaited, Earned, Recorded, Untouched
<1> QED BY <1>2, <1>3, <1>4, <1>5, <1>6 DEF Begin

LEMMA AskStep ==
  ASSUME TypeOK, NEW e \in Exec, Whole(e), Asks(e)
  PROVE  Whole(e)'
<1>1. PICK a \in Act : execOneActivity(e, a) \/ RequestActivity(e, a) \/ GiveUp(e, a)
  BY DEF Asks
<1>2. /\ node' = node /\ pc' = pc /\ stage' = stage /\ told' = told
      /\ record' = record /\ test' = test
  BY <1>1 DEF execOneActivity, RequestActivity, GiveUp, nodeVars
<1>3. Stages(e)' = Stages(e) /\ Activities(e)' = Activities(e)
  BY <1>2 DEF Stages, Activities
<1>4. PICK i \in DOMAIN Stages(e) : i <= stage[e] /\ a \in Stages(e)[i]
  <2>1. CASE execOneActivity(e, a)
    <3>1. a \in Current(e)
      BY <2>1 DEF execOneActivity
    <3>2. stage[e] \in DOMAIN Stages(e) /\ a \in Stages(e)[stage[e]]
      BY <3>1, CurrentType
    <3>3. stage[e] <= stage[e]
      BY DEF TypeOK
    <3> QED BY <3>2, <3>3
  <2>2. CASE call[e][a] # "none"
    BY <2>2 DEF Whole, AtStage
  <2> QED BY <1>1, <2>1, <2>2 DEF RequestActivity, GiveUp
<1>5. pc[e] = "running"
  <2>1. pc[e] # "told"
    BY <1>1 DEF Whole, Awaited, execOneActivity, RequestActivity, GiveUp
  <2>2. pc[e] # "idle"
    BY <1>1, IdleUntouched DEF execOneActivity, RequestActivity, GiveUp
  <2> QED BY <2>1, <2>2 DEF TypeOK
<1>6. call[e][a] # "ok" /\ \A b \in Act \ {a} : call'[e][b] = call[e][b]
  BY <1>1 DEF TypeOK, execOneActivity, RequestActivity, GiveUp
<1>7. AtStage(e)'
  <2>1. ASSUME NEW j \in DOMAIN Stages(e), j < stage[e], NEW b \in Stages(e)[j]
        PROVE  call'[e][b] = "ok"
    <3>1. b \in Act /\ call[e][b] = "ok"
      BY <2>1, StagesType DEF Whole, AtStage
    <3> QED BY <1>6, <3>1
  <2>2. ASSUME NEW b \in Act, call'[e][b] # "none"
        PROVE  \E j \in DOMAIN Stages(e) : j <= stage[e] /\ b \in Stages(e)[j]
    <3>1. CASE b = a
      BY <1>4, <3>1
    <3>2. CASE b # a
      BY <1>6, <2>2, <3>2 DEF Whole, AtStage
    <3> QED BY <3>1, <3>2
  <2> QED BY <1>2, <1>3, <1>5, <2>1, <2>2 DEF Whole, AtStage
<1>8. OkRan(e)'
  <2> SUFFICES ASSUME NEW b \in Act, call'[e][b] = "ok"
               PROVE  task'[e][b] \in {"value", "nil"}
    BY DEF OkRan
  <2>1. CASE b # a
    <3>1. task'[e][b] = task[e][b]
      BY <1>1, <2>1 DEF TypeOK, execOneActivity, RequestActivity, GiveUp
    <3> QED BY <1>6, <2>1, <3>1 DEF Whole, OkRan
  <2>2. CASE b = a
    <3>1. RequestActivity(e, a)
      BY <1>1, <2>2 DEF TypeOK, execOneActivity, GiveUp
    <3>2. task' = task /\ task[e][a] \in Results
      BY <3>1 DEF RequestActivity
    <3>3. task[e][a] # "error"
      <4> SUFFICES ASSUME task[e][a] = "error" PROVE FALSE
        OBVIOUS
      <4>1. call' = [call EXCEPT ![e][a] = "failed"]
        BY <3>1 DEF RequestActivity, execActivityResponse
      <4> QED BY <2>2, <4>1 DEF TypeOK
    <3> QED BY <2>2, <3>2, <3>3 DEF Results
  <2> QED BY <2>1, <2>2
<1>9. told[e] = "none" /\ record[e] = NoRecord /\ test[e] = NoRecord
  BY <1>5 DEF Whole, Fresh
<1> QED BY <1>2, <1>5, <1>7, <1>8, <1>9
        DEF Whole, Fresh, Awaited, Earned, Recorded, NoRecord

LEMMA EndStep ==
  ASSUME TypeOK, NEW e \in Exec, Whole(e), Ends(e)
  PROVE  Whole(e)'
<1>1. pc[e] = "running"
  BY DEF Ends, execParallelStage, onMsgFailureEndExec, onMsgSuccessEndExec, RequestDirectly
<1>2. Fresh(e) /\ AtStage(e) /\ OkRan(e)
  BY DEF Whole
<1>3. stage[e] \in Nat \ {0}
  BY DEF TypeOK
<1>4. CASE execParallelStage(e)
  <2>1. /\ node' = node /\ pc' = pc /\ call' = call /\ task' = task /\ told' = told
        /\ record' = record /\ test' = test /\ stage'[e] = stage[e] + 1
    BY <1>4 DEF execParallelStage, TypeOK
  <2>2. Stages(e)' = Stages(e)
    BY <2>1 DEF Stages
  <2>3. \A a \in Current(e) : call[e][a] = "ok"
    BY <1>4 DEF execParallelStage, Over, FailedIn
  <2>4. ASSUME NEW i \in DOMAIN Stages(e), i < stage[e] + 1, NEW a \in Stages(e)[i]
        PROVE  call[e][a] = "ok"
    <3>1. i \in Nat
      BY StagesType
    <3>2. CASE i < stage[e]
      BY <1>2, <3>2 DEF AtStage
    <3>3. CASE i = stage[e]
      BY <2>3, <3>3, CurrentType
    <3> QED BY <1>3, <2>4, <3>1, <3>2, <3>3
  <2>5. ASSUME NEW a \in Act, call[e][a] # "none"
        PROVE  \E i \in DOMAIN Stages(e) : i <= stage[e] + 1 /\ a \in Stages(e)[i]
    <3>1. PICK i \in DOMAIN Stages(e) : i <= stage[e] /\ a \in Stages(e)[i]
      BY <1>2, <2>5 DEF AtStage
    <3>2. i <= stage[e] + 1
      BY <1>3, <3>1, StagesType
    <3> QED BY <3>1, <3>2
  <2>6. AtStage(e)'
    BY <1>1, <1>4, <2>1, <2>2, <2>4, <2>5 DEF AtStage, execParallelStage
  <2> QED BY <1>1, <1>2, <2>1, <2>6
          DEF Whole, Fresh, OkRan, Awaited, Earned, Recorded, NoRecord
<1>5. CASE onMsgFailureEndExec(e)
  <2>1. \A a \in Act : call[e][a] # "asked"
    BY <1>2, <1>5, OverIsAwaited DEF onMsgFailureEndExec
  <2>2. PICK a \in Current(e) : call[e][a] = "failed"
    BY <1>5 DEF onMsgFailureEndExec, FailedIn
  <2>3. a \in Activities(e)
    BY <2>2, CurrentType, ActivityInStage
  <2>4. Earns(e, "Failure")
    BY <2>2, <2>3 DEF Earns
  <2> QED BY <1>1, <1>5, <2>1, <2>4, Telling
          DEF TypeOK, onMsgFailureEndExec, Tell, Answer, pushNodeLog, Relations
<1>6. CASE onMsgSuccessEndExec(e)
  <2>1. stage[e] > Len(Stages(e))
    BY <1>6 DEF onMsgSuccessEndExec
  <2>2. \A i \in DOMAIN Stages(e) : \A a \in Stages(e)[i] : call[e][a] = "ok"
    BY <1>2, <1>3, <2>1, StagesType DEF AtStage
  <2>3. AllOk(e)
    BY <2>2, AllStagesOk
  <2>4. Over(e)
    BY <1>3, <2>1, StagesType, CurrentType DEF Over
  <2>5. \A a \in Act : call[e][a] # "asked"
    BY <1>2, <2>4, OverIsAwaited
  <2>6. PICK relation \in routeBySwitchCondition(e) :
          Tell(e, relation) /\ Answer(e, relation) /\ pushNodeLog(e, relation)
    BY <1>6 DEF onMsgSuccessEndExec
  <2>7. relation \in Relations /\ Earns(e, relation)
    BY <2>3, <2>6 DEF Earns, routeBySwitchCondition, Relations
  <2> QED BY <1>1, <1>6, <2>5, <2>6, <2>7, Telling
          DEF TypeOK, onMsgSuccessEndExec, Tell, Answer, pushNodeLog
<1>7. CASE RequestDirectly(e)
  <2>1. \A a \in Act : call[e][a] # "asked"
    BY <1>2, <1>7, OverIsAwaited DEF RequestDirectly
  <2>2. node[e].kind \in Alone
    BY <1>7 DEF RequestDirectly, Alone
  <2>3. PICK b \in Act : Stages(e) = <<{b}>>
    BY <2>2, AloneHasOne
  <2>4. stage[e] = 1
    BY <1>2, <2>2 DEF AtStage
  <2>5. Current(e) = {b} /\ Activities(e) = {b}
    BY <2>3, <2>4 DEF Current, Activities
  <2> DEFINE relation == IF FailedIn(e) THEN "Failure" ELSE "Success"
  <2>6. Earns(e, relation)
    <3>1. CASE FailedIn(e)
      BY <2>5, <3>1 DEF Earns, FailedIn
    <3>2. CASE ~FailedIn(e)
      <4>1. call[e][b] = "ok"
        BY <1>7, <2>5, <3>2 DEF RequestDirectly, Over, FailedIn
      <4>2. AllOk(e)
        BY <1>2, <2>5, <4>1 DEF AllOk, OkRan
      <4> QED BY <3>2, <4>2 DEF Earns
    <3> QED BY <3>1, <3>2
  <2>7. relation \in Relations
    BY DEF Relations
  <2>8. /\ node' = node /\ stage' = stage /\ call' = call /\ task' = task
        /\ Tell(e, relation) /\ Answer(e, relation) /\ asyncPushLog(e, relation)
    BY <1>7 DEF RequestDirectly
  <2> HIDE DEF relation
  <2> QED BY <1>1, <2>1, <2>6, <2>7, <2>8, Telling DEF TypeOK, Tell, Answer, asyncPushLog
<1> QED BY <1>4, <1>5, <1>6, <1>7 DEF Ends

LEMMA SaveStep ==
  ASSUME TypeOK, NEW e \in Exec, Whole(e), Saves(e)
  PROVE  Whole(e)'
<1>1. /\ node' = node /\ pc' = pc /\ stage' = stage /\ call' = call /\ task' = task
      /\ told' = told
  BY DEF Saves, CreateNodeLog, saveTestRecord
<1>2. Stages(e)' = Stages(e) /\ Activities(e)' = Activities(e)
  BY <1>1 DEF Stages, Activities
<1>3. pc[e] = "told"
  BY DEF Whole, Fresh, Saves, CreateNodeLog, saveTestRecord, NoRecord, TypeOK
<1>4. Fresh(e)' /\ AtStage(e)' /\ OkRan(e)' /\ Awaited(e)'
  BY <1>1, <1>2, <1>3 DEF Whole, Fresh, AtStage, OkRan, Awaited, Untouched
<1>5. Earned(e)'
  BY <1>1, <1>2 DEF Whole, Earned, Skipped, Untouched, AllOk
<1>6. Recorded(e)'
  <2>1. record[e] \in Records /\ test[e] \in Records
    BY DEF TypeOK
  <2>2. /\ (record'[e].status = "none") = (record[e].status = "none")
        /\ (test'[e].status = "none") = (test[e].status = "none")
        /\ record'[e].says = record[e].says /\ test'[e].says = test[e].says
    BY <2>1 DEF Saves, CreateNodeLog, saveTestRecord, Records, TypeOK
  <2> QED BY <1>1, <2>2 DEF Whole, Recorded, Untouched
<1> QED BY <1>4, <1>5, <1>6 DEF Whole

(* The queue changes no task that has a result. *)
LEMMA QueueStep ==
  ASSUME TypeOK, NEW e \in Exec, Whole(e),
         registerActivities \/ Works \/ Stop \/ Collects
  PROVE  Whole(e)'
<1>1. nodeVars' = nodeVars /\ call' = call
  BY DEF registerActivities, Works, Stop, Collects, Take, SubscribeActivity, LPop, drainLogKey
<1>2. ASSUME NEW a \in Act, task[e][a] \in {"value", "nil"}
      PROVE  task'[e][a] = task[e][a]
  <2>1. CASE registerActivities \/ Collects
    BY <2>1 DEF registerActivities, Collects, LPop, drainLogKey
  <2>2. CASE Works
    <3>1. PICK d \in Exec, b \in Act : Take(d, b) \/ SubscribeActivity(d, b)
      BY <2>2 DEF Works
    <3>2. task[d][b] \notin {"value", "nil"}
         /\ \E r \in Tasks : task' = [task EXCEPT ![d][b] = r]
      BY <3>1 DEF Take, SubscribeActivity, Tasks, Results
    <3>3. CASE d = e /\ b = a
      BY <1>2, <3>2, <3>3
    <3>4. CASE ~(d = e /\ b = a)
      BY <3>2, <3>4 DEF TypeOK
    <3> QED BY <3>3, <3>4
  <2>3. CASE Stop
    BY <1>2, <2>3 DEF TypeOK, Stop, Requeue
  <2> QED BY <2>1, <2>2, <2>3
<1> QED BY <1>1, <1>2, Frame DEF nodeVars

LEMMA WholeStep ==
  ASSUME IInv, [Next]_vars, NEW d \in Exec
  PROVE  Whole(d)'
<1>1. TypeOK /\ Whole(d)
  BY DEF IInv
<1>2. CASE \E e \in Exec : Begin(e) \/ Asks(e) \/ Ends(e) \/ Saves(e)
  <2>1. PICK e \in Exec : Begin(e) \/ Asks(e) \/ Ends(e) \/ Saves(e)
    BY <1>2
  <2>2. CASE d # e
    BY <1>1, <2>1, <2>2, NodeStep
  <2>3. CASE d = e
    BY <1>1, <2>1, <2>3, BeginStep, AskStep, EndStep, SaveStep
  <2> QED BY <2>2, <2>3
<1>3. CASE registerActivities \/ Works \/ Stop \/ Collects
  BY <1>1, <1>3, QueueStep
<1>4. CASE UNCHANGED vars
  BY <1>1, <1>4, Frame DEF vars, nodeVars
<1> QED BY <1>2, <1>3, <1>4 DEF Next

-----------------------------------------------------------------------------
(* The log lines.                                                          *)

LEMMA HandSize ==
  ASSUME TypeOK
  PROVE  IsFiniteSet(hand) /\ Cardinality(hand) \in Nat
BY FiniteAssumption, FS_Subset, FS_CardinalityType DEF TypeOK

LEMMA TakenSize == Cardinality(Taken) \in Nat /\ IsFiniteSet(Taken)
<1>1. IsFiniteSet(Exec \X Act)
  BY FiniteAssumption, FS_Product
<1>2. Taken \subseteq Exec \X Act
  BY DEF Taken
<1> QED BY <1>1, <1>2, FS_Subset, FS_CardinalityType

(* A push never lengthens the list by more than the lines it brings. *)
LEMMA PushKeeps ==
  ASSUME TypeOK, StoredOnce, NEW n \in Nat, pushActivityLog(n)
  PROVE  /\ unstored' \in Nat /\ list' \in 0 .. MaxLines /\ hand' \subseteq Collector
         /\ StoredOnce'
<1>1. list \in Nat /\ unstored \in Nat /\ MaxLines \in Nat /\ Cardinality(hand) \in Nat
  BY BoundAssumption, HandSize DEF TypeOK
<1> DEFINE held == Cardinality(hand)
<1>2. held' = held /\ held \in Nat /\ list + held <= unstored
  BY <1>1 DEF pushActivityLog, StoredOnce
<1> HIDE DEF held
<1>3. /\ list' \in 0 .. MaxLines /\ unstored' \in Nat
      /\ list' + held <= unstored'
  BY <1>1, <1>2 DEF pushActivityLog
<1> QED BY <1>2, <1>3 DEF pushActivityLog, StoredOnce, TypeOK, held

(* Popping moves a line from the list to a hand; storing or losing it      *)
(* empties the hand.                                                       *)
LEMMA CollectKeeps ==
  ASSUME TypeOK, StoredOnce, Collects
  PROVE  /\ unstored' \in Nat /\ list' \in 0 .. MaxLines /\ hand' \subseteq Collector
         /\ StoredOnce'
<1>1. PICK c \in Collector : LPop(c) \/ drainLogKey(c)
  BY DEF Collects
<1>2. list \in 0 .. MaxLines /\ unstored \in Nat /\ MaxLines \in Nat
  BY BoundAssumption DEF TypeOK
<1>3. IsFiniteSet(hand) /\ Cardinality(hand) \in Nat
  BY HandSize
<1>4. CASE LPop(c)
  <2>1. Cardinality(hand') = Cardinality(hand) + 1
    BY <1>3, <1>4, FS_AddElement DEF LPop
  <2>2. list' = list - 1 /\ list > 0 /\ unstored' = unstored /\ hand' \subseteq Collector
    BY <1>4 DEF LPop, TypeOK
  <2> QED BY <1>2, <1>3, <2>1, <2>2 DEF StoredOnce
<1>5. CASE drainLogKey(c)
  <2>1. Cardinality(hand') = Cardinality(hand) - 1
    BY <1>3, <1>5, FS_RemoveElement DEF drainLogKey
  <2>2. Cardinality(hand') \in Nat
    BY <1>3, <1>5, FS_RemoveElement, FS_CardinalityType DEF drainLogKey
  <2>3. list' = list /\ (unstored' = unstored - 1 \/ unstored' = unstored) /\ hand' \subseteq Collector
    BY <1>5 DEF drainLogKey, TypeOK
  <2> QED BY <1>2, <1>3, <2>1, <2>2, <2>3 DEF StoredOnce
<1> QED BY <1>1, <1>4, <1>5

-----------------------------------------------------------------------------
(* Types.                                                                  *)

LEMMA NodeTypes ==
  ASSUME TypeOK, NEW e \in Exec, Begin(e) \/ Asks(e) \/ Ends(e) \/ Saves(e)
  PROVE  TypeOK'
<1>1. /\ node' = node /\ workVars' = workVars /\ logVars' = logVars
  BY DEF Begin, validateRequiredParams, NodeArguments, onMsgEnableCondition, OnMsg,
         testHTTPActivity, Asks, execOneActivity, RequestActivity, GiveUp, nodeVars,
         Ends, execParallelStage, onMsgFailureEndExec, onMsgSuccessEndExec, RequestDirectly,
         Saves, CreateNodeLog, saveTestRecord
<1>2. \A relation \in Relations : Pending(relation) \in Records
  BY DEF Pending, Records
<1>3. {"Failure", "Success", "branch"} = Relations
  BY DEF Relations
<1>4. CASE Begin(e)
  <2>1. pc' \in [Exec -> {"idle", "running", "told"}]
    BY <1>4 DEF TypeOK, Begin, validateRequiredParams, NodeArguments, onMsgEnableCondition,
                OnMsg, testHTTPActivity, Tell
  <2>2. told' \in [Exec -> Relations \cup {"none"}]
    BY <1>3, <1>4 DEF TypeOK, Begin, validateRequiredParams, NodeArguments, onMsgEnableCondition,
                OnMsg, testHTTPActivity, Tell
  <2>3. test' \in [Exec -> Records]
    BY <1>2, <1>3, <1>4 DEF TypeOK, Begin, validateRequiredParams, NodeArguments,
                onMsgEnableCondition, OnMsg, testHTTPActivity, Answer
  <2>4. stage' = stage /\ call' = call /\ task' = task /\ record' = record
    BY <1>4 DEF Begin, validateRequiredParams, NodeArguments,
                onMsgEnableCondition, OnMsg, testHTTPActivity
  <2> QED BY <1>1, <2>1, <2>2, <2>3, <2>4 DEF TypeOK, workVars, logVars
<1>5. CASE Asks(e)
  <2>1. PICK a \in Act : execOneActivity(e, a) \/ RequestActivity(e, a) \/ GiveUp(e, a)
    BY <1>5 DEF Asks
  <2>2. call' \in [Exec -> [Act -> Calls]]
    <3>1. \E c \in Calls : call' = [call EXCEPT ![e][a] = c]
      BY <2>1 DEF execOneActivity, RequestActivity, GiveUp, execActivityResponse, Calls
    <3> QED BY <3>1 DEF TypeOK
  <2>3. task' \in [Exec -> [Act -> Tasks]]
    <3>1. task' = task \/ task' = [task EXCEPT ![e][a] = "queued"]
      BY <2>1 DEF execOneActivity, RequestActivity, GiveUp
    <3>2. "queued" \in Tasks
      BY DEF Tasks
    <3>3. task \in [Exec -> [Act -> Tasks]]
      BY DEF TypeOK
    <3>4. CASE task' = [task EXCEPT ![e][a] = "queued"]
      BY <3>2, <3>3, <3>4
    <3> QED BY <3>1, <3>3, <3>4
  <2>4. nodeVars' = nodeVars
    BY <2>1 DEF execOneActivity, RequestActivity, GiveUp
  <2> QED BY <1>1, <2>2, <2>3, <2>4 DEF TypeOK, nodeVars, workVars, logVars
<1>6. CASE Ends(e)
  <2>1. /\ call' = call /\ task' = task
        /\ stage' = stage \/ stage' = [stage EXCEPT ![e] = @ + 1]
    BY <1>6 DEF Ends, execParallelStage, onMsgFailureEndExec, onMsgSuccessEndExec, RequestDirectly
  <2>2. stage' \in [Exec -> Nat \ {0}]
    BY <2>1 DEF TypeOK
  <2>3. \/ pc' = pc /\ told' = told /\ record' = record /\ test' = test
        \/ \E relation \in Relations :
             /\ Tell(e, relation) /\ Answer(e, relation)
             /\ record' = [record EXCEPT ![e] = Pending(relation)]
    BY <1>3, <1>6 DEF Ends, execParallelStage, onMsgFailureEndExec, onMsgSuccessEndExec,
         RequestDirectly, pushNodeLog, asyncPushLog, routeBySwitchCondition
  <2>4. /\ pc' \in [Exec -> {"idle", "running", "told"}]
        /\ told' \in [Exec -> Relations \cup {"none"}]
        /\ record' \in [Exec -> Records] /\ test' \in [Exec -> Records]
    <3>1. CASE \E relation \in Relations :
                 /\ Tell(e, relation) /\ Answer(e, relation)
                 /\ record' = [record EXCEPT ![e] = Pending(relation)]
      <4>1. PICK relation \in Relations :
              /\ Tell(e, relation) /\ Answer(e, relation)
              /\ record' = [record EXCEPT ![e] = Pending(relation)]
        BY <3>1
      <4>2. Pending(relation) \in Records
        BY <1>2
      <4>3. record' \in [Exec -> Records] /\ test' \in [Exec -> Records]
        BY <4>1, <4>2 DEF TypeOK, Answer
      <4>4. /\ pc' \in [Exec -> {"idle", "running", "told"}]
            /\ told' \in [Exec -> Relations \cup {"none"}]
        BY <4>1 DEF TypeOK, Tell
      <4> QED BY <4>3, <4>4
    <3> QED BY <2>3, <3>1 DEF TypeOK
  <2> QED BY <1>1, <2>1, <2>2, <2>4 DEF TypeOK, workVars, logVars
<1>7. CASE Saves(e)
  <2>1. record \in [Exec -> Records] /\ test \in [Exec -> Records]
    BY DEF TypeOK
  <2>3. /\ [record[e] EXCEPT !.status = "over"] \in Records
        /\ [test[e] EXCEPT !.status = "over"] \in Records
    BY <2>1 DEF Records
  <2>4. \/ test' = test /\ record' = [record EXCEPT ![e] = [record[e] EXCEPT !.status = "over"]]
        \/ record' = record /\ test' = [test EXCEPT ![e] = [test[e] EXCEPT !.status = "over"]]
    BY <1>7 DEF Saves, CreateNodeLog, saveTestRecord
  <2>5. record' \in [Exec -> Records] /\ test' \in [Exec -> Records]
    BY <2>1, <2>3, <2>4
  <2>2. /\ pc' = pc /\ stage' = stage /\ told' = told /\ call' = call /\ task' = task
    BY <1>7 DEF Saves, CreateNodeLog, saveTestRecord
  <2> QED BY <1>1, <2>2, <2>5 DEF TypeOK, workVars, logVars
<1> QED BY <1>4, <1>5, <1>6, <1>7

LEMMA QueueTypes ==
  ASSUME TypeOK, StoredOnce, registerActivities \/ Works \/ Stop \/ Collects
  PROVE  TypeOK' /\ StoredOnce'
<1>1. nodeVars' = nodeVars /\ call' = call
  BY DEF registerActivities, Works, Stop, Collects, Take, SubscribeActivity, LPop, drainLogKey
<1>2. CASE registerActivities
  BY <1>1, <1>2 DEF registerActivities, TypeOK, StoredOnce, nodeVars, logVars
<1>3. CASE Works
  <2>1. PICK e \in Exec, a \in Act : Take(e, a) \/ SubscribeActivity(e, a)
    BY <1>3 DEF Works
  <2>2. workVars' = workVars
    BY <2>1 DEF Take, SubscribeActivity
  <2>3. \E r \in Tasks : task' = [task EXCEPT ![e][a] = r]
    BY <2>1 DEF Take, SubscribeActivity, Tasks
  <2>4. task' \in [Exec -> [Act -> Tasks]]
    BY <2>3 DEF TypeOK
  <2>5. logVars' = logVars \/ \E n \in Nat : pushActivityLog(n)
    BY <2>1 DEF Take, SubscribeActivity
  <2>6. unstored' \in Nat /\ list' \in 0 .. MaxLines /\ hand' \subseteq Collector /\ StoredOnce'
    BY <2>5, PushKeeps DEF TypeOK, StoredOnce, logVars
  <2> QED BY <1>1, <2>2, <2>4, <2>6 DEF TypeOK, nodeVars, workVars
<1>4. CASE Stop
  <2>1. up' \in BOOLEAN /\ stops' \in 0 .. MaxStops
    <3>1. stops \in 0 .. MaxStops /\ MaxStops \in Nat /\ stops < MaxStops
      BY <1>4, BoundAssumption DEF Stop, TypeOK
    <3>2. up' = FALSE /\ stops' = stops + 1
      BY <1>4 DEF Stop
    <3>3. up' \in BOOLEAN
      BY <3>2
    <3>4. stops' \in 0 .. MaxStops
      BY <3>1, <3>2
    <3> QED BY <3>3, <3>4
  <2>2. \A e \in Exec : Requeue(task[e]) \in [Act -> Tasks]
    BY DEF TypeOK, Requeue, Tasks
  <2>3. task' \in [Exec -> [Act -> Tasks]]
    BY <1>4, <2>2 DEF Stop
  <2>4. PICK n \in 0 .. Cardinality(Taken) : pushActivityLog(n)
    BY <1>4 DEF Stop
  <2>5. n \in Nat
    BY TakenSize
  <2>6. unstored' \in Nat /\ list' \in 0 .. MaxLines /\ hand' \subseteq Collector /\ StoredOnce'
    BY <2>4, <2>5, PushKeeps
  <2> QED BY <1>1, <2>1, <2>3, <2>6 DEF TypeOK, nodeVars
<1>5. CASE Collects
  <2>1. task' = task /\ workVars' = workVars
    BY <1>5 DEF Collects, LPop, drainLogKey
  <2> QED BY <1>1, <1>5, <2>1, CollectKeeps DEF TypeOK, nodeVars, workVars
<1> QED BY <1>2, <1>3, <1>4, <1>5

-----------------------------------------------------------------------------
(* The invariant.                                                          *)

LEMMA InitInv == Init => IInv
<1> SUFFICES ASSUME Init PROVE IInv
  OBVIOUS
<1>1. hand = {} /\ Cardinality(hand) = 0
  BY FS_EmptySet DEF Init
<1>2. StoredOnce
  BY <1>1 DEF Init, StoredOnce
<1>3. TypeOK
  <2>1. NoRecord \in Records
    BY DEF NoRecord, Records
  <2>2. record \in [Exec -> Records] /\ test \in [Exec -> Records]
    BY <2>1 DEF Init
  <2>3. call \in [Exec -> [Act -> Calls]] /\ task \in [Exec -> [Act -> Tasks]]
    BY DEF Init, Calls, Tasks
  <2>4. stops \in 0 .. MaxStops /\ unstored \in Nat /\ list \in 0 .. MaxLines
    BY BoundAssumption DEF Init
  <2>5. up \in BOOLEAN
    BY DEF Init
  <2> QED BY <2>2, <2>3, <2>4, <2>5 DEF Init, TypeOK
<1>4. ASSUME NEW e \in Exec PROVE Whole(e)
  <2>1. /\ pc[e] = "idle" /\ stage[e] = 1 /\ told[e] = "none" /\ Untouched(e)
        /\ record[e] = NoRecord /\ test[e] = NoRecord
    BY DEF Init, Untouched
  <2>2. AtStage(e)
    BY <1>3, <2>1, StagesType DEF AtStage, Untouched
  <2>3. Fresh(e) /\ OkRan(e) /\ Awaited(e) /\ Earned(e) /\ Recorded(e)
    BY <2>1 DEF Fresh, OkRan, Awaited, Earned, Recorded, Untouched, NoRecord
  <2> QED BY <2>2, <2>3 DEF Whole
<1> QED BY <1>2, <1>3, <1>4 DEF IInv

LEMMA NextInv == IInv /\ [Next]_vars => IInv'
<1> SUFFICES ASSUME IInv, [Next]_vars PROVE IInv'
  OBVIOUS
<1>1. TypeOK /\ StoredOnce
  BY DEF IInv
<1>2. TypeOK' /\ StoredOnce'
  <2>1. CASE \E e \in Exec : Begin(e) \/ Asks(e) \/ Ends(e) \/ Saves(e)
    <3>1. TypeOK'
      BY <1>1, <2>1, NodeTypes
    <3>2. logVars' = logVars
      BY <2>1 DEF Begin, validateRequiredParams, NodeArguments, onMsgEnableCondition, OnMsg,
         testHTTPActivity, Asks, execOneActivity, RequestActivity, GiveUp,
         Ends, execParallelStage, onMsgFailureEndExec, onMsgSuccessEndExec, RequestDirectly,
         Saves, CreateNodeLog, saveTestRecord
    <3> QED BY <1>1, <3>1, <3>2 DEF StoredOnce, logVars
  <2>2. CASE registerActivities \/ Works \/ Stop \/ Collects
    BY <1>1, <2>2, QueueTypes
  <2>3. CASE UNCHANGED vars
    BY <1>1, <2>3 DEF TypeOK, StoredOnce, vars, nodeVars, workVars, logVars
  <2> QED BY <2>1, <2>2, <2>3 DEF Next
<1>3. \A e \in Exec : Whole(e)'
  BY WholeStep
<1> QED BY <1>2, <1>3 DEF IInv

(* Stages are asked for in their order: what is asked for at stage j puts  *)
(* the execution at j or later, and it has succeeded with all before.      *)
LEMMA AtStageInOrder ==
  ASSUME TypeOK, NEW e \in Exec, Whole(e)
  PROVE  InOrder(e)
<1> SUFFICES ASSUME NEW i \in DOMAIN Stages(e), NEW j \in DOMAIN Stages(e), i < j,
                    NEW a \in Stages(e)[i], NEW b \in Stages(e)[j], call[e][b] # "none"
             PROVE  call[e][a] = "ok" /\ task[e][a] \in {"value", "nil"}
  BY DEF InOrder
<1>1. a \in Act /\ b \in Act /\ i \in Nat /\ j \in Nat /\ stage[e] \in Nat
  BY StagesType DEF TypeOK
<1>2. PICK k \in DOMAIN Stages(e) : k <= stage[e] /\ b \in Stages(e)[k]
  BY <1>1 DEF Whole, AtStage
<1>3. k = j
  BY <1>2, StagesType
<1>4. call[e][a] = "ok"
  BY <1>1, <1>2, <1>3 DEF Whole, AtStage
<1> QED BY <1>1, <1>4 DEF Whole, OkRan

THEOREM InvHolds == Spec => []IInv
BY InitInv, NextInv, PTL DEF Spec

(* The variables keep their types (ActivityNode, RedisMessageQueueActivity *)
(* and the log list of pushActivityLog).                                   *)
THEOREM TypeCorrect == Spec => []TypeOK
<1>1. IInv => TypeOK
  BY DEF IInv
<1> QED BY <1>1, InvHolds, PTL

(* Every execution of a node is whole, in the order of its stages, or a    *)
(* failure: what it tells and records is what its workers did, for nodes   *)
(* of any shape, whatever times out and however often the worker stops.    *)
THEOREM ExecutionsAreWhole == Spec => []WholeInOrder
<1>1. IInv => WholeInOrder
  BY AtStageInOrder DEF IInv, Whole, WholeInOrder
<1> QED BY <1>1, InvHolds, PTL

(* No log line is stored twice, for any number of collectors and any       *)
(* length of the list (pushActivityLog, drainLogKey).                      *)
THEOREM NoLineTwice == Spec => []StoredOnce
<1>1. IInv => StoredOnce
  BY DEF IInv
<1> QED BY <1>1, InvHolds, PTL
=============================================================================
