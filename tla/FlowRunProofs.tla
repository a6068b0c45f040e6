---------------------------- MODULE FlowRunProofs ----------------------------
(***************************************************************************)
(* FlowRun for chains of any shape and any number of executions: types,    *)
(* how EndFunc reports what the branches came to, and that an invocation   *)
(* runs its release.                                                       *)
(*                                                                         *)
(* EndInv follows the end that is kept (endRecordOne): until EndFunc is    *)
(* called it is a failure exactly when a branch ended with an error that   *)
(* is heard of.  RelInv follows an *)
(* invocation and its engine: the key of a release never holds another     *)
(* version, and an invocation that has got its engine has it in the pool   *)
(* or keeps what was deleted under it.                                     *)
(***************************************************************************)
EXTENDS FlowRun, TLAPS

EndInv(r) ==
  /\ end[r].err => end[r].got /\ failed[r]
  /\ pc[r] = "idle" => ~failed[r]
  /\ ~result[r].got => (failed[r] /\ Heard(r) => end[r].err)
  /\ result[r].got => /\ at[r] = {} /\ pc[r] \in {"ended", "unload", "done"}
                      /\ result[r].err => failed[r]
                      /\ failed[r] /\ Heard(r) => result[r].err
  /\ pc[r] \in {"ended", "unload"} => result[r].got

RelInv(r) ==
  /\ pc[r] = "idle" => cut[r] = None /\ ran[r] = {}
  /\ ViaEngine(r) => pc[r] \notin {"get", "reload", "msg"}
  /\ pc[r] \in {"reload", "msg", "running"} /\ cut[r] = None => pool[Key(r)] # None
  /\ door[r] = "release" =>
       /\ pc[r] \notin {"load", "mark", "execute", "unload"}
       /\ read[r].own = Release
       /\ cut[r] \in {None, Release}
       /\ ran[r] \subseteq {Release}

IInv ==
  /\ TypeOK
  /\ pool["release"] \in {None, Release}
  /\ \A r \in Run : EndInv(r) /\ RelInv(r)

-----------------------------------------------------------------------------
(* Versions, keys and nodes.                                               *)

LEMMA ReleaseType == Release \in Version /\ Release # None /\ Base \in [own : Version, sub : Version]
<1>1. MaxEdits.root \in Nat /\ MaxEdits.sub \in Nat
  BY MaxEditsAssumption
<1>2. Release \in Version
  BY <1>1 DEF Version, Release
<1> QED BY <1>2, NoneAssumption DEF Base

LEMMA KeyType ==
  ASSUME TypeOK, NEW r \in Run
  PROVE  /\ Key(r) \in Keys
         /\ Key(r) = "release" <=> door[r] = "release"
BY DEF TypeOK, Doors, Key, Keys

LEMMA FirstNodeType == ASSUME NEW r \in Run PROVE FirstNode(Dsl(r)) \in Node
<1>1. Ids(Dsl(r)) \subseteq Node /\ 1 \in DOMAIN Dsl(r).nodes
  BY ShapeAssumption DEF Dsl, Node
<1>2. Dsl(r).nodes[1].id \in Ids(Dsl(r))
  BY <1>1 DEF Ids
<1> QED BY <1>1, <1>2 DEF FirstNode

LEMMA NextNodesType ==
  ASSUME NEW r \in Run, NEW n, NEW relation
  PROVE  NextNodes(Dsl(r), n, relation) \subseteq Node
<1>1. Ids(Dsl(r)) \subseteq Node
  BY DEF Dsl, Node
<1> QED BY <1>1 DEF NextNodes

-----------------------------------------------------------------------------
(* Types.                                                                  *)

(* Whatever a node passes its message on with, an error goes by Failure.   *)
Fine(out) == out.err \in BOOLEAN /\ (out.err => out.relation = "Failure")

LEMMA FineFailed == Fine(Failed)
BY DEF Fine, Failed

LEMMA OutcomeType ==
  ASSUME NEW r \in Run, NEW n, NEW out \in OutcomesOf(r, n)
  PROVE  Fine(out)
<1>1. Fine(Done) /\ Fine(Failed)
  BY FineFailed DEF Fine, Done
<1>2. ASSUME NEW S, NEW o \in Routed(S) PROVE Fine(o)
  BY DEF Fine, Routed
<1>3. ASSUME NEW o \in switchCondition PROVE Fine(o)
  <2>1. PICK k \in {"bool", "string", "number", "other", "error"} : o \in routeByCondition(k)
    BY DEF switchCondition
  <2>2. o = Failed \/ \E S : o \in Routed(S)
    BY <2>1 DEF routeByCondition
  <2> QED BY <1>1, <1>2, <2>2
<1>4. out \in switchCondition \/ out \in Routed({"none"}) \/ out = Done \/ out = Failed
  <2> USE DEF condSwitchNode, paramInputNode, returnValueNode, activityNode, flowNode
  <2>1. TypeOf(Dsl(r), n) = "cond" => OutcomesOf(r, n) = condSwitchNode
    BY DEF OutcomesOf
  <2>2. TypeOf(Dsl(r), n) = "activity" => OutcomesOf(r, n) = activityNode(r)
    BY DEF OutcomesOf
  <2>3. TypeOf(Dsl(r), n) = "flow" => OutcomesOf(r, n) = flowNode
    BY DEF OutcomesOf
  <2>4. TypeOf(Dsl(r), n) \notin {"cond", "activity", "flow"} => OutcomesOf(r, n) = {Done}
    BY DEF OutcomesOf
  <2> QED BY <2>1, <2>2, <2>3, <2>4
<1> QED BY <1>1, <1>2, <1>3, <1>4

(* The end that is kept has the type of an end, and follows the failures   *)
(* that are heard of.                                                      *)
LEMMA EndBranchType ==
  ASSUME TypeOK, NEW r \in Run, NEW n, NEW out, Fine(out), NEW seen \in SUBSET Node,
         EndBranch(r, n, out, seen)
  PROVE  /\ end' \in [Run -> Ends] /\ failed' \in [Run -> BOOLEAN]
         /\ \A q \in Run \ {r} : end'[q] = end[q] /\ failed'[q] = failed[q]
         /\ failed'[r] <=> (failed[r] \/ out.err)
         /\ end'[r].err => end[r].err \/ out.err
         /\ end[r].err /\ end[r].got => end'[r].err
         /\ out.err /\ Heard(r) => end'[r].err
         /\ (end[r].err => end[r].got) => (end'[r].err => end'[r].got)
<1>1. end \in [Run -> Ends] /\ failed \in [Run -> BOOLEAN]
  BY DEF TypeOK
<1>2. failed' = [failed EXCEPT ![r] = @ \/ out.err]
  BY DEF EndBranch
<1>3. failed' \in [Run -> BOOLEAN] /\ (failed'[r] <=> (failed[r] \/ out.err))
  BY <1>1, <1>2 DEF Fine
<1>4. \A q \in Run \ {r} : failed'[q] = failed[q]
  BY <1>1, <1>2
<1> DEFINE new == [got |-> TRUE, err |-> out.err, seen |-> seen]
<1>5. new \in Ends
  BY DEF Fine, Ends
<1>6. end[r] \in Ends
  BY <1>1
<1>7. PICK everywhere \in OnEndWithFailure(r) :
         IF Reported(r, n, out.relation, everywhere)
         THEN RecordEnd(r, out.err, seen)
         ELSE UNCHANGED end
  BY DEF EndBranch
<1>8. CASE Reported(r, n, out.relation, everywhere)
  <2>1. end' = [end EXCEPT ![r] =
                  IF end[r].got /\ (end[r].err \/ ~out.err) THEN end[r] ELSE new]
    BY <1>7, <1>8 DEF RecordEnd
  <2>2. end'[r] = IF end[r].got /\ (end[r].err \/ ~out.err) THEN end[r] ELSE new
    BY <1>1, <2>1
  <2>3. new.got = TRUE /\ new.err = out.err
    OBVIOUS
  <2>4. end' \in [Run -> Ends] /\ \A q \in Run \ {r} : end'[q] = end[q]
    BY <1>1, <1>5, <1>6, <2>1
  <2> HIDE DEF new
  <2> QED BY <1>3, <1>4, <2>2, <2>3, <2>4
<1>9. CASE ~Reported(r, n, out.relation, everywhere)
  <2>1. end' = end
    BY <1>7, <1>9
  <2>2. ~(out.err /\ Heard(r))
    <3>1. SUFFICES ASSUME out.err, Heard(r) PROVE FALSE
      OBVIOUS
    <3>2. hasEndNode(Dsl(r)) /\ ~everywhere
      BY <1>9, <3>1 DEF Fine, Reported
    <3>3. ~ViaEngine(r)
      BY <3>1, <3>2 DEF Heard
    <3>4. OnEndWithFailure(r) = {TRUE}
      BY <3>3 DEF OnEndWithFailure, ViaEngine
    <3> QED BY <3>2, <3>4
  <2> QED BY <1>1, <1>3, <1>4, <2>1, <2>2
<1> QED BY <1>8, <1>9

(* The pool and what was deleted from it hold versions. *)
LEMMA DelType ==
  ASSUME TypeOK, NEW k \in Keys, Del(k)
  PROVE  pool' \in [Keys -> Version \cup {None}] /\ cut' \in [Run -> Version \cup {None}]
<1>1. pool \in [Keys -> Version \cup {None}] /\ cut \in [Run -> Version \cup {None}]
  BY DEF TypeOK
<1>2. pool[k] \in Version \cup {None}
  BY <1>1
<1>3. \A q \in Run : (IF Holds(q, k) THEN pool[k] ELSE cut[q]) \in Version \cup {None}
  BY <1>1, <1>2
<1> QED BY <1>1, <1>3 DEF Del

LEMMA EnterType ==
  ASSUME TypeOK, NEW r \in Run, Enter(r)
  PROVE  at' \in [Run -> SUBSET Branch]
<1>1. {[node |-> FirstNode(Dsl(r)), seen |-> {}]} \in SUBSET Branch
  BY FirstNodeType DEF Branch
<1>2. at \in [Run -> SUBSET Branch]
  BY DEF TypeOK
<1> QED BY <1>1, <1>2 DEF Enter

LEMMA PrepareType ==
  ASSUME TypeOK, NEW r \in Run, Prepare(r)
  PROVE  TypeOK'
<1> USE DEF TypeOK
<1>1. Key(r) \in Keys /\ "sub" \in Keys
  BY KeyType DEF Keys
<1>2. read[r] \in [own : Version, sub : Version] /\ db.sub \in Version
  OBVIOUS
<1>3. CASE LoadSubChains(r) \/ LoadEngineSubs(r)
  <2>1. \E v \in Version : LoadOrReload("sub", v)
    BY <1>2, <1>3 DEF LoadSubChains, LoadEngineSubs
  <2>2. pool' \in [Keys -> Version \cup {None}]
    BY <1>1, <2>1 DEF LoadOrReload
  <2>3. pc' = [pc EXCEPT ![r] = "get"] \/ pc' = [pc EXCEPT ![r] = "load"]
    BY <1>3 DEF LoadSubChains, LoadEngineSubs, Goto
  <2> QED BY <1>3, <2>2, <2>3 DEF LoadSubChains, LoadEngineSubs, walkVars, history
<1>4. CASE GetEngine(r)
  <2>1. pool' \in [Keys -> Version \cup {None}]
    BY <1>1, <1>2, <1>4 DEF GetEngine
  <2> QED BY <1>4, <2>1 DEF GetEngine, Goto, walkVars, history
<1>5. CASE ReloadEngine(r)
  <2>1. pool' \in [Keys -> Version \cup {None}] /\ cut' \in [Run -> Version \cup {None}]
    BY <1>1, <1>2, <1>5 DEF ReloadEngine
  <2>2. read' \in [Run -> [own : Version, sub : Version]]
    BY <1>5, ReleaseType DEF ReloadEngine, Forget
  <2> QED BY <1>5, <2>1, <2>2 DEF ReloadEngine, Goto, walkVars, history
<1>6. CASE OnMsg(r)
  <2>1. at' \in [Run -> SUBSET Branch]
    BY <1>6, EnterType DEF OnMsg
  <2>2. end' \in [Run -> Ends]
    <3>1. [got |-> TRUE, err |-> TRUE, seen |-> {}] \in Ends
      BY DEF Ends
    <3>2. \/ end' = end
          \/ end' = [end EXCEPT ![r] = [got |-> TRUE, err |-> TRUE, seen |-> {}]]
      BY <1>6 DEF OnMsg
    <3> QED BY <3>1, <3>2
  <2>3. failed' \in [Run -> BOOLEAN]
    BY <1>6 DEF OnMsg
  <2>4. pc' = [pc EXCEPT ![r] = "running"] \/ pc' = [pc EXCEPT ![r] = "lost"]
    BY <1>6 DEF OnMsg, Enter, Goto
  <2> QED BY <1>6, <2>1, <2>2, <2>3, <2>4 DEF OnMsg, poolVars
<1>7. CASE LoadChainDSL(r)
  <2>1. pool' \in [Keys -> Version \cup {None}]
    BY <1>1, <1>2, <1>7 DEF LoadChainDSL, LoadOrReload
  <2>2. read' \in [Run -> [own : Version, sub : Version]]
    BY <1>7, ReleaseType DEF LoadChainDSL, Forget
  <2> QED BY <1>7, <2>1, <2>2 DEF LoadChainDSL, Goto, walkVars, history
<1>8. CASE MarkLoaded(r)
  <2>1. loaded' \subseteq Keys
    BY <1>1, <1>8 DEF MarkLoaded
  <2> QED BY <1>8, <2>1 DEF MarkLoaded, Goto, walkVars, history
<1>9. CASE ExecuteWithEnv(r)
  <2>1. at' \in [Run -> SUBSET Branch]
    BY <1>9, EnterType DEF ExecuteWithEnv
  <2>2. missing' \in [Run -> BOOLEAN]
    BY <1>9 DEF ExecuteWithEnv
  <2>3. pc' = [pc EXCEPT ![r] = "running"] \/ pc' = [pc EXCEPT ![r] = "done"]
    BY <1>9 DEF ExecuteWithEnv, Enter, Goto
  <2>4. answer' \in [Run -> {"none", "ok", "error", "timeout"}]
    BY <1>9 DEF ExecuteWithEnv
  <2> QED BY <1>9, <2>1, <2>2, <2>3, <2>4 DEF ExecuteWithEnv, poolVars
<1> QED BY <1>3, <1>4, <1>5, <1>6, <1>7, <1>8, <1>9 DEF Prepare

LEMMA WalkType ==
  ASSUME TypeOK, NEW r \in Run, Walk(r), RelInv(r)
  PROVE  TypeOK'
<1> USE DEF TypeOK
<1>1. pc[r] = "running"
  BY DEF Walk, NodeStep, Interrupt, Complete
<1>2. VersionRun(r) \in Version
  <2>1. pool[Key(r)] \in Version \cup {None} /\ cut[r] \in Version \cup {None}
    BY KeyType
  <2> QED BY <1>1, <2>1 DEF VersionRun, RelInv
<1>3. ASSUME NEW b \in at[r], NEW out \in OutcomesOf(r, b.node), NodeStep(r, b, out)
      PROVE  TypeOK'
  <2> DEFINE nexts == NextNodes(Dsl(r), b.node, out.relation)
             seen == b.seen \cup {b.node}
  <2>1. b \in Branch /\ seen \in SUBSET Node
    BY DEF Branch
  <2>2. nexts \subseteq Node
    BY NextNodesType
  <2>3. at' = [at EXCEPT ![r] = (at[r] \ {b}) \cup [node : nexts \ seen, seen : {seen}]]
    BY <1>3 DEF NodeStep
  <2>4. \/ EndBranch(r, b.node, out, seen)
        \/ UNCHANGED <<end, failed>>
    BY <1>3 DEF NodeStep
  <2> HIDE DEF nexts, seen
  <2>5. [node : nexts \ seen, seen : {seen}] \subseteq Branch
    BY <2>1, <2>2 DEF Branch
  <2>6. at' \in [Run -> SUBSET Branch]
    BY <2>3, <2>5
  <2>7. end' \in [Run -> Ends] /\ failed' \in [Run -> BOOLEAN]
    <3>1. Fine(out)
      BY OutcomeType
    <3> QED BY <2>1, <2>4, <3>1, EndBranchType
  <2>8. ran' \in [Run -> SUBSET Version]
    BY <1>2, <1>3 DEF NodeStep
  <2>9. missing' \in [Run -> BOOLEAN]
    BY <1>3 DEF NodeStep
  <2> QED BY <1>3, <2>6, <2>7, <2>8, <2>9 DEF NodeStep, poolVars, runVars
<1>4. ASSUME NEW b \in at[r], Interrupt(r, b) PROVE TypeOK'
  <2>1. at' \in [Run -> SUBSET Branch]
    BY <1>4 DEF Interrupt
  <2>2. b.seen \in SUBSET Node
    BY DEF Branch
  <2>3. end' \in [Run -> Ends] /\ failed' \in [Run -> BOOLEAN]
    BY <1>4, <2>2, FineFailed, EndBranchType DEF Interrupt
  <2> QED BY <1>4, <2>1, <2>3 DEF Interrupt, poolVars, runVars
<1>5. CASE Complete(r)
  <2>1. [end[r] EXCEPT !.got = TRUE] \in Ends
    <3>1. end[r] \in [got : BOOLEAN, err : BOOLEAN, seen : SUBSET Node]
      BY DEF Ends
    <3> QED BY <3>1 DEF Ends
  <2>3. NoEnd \in Ends
    BY DEF Ends, NoEnd
  <2>2. end' \in [Run -> Ends] /\ result' \in [Run -> Ends]
    BY <1>5, <2>1, <2>3 DEF Complete
  <2> QED BY <1>5, <2>2 DEF Complete, Goto, poolVars, history
<1> QED BY <1>3, <1>4, <1>5 DEF Walk

LEMMA RestType ==
  ASSUME TypeOK, [Next]_vars
  PROVE  \/ TypeOK'
         \/ \E r \in Run : Prepare(r) \/ Walk(r)
<1> USE DEF TypeOK
<1>1. ASSUME NEW c \in DOMAIN db, Edit(c) PROVE TypeOK'
  <2>1. c \in {"root", "sub"}
    OBVIOUS
  <2>2. MaxEdits.root \in Nat /\ MaxEdits.sub \in Nat
    BY MaxEditsAssumption
  <2>3. db.root \in Nat /\ db.sub \in Nat /\ db[c] + 1 \in Version
    BY <1>1, <2>1, <2>2 DEF Edit, Version
  <2>4. db' \in [root : Version, sub : Version]
    BY <1>1, <2>1, <2>3 DEF Edit
  <2> QED BY <1>1, <2>4 DEF Edit, runVars, walkVars, history
<1>2. CASE Evict
  <2>1. "release" \in Keys
    BY DEF Keys
  <2> QED BY <1>2, <2>1, DelType DEF Evict, walkVars, history
<1>3. ASSUME NEW r \in Run, Start(r) PROVE TypeOK'
  <2>1. PICK d \in Door[r] : door' = [door EXCEPT ![r] = d]
    BY <1>3 DEF Start
  <2>2. d \in Doors
    BY DoorAssumption
  <2>3. door' \in [Run -> Doors]
    BY <2>1, <2>2
  <2>4. read' \in [Run -> [own : Version, sub : Version]]
    <3>1. PICK v : read' = [read EXCEPT ![r] = [own |-> CASE v = "draft" -> db.root
                                                 [] v = "test" -> db.sub
                                                 [] OTHER -> Release,
                                       sub |-> db.sub]]
      BY <1>3 DEF Start
    <3>2. db.root \in Version /\ db.sub \in Version /\ Release \in Version
      BY ReleaseType
    <3> QED BY <3>1, <3>2
  <2>5. pc' = [pc EXCEPT ![r] = "load"] \/ pc' = [pc EXCEPT ![r] = "subs"]
    BY <1>3 DEF Start, Goto
  <2>6. async' \in [Run -> BOOLEAN]
    BY <1>3 DEF Start
  <2> QED BY <1>3, <2>3, <2>4, <2>5, <2>6 DEF Start, poolVars, walkVars, history
<1>4. ASSUME NEW r \in Run, Respond(r) PROVE TypeOK'
  <2>1. CASE Answer(r)
    <3>1. answer' \in [Run -> {"none", "ok", "error", "timeout"}]
      BY <2>1 DEF Answer
    <3>2. pc' = [pc EXCEPT ![r] = "unload"] \/ pc' = [pc EXCEPT ![r] = "done"]
      BY <2>1 DEF Answer, Goto
    <3> QED BY <2>1, <3>1, <3>2 DEF Answer, poolVars, walkVars, history
  <2>2. CASE AnswerTimeout(r)
    BY <2>2 DEF AnswerTimeout, poolVars, runVars, walkVars, history
  <2>3. CASE UnloadChain(r)
    BY <2>3, KeyType, DelType DEF UnloadChain, Goto, walkVars, history
  <2> QED BY <1>4, <2>1, <2>2, <2>3 DEF Respond
<1>5. CASE UNCHANGED vars
  BY <1>5 DEF vars, poolVars, runVars, walkVars, history
<1> QED BY <1>1, <1>2, <1>3, <1>4, <1>5 DEF Next, Act

-----------------------------------------------------------------------------
(* The end that is kept, and what EndFunc is called with.                  *)

LEMMA EndFrame ==
  ASSUME NEW q \in Run, EndInv(q), pc'[q] = pc[q], at'[q] = at[q], end'[q] = end[q],
         result'[q] = result[q], failed'[q] = failed[q], door'[q] = door[q]
  PROVE  EndInv(q)'
<1>1. Heard(q)' = Heard(q)
  BY DEF Heard, ViaEngine, Dsl, hasEndNode
<1> QED BY <1>1 DEF EndInv

(* Before EndFunc has been called, only the end and the failure count. *)
LEMMA EndBefore ==
  ASSUME NEW q \in Run, EndInv(q), pc[q] \notin {"ended", "unload", "done"},
         pc'[q] \notin {"idle", "ended", "unload"}, result'[q] = result[q],
         end'[q].err => end'[q].got /\ failed'[q],
         failed'[q] /\ Heard(q)' => end'[q].err
  PROVE  EndInv(q)'
BY DEF EndInv

LEMMA EndPrepare ==
  ASSUME TypeOK, NEW r \in Run, NEW q \in Run, EndInv(q), Prepare(r) \/ Start(r)
  PROVE  EndInv(q)'
<1> USE DEF TypeOK
<1>1. CASE q # r
  BY <1>1, EndFrame DEF Prepare, Start, LoadSubChains, LoadEngineSubs, GetEngine, ReloadEngine,
     OnMsg, LoadChainDSL, MarkLoaded, ExecuteWithEnv, Enter, Goto, walkVars, history
<1>2. CASE q = r
  <2>1. pc[q] \notin {"ended", "unload", "done"} /\ pc'[q] \notin {"idle", "ended", "unload"}
    BY <1>2 DEF Prepare, Start, LoadSubChains, LoadEngineSubs, GetEngine, ReloadEngine,
     OnMsg, LoadChainDSL, MarkLoaded, ExecuteWithEnv, Enter, Goto
  <2>2. result' = result
    BY DEF Prepare, Start, LoadSubChains, LoadEngineSubs, GetEngine, ReloadEngine,
     OnMsg, LoadChainDSL, MarkLoaded, ExecuteWithEnv, walkVars
  <2>3. (end[q].err => end[q].got /\ failed[q]) /\ (failed[q] /\ Heard(q)' => end[q].err)
    <3>1. CASE Start(r)
      BY <1>2, <3>1 DEF EndInv, Start
    <3>2. CASE Prepare(r)
      <4>1. door' = door
        BY <3>2 DEF Prepare, LoadSubChains, LoadEngineSubs, GetEngine, ReloadEngine, OnMsg,
           LoadChainDSL, MarkLoaded, ExecuteWithEnv
      <4>2. Heard(q)' = Heard(q)
        BY <4>1 DEF Heard, ViaEngine, Dsl, hasEndNode
      <4> QED BY <2>1, <4>2 DEF EndInv
    <3> QED BY <3>1, <3>2
  <2>4. CASE end' = end /\ failed' = failed
    BY <2>1, <2>2, <2>3, <2>4, EndBefore
  <2>5. CASE OnMsg(r) /\ ~(end' = end /\ failed' = failed)
    <3>1. /\ end' = [end EXCEPT ![r] = [got |-> TRUE, err |-> TRUE, seen |-> {}]]
          /\ failed' = [failed EXCEPT ![r] = TRUE]
      BY <2>5 DEF OnMsg
    <3>2. end'[q].err /\ end'[q].got /\ failed'[q]
      BY <1>2, <3>1
    <3> QED BY <2>1, <2>2, <3>2, EndBefore
  <2> QED BY <2>4, <2>5 DEF Prepare, Start, LoadSubChains, LoadEngineSubs, GetEngine,
     ReloadEngine, LoadChainDSL, MarkLoaded, ExecuteWithEnv, walkVars, history
<1> QED BY <1>1, <1>2

LEMMA EndWalk ==
  ASSUME TypeOK, NEW r \in Run, NEW q \in Run, EndInv(q), Walk(r)
  PROVE  EndInv(q)'
<1>1. pc[r] = "running"
  BY DEF Walk, NodeStep, Interrupt, Complete
<1>2. ASSUME NEW b \in Branch, b \in at[r], NEW out, Fine(out), NEW seen \in SUBSET Node,
             EndBranch(r, b.node, out, seen) \/ UNCHANGED <<end, failed>>,
             pc' = pc, door' = door, result' = result,
             \A o \in Run \ {r} : at'[o] = at[o]
      PROVE  EndInv(q)'
  <2>0. Heard(q)' = Heard(q)
    BY <1>2 DEF Heard, ViaEngine, Dsl, hasEndNode
  <2>1. CASE UNCHANGED <<end, failed>>
    BY <1>1, <1>2, <2>0, <2>1 DEF EndInv
  <2>2. CASE EndBranch(r, b.node, out, seen) /\ q # r
    BY <1>2, <2>2, EndBranchType, EndFrame
  <2>3. CASE EndBranch(r, b.node, out, seen) /\ q = r
    <3>1. (end[q].err => end[q].got /\ failed[q]) /\ (failed[q] /\ Heard(q) => end[q].err)
      BY <1>1, <2>3 DEF EndInv
    <3>2. /\ failed'[q] <=> (failed[q] \/ out.err)
          /\ end'[q].err => end[q].err \/ out.err
          /\ end[q].err /\ end[q].got => end'[q].err
          /\ out.err /\ Heard(q) => end'[q].err
          /\ (end[q].err => end[q].got) => (end'[q].err => end'[q].got)
      BY <1>2, <2>3, EndBranchType
    <3> QED BY <1>1, <1>2, <2>0, <2>3, <3>1, <3>2, EndBefore
  <2> QED BY <1>2, <2>1, <2>2, <2>3
<1>3. ASSUME NEW b \in at[r], NEW out \in OutcomesOf(r, b.node), NodeStep(r, b, out)
      PROVE  EndInv(q)'
  <2>1. b \in Branch /\ b.seen \cup {b.node} \in SUBSET Node
    BY DEF TypeOK, Branch
  <2>2. /\ EndBranch(r, b.node, out, b.seen \cup {b.node}) \/ UNCHANGED <<end, failed>>
        /\ pc' = pc /\ door' = door /\ result' = result
        /\ \A o \in Run \ {r} : at'[o] = at[o]
    BY <1>3 DEF NodeStep, runVars, TypeOK
  <2>3. Fine(out)
    BY OutcomeType
  <2> QED BY <1>2, <2>1, <2>2, <2>3
<1>4. ASSUME NEW b \in at[r], Interrupt(r, b) PROVE EndInv(q)'
  <2>1. b \in Branch /\ b.seen \in SUBSET Node
    BY DEF TypeOK, Branch
  <2>2. /\ EndBranch(r, b.node, Failed, b.seen)
        /\ pc' = pc /\ door' = door /\ result' = result
        /\ \A o \in Run \ {r} : at'[o] = at[o]
    BY <1>4 DEF Interrupt, runVars, TypeOK
  <2> QED BY <1>2, <2>1, <2>2, FineFailed
<1>5. CASE Complete(r)
  <2>1. CASE q # r
    BY <1>5, <2>1, EndFrame DEF Complete, Goto, history, TypeOK
  <2>2. CASE q = r
    <3>1. /\ pc'[q] = "ended" /\ at'[q] = {} /\ failed'[q] = failed[q]
          /\ end'[q] = NoEnd /\ result'[q] = [end[q] EXCEPT !.got = TRUE]
      BY <1>5, <2>2 DEF Complete, Goto, history, TypeOK
    <3>2. end[q] \in [got : BOOLEAN, err : BOOLEAN, seen : SUBSET Node]
      BY DEF TypeOK, Ends
    <3>3. result'[q].got /\ result'[q].err = end[q].err /\ ~end'[q].err
      BY <3>1, <3>2 DEF NoEnd
    <3>4. (end[q].err => failed[q]) /\ (failed[q] /\ Heard(q) => end[q].err)
      BY <1>1, <2>2 DEF EndInv
    <3>5. Heard(q)' = Heard(q)
      BY <1>5 DEF Complete, Heard, ViaEngine, Dsl, hasEndNode
    <3> QED BY <3>1, <3>3, <3>4, <3>5 DEF EndInv
  <2> QED BY <2>1, <2>2
<1> QED BY <1>3, <1>4, <1>5 DEF Walk

LEMMA EndRespond ==
  ASSUME TypeOK, NEW r \in Run, NEW q \in Run, EndInv(q), Respond(r)
  PROVE  EndInv(q)'
<1>1. at' = at /\ end' = end /\ result' = result /\ failed' = failed /\ Heard(q)' = Heard(q)
  BY DEF Respond, Answer, AnswerTimeout, UnloadChain, runVars, walkVars, history, Heard,
     ViaEngine, Dsl, hasEndNode
<1>2. \/ pc'[q] = pc[q]
      \/ pc[q] \in {"ended", "unload"} /\ pc'[q] \in {"unload", "done"}
  BY DEF Respond, Answer, AnswerTimeout, UnloadChain, Goto, runVars, TypeOK
<1> QED BY <1>1, <1>2 DEF EndInv

LEMMA EndStep ==
  ASSUME IInv, [Next]_vars, NEW q \in Run
  PROVE  EndInv(q)'
<1>1. TypeOK /\ EndInv(q)
  BY DEF IInv
<1>2. CASE \E r \in Run : Start(r) \/ Act(r)
  BY <1>1, <1>2, EndPrepare, EndWalk, EndRespond DEF Act
<1>3. CASE (\E c \in DOMAIN db : Edit(c)) \/ Evict \/ UNCHANGED vars
  <2>1. /\ pc' = pc /\ at' = at /\ end' = end /\ result' = result /\ failed' = failed
        /\ door' = door
    BY <1>3 DEF Edit, Evict, vars, runVars, walkVars, history
  <2> QED BY <1>1, <2>1, EndFrame
<1> QED BY <1>2, <1>3 DEF Next

-----------------------------------------------------------------------------
(* What an invocation runs on.                                             *)

LEMMA RelFrame ==
  ASSUME NEW q \in Run, RelInv(q), pc'[q] = pc[q], door'[q] = door[q], read'[q] = read[q],
         ran'[q] = ran[q], cut'[q] = cut[q],
         pool[Key(q)] # None => pool'[Key(q)] # None
  PROVE  RelInv(q)'
<1>1. Key(q)' = Key(q) /\ ViaEngine(q)' = ViaEngine(q)
  BY DEF Key, ViaEngine
<1> QED BY <1>1 DEF RelInv

(* What is deleted from the pool stays with those who hold it. *)
LEMMA RelDel ==
  ASSUME TypeOK, pool["release"] \in {None, Release}, NEW k \in Keys, Del(k),
         NEW q \in Run, RelInv(q), pc'[q] \in {pc[q], "done"},
         door' = door, read' = read, ran' = ran
  PROVE  RelInv(q)' /\ pool'["release"] \in {None, Release}
<1>1. Key(q)' = Key(q) /\ ViaEngine(q)' = ViaEngine(q) /\ Key(q) \in Keys
  BY KeyType DEF Key, ViaEngine
<1>2. pool' = [pool EXCEPT ![k] = None] /\ "release" \in Keys
  BY DEF Del, Keys
<1>3. cut'[q] = IF Holds(q, k) THEN pool[k] ELSE cut[q]
  BY DEF Del
<1>4. pool'["release"] \in {None, Release}
  BY <1>2 DEF TypeOK
<1>5. door[q] = "release" => cut'[q] \in {None, Release}
  BY <1>3, KeyType DEF RelInv, Holds
<1>6. ASSUME pc'[q] \in {"reload", "msg", "running"}, cut'[q] = None
      PROVE  pool'[Key(q)] # None
  <2>1. pc[q] \in {"reload", "msg", "running"}
    BY <1>6
  <2>2. ~Holds(q, k)
    BY <1>3, <1>6, <2>1 DEF RelInv, Holds
  <2>3. cut[q] = None /\ Key(q) # k
    BY <1>3, <1>6, <2>1, <2>2 DEF Holds
  <2> QED BY <1>1, <1>2, <2>1, <2>3 DEF RelInv, TypeOK
<1>7. pc[q] = "idle" /\ pc'[q] = "idle" => cut'[q] = None
  BY <1>3 DEF RelInv, Holds
<1> QED BY <1>1, <1>4, <1>5, <1>6, <1>7 DEF RelInv

(* A step that puts a version under a key, if it is the release under the  *)
(* release's key, hurts nobody else.                                       *)
LEMMA RelPut ==
  ASSUME TypeOK, pool["release"] \in {None, Release}, NEW k \in Keys, NEW v \in Version,
         pool' = [pool EXCEPT ![k] = v], k = "release" => v = Release
  PROVE  /\ pool'["release"] \in {None, Release}
         /\ \A j \in Keys : pool[j] # None => pool'[j] # None
         /\ pool'[k] # None
BY NoneAssumption DEF TypeOK, Keys

LEMMA RelPrepare ==
  ASSUME TypeOK, pool["release"] \in {None, Release}, NEW r \in Run, Prepare(r), RelInv(r)
  PROVE  /\ pool'["release"] \in {None, Release}
         /\ \A q \in Run : RelInv(q) => RelInv(q)'
<1> USE DEF TypeOK
<1>1. /\ Key(r) \in Keys /\ "sub" \in Keys /\ "sub" # "release"
      /\ Key(r) = "release" <=> door[r] = "release"
  BY KeyType DEF Keys
<1>2. read[r].own \in Version /\ read[r].sub \in Version /\ db.sub \in Version
  OBVIOUS
<1>3. /\ door' = door /\ ran' = ran
      /\ \A q \in Run \ {r} : pc'[q] = pc[q] /\ read'[q] = read[q] /\ cut'[q] = cut[q]
  BY DEF Prepare, LoadSubChains, LoadEngineSubs, GetEngine, ReloadEngine, OnMsg, LoadChainDSL,
         MarkLoaded, ExecuteWithEnv, Enter, Goto, Forget, history
<1>4. /\ pool'["release"] \in {None, Release}
      /\ \A j \in Keys : pool[j] # None => pool'[j] # None
  <2>1. CASE LoadSubChains(r)
    BY <1>1, <1>2, <2>1, RelPut DEF LoadSubChains, LoadOrReload
  <2>2. CASE LoadEngineSubs(r)
    BY <1>1, <1>2, <2>2, RelPut DEF LoadEngineSubs, LoadOrReload
  <2>3. CASE GetEngine(r)
    <3>1. CASE pool[Key(r)] = None
      <4>1. pool' = [pool EXCEPT ![Key(r)] = read[r].own]
        BY <2>3, <3>1 DEF GetEngine
      <4> QED BY <1>1, <1>2, <4>1, RelPut DEF RelInv
    <3>2. CASE pool[Key(r)] # None
      <4>1. pool' = pool
        BY <1>1, <2>3, <3>2 DEF GetEngine
      <4> QED BY <4>1
    <3> QED BY <3>1, <3>2
  <2>4. CASE ReloadEngine(r)
    <3>1. CASE pool' = pool
      BY <3>1
    <3>2. CASE pool' # pool
      <4>1. pool' = [pool EXCEPT ![Key(r)] = read[r].own] /\ door[r] # "release"
        BY <2>4, <3>2 DEF ReloadEngine, UseCache
      <4> QED BY <1>1, <1>2, <4>1, RelPut
    <3> QED BY <3>1, <3>2
  <2>5. CASE LoadChainDSL(r)
    <3>1. pool' = [pool EXCEPT ![Key(r)] = read[r].own] /\ door[r] # "release"
      BY <2>5 DEF LoadChainDSL, LoadOrReload, RelInv
    <3> QED BY <1>1, <1>2, <3>1, RelPut
  <2>6. CASE OnMsg(r) \/ MarkLoaded(r) \/ ExecuteWithEnv(r)
    BY <2>6 DEF OnMsg, MarkLoaded, ExecuteWithEnv, poolVars
  <2> QED BY <2>1, <2>2, <2>3, <2>4, <2>5, <2>6 DEF Prepare
<1>5. ASSUME NEW q \in Run, q # r, RelInv(q) PROVE RelInv(q)'
  BY <1>3, <1>4, <1>5, KeyType, RelFrame
<1>6. RelInv(r)'
  <2>1. Key(r)' = Key(r) /\ ViaEngine(r)' = ViaEngine(r)
    BY <1>3 DEF Key, ViaEngine
  <2>2. CASE LoadSubChains(r) \/ LoadEngineSubs(r)
    <3>1. /\ read' = read /\ cut' = cut /\ pc[r] = "subs"
          /\ pc'[r] = IF ViaEngine(r) THEN "load" ELSE "get"
      BY <2>2 DEF LoadSubChains, LoadEngineSubs, Goto
    <3>2. ViaEngine(r) => door[r] # "release"
      BY DEF ViaEngine
    <3> QED BY <1>3, <2>1, <3>1, <3>2 DEF RelInv
  <2>3. CASE GetEngine(r)
    <3>1. pool'[Key(r)] # None
      BY <1>1, <1>2, <2>3, NoneAssumption DEF GetEngine
    <3>2. read' = read /\ cut' = cut /\ pc[r] = "get" /\ pc'[r] = "reload"
      BY <2>3 DEF GetEngine, Goto
    <3> QED BY <1>3, <2>1, <3>1, <3>2 DEF RelInv
  <2>4. CASE ReloadEngine(r)
    <3>1. pc[r] = "reload" /\ pc'[r] = "msg" /\ read'[r] = Base
      BY <2>4 DEF ReloadEngine, Goto, Forget
    <3>2. cut'[r] = cut[r] \/ (door[r] # "release" /\ cut'[r] = read[r].own)
      BY <2>4 DEF ReloadEngine, UseCache
    <3>3. cut'[r] = None => pool'[Key(r)] # None
      BY <1>1, <1>2, <1>4, <3>1, <3>2, NoneAssumption DEF RelInv
    <3>4. Base.own = Release
      BY DEF Base
    <3> QED BY <1>3, <2>1, <3>1, <3>2, <3>3, <3>4 DEF RelInv
  <2>5. CASE OnMsg(r)
    <3>1. pc[r] = "msg" /\ pc'[r] \in {"running", "lost"} /\ cut' = cut /\ read' = read /\ pool' = pool
      BY <2>5 DEF OnMsg, Enter, Goto, poolVars
    <3> QED BY <1>3, <2>1, <3>1 DEF RelInv
  <2>6. CASE LoadChainDSL(r) \/ MarkLoaded(r)
    <3>1. pc[r] \in {"load", "mark"} /\ pc'[r] \in {"mark", "execute"}
      BY <2>6 DEF LoadChainDSL, MarkLoaded, Goto
    <3>2. door[r] # "release"
      BY <3>1 DEF RelInv
    <3> QED BY <1>3, <2>1, <3>1, <3>2 DEF RelInv
  <2>7. CASE ExecuteWithEnv(r)
    <3>1. /\ pc[r] = "execute" /\ pool' = pool
          /\ pc'[r] = "done" \/ (pc'[r] = "running" /\ pool[Key(r)] # None)
      BY <2>7 DEF ExecuteWithEnv, Enter, Goto, poolVars
    <3>2. door[r] # "release"
      BY <3>1 DEF RelInv
    <3> QED BY <1>3, <2>1, <3>1, <3>2 DEF RelInv
  <2> QED BY <2>2, <2>3, <2>4, <2>5, <2>6, <2>7 DEF Prepare
<1> QED BY <1>4, <1>5, <1>6

LEMMA RelStart ==
  ASSUME TypeOK, NEW r \in Run, Start(r), NEW q \in Run, RelInv(q)
  PROVE  RelInv(q)'
<1> USE DEF TypeOK
<1>1. pool' = pool /\ cut' = cut /\ ran' = ran
  BY DEF Start, poolVars, history
<1>2. CASE q # r
  BY <1>1, <1>2, RelFrame DEF Start, Goto
<1>3. CASE q = r
  <2>1. PICK d \in Door[r] :
          /\ door' = [door EXCEPT ![r] = d]
          /\ read' = [read EXCEPT ![r] = [own |-> CASE d = "draft" -> db.root
                                                    [] d = "test" -> db.sub
                                                    [] OTHER -> Release,
                                          sub |-> db.sub]]
          /\ Goto(r, IF d = "test" THEN "load" ELSE "subs")
    BY DEF Start
  <2>2. door'[q] = d /\ (pc'[q] = IF d = "test" THEN "load" ELSE "subs")
    BY <1>3, <2>1 DEF Goto
  <2>3. d = "release" => read'[q].own = Release
    BY <1>3, <2>1
  <2>4. cut'[q] = None /\ ran'[q] = {}
    BY <1>1, <1>3 DEF Start, RelInv
  <2> QED BY <2>2, <2>3, <2>4 DEF RelInv, ViaEngine
<1> QED BY <1>2, <1>3

LEMMA RelWalk ==
  ASSUME TypeOK, pool["release"] \in {None, Release},
         NEW r \in Run, Walk(r), NEW q \in Run, RelInv(q)
  PROVE  RelInv(q)'
<1> USE DEF TypeOK
<1>1. /\ pool' = pool /\ door' = door /\ read' = read /\ cut' = cut /\ pc[r] = "running"
      /\ pc'[q] = pc[q] \/ (q = r /\ pc'[q] = "ended")
  BY DEF Walk, NodeStep, Interrupt, Complete, Goto, poolVars, runVars
<1>2. ran'[q] = ran[q] \/ (q = r /\ ran'[q] = ran[q] \cup {VersionRun(r)})
  <2>1. ran' = ran \/ ran' = [ran EXCEPT ![r] = ran[r] \cup {VersionRun(r)}]
    BY DEF Walk, NodeStep, Interrupt, Complete, history
  <2> HIDE DEF VersionRun
  <2> QED BY <2>1
<1>3. Key(q)' = Key(q) /\ ViaEngine(q)' = ViaEngine(q)
  BY <1>1 DEF Key, ViaEngine
<1>4. door[r] = "release" /\ q = r => VersionRun(r) = Release
  BY <1>1, KeyType DEF RelInv, VersionRun
<1> QED BY <1>1, <1>2, <1>3, <1>4 DEF RelInv

LEMMA RelRespond ==
  ASSUME TypeOK, pool["release"] \in {None, Release},
         NEW r \in Run, Respond(r), NEW q \in Run, RelInv(q), EndInv(r)
  PROVE  RelInv(q)' /\ pool'["release"] \in {None, Release}
<1> USE DEF TypeOK
<1>1. CASE Answer(r) \/ AnswerTimeout(r)
  <2>1. pool' = pool /\ door' = door /\ read' = read /\ cut' = cut /\ ran' = ran
    BY <1>1 DEF Answer, AnswerTimeout, poolVars, runVars, history
  <2>2. Key(q)' = Key(q) /\ ViaEngine(q)' = ViaEngine(q)
    BY <2>1 DEF Key, ViaEngine
  <2>3. \/ pc'[q] = pc[q]
        \/ pc'[q] = "done"
        \/ pc'[q] = "unload" /\ ViaEngine(q)
    BY <1>1 DEF Answer, AnswerTimeout, Goto, runVars
  <2>4. ViaEngine(q) => door[q] # "release"
    BY DEF ViaEngine
  <2> QED BY <2>1, <2>2, <2>3, <2>4 DEF RelInv
<1>2. CASE UnloadChain(r)
  <2>1. pc'[q] \in {pc[q], "done"}
    BY <1>2 DEF UnloadChain, Goto
  <2>2. Key(r) \in Keys
    BY KeyType
  <2> QED BY <1>2, <2>1, <2>2, RelDel DEF UnloadChain, history
<1> QED BY <1>1, <1>2 DEF Respond

LEMMA RelStep ==
  ASSUME IInv, [Next]_vars
  PROVE  pool'["release"] \in {None, Release} /\ \A q \in Run : RelInv(q)'
<1>1. TypeOK /\ pool["release"] \in {None, Release} /\ \A q \in Run : RelInv(q) /\ EndInv(q)
  BY DEF IInv
<1>2. ASSUME NEW r \in Run, Start(r) PROVE pool' = pool
  BY <1>2 DEF Start, poolVars
<1>3. ASSUME NEW r \in Run, Walk(r) PROVE pool' = pool
  BY <1>3 DEF Walk, NodeStep, Interrupt, Complete, poolVars
<1>4. CASE \E r \in Run : Start(r) \/ Act(r)
  <2>1. PICK r \in Run : Start(r) \/ Prepare(r) \/ Walk(r) \/ Respond(r)
    BY <1>4 DEF Act
  <2>2. CASE Start(r)
    BY <1>1, <1>2, <2>2, RelStart
  <2>3. CASE Prepare(r)
    BY <1>1, <2>3, RelPrepare
  <2>4. CASE Walk(r)
    BY <1>1, <1>3, <2>4, RelWalk
  <2>5. CASE Respond(r)
    BY <1>1, <2>5, RelRespond
  <2> QED BY <2>1, <2>2, <2>3, <2>4, <2>5
<1>5. CASE Evict
  <2>1. "release" \in Keys /\ Del("release")
    BY <1>5 DEF Keys, Evict
  <2>2. pc' = pc /\ door' = door /\ read' = read /\ ran' = ran
    BY <1>5 DEF Evict, history
  <2>3. \A q \in Run : pc'[q] \in {pc[q], "done"}
    BY <2>2
  <2>4. pool'["release"] \in {None, Release}
    BY <1>1, <2>1 DEF Del, TypeOK
  <2> QED BY <1>1, <2>1, <2>2, <2>3, <2>4, RelDel
<1>6. CASE (\E c \in DOMAIN db : Edit(c)) \/ UNCHANGED vars
  <2>1. /\ pool' = pool /\ pc' = pc /\ door' = door /\ read' = read /\ ran' = ran /\ cut' = cut
    BY <1>6 DEF Edit, vars, poolVars, runVars, history
  <2> QED BY <1>1, <2>1, RelFrame
<1> QED BY <1>4, <1>5, <1>6 DEF Next

-----------------------------------------------------------------------------
(* The invariant.                                                          *)

LEMMA InitInv == Init => IInv
<1> SUFFICES ASSUME Init PROVE IInv
  OBVIOUS
<1>1. 1 \in Version /\ Base \in [own : Version, sub : Version]
  BY ReleaseType DEF Release
<1>2. NoEnd \in Ends
  BY DEF NoEnd, Ends
<1>3. "draft" \in Doors
  BY DEF Doors
<1>4. failed \in [Run -> BOOLEAN] /\ missing \in [Run -> BOOLEAN] /\ async \in [Run -> BOOLEAN]
  BY DEF Init
<1>5. TypeOK
  BY <1>1, <1>2, <1>3, <1>4 DEF Init, TypeOK
<1>6. pool["release"] \in {None, Release}
  BY DEF Init, Keys
<1>7. ASSUME NEW r \in Run PROVE EndInv(r) /\ RelInv(r)
  BY DEF Init, EndInv, RelInv, NoEnd, ViaEngine
<1> QED BY <1>5, <1>6, <1>7 DEF IInv

LEMMA NextInv == IInv /\ [Next]_vars => IInv'
<1> SUFFICES ASSUME IInv, [Next]_vars PROVE IInv'
  OBVIOUS
<1>1. TypeOK /\ \A r \in Run : RelInv(r)
  BY DEF IInv
<1>2. TypeOK'
  BY <1>1, PrepareType, WalkType, RestType
<1>3. \A q \in Run : EndInv(q)'
  BY EndStep
<1>4. pool'["release"] \in {None, Release} /\ \A q \in Run : RelInv(q)'
  BY RelStep
<1> QED BY <1>2, <1>3, <1>4 DEF IInv

THEOREM InvHolds == Spec => []IInv
BY InitInv, NextInv, PTL DEF Spec

(* The variables keep their types, for chains of any shape.                *)
THEOREM TypeCorrect == Spec => []TypeOK
<1>1. IInv => TypeOK
  BY DEF IInv
<1> QED BY <1>1, InvHolds, PTL

(* EndFunc reports a failure exactly when a branch ended with an error     *)
(* that is heard of, for any number of branches in any order and whatever  *)
(* relations they ended by (endRecordOne).                                 *)
THEOREM FailuresWin == Spec => []FailureWins
<1>1. IInv => FailureWins
  BY DEF IInv, EndInv, FailureWins
<1> QED BY <1>1, InvHolds, PTL

(* EndFunc is called once, when every branch is over, and no node runs     *)
(* after it (OnAllNodeCompleted).                                          *)
THEOREM EndsAreFinal == Spec => EndsOnce
<1> DEFINE Final == \A r \in Run :
       /\ result'[r].got => at'[r] = {}
       /\ result[r].got => result'[r] = result[r] /\ ran'[r] = ran[r]
<1>1. ASSUME IInv, IInv', [Next]_vars PROVE Final \/ UNCHANGED vars
  <2>1. \A r \in Run : result'[r].got => at'[r] = {}
    BY <1>1 DEF IInv, EndInv
  <2>2. ASSUME NEW r \in Run, result[r].got
        PROVE  result'[r] = result[r] /\ ran'[r] = ran[r]
    <3>1. pc[r] # "running" /\ TypeOK
      BY <1>1, <2>2 DEF IInv, EndInv
    <3>2. ASSUME NEW q \in Run, Walk(q)
          PROVE  result'[r] = result[r] /\ ran'[r] = ran[r]
      BY <3>1, <3>2 DEF Walk, NodeStep, Interrupt, Complete, history, TypeOK
    <3>3. ASSUME NEW q \in Run, Start(q) \/ Prepare(q) \/ Respond(q)
          PROVE  result' = result /\ ran' = ran
      BY <3>3 DEF Start, Prepare, Respond, LoadSubChains, LoadEngineSubs, GetEngine,
         ReloadEngine, OnMsg, LoadChainDSL, MarkLoaded, ExecuteWithEnv, Answer, AnswerTimeout,
         UnloadChain, walkVars, history
    <3>4. CASE (\E c \in DOMAIN db : Edit(c)) \/ Evict \/ UNCHANGED vars
      BY <3>4 DEF Edit, Evict, vars, walkVars, history
    <3> QED BY <1>1, <3>2, <3>3, <3>4 DEF Next, Act
  <2> QED BY <2>1, <2>2
<1>2. IInv /\ IInv' /\ [Next]_vars => [Final]_vars
  BY <1>1
<1> QED BY <1>2, InvHolds, PTL DEF Spec, EndsOnce

(* An invocation runs its release and nothing else, whatever is edited,    *)
(* reloaded, evicted and built beside it (GetEngine, ReloadEngine, Del).   *)
THEOREM ReleaseRuns == Spec => []RunsItsRelease
<1>1. IInv => RunsItsRelease
  BY DEF IInv, RelInv, RunsItsRelease
<1> QED BY <1>1, InvHolds, PTL

-----------------------------------------------------------------------------
(* What callers are told.                                                  *)

(* A chain whose flow nodes leave their failures unhandled.                *)
FlowFailuresEnd ==
  \A n \in Node, d \in {Root, Sub} : TypeOf(d, n) = "flow" => NextNodes(d, n, "Failure") = {}

ToldInv(r) ==
  /\ answer[r] = "ok" => result[r].got /\ ~result[r].err
  /\ missing[r] => failed[r] \/ (pc[r] = "done" /\ answer[r] = "error")

LEMMA ToldFrame ==
  ASSUME NEW q \in Run, ToldInv(q), answer'[q] = answer[q], missing'[q] = missing[q],
         result'[q] = result[q] \/ answer[q] # "ok",
         failed[q] => failed'[q], pc'[q] = pc[q] \/ pc[q] # "done"
  PROVE  ToldInv(q)'
BY DEF ToldInv

LEMMA ToldStep ==
  ASSUME FlowFailuresEnd, IInv, [Next]_vars, NEW q \in Run, ToldInv(q)
  PROVE  ToldInv(q)'
<1>1. TypeOK /\ EndInv(q)
  BY DEF IInv
<1> USE DEF TypeOK
<1>2. ASSUME NEW r \in Run, Start(r) PROVE ToldInv(q)'
  BY <1>1, <1>2, ToldFrame DEF Start, Goto, walkVars, history
<1>3. ASSUME NEW r \in Run, Prepare(r) PROVE ToldInv(q)'
  <2>1. CASE ExecuteWithEnv(r)
    <3>1. result' = result /\ failed' = failed
      BY <2>1 DEF ExecuteWithEnv
    <3>2. CASE answer' = answer /\ missing' = missing
      BY <1>1, <2>1, <3>1, <3>2, ToldFrame DEF ExecuteWithEnv, Enter, Goto
    <3>3. CASE /\ Goto(r, "done")
               /\ answer' = [answer EXCEPT ![r] = "error"]
               /\ missing' = [missing EXCEPT ![r] = TRUE]
      BY <1>1, <3>1, <3>3 DEF ToldInv, Goto
    <3> QED BY <2>1, <3>2, <3>3 DEF ExecuteWithEnv
  <2>2. CASE ~ExecuteWithEnv(r)
    <3>1. answer' = answer /\ missing' = missing /\ result' = result
      BY <1>3, <2>2 DEF Prepare, LoadSubChains, LoadEngineSubs, GetEngine, ReloadEngine, OnMsg,
         LoadChainDSL, MarkLoaded, walkVars, history
    <3>2. failed' = failed \/ failed' = [failed EXCEPT ![r] = TRUE]
      BY <1>3, <2>2 DEF Prepare, LoadSubChains, LoadEngineSubs, GetEngine, ReloadEngine, OnMsg,
         LoadChainDSL, MarkLoaded, history
    <3>3. pc'[q] = pc[q] \/ pc[q] # "done"
      BY <1>1, <1>3, <2>2 DEF Prepare, LoadSubChains, LoadEngineSubs, GetEngine, ReloadEngine,
         OnMsg, LoadChainDSL, MarkLoaded, Enter, Goto
    <3> QED BY <1>1, <3>1, <3>2, <3>3, ToldFrame
  <2> QED BY <2>1, <2>2
<1>4. ASSUME NEW r \in Run, NEW b \in at[r], NEW out \in OutcomesOf(r, b.node),
             NodeStep(r, b, out)
      PROVE  ToldInv(q)'
  <2>1. b \in Branch /\ b.node \in Node /\ b.seen \cup {b.node} \in SUBSET Node
    BY <1>1 DEF Branch
  <2>2. answer' = answer /\ result' = result /\ pc' = pc
    BY <1>4 DEF NodeStep, runVars
  <2>3. failed[q] => failed'[q]
    <3>1. Fine(out)
      BY OutcomeType
    <3>2. \/ EndBranch(r, b.node, out, b.seen \cup {b.node})
          \/ failed' = failed
      BY <1>4 DEF NodeStep
    <3> QED BY <1>1, <2>1, <3>1, <3>2, EndBranchType
  <2>4. CASE missing'[q] = missing[q]
    BY <2>2, <2>3, <2>4, ToldFrame
  <2>5. CASE missing'[q] # missing[q]
    <3>1. q = r /\ TypeOf(Dsl(r), b.node) = "flow" /\ ~TargetFound
      BY <1>1, <1>4, <2>5 DEF NodeStep
    <3>2. out = Failed
      BY <1>4, <3>1 DEF OutcomesOf, flowNode
    <3>3. out.err /\ out.relation = "Failure"
      BY <3>2 DEF Failed
    <3>4. NextNodes(Dsl(r), b.node, out.relation) = {}
      BY <2>1, <3>1, <3>3 DEF FlowFailuresEnd, Dsl
    <3>6. EndBranch(r, b.node, out, b.seen \cup {b.node})
      BY <1>4, <3>4 DEF NodeStep
    <3>5. failed'[q]
      BY <1>1, <2>1, <3>1, <3>2, <3>3, <3>6, FineFailed, EndBranchType
    <3> QED BY <2>2, <3>5 DEF ToldInv
  <2> QED BY <2>4, <2>5
<1>5. ASSUME NEW r \in Run, NEW b \in at[r], Interrupt(r, b) PROVE ToldInv(q)'
  <2>1. b \in Branch /\ b.seen \in SUBSET Node
    BY <1>1 DEF Branch
  <2>2. failed[q] => failed'[q]
    BY <1>1, <1>5, <2>1, FineFailed, EndBranchType DEF Interrupt
  <2> QED BY <1>5, <2>2, ToldFrame DEF Interrupt, runVars
<1>6. ASSUME NEW r \in Run, Complete(r) PROVE ToldInv(q)'
  <2>1. answer' = answer /\ missing' = missing /\ failed' = failed /\ pc[r] = "running"
    BY <1>6 DEF Complete, history
  <2>2. result'[q] = result[q] \/ answer[q] # "ok"
    BY <1>1, <1>6, <2>1 DEF Complete, EndInv, ToldInv
  <2>3. pc'[q] = pc[q] \/ pc[q] # "done"
    BY <1>1, <1>6, <2>1 DEF Complete, Goto
  <2> QED BY <2>1, <2>2, <2>3, ToldFrame
<1>7. ASSUME NEW r \in Run, Respond(r) PROVE ToldInv(q)'
  <2>1. result' = result /\ missing' = missing /\ failed' = failed
    BY <1>7 DEF Respond, Answer, AnswerTimeout, UnloadChain, walkVars, history
  <2>2. \/ answer'[q] = answer[q] /\ (pc'[q] = pc[q] \/ pc[q] # "done")
        \/ /\ q = r /\ answer[q] = "none" /\ pc[q] \in {"ended", "lost", "running"}
           /\ answer'[q] = "ok" => pc[q] = "ended" /\ ~result[q].err
    BY <1>1, <1>7 DEF Respond, Answer, AnswerTimeout, UnloadChain, Goto, runVars
  <2> QED BY <1>1, <2>1, <2>2 DEF ToldInv, EndInv
<1>8. CASE (\E c \in DOMAIN db : Edit(c)) \/ Evict \/ UNCHANGED vars
  <2>1. /\ pc' = pc /\ answer' = answer /\ result' = result /\ missing' = missing
        /\ failed' = failed
    BY <1>8 DEF Edit, Evict, vars, runVars, walkVars, history
  <2> QED BY <2>1, ToldFrame
<1> QED BY <1>2, <1>3, <1>4, <1>5, <1>6, <1>7, <1>8 DEF Next, Act, Walk

(* A caller is told of success only when every branch is over, none that   *)
(* is heard of ended with an error, and no chain it had loaded was missed, *)
(* given that the failures of flow nodes are not handled by the chain      *)
(* (Answer).                                                               *)
THEOREM SuccessIsTrue == ASSUME FlowFailuresEnd PROVE Spec => []AnswerTrue
<1> DEFINE Inv == IInv /\ \A r \in Run : ToldInv(r)
<1>1. Init => Inv
  BY InitInv DEF Init, ToldInv
<1>2. Inv /\ [Next]_vars => Inv'
  BY NextInv, ToldStep
<1>3. Inv => AnswerTrue
  BY DEF IInv, EndInv, ToldInv, AnswerTrue
<1> QED BY <1>1, <1>2, <1>3, PTL DEF Spec
=============================================================================
