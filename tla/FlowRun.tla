------------------------------ MODULE FlowRun -------------------------------
(***************************************************************************)
(* Executions of rule chains (rulego_flow.go, engine.go, chain_pool.go and *)
(* ExecuteRootChainByID): how an execution finds or builds its engine in   *)
(* the pool all executions of the process share, walks the chain, several  *)
(* branches at once, and answers its caller.                               *)
(*                                                                         *)
(* There are four doors.  "draft" runs the draft a designer edits,         *)
(* "release" a release for an invocation: both go through StartWorkFlow.   *)
(* "published" and "test" go through WorkflowEngine: the current release   *)
(* for the console, and a sub chain on its own.                            *)
(***************************************************************************)
EXTENDS Naturals, Sequences, FiniteSets

CONSTANTS
  Run,       \* executions
  Door,      \* the doors each of them may come through
  Root, Sub, \* the shape of the root chain and of its sub chain
  MaxEdits,  \* bound: edits of the draft (root) and of the sub chain (sub)
  None       \* no engine under a key

Doors == {"draft", "release", "published", "test"}
ASSUME DoorAssumption == Door \in [Run -> SUBSET Doors]
ASSUME MaxEditsAssumption == MaxEdits \in [root : Nat, sub : Nat]

Version == 1 .. MaxEdits.root + MaxEdits.sub + 1

ASSUME NoneAssumption == None \notin Version

VARIABLES
  db,       \* the newest version of the draft and of the sub chain
  pool,     \* the engine pool: the version loaded under a key
  loaded,   \* keys WorkflowEngine believes loaded
  pc,       \* where each execution is
  door,     \* which door it came through
  async,    \* IsAsync
  read,     \* the versions it read of its chain and of the sub chain
  cut,      \* the version of its engine, once that was deleted from the pool
  at,       \* its live branches: the next node, and the nodes behind it
  end,      \* endRecordOne: the branch end kept so far
  result,   \* what EndFunc was called with
  answer,   \* what its caller was told
  ran,      \* history: versions of its chain it ran nodes of
  failed,   \* history: has a branch of it ended with an error
  missing   \* history: has it missed a chain it had loaded

poolVars == <<db, pool, loaded>>
runVars == <<pc, door, async, read, cut>>
walkVars == <<at, end, result>>
history == <<ran, failed, missing>>
vars == <<poolVars, runVars, walkVars, answer, history>>

-----------------------------------------------------------------------------
(* The shape of a chain: nodes with a type, and typed connections, both in *)
(* the order of the DSL.                                                   *)
Ids(dsl) == {dsl.nodes[i].id : i \in DOMAIN dsl.nodes}
TypeOf(dsl, n) == (CHOOSE x \in {dsl.nodes[i] : i \in DOMAIN dsl.nodes} : x.id = n).type
Entered(dsl) == {dsl.conns[i].to : i \in DOMAIN dsl.conns}

(* The first connection that leaves a node nothing leads to; in a cycle,   *)
(* the first connection.                                                   *)
FirstConn(dsl) ==
  LET free == {i \in DOMAIN dsl.conns : dsl.conns[i].from \notin Entered(dsl)}
  IN IF free = {} THEN 1 ELSE CHOOSE i \in free : \A j \in free : i <= j

FirstNode(dsl) ==
  IF dsl.conns # <<>> /\ dsl.conns[FirstConn(dsl)].from \in Ids(dsl)
  THEN dsl.conns[FirstConn(dsl)].from
  ELSE dsl.nodes[1].id

NextNodes(dsl, n, relation) ==
  {c.to : c \in {dsl.conns[i] : i \in DOMAIN dsl.conns} \cap
                [from : {n}, to : Ids(dsl), type : {relation}]}

hasEndNode(dsl) == \E i \in DOMAIN dsl.nodes : dsl.nodes[i].type = "end"

(* A sub chain leaves by one exit: no node has two connections of a type.  *)
SingleExit(dsl) ==
  \A i, j \in DOMAIN dsl.conns :
    dsl.conns[i].from = dsl.conns[j].from /\ dsl.conns[i].type = dsl.conns[j].type => i = j

ASSUME SubAssumption == SingleExit(Sub)
ASSUME ShapeAssumption == 1 \in DOMAIN Root.nodes /\ 1 \in DOMAIN Sub.nodes

Keys == {"draft", "release", "published", "sub"}
Node == Ids(Root) \cup Ids(Sub)
Branch == [node : Node, seen : SUBSET Node]
NoEnd == [got |-> FALSE, err |-> FALSE, seen |-> {}]
Ends == [got : BOOLEAN, err : BOOLEAN, seen : SUBSET Node]

(* Mutant: a release runs under its chain's ID (no PoolKey).               *)
KeyOfChain(r) ==
  CASE door[r] = "test" -> "sub"
    [] door[r] = "release" -> "draft"
    [] OTHER -> door[r]

(* An execution of the console uses WorkflowEngine; the draft's pool key   *)
(* is the chain's ID, a release's key names the release, WorkflowEngine's  *)
(* keys are project:chain, which is how a flow node names its sub chain.   *)
ViaEngine(r) == door[r] \in {"published", "test"}
Key(r) == IF door[r] = "test" THEN "sub" ELSE door[r]
Dsl(r) == IF door[r] = "test" THEN Sub ELSE Root

(* The release's version, and what is not looked at any more.              *)
Release == 1
Base == [own |-> Release, sub |-> Release]
Forget(r) == read' = [read EXCEPT ![r] = Base]

(* An invocation reuses what the pool holds (UseCache); a draft does not.  *)
UseCache(r) == door[r] = "release"

(* Hot reload is in place: whoever uses the engine runs what it was        *)
(* reloaded with last.                                                     *)
VersionRun(r) == IF cut[r] = None THEN pool[Key(r)] ELSE cut[r]

Init ==
  /\ db = [root |-> 1, sub |-> 1]
  /\ pool = [k \in Keys |-> None]
  /\ loaded = {}
  /\ pc = [r \in Run |-> "idle"]
  /\ door = [r \in Run |-> "draft"]
  /\ async = [r \in Run |-> FALSE]
  /\ read = [r \in Run |-> Base]
  /\ cut = [r \in Run |-> None]
  /\ at = [r \in Run |-> {}]
  /\ end = [r \in Run |-> NoEnd]
  /\ result = [r \in Run |-> NoEnd]
  /\ answer = [r \in Run |-> "none"]
  /\ ran = [r \in Run |-> {}]
  /\ failed = [r \in Run |-> FALSE]
  /\ missing = [r \in Run |-> FALSE]

Goto(r, l) == pc' = [pc EXCEPT ![r] = l]

-----------------------------------------------------------------------------
(* Before the walk.                                                        *)

(* A designer saves the draft or the sub chain.                            *)
Edit(c) ==
  /\ db[c] <= MaxEdits[c]
  /\ db' = [db EXCEPT ![c] = @ + 1]
  /\ UNCHANGED <<pool, loaded, runVars, walkVars, answer, history>>

(* The chain and the sub chains it refers to are read.                     *)
Start(r) ==
  /\ pc[r] = "idle"
  /\ \E d \in Door[r] :
       /\ door' = [door EXCEPT ![r] = d]
       /\ read' = [read EXCEPT ![r] = [own |-> CASE d = "draft" -> db.root
                                                 [] d = "test" -> db.sub
                                                 [] OTHER -> Release,
                                       sub |-> db.sub]]
       /\ Goto(r, IF d = "test" THEN "load" ELSE "subs")
       /\ \E a \in BOOLEAN :
            /\ a => d = "release"
            /\ async' = [async EXCEPT ![r] = a]
  /\ UNCHANGED <<poolVars, cut, walkVars, answer, history>>

(* LoadOrReload: new under a free key, reloaded in place when it differs.  *)
LoadOrReload(k, v) == pool' = [pool EXCEPT ![k] = v]

(* StartWorkFlow puts the sub chain it was given under its shared key,     *)
(* WorkflowEngine the sub chain as it is now.                              *)
LoadSubChains(r) ==
  /\ pc[r] = "subs"
  /\ ~ViaEngine(r)
  /\ LoadOrReload("sub", read[r].sub)
  /\ Goto(r, "get")
  /\ UNCHANGED <<db, loaded, door, async, read, cut, walkVars, answer, history>>

LoadEngineSubs(r) ==
  /\ pc[r] = "subs"
  /\ ViaEngine(r)
  /\ LoadOrReload("sub", db.sub)
  /\ Goto(r, "load")
  /\ UNCHANGED <<db, loaded, door, async, read, cut, walkVars, answer, history>>

(* rulego.Get when the cache may be used, rulego.New otherwise, which      *)
(* returns an instance that is already there as it is.                     *)
GetEngine(r) ==
  /\ pc[r] = "get"
  /\ pool' = [pool EXCEPT ![Key(r)] = IF @ = None THEN read[r].own ELSE @]
  /\ Goto(r, "reload")
  /\ UNCHANGED <<db, loaded, door, async, read, cut, walkVars, answer, history>>

(* An engine that does not hold the DSL given is reloaded, but not for an  *)
(* execution that uses the cache.                                          *)
ReloadEngine(r) ==
  /\ pc[r] = "reload"
  /\ IF UseCache(r) THEN UNCHANGED <<pool, cut>>
     ELSE IF cut[r] = None
     THEN pool' = [pool EXCEPT ![Key(r)] = read[r].own] /\ UNCHANGED cut
     ELSE cut' = [cut EXCEPT ![r] = read[r].own] /\ UNCHANGED pool
  /\ Goto(r, "msg")
  /\ Forget(r)
  /\ UNCHANGED <<db, loaded, door, async, walkVars, answer, history>>

Enter(r) ==
  /\ Goto(r, "running")
  /\ at' = [at EXCEPT ![r] = {[node |-> FirstNode(Dsl(r)), seen |-> {}]}]

(* OnMsg on an engine that was deleted meanwhile either ends the run as    *)
(* failed or never calls back.                                             *)
OnMsg(r) ==
  /\ pc[r] = "msg"
  /\ \/ /\ cut[r] = None
        /\ Enter(r)
        /\ UNCHANGED <<end, failed>>
     \/ /\ cut[r] # None
        /\ Goto(r, "running")
        /\ end' = [end EXCEPT ![r] = [got |-> TRUE, err |-> TRUE, seen |-> {}]]
        /\ failed' = [failed EXCEPT ![r] = TRUE]
        /\ UNCHANGED at
     \/ /\ cut[r] # None
        /\ Goto(r, "lost")
        /\ UNCHANGED <<at, end, failed>>
  /\ UNCHANGED <<poolVars, door, async, read, cut, result, answer, ran, missing>>

(* LoadChainDSL: the chain goes into the pool and is then noted as loaded. *)
LoadChainDSL(r) ==
  /\ pc[r] = "load"
  /\ LoadOrReload(Key(r), read[r].own)
  /\ Goto(r, "mark")
  /\ Forget(r)
  /\ UNCHANGED <<db, loaded, door, async, cut, walkVars, answer, history>>

MarkLoaded(r) ==
  /\ pc[r] = "mark"
  /\ loaded' = loaded \cup {Key(r)}
  /\ Goto(r, "execute")
  /\ UNCHANGED <<db, pool, door, async, read, cut, walkVars, answer, history>>

(* ExecuteWithEnv: not loaded, or not in the pool, is an error.            *)
ExecuteWithEnv(r) ==
  /\ pc[r] = "execute"
  /\ IF Key(r) \in loaded /\ pool[Key(r)] # None
     THEN /\ Enter(r)
          /\ UNCHANGED <<answer, missing>>
     ELSE /\ Goto(r, "done")
          /\ answer' = [answer EXCEPT ![r] = "error"]
          /\ missing' = [missing EXCEPT ![r] = TRUE]
          /\ UNCHANGED at
  /\ UNCHANGED <<poolVars, door, async, read, cut, end, result, ran, failed>>

-----------------------------------------------------------------------------
(* The walk.                                                               *)

(* Mutant: the first branch to end decides.                                *)
RecordFirst(r, err, seen) ==
  end' = [end EXCEPT ![r] = IF @.got THEN @ ELSE [got |-> TRUE, err |-> err, seen |-> seen]]

(* Mutant: the message of the branch is not kept.                          *)
RecordBare(r, err, seen) == end' = [end EXCEPT ![r] = [got |-> TRUE, err |-> err]]

(* endRecordOne: a failure replaces a success, nothing else is replaced.   *)
RecordEnd(r, err, seen) ==
  end' = [end EXCEPT ![r] =
            IF @.got /\ (@.err \/ ~err) THEN @
            ELSE [got |-> TRUE, err |-> err, seen |-> seen]]

(* What a node passes its message on with: a relation, and whether it had  *)
(* an error.  A relation may be called Failure and carry none.             *)
Done == [relation |-> "Success", err |-> FALSE]
Failed == [relation |-> "Failure", err |-> TRUE]
Routed(relations) == [relation : relations, err : {FALSE}]

(* A branch ends where no connection takes its relation.  A chain with an  *)
(* end node reports the ends there; StartWorkFlow's configuration has it   *)
(* report failures everywhere, WorkflowEngine's does not, and a sub chain  *)
(* has that of whoever built its engine.                                   *)
OnEndWithFailure(r) == IF door[r] = "test" THEN BOOLEAN ELSE {~ViaEngine(r)}

Reported(r, n, relation, everywhere) ==
  \/ ~hasEndNode(Dsl(r))
  \/ TypeOf(Dsl(r), n) = "end"
  \/ everywhere /\ relation = "Failure"

(* The error decides whether a branch failed, whatever its relation.       *)
EndBranch(r, n, out, seen) ==
  /\ failed' = [failed EXCEPT ![r] = @ \/ out.err]
  /\ \E everywhere \in OnEndWithFailure(r) :
       IF Reported(r, n, out.relation, everywhere)
       THEN RecordEnd(r, out.err, seen)
       ELSE UNCHANGED end

(* The relation a condition's value selects: a string, and what is no      *)
(* truth value in disguise, names one itself, Failure too.                 *)
routeByCondition(kind) ==
  CASE kind = "bool" -> Routed({"True", "False"})
    [] kind = "number" -> Routed({"custom"})
    [] kind \in {"string", "other"} -> Routed({"Success", "Failure", "True", "False", "custom"})
    [] kind = "error" -> {Failed}

switchCondition == UNION {routeByCondition(k) : k \in {"bool", "string", "number", "other", "error"}}

(* Without a condition the message is passed on by no relation.            *)
condSwitchNode == switchCondition \cup Routed({"none"})

(* A node that gathers parameters or return values has no condition and    *)
(* calls nobody; what it cannot evaluate it leaves out.                    *)
paramInputNode == {Done}
returnValueNode == {Done}

(* A test of a sub chain names no environment, so its activities find no   *)
(* Redis and only a node that is not enabled succeeds.  Where they do, the *)
(* node's own condition may route by what they returned.                   *)
activityNode(r) == {Done, Failed} \cup (IF door[r] = "test" THEN {} ELSE switchCondition)

(* A flow node looks for its sub chain under its key in the pool, and may  *)
(* go on by the relations its sub chain ended by.                          *)
TargetFound == pool["sub"] # None
flowNode == {Failed} \cup (IF TargetFound THEN {Done} \cup switchCondition ELSE {})

(* What a node may pass its message on with; an end node does nothing.     *)
OutcomesOf(r, n) ==
  LET t == TypeOf(Dsl(r), n)
  IN CASE t = "cond" -> condSwitchNode
       [] t = "param" -> paramInputNode
       [] t = "return" -> returnValueNode
       [] t = "activity" -> activityNode(r)
       [] t = "flow" -> flowNode
       [] OTHER -> {Done}

(* A node runs and its branch goes on to every node that its relation      *)
(* leads to, or ends.                                                      *)
NodeStep(r, b, out) ==
  LET nexts == NextNodes(Dsl(r), b.node, out.relation)
      seen == b.seen \cup {b.node}
  IN
  /\ pc[r] = "running"
  /\ b \in at[r]
  /\ at' = [at EXCEPT ![r] = (@ \ {b}) \cup [node : nexts \ seen, seen : {seen}]]
  /\ ran' = [ran EXCEPT ![r] = @ \cup {VersionRun(r)}]
  /\ missing' = [missing EXCEPT ![r] =
                   @ \/ (TypeOf(Dsl(r), b.node) = "flow" /\ ~TargetFound)]
  /\ IF nexts \subseteq seen
     THEN EndBranch(r, b.node, out, seen)
     ELSE UNCHANGED <<end, failed>>
  /\ UNCHANGED <<poolVars, runVars, result, answer>>

(* A deleted engine is stopped: it cuts off what still runs on it.         *)
Interrupt(r, b) ==
  /\ pc[r] = "running"
  /\ cut[r] # None
  /\ b \in at[r]
  /\ at' = [at EXCEPT ![r] = @ \ {b}]
  /\ EndBranch(r, b.node, Failed, b.seen)
  /\ UNCHANGED <<poolVars, runVars, result, answer, ran, missing>>

(* Mutant: EndFunc is called when a branch ends.                           *)
CompleteEarly(r) ==
  /\ pc[r] = "running"
  /\ end[r].got
  /\ result' = [result EXCEPT ![r] = end[r]]
  /\ Goto(r, "ended")
  /\ UNCHANGED <<poolVars, door, async, read, cut, at, end, answer, history>>

(* OnAllNodeCompleted: EndFunc, once, with the end that was kept.          *)
Complete(r) ==
  /\ pc[r] = "running"
  /\ at[r] = {}
  /\ result' = [result EXCEPT ![r] = [end[r] EXCEPT !.got = TRUE]]
  /\ end' = [end EXCEPT ![r] = NoEnd]
  /\ Goto(r, "ended")
  /\ UNCHANGED <<poolVars, door, async, read, cut, at, answer, history>>

-----------------------------------------------------------------------------
(* The answer.                                                             *)

(* Mutant: the error EndFunc was called with is not looked at.             *)
AnswerAnyway(r) ==
  /\ pc[r] = "ended"
  /\ answer[r] = "none"
  /\ answer' = [answer EXCEPT ![r] = "ok"]
  /\ Goto(r, IF ViaEngine(r) THEN "unload" ELSE "done")
  /\ UNCHANGED <<poolVars, door, async, read, cut, walkVars, history>>

(* The console unloads a chain that it ran to a good end.                  *)
Answer(r) ==
  /\ pc[r] = "ended"
  /\ answer[r] = "none"
  /\ answer' = [answer EXCEPT ![r] = IF result[r].err THEN "error" ELSE "ok"]
  /\ Goto(r, IF ViaEngine(r) /\ ~result[r].err THEN "unload" ELSE "done")
  /\ UNCHANGED <<poolVars, door, async, read, cut, walkVars, history>>

(* Mutant: nothing bounds the wait for EndFunc.                            *)
AnswerIfEnded(r) ==
  /\ answer[r] = "none"
  /\ pc[r] = "ended"
  /\ answer' = [answer EXCEPT ![r] = "timeout"]
  /\ UNCHANGED <<poolVars, runVars, walkVars, history>>

(* The select of ExecuteRootChainByID is reached when OnMsgAndWait has     *)
(* returned; WorkflowEngine's, and an asynchronous one, at once.  The      *)
(* execution's hour may be over, or its caller gone, at any time, and of   *)
(* two ready cases either is taken.                                        *)
Waits(r) == async[r] \/ ViaEngine(r)
AnswerTimeout(r) ==
  /\ answer[r] = "none"
  /\ pc[r] \in {"ended", "lost"} \/ (Waits(r) /\ pc[r] = "running")
  /\ answer' = [answer EXCEPT ![r] = "timeout"]
  /\ UNCHANGED <<poolVars, runVars, walkVars, history>>

(* rulego.Del: the instance leaves the pool and stops under those who use  *)
(* it.                                                                     *)
Holds(q, k) ==
  /\ Key(q) = k
  /\ pc[q] \in {"reload", "msg", "running"}
  /\ cut[q] = None

Del(k) ==
  /\ pool' = [pool EXCEPT ![k] = None]
  /\ cut' = [q \in Run |-> IF Holds(q, k) THEN pool[k] ELSE cut[q]]

UnloadChain(r) ==
  /\ pc[r] = "unload"
  /\ loaded' = loaded \ {Key(r)}
  /\ Del(Key(r))
  /\ Goto(r, "done")
  /\ UNCHANGED <<db, door, async, read, walkVars, answer, history>>

(* A sweep of the release's pool registry evicts its engine.               *)
Evict ==
  /\ pool["release"] # None
  /\ Del("release")
  /\ UNCHANGED <<db, loaded, pc, door, async, read, walkVars, answer, history>>

Walk(r) ==
  \/ \E b \in at[r] : \E out \in OutcomesOf(r, b.node) : NodeStep(r, b, out)
  \/ \E b \in at[r] : Interrupt(r, b)
  \/ Complete(r)

Prepare(r) ==
  \/ LoadSubChains(r) \/ LoadEngineSubs(r) \/ GetEngine(r) \/ ReloadEngine(r) \/ OnMsg(r)
  \/ LoadChainDSL(r) \/ MarkLoaded(r) \/ ExecuteWithEnv(r)

Respond(r) == Answer(r) \/ AnswerTimeout(r) \/ UnloadChain(r)

Act(r) == Prepare(r) \/ Walk(r) \/ Respond(r)

Next ==
  \/ \E c \in DOMAIN db : Edit(c)
  \/ Evict
  \/ \E r \in Run : Start(r) \/ Act(r)

Spec == Init /\ [][Next]_vars

(* Whatever runs in this process goes on, and a timeout comes.             *)
Fairness == \A r \in Run : WF_vars(Act(r))

FairSpec == Spec /\ Fairness

-----------------------------------------------------------------------------
TypeOK ==
  /\ db \in [root : Version, sub : Version]
  /\ pool \in [Keys -> Version \cup {None}]
  /\ loaded \subseteq Keys
  /\ pc \in [Run -> {"idle", "subs", "get", "reload", "msg", "load", "mark", "execute",
                     "running", "lost", "ended", "unload", "done"}]
  /\ door \in [Run -> Doors]
  /\ async \in [Run -> BOOLEAN]
  /\ read \in [Run -> [own : Version, sub : Version]]
  /\ cut \in [Run -> Version \cup {None}]
  /\ at \in [Run -> SUBSET Branch]
  /\ end \in [Run -> Ends]
  /\ result \in [Run -> Ends]
  /\ answer \in [Run -> {"none", "ok", "error", "timeout"}]
  /\ ran \in [Run -> SUBSET Version]
  /\ failed \in [Run -> BOOLEAN]
  /\ missing \in [Run -> BOOLEAN]

(* Every failure of a run is reported: WorkflowEngine hears of those of a  *)
(* chain with an end node only at the end node.                            *)
Heard(r) == ~ViaEngine(r) \/ ~hasEndNode(Dsl(r))

(* EndFunc reports a failure only when a branch ended with an error, and   *)
(* whenever one did that is reported, whichever branch ended first.  A     *)
(* branch routed to Failure without an error did not.                      *)
FailureWins ==
  \A r \in Run : result[r].got =>
    /\ result[r].err => failed[r]
    /\ failed[r] /\ Heard(r) => result[r].err

(* EndFunc comes when every branch is over: nothing of the run happens     *)
(* after it, and it is not called again.                                   *)
EndsOnce ==
  [][\A r \in Run :
       /\ result'[r].got => at'[r] = {}
       /\ result[r].got => result'[r] = result[r] /\ ran'[r] = ran[r]]_vars

(* A caller is told of success only when every branch of the run is over   *)
(* and none that is reported ended with an error, whatever the select saw  *)
(* first, and when the run found the chains it had loaded.                 *)
AnswerTrue ==
  \A r \in Run : answer[r] = "ok" =>
    /\ at[r] = {} /\ result[r].got
    /\ Heard(r) => ~failed[r] /\ ~missing[r]

(* An invocation runs its release from the first node to the last,         *)
(* whatever is edited, reloaded, evicted and built beside it.              *)
RunsItsRelease ==
  \A r \in Run : door[r] = "release" => ran[r] \subseteq {Release}

(* Every execution is answered, also one whose engine was evicted between  *)
(* its lookup and its first message and that never calls back.             *)
Answered == \A r \in Run : pc[r] # "idle" ~> answer[r] # "none"
=============================================================================
