# A verification project for go-plat-workflow

TLA+ models of the parts of `src/workflow` that are concurrent, distributed or
stateful, TLC runs that check them on small instances, and TLAPS proofs of
their main properties for every value of the constants. Definitions keep the
names of the code; `PROJECT.json` gives the lines each one stands for.

## 1. The system

The platform lets people compose *activities* into *root chains* (and *sub
chains*), publish the chains in numbered releases, and invoke the release that
is online. It runs on several replicas that share a MySQL database; workers
report and are called over Redis.

| Component | Source (under `src/workflow`) | State | Operations | Here |
|---|---|---|---|---|
| Invoke cache | `service/workflow_service.go` (`InvokeRootChain`, `ClearChainRootByKey`), `service/rootchain_pubsub.go`, `web/server.go` | per replica: parsed release per chain, generation number | look up, read, guarded fill, clear, broadcast, expire | `InvokeCache`, `FreshReads` |
| Release store | `repo/release_repo.go`, `repo/root_chain_repo.go`, `service/workflow_service.go` | draft row, release rows with current / stable / deleted marks | save, publish, roll back, set current, mark stable, delete release, delete chain | `ReleaseStore`, `OnlineRelease` |
| Engine pool and eviction | `service/workflow_service.go` (`trackPoolVersion`, `sweepChainPool`, `chainPoolJanitor`), `rulegox/rulego_flow.go` | per chain: registered versions, the one taken for online, wait of the next to go; rulego's pool | register, sweep, evict, mark unknown | `ChainPool` (one entry); engines as executions see them in `FlowRun` |
| Root chain calls | `service/root_chain_call.go`, `rulegox/components/commnode/root_chain_call_node.go` | calls of each release, call path of an invocation | check at publish, roll back, edit a sub chain, delete a release or a chain, guard at run time | `RootChainCalls` |
| Flow run | `rulegox/rulego_flow.go`, `engine/`, `service/workflow_service.go` (`ExecuteRootChainByID`), `commnode/` | engines by key, live branches, the end kept so far | load, reload, walk, end, time out, unload | `FlowRun` |
| Activity node and executor | `rulegox/components/commnode/activity_node.go`, `mq_executor.go`, `rulegox/mq_activity.go` | stage, calls, tasks in the queue, records | ask, give up, next stage, switch, record, test | `ActivityCall` |
| Worker | `mq_worker.go`, `workflow_logic.go`, `rulegox/mq_activity.go` | registered activities, tasks taken | subscribe, run, push a log line, stop | `ActivityCall`; heartbeats in `OfflineAlert` |
| Log collection | `activity_collector.go` | Redis lists, lines in hand | pop, store | `ActivityCall` |
| Offline alert | `activity_collector.go`, `rulegox/mq_activity.go` | heartbeats in Redis, last seen, monitored set, offline states | report, scan, refresh, check, remind, give up, recover | `OfflineAlert` |
| Invalidation broadcast | `service/rootchain_pubsub.go` | subscriptions per environment | publish, deliver, reconnect, stop | what it delivers, in `InvokeCache` |
| Accounts and sessions | `web/auth.go`, `repo/user_repo.go` | accounts, roles in projects, sessions, failed logins | log in and out, check a request, create, change, delete, bind | `Accounts`, `Console` |
| Catalogue | `service/workflow_service.go`, `repo/` | rows of projects, nodes, activities, sub chains, root chains, test cases, environments | create, update, delete, copy | `Catalogue`, `Console` |
| Publish check | `service/published_check.go` | none: reads the current releases and sub chains | walk, refuse | `Console` |
| Web server | `web/server.go` | none of its own | a handler per operation | `Console`, `InvokeCache`, `ActivityCall` |
| DSL builder, route and data nodes | `builder/`, `commnode/` | none: functions of a chain | assemble, route | when they read and write, and the relations they tell |
| Queries of records, configuration, client, pages | the rest | rows and files | read and write | not modelled |

How they interact: an invocation asks the invoke cache for a release (the cache
asks the release store when it has none), registers the release's version in
the engine pool and sweeps it, and runs the flow on the pool's engine. A node of
the flow may invoke another root chain the same way. A publish writes to the
release store after it has checked the calls, then clears this replica's cache,
marks the pool's entry, and broadcasts the clear to the other replicas. The
nodes of a flow ask the workers, which leave a log line of each activity in
Redis; the collectors of all replicas drain these lists and watch the workers'
heartbeats. Users change all this through the console, whose requests run at the
same time, each a series of statements without a transaction around it.

What is hard about it:

* replicas learn of a publish by a message that can be lost, late or repeated;
  a slow read races the clear, and fills the cache after it (`InvokeCache`);
* a publish is a chain of statements without a transaction around it, and two
  administrators, or a crash between two statements, interleave (`ReleaseStore`);
* a sweep releases the entry's lock while it waits for the flows of a version
  to end; other sweeps, registrations and marks get in between (`ChainPool`);
* each publish checks calls against what is online then; nothing checks
  again what a rollback or a sub chain edit brings online, and deleting a release or a
  chain asks nobody who calls it (`RootChainCalls`);
* executions share the engines: one reloads in place, or unloads, what another
  runs on; branches of a run end in any order, and the end races the
  timeout (`FlowRun`);
* a request to a worker times out while its task is queued, taken or just
  answered; tasks run again after a stop; lines are popped before they are
  stored (`ActivityCall`);
* a console request checks its session, account and role, and the publish check
  walks over chains, while others change all of them; the project may be named in the
  query, the body or the path, trimmed in one place and not in another (`Console`);
* the offline alert must tell an activity that is down from a manager that has
  just restarted, a Redis that is gone, and a scan that lags (`OfflineAlert`).

## 2. Modules

Each component has a module, an `MC` module that extends it for TLC and a `Proofs`
module with its theorems; `FreshReads` is refined by `InvokeCache`, `OnlineRelease` by `ReleaseStore`, and
`Catalogue` and `Accounts` are the tables `Console` works on.

**`FreshReads`** is the abstract promise of the invoke path. Changes of the
online release are numbered; a replica has been told of the changes up to
`cleared`; an invocation runs any release between the one its replica had been
told of when it began and the newest.

**`InvokeCache`** is how the code keeps it: one root chain on several replicas.
`ReadGen`, `Hit`/`Miss`, `ReadCurrent`/`ReadFails`, `Fill`, `Return` are the
steps of `InvokeRootChain` between its lock sections and queries;
`ClearChainRootByKey` counts up the generation and removes the entry, and
`Fill` writes only if the generation has not moved. `Commit` and
`NotifyRootChainChanged` are the handler's transaction and what follows it;
`Deliver`, `Lose` and `Restart` are the broadcast and the process.
Releases are identified by the *change* that put them online, since a rollback
makes an old version number current again.

**`ReleaseStore`** is one chain's rows: a publish is `ReadDraft`, the comparison
with what is online, `ReadMaxVersion`, `Create`, `Activate`, each a statement or a
transaction of the repository; `DeleteCheck`/`Delete` are the two halves of
`DeleteByVersion`, `HasNoReleases`/`DeleteRootChain` those of the chain's
deletion. `Abort` ends a request at any of its steps. `chosen` and `overlapped`
are history.

**`OnlineRelease`** is what the table promises its readers, the invocations and the
pages: each number has one content for good, numbers are given in order, and one
version is online, switched in single steps. The refinement takes `content` from
the rows and `online` from what `GetCurrent` answers, so the two rows that are flagged
current between `Create` and `SetCurrent`, or for good when a publish stops there, must not
show. `shared` is `overlapped`: a served chain may lose its version only where
requests have overlapped; when the row that is deleted was flagged with another one, that
other one takes over.

**`ChainPool`** is one entry of the pool on one replica. `Resolve` takes a
release as `FreshReads` permits (this is where the two models meet), then
`trackPoolVersion`, the sweep (`CheckKnown`, `ScanFindsNone`, `ScanWaits`, `Evict`,
`stopAndDropVersion`, `RestartWait`: one step per lock section), `StartWorkFlow`. The
janitor sweeps with the same steps.

**`RootChainCalls`**: a release is the set of chains its own nodes call, and
whether it uses the sub chain, whose calls are read when needed.
`checkRootChainCalls` is stated over paths; `walkRootChainCalls` is the recursion as
the code writes it, and `WalkMatches` says that the two agree in every state. `Check` and
`Activate` are the two ends of a publish, between which others may run; `GiveUp` ends it
early. `Rollback` and `EditSubChain` bring calls online unchecked. `DeleteCheck` and
`DeleteRelease` are the two statements of `DeleteByVersion`, `DeleteChainCheck` and `DeleteRootChain`
those of the chain's deletion (its row leaves `rows`, and a call of it finds nothing: `Found`);
`DeletionFails` stops either between the two. Versions of equal content count as one
release, which is deleted with the last of them. `drift` is history: what has happened that no check
looks at, among it `"race"`, a release that comes online between the check of a deletion
and the deletion itself.
`Invoke`, `Call`, `Refuse`, `Return` follow one invocation down its call path;
parallel branches each carry a path of their own, so one stack is enough.

**`OfflineAlert`** is one environment: workers (`StartWorker`, `StopWorker`), what
is published (`SetWanted`), Redis (`SetRedis`), the listener task (`reconcile`,
`scanHeartbeats`), and the alert loop (`refreshMonitored`, `checkOfflineActivities`). A
tick is at least 15 s: in it every running worker reports and the task scans.
Ages are counted to where the code stops telling them apart.

**`FlowRun`** is the executions of one root chain with a sub chain, given by their
nodes and connections. An execution comes through a door: the draft of a
designer, a release, the console's execution of the published chain, or a
test of the sub chain. `LoadSubChains`, `GetEngine`, `ReloadEngine`, `OnMsg` are
the steps of `StartWorkFlow` between its calls into rulego's pool;
`LoadEngineSubs`, `LoadChainDSL`, `MarkLoaded`, `ExecuteWithEnv`, `UnloadChain` those of
`WorkflowEngine`. `NodeStep` runs one node of one branch and passes on to all
nodes its relation leads to; `OutcomesOf` is what each kind of node may tell: a relation, and
whether it comes with an error. The two are kept apart because the code does: a relation
called `Failure` without an error (the default route of a condition, or a route of that name) selects
the connections of that name, but a branch that ends by it has not failed; `EndBranch` and
`RecordEnd` look at the error alone. Activities and flow nodes route by their own condition as
well. A chain with an end node reports the ends there, and failures everywhere only under
`OnEndWithFailure`, which `StartWorkFlow` sets and `WorkflowEngine` does not.
`RecordEnd`, `Complete` and `Answer`/`AnswerTimeout` are the end of a branch, of the run
and of the execution. rulego itself (pool, walk, stop) is external and modelled as
its calls in `src/` use it.

**`ActivityCall`** is executions of activity nodes: stages of activities side by side,
each asked by a request (`execOneActivity`, `RequestActivity`, `GiveUp`) to a worker
(`Take`, `SubscribeActivity`, `Stop`), and what the node then tells and records.
Tests of a node and of an activity are further kinds of execution. The same
activities push the log lines that `LPop` and `drainLogKey` of the collectors
take. The queue (asynq) is external: it keeps a task until a worker has run it.

**`Catalogue`** and **`Accounts`** are the tables, one operator for each statement of
the repositories; rows that are deleted softly keep their names taken.
**`Console`** is the requests: `GetSession`, `authMiddleware`, `checkProjectAccessForRequest`,
`requireAdmin`/`requireProject`/`requireProjectAccess`, then the statements of the handler that the
request is for, each a step. A request keeps what it has read in local variables
(`req`), so everything may have changed when it is used. `buildPublishedRefIndex`,
`visit` and `NotPublished` are the publish check. `Trim` is `strings.TrimSpace` on codes of
projects, here any function that keeps the empty string: `projectParam` and `bodyProject`
trim what the handler works on, `Checks` looks the role up under the query as it was written, and
nobody trims the codes that are created or that a path names. `Fail` ends a request anywhere:
an explicit refusal, a missing row, an error, a stop of the server. `was` and `kept`
are history: what the request's user was allowed, and what was online all the
time, since it arrived.

## 3. Runs

| Run | Instance | Shows |
|---|---|---|
| `invoke_stale` | 2 replicas, 1 invocation each, 2 changes | no fill, however late, undoes a clear; nothing older than what the replica knew is run |
| `invoke_slots` | 1 replica, 2 invocations, TTL 2, fill up to 1 tick | the cache implements `FreshReads`; a hit is never staler than TTL plus fill; without any broadcast the replica heals |
| `release_race` | 2 administrators, 2 contents, 3 versions | the version last made current is served; published content is kept; alone, requests never delete what is protected, reuse a number, or leave a served chain without a version, wherever they stop; the table implements `OnlineRelease` |
| `release_delete_race` | the same | **violation**: a delete and a rollback |
| `pool_sweeps` | 1 invocation and the janitor, limit 2, TTL 1, 4 versions | overlapping sweeps keep the policy exactly, and the entry drains |
| `pool_online` | 2 invocations, limit 1, 2 versions | **violation**: the online version is evicted |
| `calls` | 3 chains, depth 2, 3 publishes and deletions in all, 1 sub chain | what is checked keeps circles out of what is online and out of a calm invocation; what is called stays, also when releases and chains are deleted, unless it comes online between a deletion's check and the deletion; the check is the recursion |
| `alert` | 1 activity, threshold 2, grace 2, reminder 1, give up 2 | no false alarm or recovery, nothing missed, everything recovers |
| `alert_giveup` | the same | **violation**: an alert after giving up |
| `flow` | 2 executions (release or test; draft or published), a chain that forks and has an end node, 1 edit of the draft | an error wins, the end is reported once, success is told only when no reported branch had an error, an invocation runs its release alone, everyone is answered |
| `activity` | 1 execution of any kind, up to 2 stages of 2 and 1 activities, 2 collectors, 2 lines, 1 stop | stages never overlap, what is told and recorded is what the workers did, no line is stored twice, the node tells |
| `console` | 1 request of a user (editor or viewer) and 1 of an administrator, any operations, 3 projects, the code of one that of another with a blank | nothing without the role in the project worked on, or in the code with blanks when the query writes it so, whatever is changed meanwhile; what is online is not touched |

Why the bounds are enough. In the cache the interesting case needs one change
between a read and its fill, and a second one to tell an old release from a
very old one; the second replica is there for the broadcast. In the store two
overlapping publishes that pick the same number, and a third version to delete,
take three versions. The pool needs a current version, one that is kept, and
two spare ones to be evicted in order. A circle of calls over one intermediate
chain takes three chains; depth 2 is passed by one call more than allowed; three
publishes and deletions are two publishes, of a target and of its caller, and a deletion beside
them. The proofs cover any depth and any number. The alert loop treats activities one by one, so one
suffices; the times are the smallest that differ (the code's 60 s, 120 s, 30 min
and 24 h only stretch them), and the threshold of two ticks is the least one
for which the guarantees hold. A flow needs two executions to share an
engine, and they come through different doors because those are the ones that
meet on a key or on the sub chain; the chain forks behind a condition into an activity and
a sub chain, so that branches run side by side and end by relations no connection takes as well,
and has an end node, without which every end is reported; the sub chain has none; one edit makes two versions that a reload can
confuse. The proofs about it are for any chain, any number of executions and all
doors. In `activity`, executions share only the worker and the list of lines, so a
second one brings nothing that three activities and a stop do not; two
collectors are the least that can pop the same line. In `console` two requests
are the least that interleave; what the user's own second request could do,
the administrator's does. There are two projects, so that one can be named
and the other used, a third whose code is the first one's with a blank, in which the user may be
an editor, and an online chain that uses a node and an activity directly,
or over one and over two sub chains. The user may be a viewer while the direct one is online,
and an editor while the other or none is. `MCConsole` gives that installation as the
initial state; `Init` itself allows any.

The deadlock check is off where the system really stops: in `release_race` when
the chain is deleted nothing is left to do; in `flow`, `activity` and `console` every
execution or request is made once.

Bounds that exist only for TLC: `MaxChanges`, `LastVersion`, the
numbers of slots, workers and administrators, `MaxEdits`, `MaxStops`, and the one request
of each kind of user. `FillBound` is an assumption: the time
from an invocation's read to its fill is limited (a query timeout).

### Fairness

* `InvokeCache`: the clock advances, and an invocation that has begun goes on.
  No request, handler, message or clear is assumed.
* `ChainPool`: the clock, the janitor's ticker, and the steps of sweeps and
  invocations under way. `Drains` starts from "the replica has been told and knows
  its current version".
* `OfflineAlert`: each loop has a ticker of its own, so each of its bodies is
  weakly fair. Nothing is assumed of workers, administrators or Redis.

* `FlowRun`: what an execution is about to do in the process, it does: a goroutine
  that can go on goes on, rulego calls the end back when all branches are over,
  and the timeout comes. An engine that was deleted may never call back; only the timeout
  answers then. Edits and evictions are not assumed.
* `ActivityCall`: the goroutines of a node run on, and the timer of a request fires.
  No worker and no collector is assumed to run at all.

`RootChainCalls`, `ReleaseStore` and `Console` have safety properties only.

## 4. What the code does not keep

Three runs end in a violation of what a comment says; the details and the lines are
in `PROJECT.json` under `findings`.

* `release_delete_race`: `DeleteByVersion` reads the row, looks at its marks, and
  deletes it in another statement. A rollback or a stable mark in between is
  overlooked, and the version online is deleted. (One at a time, requests
  are safe: `ProtectedAlone`, proved.)
* `pool_online`: an invocation that resolved its release before a rollback may
  register it after the rollback has been noted. The entry then takes the old
  version for the one online, and sweeps evict the version that is.
* `alert_giveup`: giving up deletes the state that says an alert was sent, so
  the next check starts over: the reminders never end.

`pool_online` is not fatal: an evicted version is rebuilt by the next invocation.
Seen while modelling and not the subject of a run:

* an invocation registers its version, sweeps, and starts the flow last
  (`workflow_service.go:1857`-1859). Another one's sweep may drop the version in between;
  starting the flow builds the engine again, the entry no longer lists it, and no sweep
  finds it. `Drains`, about the entry, holds; stated of rulego's `pool` it does not, though
  `config.go:129` means the instances in that pool;
* deleting a release or a chain asks nobody who calls it. What keeps the target of a call is that
  the online release, and a chain with releases, are protected; both are checked in a statement
  before the one that deletes, and a publish, rollback or call check in between is overlooked, as
  `release_delete_race` shows for the release. `TargetsOnline` names that case (`"race"`);
* a branch that ends by an unhandled relation `Failure` without an error
  (`route_helper.go:61`-70, a condition whose value is false; `cond_switch_node.go:133`) ends well:
  `rulego_flow.go:229`-242 and `engine.go:267`-279 look at the error only. `FailureWins` and
  `AnswerTrue` are about errors therefore;
* `StartWorkFlow` turns `OnEndWithFailure` on for a chain with an end node
  (`rulego_flow.go:102`-105), `WorkflowEngine` does not. If rulego reports as the former expects, a
  failure that such a chain does not handle is not heard by the console's execution of the published
  chain, which is told success, though `engine.go:257` says that any branch's failure is returned.
  `FailureWins` and `AnswerTrue` leave this out (`Heard`);
* the middleware looks up the role under the project of the query as it was written
  (`web/auth.go:209`), the handlers work on the trimmed one (`web/server.go:271`), though the comment at
  `web/auth.go:311` takes the two for one; codes of projects are neither trimmed nor
  checked when they are created. `Permitted` states which code counts (`RoleOf`);
* a new activity may take a name that online chains refer to: `CreateActivity` asks no publish
  check. `UsedUntouched` is about updates, renames and deletions;
* a chain whose *callee* is published with longer calls can pass the depth limit at
  run time although each publish was checked (`RunsAsChecked` therefore says
  nothing of `"depth"`); overlapping publishes, rollbacks and sub chain edits can
  put a circle online, which only the guard at run time ends;
* an activity that was seen once is alerted also when the environment has lost its
  listener task, though `activity_collector.go:143` rules this out;
* a log line is popped from Redis before it is stored, and lost when the insert fails;
* between the test that a pool entry knows its current version and the lock of the
  next eviction, a publish may make it unknown; the sweep goes on;
* two publishes at once can store two releases of equal content, which the comment at
  `workflow_service.go:1031` rules out;
* with `root_chain_pool_max_versions` 0 and TTL 0, everything but the current
  version is evicted at once;
* the stagger between evictions is measured from the end of the last one, by a
  sweep that has released the lock in between;
* an account cannot be disabled on the page: it sends status 0
  (`web/index.html:1189`; `models/user.go:17`: 0 is disabled), which the handlers
  take for "not given" (`web/auth.go:639`);
* a change of a password or of an account writes the whole row it read
  (`web/auth.go:488`), and so undoes a disabling or demotion in between; a login that has
  checked the old password may create its session after all sessions were ended;
* the roles of a user are replaced one by one, and a failure leaves some of them;
* two first lists of a project's nodes create two built-in nodes;
* an environment saved with a masked password restores the one read before, over a
  concurrent change;
* the publish check skips a sub chain whose read fails (`published_check.go:187`), and
  guards nodes and activities only: sub chains in online use may be edited;
* a root chain saved under an unknown id is created under another id;
* names of deleted projects, users and sub chains stay taken, ids of deleted nodes
  are not given again;
* the Redis of the activity nodes is one per process: a slow start may register an old
  one over a newer one (`engine/chain_pool.go:92`);
* an asynchronous execution by the console waits nevertheless for its end
  (`ExecuteRootChainByID`); a test of an activity leaves two records (`mq_executor.go:255`
  and `:280`); a skipped node with a switch tells `Success`, to which
  only its own branches may be connected (`activity_node.go:285`);
* a retry of `registerActivities` after the worker has started may leave late queues
  without a consumer (`workflow_logic.go:135`).

## 5. Proofs

All theorems hold for any value of the constants that satisfies the named
assumptions of the modules. TLC checked each property first, and the invariants
below were found by strengthening what it accepted.

* **`InvokeCacheProofs`**: `TypeCorrect`, `ClearsAreKept`, `NothingOlderRuns`,
  `HitsAreRecent`, and `Implements` (the refinement of `FreshReads`, initial states and steps). The
  invariant's core is `GenGuards`: an invocation whose remembered generation is still
  the replica's holds a release at least as new as the replica's last clear. That
  is what makes the fill safe; it is inductive because a clear changes the
  generation of everyone, and a restart drops the invocations with the generation.
  `HitsAreRecent` needs `Timely`: what an invocation read was online as many ticks ago
  as it has waited since, at most `FillBound`, and from then on the entry ages with the
  ticks, so it is gone before its read leaves the window.
* **`ReleaseStoreProofs`**: `TypeCorrect`, `ChosenServes`, `PublishedKept`,
  `ProtectedServed`, `ReleasesHaveChain`, `PublishFindsNumber`, `StaysOnline`, and `Implements`
  (the refinement of `OnlineRelease`). Versions are dense, and a
  version in hand is above every earlier row; so a row inserted as current is
  newer than the chosen one, and `GetCurrent`, which takes the first, still answers
  the chosen one. The rows a request has in hand stay as it saw them as long as no
  other request runs. For the refinement, `GetCurrent` answers the lowest row flagged
  current: an inserted row is above all rows before it and so is seen only when nothing was
  current, `SetCurrent` leaves one flag, and a delete changes the answer only by taking away
  the row that was served, which `AloneInv` rules out while no requests overlap.
* **`ChainPoolProofs`**: `TypeCorrect`, `CurrentStays`, `SweepsKeepThePolicy`. A version
  is registered in the step that makes it current, and a head is never current;
  the count uses cardinalities of finite sets.
* **`RootChainCallsProofs`**: `TypeCorrect`, `NoCircleOnline`, `TargetsStay`,
  `CheckedCallsRun`, `WalkIsMatched`. With no overlap, rollback or edit, what a publish has checked
  still holds when it activates. A new circle would go through the new release,
  and the path along it could always be continued; the longest path below the depth
  limit that stays in it contradicts the check. `TargetsStay` needs three more facts that
  deletions must not disturb: what is online is not deleted and is one the chain has had, no release with a
  deletion under way is online and no chain on its way out has one (`Idle`), unless there was a race; so a deletion takes nothing that
  a check has found. A calm invocation goes along
  online calls, so a call back into its path would be a circle. `WalkIsMatched` is about
  the recursion: it is a function on the paths up to the depth limit, that everything
  beyond a path be good satisfies its equation, and no two solutions differ, since
  there is no longest path on which they do (`WalkAsks`, `WalkIsAllGood`). The recursion and the
  paths disagree about the chain's own release only beyond a call back to it, which
  both refuse (`FirstReturn`).
* **`OfflineAlertProofs`**: `TypeCorrect`, `NoAlarmInView`, `RecoveriesAreTrue`. What
  scans have seen is never younger than the heartbeat itself; an activity in view
  for two ticks has been scanned in the tick before, so what is known of it is younger
  than the threshold.

* **`FlowRunProofs`**: `TypeCorrect`, `FailuresWin`, `EndsAreFinal`, `ReleaseRuns`, and
  `SuccessIsTrue` for chains that do not handle the failures of their flow nodes
  (`FlowFailuresEnd`, an assumption of the theorem; a chain that routes such a failure
  to a node may well succeed). Failure means an error throughout, whatever the relation. The invariant says of every stage of an execution what it
  has not done yet (`AtStage`), that the end kept is a failure exactly when a branch failed
  (`EndInv`), and that under a release's key only the release is ever loaded, or cut
  off from there (`RelInv`). The chain and the sub chain are any with a first node.
* **`ActivityCallProofs`**: `TypeCorrect`, `ExecutionsAreWhole`, `NoLineTwice`. An activity of a stage
  is asked only when the stages before it are over and succeeded, and a call that was answered
  is never asked again. Stages are disjoint (`ShapesAssumption`) since an activity stands
  for its place in the node: one that is listed twice is asked twice. For the lines, each of those in a list or in a hand is one
  not stored yet; the cardinality of the hands is that of a finite set.
* **`ConsoleProofs`**: `TypeCorrect`, `NothingUnpermitted`, `UsedIsUntouched`. `Gate` says of a request what its checks so far have
  seen, in terms of its history: the session, the account, the role in each project
  already ticked off, and, past the checks, in the one that counts for it (`RoleIn`). History only
  grows while a request goes on, whatever becomes of the tables; no handler changes who asks,
  for what, and where (`GoesOn`, one lemma for each kind of step). That the project in use
  is one of those checked, or its code with blanks is, is `ResolvedIsChecked`, from the three ways a
  request may name it; of `Trim` it uses only that it keeps the empty string.
  For the types, `Kind` says which operation a request can have at each of its stages
  and what it holds there, so that what it stores is a row of the table it stores it in;
  `ReferencesAssumption` (that "no references yet" is no set of references) is all it needs.
  For `UsedIsUntouched`, what has been online all the time since a request arrived only shrinks,
  and less uses less (`Below`). While nothing was missed, a walk has in `visited` all sub
  chains that the root chains refer to, and in `refs` what the visited ones use
  (`Walked`); when nothing is left to visit, the visited sub chains are closed under
  reference, hence contain all that are reached, and `refs` holds what is used
  (`WalkCovers`). What was asked for is not in it, or the request was refused (`Watch`).

Checked by TLC only: liveness (`Heals`, `Drains`, `NeverMissed`, `Recovers`, `Answered`, `Told`),
which is out of the prover's reach. Every invariant and every action property of a
passing run is stated by a theorem. `PublishedKept` is the other way round: its property,
`PublishedImmutable`, is proved, and TLC checks it as part of `ImplementsOnlineRelease`.

## 6. What is left out

Contents of releases, flows and messages are model values; equality of contents
is taken as the code computes it (`rootChainContentEqual` ignores some override
columns, so two contents that differ only there are one here). A database statement or
transaction is atomic. Left out of the modules:

* `RootChainCalls`, `ChainPool`, `OfflineAlert`: arguments of calls, a chain switched off by
  its status, the creation of a pool entry by two invocations at once and its
  removal with the chain, the delivery of notices, several managers that alert the
  same activity, the global alert switch.
* `ReleaseStore`: `ProtectedAlone`, `NumberIsFree` and `ChainKept` speak of requests that do not
  overlap; what overlapping ones do is in the model, and stated by `ProtectedKept` and the refinement.
* `ChainPool`: while the entry does not know its current version, the sweep that has already begun
  protects none; `CurrentRegistered` and `EvictsOldestSpare` say nothing then. A limit and a TTL
  of 0 are covered by the proof only.
* `OfflineAlert`: `steady`, the history behind `NoFalseAlarm`, starts again when a listener task
  starts, for each activity that was monitored without one: an alert that comes because the listener
  started after the grace period is not called false.
* `FlowRun`: values. A condition yields any relation its kind allows. Calls of
  other root chains are in `RootChainCalls`. The sub chain's own nodes run as one
  step of the flow node, except in a test of it.
* `ActivityCall`: a panic of a node (`OnMsg` recovers from it and tells a failure,
  `activity_node.go:191`-196). `StoredOnce` counts lines: it does not
  see one that is lost between pop and insert, nor the second line of an activity that ran twice after
  a worker stopped. The client and the worker's connections, and several environments. An
  activity over HTTP is a call without a queue.
* `Console`: reads for display are one action without effect; disabled sub chains; the
  fallback of the publish check for a DSL that does not parse; which activities a
  node's row lists; that an id given by a request may be the next of the counter; limits on the number of failed logins that are remembered; project secrets and
  the signed API for other systems. In the run, one ordinary user and no two
  requests of the same user.

Not modelled at all: parsing of the configuration, the HTTP client, the web pages, and
the translation of a chain into the DSL of rulego, a function of one input that tests
reach.

## 7. Plan

Done: invoke cache, release store, engine pool, offline alert, root chain calls, flow
run, activity calls with log collection, and the console with accounts, catalogue and
publish check. Left:

1. A second pool entry created at the same time, and pool and cache composed as
   modules rather than by `FreshReads`.
2. The life cycle of listener tasks and of the broadcast's subscriptions: start, stop,
   reconcile when environments change.
3. The builder's assembly of a chain and the choice of routes, over bounded inputs
   with reference definitions.
4. Proofs: that `FlowRun` composed with `RootChainCalls` keeps the promises of both.
