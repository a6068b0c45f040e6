---------------------------- MODULE InvokeCache -----------------------------
(***************************************************************************)
(* The release cache of the invoke path (WorkflowService.InvokeRootChain)  *)
(* on several replicas, for one root chain.                                *)
(*                                                                         *)
(* Each replica keeps the parsed release that was online when it last read *)
(* the database, for at most a TTL, and a generation number that every     *)
(* invalidation increments.  A web handler commits a change of is_current, *)
(* then invalidates its own replica and broadcasts the invalidation over   *)
(* Redis pub/sub: a message may be lost, delivered late, or delivered      *)
(* once per Redis instance that two replicas share.                        *)
(*                                                                         *)
(* Releases are numbered by the change that put them online (see           *)
(* FreshReads): a rollback makes an old version number current again, so   *)
(* only the change number orders them.                                     *)
(***************************************************************************)
EXTENDS Naturals, FiniteSets

CONSTANTS
  Replica,      \* server processes sharing the database
  Slot,         \* concurrent invocations a replica is followed through
  Redis,        \* Redis instances that carry the broadcast
  TTL,          \* invokeCacheTTL, in clock ticks
  FillBound,    \* ticks an invocation may take from its read to its fill
  MaxChanges,   \* bound: changes of is_current
  NoEntry       \* no cache entry

ASSUME TTLAssumption == TTL \in Nat \ {0}
ASSUME FillBoundAssumption == FillBound \in Nat
ASSUME NoEntryAssumption == NoEntry \notin [point : Nat, age : Nat]

Worker == Replica \X Slot

VARIABLES
  db,        \* changes of is_current committed: the number of the online release
  handlers,  \* handlers between their commit and NotifyRootChainChanged
  msgs,      \* invalidation messages in flight
  gen,       \* invokeCacheGen of each replica
  cache,     \* invokeRootChainMapCache of each replica: NoEntry or an entry
  pc,        \* where each invocation is in InvokeRootChain
  seenGen,   \* its local variable gen
  point,     \* the release it has read or found
  wait,      \* ticks since it read the database
  cleared,   \* history: newest change known at the replica's last clear
  floor,     \* history: cleared when the invocation started
  past       \* history: past[i] is db just before the (i+1)-th last tick

dbVars  == <<db, handlers, msgs>>
repVars == <<gen, cache, cleared>>
reqVars == <<pc, seenGen, point, wait, floor>>
vars == <<dbVars, repVars, reqVars, past>>

Window == TTL + FillBound - 1

Entry == [point : Nat, age : Nat]

(* Mutant: the age of the entry is not looked at. *)
LiveForever(e) == e # NoEntry

(* The entry was found and is younger than invokeCacheTTL. *)
Live(e) == e # NoEntry /\ e.age < TTL

Init ==
  /\ db = 0
  /\ handlers = {}
  /\ msgs = {}
  /\ gen = [r \in Replica |-> 0]
  /\ cache = [r \in Replica |-> NoEntry]
  /\ pc = [w \in Worker |-> "idle"]
  /\ seenGen = [w \in Worker |-> 0]
  /\ point = [w \in Worker |-> 0]
  /\ wait = [w \in Worker |-> 0]
  /\ cleared = [r \in Replica |-> 0]
  /\ floor = [w \in Worker |-> 0]
  /\ past = [i \in 0 .. Window |-> 0]

-----------------------------------------------------------------------------
(* Changing the online release. *)

(* Mutant: the entry is removed and the generation is not counted up. *)
ClearKeepsGen(r) ==
  /\ cache' = [cache EXCEPT ![r] = NoEntry]
  /\ cleared' = [cleared EXCEPT ![r] = db]
  /\ UNCHANGED gen

(* ClearChainRootByKey: under invokeCacheMu, a new generation and no entry. *)
ClearChainRootByKey(r) ==
  /\ gen' = [gen EXCEPT ![r] = @ + 1]
  /\ cache' = [cache EXCEPT ![r] = NoEntry]
  /\ cleared' = [cleared EXCEPT ![r] = db]

(* A publish, rollback or set-current handler on replica r commits the     *)
(* SetCurrent transaction.  (A first publish commits with its insert.)     *)
Commit(r) ==
  /\ db < MaxChanges
  /\ db' = db + 1
  /\ handlers' = handlers \cup {[change |-> db + 1, by |-> r]}
  /\ UNCHANGED <<msgs, repVars, reqVars, past>>

(* The handler fails between its commit and its notification: it could not *)
(* read the root chain again, or its process stopped.                      *)
SkipNotify(h) ==
  /\ handlers' = handlers \ {h}
  /\ UNCHANGED <<db, msgs, repVars, reqVars, past>>

(* NotifyRootChainChanged: clear this replica, then a goroutine publishes  *)
(* the event on every Redis of the project, for every other replica.       *)
NotifyRootChainChanged(h) ==
  /\ handlers' = handlers \ {h}
  /\ ClearChainRootByKey(h.by)
  /\ msgs' = msgs \cup
       [change : {h.change}, to : Replica \ {h.by}, via : Redis]
  /\ UNCHANGED <<db, reqVars, past>>

(* handleMessage on the receiving replica. *)
Deliver(m) ==
  /\ msgs' = msgs \ {m}
  /\ ClearChainRootByKey(m.to)
  /\ UNCHANGED <<db, handlers, reqVars, past>>

(* A Redis that is down, a subscription not yet made or reconnecting. *)
Lose(m) ==
  /\ msgs' = msgs \ {m}
  /\ UNCHANGED <<db, handlers, repVars, reqVars, past>>

-----------------------------------------------------------------------------
(* InvokeRootChain. *)

Goto(w, label) == pc' = [pc EXCEPT ![w] = label]

(* Under invokeCacheMu, remember the generation. *)
ReadGen(w) ==
  /\ pc[w] = "idle"
  /\ Goto(w, "lookup")
  /\ seenGen' = [seenGen EXCEPT ![w] = gen[w[1]]]
  /\ floor' = [floor EXCEPT ![w] = cleared[w[1]]]
  /\ UNCHANGED <<dbVars, repVars, point, wait, past>>

(* Mutant: a hit stamps CachedAt again, so a busy chain never expires. *)
HitSlides(w) ==
  /\ pc[w] = "lookup"
  /\ Live(cache[w[1]])
  /\ Goto(w, "run")
  /\ point' = [point EXCEPT ![w] = cache[w[1]].point]
  /\ cache' = [cache EXCEPT ![w[1]].age = 0]
  /\ UNCHANGED <<dbVars, gen, cleared, seenGen, wait, floor, past>>

(* The entry is there and younger than the TTL: run it. *)
Hit(w) ==
  /\ pc[w] = "lookup"
  /\ Live(cache[w[1]])
  /\ Goto(w, "run")
  /\ point' = [point EXCEPT ![w] = cache[w[1]].point]
  /\ UNCHANGED <<dbVars, repVars, seenGen, wait, floor, past>>

Miss(w) ==
  /\ pc[w] = "lookup"
  /\ ~ Live(cache[w[1]])
  /\ Goto(w, "miss")
  /\ UNCHANGED <<dbVars, repVars, seenGen, point, wait, floor, past>>

(* Mutant: the generation is remembered after the read, not before it. *)
ReadThenGen(w) ==
  /\ pc[w] = "miss"
  /\ db > 0
  /\ \/ /\ point[w] = 0
        /\ point' = [point EXCEPT ![w] = db]
        /\ UNCHANGED <<pc, seenGen>>
     \/ /\ point[w] > 0
        /\ Goto(w, "fill")
        /\ seenGen' = [seenGen EXCEPT ![w] = gen[w[1]]]
        /\ UNCHANGED point
  /\ wait' = [wait EXCEPT ![w] = 0]
  /\ UNCHANGED <<dbVars, repVars, floor, past>>

(* GetByKey and GetCurrent: the release online now. *)
ReadCurrent(w) ==
  /\ pc[w] = "miss"
  /\ db > 0
  /\ Goto(w, "fill")
  /\ point' = [point EXCEPT ![w] = db]
  /\ wait' = [wait EXCEPT ![w] = 0]
  /\ UNCHANGED <<dbVars, repVars, seenGen, floor, past>>

(* The invocations of W are over: their locals are gone. *)
Leave(W) ==
  /\ pc' = [w \in Worker |-> IF w \in W THEN "idle" ELSE pc[w]]
  /\ seenGen' = [w \in Worker |-> IF w \in W THEN 0 ELSE seenGen[w]]
  /\ point' = [w \in Worker |-> IF w \in W THEN 0 ELSE point[w]]
  /\ wait' = [w \in Worker |-> IF w \in W THEN 0 ELSE wait[w]]
  /\ floor' = [w \in Worker |-> IF w \in W THEN 0 ELSE floor[w]]

(* Either query fails, and so does GetCurrent of a chain never published. *)
ReadFails(w) ==
  /\ pc[w] = "miss"
  /\ Leave({w})
  /\ UNCHANGED <<dbVars, repVars, past>>

(* Mutant: the cache is filled whatever the generation is. *)
FillAnyway(w) ==
  /\ pc[w] = "fill"
  /\ cache' = [cache EXCEPT ![w[1]] = [point |-> point[w], age |-> 0]]
  /\ Goto(w, "run")
  /\ wait' = [wait EXCEPT ![w] = 0]
  /\ UNCHANGED <<dbVars, gen, cleared, seenGen, point, floor, past>>

(* Mutant: the entry has no CachedAt. *)
FillUnstamped(w) ==
  /\ pc[w] = "fill"
  /\ cache' = [cache EXCEPT ![w[1]] =
                 IF gen[w[1]] = seenGen[w] THEN [point |-> point[w]] ELSE @]
  /\ Goto(w, "run")
  /\ wait' = [wait EXCEPT ![w] = 0]
  /\ UNCHANGED <<dbVars, gen, cleared, seenGen, point, floor, past>>

(* Under invokeCacheMu: fill the cache unless the generation moved. *)
Fill(w) ==
  /\ pc[w] = "fill"
  /\ IF gen[w[1]] = seenGen[w]
       THEN cache' = [cache EXCEPT ![w[1]] = [point |-> point[w], age |-> 0]]
       ELSE UNCHANGED cache
  /\ Goto(w, "run")
  /\ wait' = [wait EXCEPT ![w] = 0]
  /\ UNCHANGED <<dbVars, gen, cleared, seenGen, point, floor, past>>

(* The flow ends and the answer goes out. *)
Return(w) ==
  /\ pc[w] = "run"
  /\ Leave({w})
  /\ UNCHANGED <<dbVars, repVars, past>>

-----------------------------------------------------------------------------
(* The environment. *)

MinOf(a, b) == IF a < b THEN a ELSE b

(* Time passes.  An invocation stays at most FillBound ticks between its   *)
(* read and its fill.                                                      *)
Tick ==
  /\ \A w \in Worker : pc[w] = "fill" => wait[w] < FillBound
  /\ cache' = [r \in Replica |->
                 IF cache[r] = NoEntry THEN NoEntry
                 ELSE [point |-> cache[r].point,
                       age |-> MinOf(cache[r].age + 1, TTL)]]
  /\ wait' = [w \in Worker |-> IF pc[w] = "fill" THEN wait[w] + 1 ELSE wait[w]]
  /\ past' = [i \in 0 .. Window |-> IF i = 0 THEN db ELSE past[i - 1]]
  /\ UNCHANGED <<dbVars, gen, cleared, pc, seenGen, point, floor>>

(* A replica stops and starts again: nothing it held in memory is left,    *)
(* and it hears none of the messages that were on their way.               *)
Restart(r) ==
  /\ gen' = [gen EXCEPT ![r] = 0]
  /\ cache' = [cache EXCEPT ![r] = NoEntry]
  /\ Leave({w \in Worker : w[1] = r})
  /\ handlers' = {h \in handlers : h.by # r}
  /\ msgs' = {m \in msgs : m.to # r}
  /\ UNCHANGED <<db, cleared, past>>

-----------------------------------------------------------------------------
Invoke(w) ==
  \/ ReadGen(w) \/ Hit(w) \/ Miss(w) \/ ReadCurrent(w)
  \/ ReadFails(w) \/ Fill(w) \/ Return(w)

Next ==
  \/ \E r \in Replica : Commit(r) \/ Restart(r)
  \/ \E h \in handlers : SkipNotify(h) \/ NotifyRootChainChanged(h)
  \/ \E m \in msgs : Deliver(m) \/ Lose(m)
  \/ \E w \in Worker : Invoke(w)
  \/ Tick

Spec == Init /\ [][Next]_vars

(***************************************************************************)
(* An invocation that has begun is a running goroutine, and the clock      *)
(* advances.  Nothing else is promised: no request need arrive, no handler *)
(* need notify and no message need be delivered.                           *)
(***************************************************************************)
Proceed(w) ==
  Hit(w) \/ Miss(w) \/ ReadCurrent(w) \/ ReadFails(w) \/ Fill(w) \/ Return(w)

Fairness == WF_vars(Tick) /\ \A w \in Worker : WF_vars(Proceed(w))

FairSpec == Spec /\ Fairness

-----------------------------------------------------------------------------
Handler == [change : Nat, by : Replica]
Message == [change : Nat, to : Replica, via : Redis]

(* Every variable holds a value of its type. *)
TypeOK ==
  /\ db \in Nat
  /\ handlers \subseteq Handler
  /\ msgs \subseteq Message
  /\ gen \in [Replica -> Nat]
  /\ cache \in [Replica -> Entry \cup {NoEntry}]
  /\ pc \in [Worker -> {"idle", "lookup", "miss", "fill", "run"}]
  /\ seenGen \in [Worker -> Nat]
  /\ point \in [Worker -> Nat]
  /\ wait \in [Worker -> Nat]
  /\ cleared \in [Replica -> Nat]
  /\ floor \in [Worker -> Nat]
  /\ past \in [0 .. Window -> Nat]

(* The release an invocation runs is at least as recent as every change    *)
(* its replica had been told of when the invocation started, whatever      *)
(* other invocations were filling the cache meanwhile.  This is what the   *)
(* generation number is for: a release read before a publish must not be   *)
(* written back after the publish cleared the cache.                       *)
RunsNothingOlder ==
  \A w \in Worker : pc[w] = "run" => floor[w] <= point[w] /\ point[w] <= db

(* A cached release, expired or not, is never older than the last clear of *)
(* its replica: no invocation, however slow, puts back what a clear        *)
(* removed.                                                                *)
CacheSurvivesNoClear ==
  \A r \in Replica :
    cache[r] # NoEntry => cleared[r] <= cache[r].point /\ cache[r].point <= db

(* Even when every broadcast is lost, a cache hit serves a release that    *)
(* was online at some moment of the last TTL, plus the time the filling    *)
(* invocation took from its read to its fill: the bound that makes a lost  *)
(* message heal.                                                           *)
ServedWithinTTL ==
  [][\A w \in Worker :
       pc[w] = "lookup" /\ pc'[w] = "run" => past[Window] <= point'[w]]_vars

(* Once releases stop changing, and with no broadcast delivered, every     *)
(* replica ends with an empty or expired cache or with the online release. *)
Heals ==
  <>[](\A r \in Replica :
         Live(cache[r]) => cache[r].point = db)

(* The cache implements the promise of FreshReads: an invocation is        *)
(* pending until it has settled on a release.                              *)
Promise ==
  INSTANCE FreshReads WITH
    status <- [w \in Worker |-> IF pc[w] \in {"idle", "run"} THEN pc[w] ELSE "pending"],
    point  <- [w \in Worker |-> IF pc[w] = "run" THEN point[w] ELSE 0]

ImplementsFreshReads == Promise!Spec
=============================================================================
