-------------------------- MODULE InvokeCacheProofs -------------------------
(***************************************************************************)
(* InvokeCache for every set of replicas and slots, every TTL and every    *)
(* number of changes: its types, the two staleness invariants and the      *)
(* refinement of FreshReads.                                               *)
(*                                                                         *)
(* RunsNothingOlder is not inductive: what makes a fill safe is that an    *)
(* invocation whose generation is still the replica's has missed no clear, *)
(* so that its floor is the replica's cleared (GenGuards), and what makes  *)
(* a hit safe is CacheSurvivesNoClear, which that same fact preserves.     *)
(***************************************************************************)
EXTENDS InvokeCache, TLAPS

(* The generation an invocation remembers never exceeds the replica's, and *)
(* while the two are equal no clear has happened since it started.         *)
GenGuards ==
  \A w \in Worker : pc[w] # "idle" =>
    /\ floor[w] <= cleared[w[1]]
    /\ seenGen[w] <= gen[w[1]]
    /\ seenGen[w] = gen[w[1]] => floor[w] = cleared[w[1]]

(* A release read from the database is no older than the floor. *)
ReadIsFresh ==
  \A w \in Worker :
    pc[w] \in {"fill", "run"} => floor[w] <= point[w] /\ 1 <= point[w] /\ point[w] <= db

(* A cached release is a published one. *)
CachePublished ==
  \A r \in Replica : cache[r] # NoEntry => 1 <= cache[r].point

IInv ==
  /\ TypeOK
  /\ \A r \in Replica : cleared[r] <= db
  /\ CacheSurvivesNoClear
  /\ CachePublished
  /\ GenGuards
  /\ ReadIsFresh

USE TTLAssumption, FillBoundAssumption, NoEntryAssumption

-----------------------------------------------------------------------------
(* Facts about the pieces of the state. *)

LEMMA WorkerReplica == ASSUME NEW w \in Worker PROVE w[1] \in Replica
BY DEF Worker

LEMMA EntryFields ==
  ASSUME NEW e \in Entry \cup {NoEntry}, e # NoEntry
  PROVE  e \in Entry /\ e.point \in Nat /\ e.age \in Nat
BY DEF Entry

LEMMA WindowNat == Window \in Nat
BY DEF Window

-----------------------------------------------------------------------------
(* Type correctness. *)

LEMMA TypeInit == Init => TypeOK
BY WindowNat DEF Init, TypeOK, Entry

LEMMA TypeNext == TypeOK /\ [Next]_vars => TypeOK'
<1> SUFFICES ASSUME TypeOK, [Next]_vars PROVE TypeOK'
  OBVIOUS
<1> USE DEF TypeOK, Goto, ClearChainRootByKey, Leave, Handler, Message,
            dbVars, repVars, reqVars
<1>1. ASSUME NEW r \in Replica, Commit(r) PROVE TypeOK'
  BY <1>1 DEF Commit
<1>2. ASSUME NEW r \in Replica, Restart(r) PROVE TypeOK'
  BY <1>2 DEF Restart
<1>3. ASSUME NEW h \in handlers, SkipNotify(h) PROVE TypeOK'
  BY <1>3 DEF SkipNotify
<1>4. ASSUME NEW h \in handlers, NotifyRootChainChanged(h) PROVE TypeOK'
  BY <1>4 DEF NotifyRootChainChanged
<1>5. ASSUME NEW m \in msgs, Deliver(m) PROVE TypeOK'
  BY <1>5 DEF Deliver
<1>6. ASSUME NEW m \in msgs, Lose(m) PROVE TypeOK'
  BY <1>6 DEF Lose
<1>7. ASSUME NEW w \in Worker, Invoke(w) PROVE TypeOK'
  <2>0. w[1] \in Replica
    BY WorkerReplica
  <2>1. CASE ReadGen(w)
    BY <2>0, <2>1 DEF ReadGen
  <2>2. CASE Hit(w)
    BY <2>0, <2>2, EntryFields DEF Hit, Live
  <2>3. CASE Miss(w)
    BY <2>3 DEF Miss
  <2>4. CASE ReadCurrent(w)
    BY <2>4 DEF ReadCurrent
  <2>5. CASE ReadFails(w)
    BY <2>5 DEF ReadFails
  <2>6. CASE Fill(w)
    <3>1. [point |-> point[w], age |-> 0] \in Entry
      BY DEF Entry
    <3>2. cache' \in [Replica -> Entry \cup {NoEntry}]
      <4>1. CASE gen[w[1]] = seenGen[w]
        BY <2>0, <2>6, <3>1, <4>1 DEF Fill
      <4>2. CASE gen[w[1]] # seenGen[w]
        BY <2>6, <4>2 DEF Fill
      <4> QED BY <4>1, <4>2
    <3>3. pc' \in [Worker -> {"idle", "lookup", "miss", "fill", "run"}] /\ wait' \in [Worker -> Nat]
      BY <2>6 DEF Fill
    <3>4. UNCHANGED <<db, handlers, msgs, gen, cleared, seenGen, point, floor, past>>
      BY <2>6 DEF Fill
    <3> QED BY <3>2, <3>3, <3>4
  <2>7. CASE Return(w)
    BY <2>7 DEF Return
  <2> QED BY <1>7, <2>1, <2>2, <2>3, <2>4, <2>5, <2>6, <2>7 DEF Invoke
<1>8. CASE Tick
  <2>1. cache' \in [Replica -> Entry \cup {NoEntry}]
    BY <1>8, EntryFields DEF Tick, Entry, MinOf
  <2>2. wait' \in [Worker -> Nat]
    BY <1>8 DEF Tick
  <2>3. past' \in [0 .. Window -> Nat]
    BY <1>8, WindowNat DEF Tick
  <2> QED BY <1>8, <2>1, <2>2, <2>3 DEF Tick
<1>9. CASE UNCHANGED vars
  BY <1>9 DEF vars
<1> QED
  BY <1>1, <1>2, <1>3, <1>4, <1>5, <1>6, <1>7, <1>8, <1>9 DEF Next

(* Every variable always holds a value of its type, for any number of      *)
(* replicas, invocations and messages.                                     *)
THEOREM TypeCorrect == Spec => []TypeOK
BY TypeInit, TypeNext, PTL DEF Spec

-----------------------------------------------------------------------------
(* The inductive invariant. *)

LEMMA InductiveInit == Init => IInv
<1> SUFFICES ASSUME Init PROVE IInv
  OBVIOUS
<1>1. TypeOK
  BY TypeInit
<1> QED
  BY <1>1 DEF Init, IInv, CacheSurvivesNoClear, CachePublished, GenGuards, ReadIsFresh

(* A change of is_current makes everything older, nothing too new. *)
LEMMA CommitPreserves ==
  ASSUME IInv, TypeOK', NEW r \in Replica, Commit(r)
  PROVE  IInv'
BY DEF Commit, IInv, TypeOK, CacheSurvivesNoClear, CachePublished, GenGuards,
       ReadIsFresh, Entry, repVars, reqVars

(* A clear of one replica: its generation leaves every one seen before it. *)
LEMMA ClearPreserves ==
  ASSUME IInv, TypeOK', NEW r \in Replica, ClearChainRootByKey(r),
         UNCHANGED <<db, reqVars>>
  PROVE  IInv'
<1> USE DEF IInv, TypeOK, ClearChainRootByKey, reqVars
<1>1. \A q \in Replica : cleared'[q] <= db'
  OBVIOUS
<1>2. CacheSurvivesNoClear'
  BY DEF CacheSurvivesNoClear
<1>3. CachePublished'
  BY DEF CachePublished
<1>4. GenGuards'
  <2> SUFFICES ASSUME NEW w \in Worker, pc[w] # "idle"
               PROVE  /\ floor[w] <= cleared'[w[1]]
                      /\ seenGen[w] <= gen'[w[1]]
                      /\ seenGen[w] = gen'[w[1]] => floor[w] = cleared'[w[1]]
    BY DEF GenGuards
  <2>1. w[1] \in Replica
    BY WorkerReplica
  <2>2. floor[w] <= cleared[w[1]] /\ seenGen[w] <= gen[w[1]]
    BY DEF GenGuards
  <2>3. floor[w] \in Nat /\ seenGen[w] \in Nat /\ gen[w[1]] \in Nat /\ cleared[w[1]] \in Nat
    BY <2>1
  <2>4. CASE w[1] = r
    BY <2>1, <2>2, <2>3, <2>4
  <2>5. CASE w[1] # r
    BY <2>1, <2>2, <2>5 DEF GenGuards
  <2> QED BY <2>4, <2>5
<1>5. ReadIsFresh'
  BY DEF ReadIsFresh
<1> QED
  BY <1>1, <1>2, <1>3, <1>4, <1>5

(* The steps of one invocation. *)
LEMMA InvokePreserves ==
  ASSUME IInv, TypeOK', NEW w \in Worker, Invoke(w)
  PROVE  IInv'
<1> USE DEF IInv, TypeOK, Goto, dbVars, repVars
<1>0. w[1] \in Replica
  BY WorkerReplica
<1>1. CASE ReadGen(w)
  <2>1. GenGuards'
    BY <1>0, <1>1 DEF ReadGen, GenGuards
  <2>2. ReadIsFresh'
    BY <1>1 DEF ReadGen, ReadIsFresh
  <2> QED BY <1>1, <2>1, <2>2 DEF ReadGen, CacheSurvivesNoClear, CachePublished
<1>2. CASE Hit(w)
  <2>1. GenGuards'
    BY <1>2 DEF Hit, GenGuards
  <2>2. cache[w[1]] \in Entry /\ cache[w[1]].point \in Nat
    BY <1>0, <1>2, EntryFields DEF Hit, Live
  <2>3. /\ floor[w] <= cleared[w[1]] /\ cleared[w[1]] <= cache[w[1]].point
        /\ 1 <= cache[w[1]].point /\ cache[w[1]].point <= db
    BY <1>0, <1>2 DEF Hit, Live, GenGuards, CacheSurvivesNoClear, CachePublished
  <2>4. floor[w] <= cache[w[1]].point
    BY <1>0, <2>2, <2>3
  <2>5. ReadIsFresh'
    BY <1>2, <2>3, <2>4 DEF Hit, ReadIsFresh
  <2> QED BY <1>2, <2>1, <2>5 DEF Hit, CacheSurvivesNoClear, CachePublished
<1>3. CASE Miss(w)
  BY <1>3 DEF Miss, CacheSurvivesNoClear, CachePublished, GenGuards, ReadIsFresh
<1>4. CASE ReadCurrent(w)
  <2>1. floor[w] <= db /\ 1 <= db
    <3>1. floor[w] <= cleared[w[1]] /\ cleared[w[1]] <= db
      BY <1>0, <1>4 DEF ReadCurrent, GenGuards
    <3>2. floor[w] \in Nat /\ cleared[w[1]] \in Nat /\ db \in Nat
      BY <1>0
    <3> QED BY <1>4, <3>1, <3>2 DEF ReadCurrent
  <2>2. ReadIsFresh'
    BY <1>4, <2>1 DEF ReadCurrent, ReadIsFresh
  <2>3. GenGuards'
    BY <1>4 DEF ReadCurrent, GenGuards
  <2> QED BY <1>4, <2>2, <2>3 DEF ReadCurrent, CacheSurvivesNoClear, CachePublished
<1>5. CASE ReadFails(w) \/ Return(w)
  <2>1. Leave({w}) /\ UNCHANGED <<db, gen, cache, cleared>>
    BY <1>5 DEF ReadFails, Return
  <2>2. \A v \in Worker : pc'[v] # "idle" =>
          UNCHANGED <<pc[v], seenGen[v], point[v], floor[v]>>
    BY <2>1 DEF Leave
  <2>3. GenGuards' /\ ReadIsFresh'
    BY <2>1, <2>2 DEF GenGuards, ReadIsFresh
  <2> QED BY <2>1, <2>3 DEF CacheSurvivesNoClear, CachePublished
<1>6. CASE Fill(w)
  <2>1. GenGuards'
    BY <1>6 DEF Fill, GenGuards
  <2>2. ReadIsFresh'
    BY <1>6 DEF Fill, ReadIsFresh
  <2>3. CacheSurvivesNoClear' /\ CachePublished'
    <3>1. CASE gen[w[1]] = seenGen[w]
      <4>1. cleared[w[1]] <= point[w] /\ 1 <= point[w] /\ point[w] <= db
        BY <1>6, <3>1 DEF Fill, GenGuards, ReadIsFresh
      <4>2. cache' = [cache EXCEPT ![w[1]] = [point |-> point[w], age |-> 0]]
        BY <1>6, <3>1 DEF Fill
      <4>3. cache'[w[1]].point = point[w]
        BY <1>0, <4>2
      <4>4. \A r \in Replica : r # w[1] => cache'[r] = cache[r]
        BY <4>2
      <4>5. cleared' = cleared /\ db' = db
        BY <1>6 DEF Fill
      <4> QED BY <4>1, <4>3, <4>4, <4>5 DEF CacheSurvivesNoClear, CachePublished
    <3>2. CASE gen[w[1]] # seenGen[w]
      BY <1>6, <3>2 DEF Fill, CacheSurvivesNoClear, CachePublished
    <3> QED BY <3>1, <3>2
  <2>4. \A r \in Replica : cleared'[r] <= db'
    BY <1>6 DEF Fill
  <2> QED BY <2>1, <2>2, <2>3, <2>4
<1> QED
  BY <1>1, <1>2, <1>3, <1>4, <1>5, <1>6 DEF Invoke

(* Ageing keeps every entry's release. *)
LEMMA TickPreserves ==
  ASSUME IInv, TypeOK', Tick
  PROVE  IInv'
<1> USE DEF IInv, TypeOK, Tick, dbVars
<1>1. \A r \in Replica : cache'[r] # NoEntry =>
        cache[r] # NoEntry /\ cache'[r].point = cache[r].point
  OBVIOUS
<1>2. CacheSurvivesNoClear' /\ CachePublished'
  BY <1>1 DEF CacheSurvivesNoClear, CachePublished
<1>3. GenGuards' /\ ReadIsFresh'
  BY DEF GenGuards, ReadIsFresh
<1> QED
  BY <1>2, <1>3

(* A restarted replica holds nothing and runs nothing. *)
LEMMA RestartPreserves ==
  ASSUME IInv, TypeOK', NEW r \in Replica, Restart(r)
  PROVE  IInv'
<1> USE DEF IInv, TypeOK, Restart, Leave
<1>1. CacheSurvivesNoClear' /\ CachePublished'
  BY DEF CacheSurvivesNoClear, CachePublished
<1>2. ASSUME NEW w \in Worker, pc'[w] # "idle"
      PROVE  /\ w[1] # r /\ w[1] \in Replica
             /\ UNCHANGED <<pc[w], floor[w], seenGen[w], point[w]>>
             /\ UNCHANGED <<gen[w[1]], cleared>>
  BY <1>2, WorkerReplica
<1>3. GenGuards' /\ ReadIsFresh'
  BY <1>2 DEF GenGuards, ReadIsFresh
<1> QED
  BY <1>1, <1>3

LEMMA InductiveNext == IInv /\ [Next]_vars => IInv'
<1> SUFFICES ASSUME IInv, [Next]_vars PROVE IInv'
  OBVIOUS
<1>0. TypeOK'
  BY TypeNext DEF IInv
<1>1. ASSUME NEW r \in Replica, Commit(r) PROVE IInv'
  BY <1>0, <1>1, CommitPreserves
<1>2. ASSUME NEW r \in Replica, Restart(r) PROVE IInv'
  BY <1>0, <1>2, RestartPreserves
<1>3. ASSUME NEW h \in handlers, NotifyRootChainChanged(h) PROVE IInv'
  <2>1. h.by \in Replica
    BY DEF IInv, TypeOK, Handler
  <2> QED BY <1>0, <1>3, <2>1, ClearPreserves DEF NotifyRootChainChanged
<1>4. ASSUME NEW m \in msgs, Deliver(m) PROVE IInv'
  <2>1. m.to \in Replica
    BY DEF IInv, TypeOK, Message
  <2> QED BY <1>0, <1>4, <2>1, ClearPreserves DEF Deliver
<1>5. ASSUME NEW w \in Worker, Invoke(w) PROVE IInv'
  BY <1>0, <1>5, InvokePreserves
<1>6. CASE Tick
  BY <1>0, <1>6, TickPreserves
<1>7. ASSUME UNCHANGED <<db, repVars, reqVars>> PROVE IInv'
  BY <1>0, <1>7 DEF IInv, CacheSurvivesNoClear, CachePublished, GenGuards,
                    ReadIsFresh, repVars, reqVars
<1> QED
  BY <1>1, <1>2, <1>3, <1>4, <1>5, <1>6, <1>7
  DEF Next, SkipNotify, Lose, vars, dbVars

LEMMA Inductive == Spec => []IInv
BY InductiveInit, InductiveNext, PTL DEF Spec

(* An invocation of InvokeRootChain never runs a release older than the    *)
(* newest change its replica had been told of when it started, for any     *)
(* number of replicas, concurrent invocations, publishes and lost or late  *)
(* broadcasts.                                                             *)
THEOREM NothingOlderRuns == Spec => []RunsNothingOlder
<1>1. IInv => RunsNothingOlder
  BY DEF IInv, ReadIsFresh, RunsNothingOlder
<1> QED
  BY Inductive, <1>1, PTL

(* What a replica has cached covers its last clear: the generation check   *)
(* of the fill is enough, however slow the invocation that fills.          *)
THEOREM ClearsAreKept == Spec => []CacheSurvivesNoClear
<1>1. IInv => CacheSurvivesNoClear
  BY DEF IInv
<1> QED
  BY Inductive, <1>1, PTL

-----------------------------------------------------------------------------
(* How old a hit may be.  Times are told by ticks: past[i] is what was     *)
(* online before the (i+1)-th last one.                                    *)

(* What is online only gets newer. *)
PastOrdered ==
  /\ \A i \in 0 .. Window : past[i] <= db
  /\ \A i, j \in 0 .. Window : i <= j => past[j] <= past[i]

(* A release just read was online at the read, which was no more than the  *)
(* bound of a fill ago.                                                    *)
ReadTime ==
  \A w \in Worker : pc[w] = "fill" => wait[w] <= FillBound /\ past[wait[w]] <= point[w]

(* A live entry was read no longer before its fill than that bound. *)
EntryTime ==
  \A r \in Replica : Live(cache[r]) => past[FillBound + cache[r].age] <= cache[r].point

Timely == PastOrdered /\ ReadTime /\ EntryTime

LEMMA InWindow ==
  /\ FillBound \in 0 .. Window
  /\ \A a \in Nat : a < TTL => FillBound + a \in 0 .. Window
BY DEF Window

LEMMA TimelyInit == Init => Timely
<1> SUFFICES ASSUME Init PROVE Timely
  OBVIOUS
<1>1. PastOrdered
  BY DEF Init, PastOrdered
<1> QED BY <1>1 DEF Init, Timely, ReadTime, EntryTime, Live

(* Steps that leave time and all unfinished reads and entries alone, or    *)
(* give them up.                                                           *)
LEMMA TimelyKept ==
  ASSUME TypeOK, Timely, past' = past, db' \in Nat, db <= db',
         \A w \in Worker : pc'[w] = "fill" =>
           pc[w] = "fill" /\ point'[w] = point[w] /\ wait'[w] = wait[w],
         \A r \in Replica : cache'[r] \in {cache[r], NoEntry}
  PROVE  Timely'
<1>1. PastOrdered'
  BY WindowNat DEF Timely, PastOrdered, TypeOK
<1>2. ReadTime'
  BY DEF Timely, ReadTime
<1>3. EntryTime'
  BY DEF Timely, EntryTime, Live
<1> QED BY <1>1, <1>2, <1>3 DEF Timely

LEMMA InvokeTimely ==
  ASSUME TypeOK, Timely, NEW w \in Worker, Invoke(w)
  PROVE  Timely'
<1> USE DEF Goto, dbVars, repVars
<1>0. w[1] \in Replica
  BY WorkerReplica
<1>1. CASE ReadGen(w) \/ Hit(w) \/ Miss(w) \/ ReadFails(w) \/ Return(w)
  BY <1>1, TimelyKept DEF ReadGen, Hit, Miss, ReadFails, Return, Leave, TypeOK
<1>2. CASE ReadCurrent(w)
  <2>1. 0 \in 0 .. Window /\ past[0] <= db
    BY WindowNat DEF Timely, PastOrdered
  <2>2. ASSUME NEW v \in Worker, pc'[v] = "fill"
        PROVE  wait'[v] <= FillBound /\ past'[wait'[v]] <= point'[v]
    <3>1. CASE v = w
      BY <1>2, <2>1, <3>1 DEF ReadCurrent, TypeOK
    <3>2. CASE v # w
      BY <1>2, <2>2, <3>2 DEF ReadCurrent, TypeOK, Timely, ReadTime
    <3> QED BY <3>1, <3>2
  <2>3. ReadTime'
    BY <2>2 DEF ReadTime
  <2>4. PastOrdered' /\ EntryTime'
    BY <1>2 DEF ReadCurrent, Timely, PastOrdered, EntryTime
  <2> QED BY <2>3, <2>4 DEF Timely
<1>3. CASE Fill(w)
  <2>1. wait[w] \in 0 .. Window /\ wait[w] <= FillBound /\ past[wait[w]] <= point[w]
    BY <1>3, InWindow, WindowNat DEF Fill, Timely, ReadTime, TypeOK
  <2>2. past[FillBound] <= past[wait[w]]
    BY <2>1, InWindow DEF Timely, PastOrdered
  <2>3. past[FillBound] <= point[w]
    <3>1. past[FillBound] \in Nat /\ past[wait[w]] \in Nat /\ point[w] \in Nat
      BY <2>1, InWindow DEF TypeOK
    <3> QED BY <2>1, <2>2, <3>1
  <2>4. ReadTime' /\ PastOrdered'
    <3>1. past' = past /\ db' = db /\ point' = point
      BY <1>3 DEF Fill
    <3>2. \A v \in Worker : pc'[v] = "fill" => pc[v] = "fill" /\ wait'[v] = wait[v]
      BY <1>3 DEF Fill, TypeOK
    <3> QED BY <3>1, <3>2 DEF Timely, ReadTime, PastOrdered
  <2>5. ASSUME NEW r \in Replica, Live(cache'[r])
        PROVE  past[FillBound + cache'[r].age] <= cache'[r].point
    <3>1. CASE r = w[1] /\ gen[w[1]] = seenGen[w]
      <4>1. cache'[r] = [point |-> point[w], age |-> 0]
        BY <1>0, <1>3, <3>1 DEF Fill, TypeOK
      <4>2. cache'[r].point = point[w] /\ cache'[r].age = 0 /\ FillBound + 0 = FillBound
        BY <4>1
      <4> QED BY <2>3, <4>2
    <3>2. CASE ~ (r = w[1] /\ gen[w[1]] = seenGen[w])
      <4>1. cache'[r] = cache[r]
        BY <1>3, <3>2 DEF Fill, TypeOK
      <4> QED BY <2>5, <4>1 DEF Timely, EntryTime
    <3> QED BY <3>1, <3>2
  <2>6. EntryTime'
    BY <1>3, <2>5 DEF EntryTime, Fill
  <2> QED BY <2>4, <2>6 DEF Timely
<1> QED BY <1>1, <1>2, <1>3 DEF Invoke

(* A tick makes everything older by one, and waits for the fills due. *)
LEMMA TickTimely ==
  ASSUME TypeOK, Timely, Tick
  PROVE  Timely'
<1>1. \A i \in 0 .. Window : past'[i] = IF i = 0 THEN db ELSE past[i - 1]
  BY DEF Tick
<1>2. PastOrdered'
  <2>1. \A i \in 0 .. Window : i # 0 => i - 1 \in 0 .. Window
    BY WindowNat
  <2>2. \A i \in 0 .. Window : past'[i] <= db
    <3>1. db <= db
      BY DEF TypeOK
    <3>2. \A i \in 0 .. Window : past[i] <= db
      BY DEF Timely, PastOrdered
    <3> QED BY <1>1, <2>1, <3>1, <3>2
  <2>3. \A i, j \in 0 .. Window : i <= j => past'[j] <= past'[i]
    <3>1. SUFFICES ASSUME NEW i \in 0 .. Window, NEW j \in 0 .. Window, i <= j
                   PROVE  past'[j] <= past'[i]
      OBVIOUS
    <3>2. CASE i = 0
      BY <1>1, <2>2, <3>2
    <3>3. CASE i # 0
      BY <1>1, <2>1, <3>1, <3>3 DEF Timely, PastOrdered
    <3> QED BY <3>2, <3>3
  <2> QED BY <2>2, <2>3 DEF PastOrdered, Tick, dbVars
<1>3. ASSUME NEW w \in Worker, pc'[w] = "fill"
      PROVE  wait'[w] <= FillBound /\ past'[wait'[w]] <= point'[w]
  <2>1. pc[w] = "fill" /\ point'[w] = point[w] /\ wait[w] < FillBound /\ wait'[w] = wait[w] + 1
    BY <1>3 DEF Tick
  <2>2. wait[w] \in Nat /\ past[wait[w]] <= point[w]
    BY <2>1 DEF Timely, ReadTime, TypeOK
  <2>3. wait'[w] \in 0 .. Window /\ wait'[w] # 0 /\ wait'[w] - 1 = wait[w]
    BY <2>1, <2>2, InWindow, WindowNat
  <2>4. past'[wait'[w]] = past[wait[w]]
    <3>1. past'[wait'[w]] = past[wait'[w] - 1]
      BY <1>1, <2>3
    <3> QED BY <2>3, <3>1
  <2>5. past'[wait'[w]] <= point'[w]
    <3>1. point'[w] = point[w] /\ past[wait[w]] <= point[w]
      BY <2>1, <2>2
    <3> QED BY <2>4, <3>1
  <2>6. wait'[w] <= FillBound
    BY <2>1, <2>2
  <2> QED BY <2>5, <2>6
<1>4. ASSUME NEW r \in Replica, Live(cache'[r])
      PROVE  past'[FillBound + cache'[r].age] <= cache'[r].point
  <2>1. cache[r] # NoEntry
    BY <1>4 DEF Tick, Live
  <2>2. cache'[r] = [point |-> cache[r].point, age |-> MinOf(cache[r].age + 1, TTL)]
    BY <2>1 DEF Tick
  <2>3. cache[r].age \in Nat /\ cache[r].point \in Nat
    BY <2>1, EntryFields DEF TypeOK
  <2>4. cache'[r].point = cache[r].point /\ cache'[r].age = cache[r].age + 1
        /\ cache[r].age + 1 < TTL
    BY <1>4, <2>2, <2>3 DEF Live, MinOf
  <2>5. past[FillBound + cache[r].age] <= cache[r].point
    BY <2>1, <2>3, <2>4 DEF Timely, EntryTime, Live
  <2> DEFINE i == FillBound + (cache[r].age + 1)
  <2>6. i \in 0 .. Window /\ i # 0 /\ i - 1 = FillBound + cache[r].age
    BY <2>3, <2>4, InWindow
  <2>7. past'[i] = past[FillBound + cache[r].age]
    BY <1>1, <2>6
  <2> QED BY <2>4, <2>5, <2>7
<1>5. ReadTime' /\ EntryTime'
  BY <1>3, <1>4 DEF ReadTime, EntryTime
<1> QED BY <1>2, <1>5 DEF Timely

LEMMA TimelyNext == TypeOK /\ Timely /\ [Next]_vars => Timely'
<1> SUFFICES ASSUME TypeOK, Timely, [Next]_vars PROVE Timely'
  OBVIOUS
<1>1. ASSUME NEW r \in Replica, Commit(r) PROVE Timely'
  BY <1>1, TimelyKept DEF Commit, repVars, reqVars, TypeOK
<1>2. ASSUME NEW r \in Replica, Restart(r) PROVE Timely'
  BY <1>2, TimelyKept DEF Restart, Leave, TypeOK
<1>3. ASSUME NEW r \in Replica, ClearChainRootByKey(r), UNCHANGED <<db, reqVars, past>>
      PROVE  Timely'
  BY <1>3, TimelyKept DEF ClearChainRootByKey, reqVars, TypeOK
<1>4. ASSUME NEW h \in handlers, NotifyRootChainChanged(h) PROVE Timely'
  <2>1. h.by \in Replica
    BY DEF TypeOK, Handler
  <2> QED BY <1>3, <1>4, <2>1 DEF NotifyRootChainChanged
<1>5. ASSUME NEW m \in msgs, Deliver(m) PROVE Timely'
  <2>1. m.to \in Replica
    BY DEF TypeOK, Message
  <2> QED BY <1>3, <1>5, <2>1 DEF Deliver
<1>6. ASSUME UNCHANGED <<db, repVars, reqVars, past>> PROVE Timely'
  BY <1>6, TimelyKept DEF repVars, reqVars, TypeOK
<1>7. ASSUME NEW w \in Worker, Invoke(w) PROVE Timely'
  BY <1>7, InvokeTimely
<1> QED
  BY <1>1, <1>2, <1>4, <1>5, <1>6, <1>7, TickTimely
  DEF Next, SkipNotify, Lose, vars, dbVars

(* Only a hit goes from the lookup to the run. *)
LEMMA HitsAreTimely ==
  ASSUME TypeOK, Timely, Next, NEW w \in Worker, pc[w] = "lookup", pc'[w] = "run"
  PROVE  past[Window] <= point'[w]
<1>1. Hit(w)
  <2>1. ASSUME NEW v \in Worker, Invoke(v), v # w PROVE FALSE
    BY <2>1 DEF Invoke, ReadGen, Hit, Miss, ReadCurrent, ReadFails, Fill, Return, Goto, Leave, TypeOK
  <2>2. ASSUME Invoke(w) PROVE Hit(w)
    BY <2>2 DEF Invoke, ReadGen, Miss, ReadCurrent, ReadFails, Fill, Return, Goto, Leave, TypeOK
  <2>3. \E v \in Worker : Invoke(v)
    BY DEF Next, Commit, Restart, SkipNotify, NotifyRootChainChanged, Deliver, Lose, Tick,
       reqVars, Leave
  <2> QED BY <2>1, <2>2, <2>3
<1>2. w[1] \in Replica /\ Live(cache[w[1]]) /\ point'[w] = cache[w[1]].point
  BY <1>1, WorkerReplica DEF Hit, TypeOK
<1>3. cache[w[1]].age \in Nat /\ cache[w[1]].point \in Nat /\ cache[w[1]].age < TTL
  BY <1>2, EntryFields DEF Live, TypeOK
<1>4. past[FillBound + cache[w[1]].age] <= cache[w[1]].point
  BY <1>2 DEF Timely, EntryTime
<1> DEFINE i == FillBound + cache[w[1]].age
<1>5. i \in 0 .. Window /\ Window \in 0 .. Window /\ i <= Window
  BY <1>3, InWindow, WindowNat
<1>6. past[Window] <= past[i] /\ past[i] \in Nat /\ past[Window] \in Nat
  BY <1>5 DEF Timely, PastOrdered, TypeOK
<1> QED BY <1>2, <1>3, <1>4, <1>6

(* A hit serves what was online at some moment of the TTL and the longest  *)
(* fill before it, for any TTL, whatever broadcasts are lost.              *)
THEOREM HitsAreRecent == Spec => ServedWithinTTL
<1>1. TypeOK /\ Timely /\ [Next]_vars =>
        [\A w \in Worker : pc[w] = "lookup" /\ pc'[w] = "run" => past[Window] <= point'[w]]_vars
  BY HitsAreTimely
<1>2. Spec => []Timely
  BY TypeCorrect, TimelyInit, TimelyNext, PTL DEF Spec
<1> QED
  BY <1>1, <1>2, TypeCorrect, PTL DEF Spec, ServedWithinTTL

-----------------------------------------------------------------------------
(* The refinement of FreshReads. *)

LEMMA PromiseInit == Init => Promise!Init
BY DEF Init, Promise!Init, Promise!Worker, Worker

(* The abstract state of an invocation. *)
Status == [w \in Worker |-> IF pc[w] \in {"idle", "run"} THEN pc[w] ELSE "pending"]
Point  == [w \in Worker |-> IF pc[w] = "run" THEN point[w] ELSE 0]

(* A clear tells its replica of every change committed so far. *)
LEMMA ClearRefines ==
  ASSUME NEW r \in Replica, ClearChainRootByKey(r), UNCHANGED <<db, reqVars>>
  PROVE  Promise!Invalidate(r)
BY DEF ClearChainRootByKey, Promise!Invalidate, reqVars

(* However invocations end, their workers are idle again. *)
LEMMA LeaveRefines ==
  ASSUME NEW W \in SUBSET Worker, Leave(W), UNCHANGED <<db, cleared>>
  PROVE  Promise!End(W)
<1>1. Worker = Promise!Worker
  BY DEF Worker, Promise!Worker
<1> QED
  BY <1>1 DEF Leave, Promise!End

(* An invocation starts, settles on a release no older than its floor by a *)
(* hit or a fill, ends, or takes a step of its own.                        *)
LEMMA InvokeRefines ==
  ASSUME IInv, NEW w \in Worker, Invoke(w)
  PROVE  [Promise!Next]_(Promise!vars)
<1> USE DEF IInv, TypeOK, Goto, dbVars, repVars, Promise!vars
<1>0. Worker = Promise!Worker /\ w[1] \in Replica
  BY WorkerReplica DEF Worker, Promise!Worker
<1>1. CASE ReadGen(w)
  <2>1. /\ Status[w] = "idle"
        /\ Status' = [Status EXCEPT ![w] = "pending"]
        /\ Point' = [Point EXCEPT ![w] = 0]
        /\ floor' = [floor EXCEPT ![w] = cleared[w[1]]]
        /\ UNCHANGED <<db, cleared>>
    BY <1>1 DEF ReadGen, Status, Point
  <2> QED BY <1>0, <2>1 DEF Promise!Next, Promise!Start, Status, Point
<1>2. ASSUME NEW n \in 1 .. db, floor[w] <= n, pc[w] \in {"lookup", "fill"},
             pc' = [pc EXCEPT ![w] = "run"], point' = [point EXCEPT ![w] = n],
             UNCHANGED <<db, cleared, floor>>
      PROVE  Promise!Next
  <2>1. /\ Status[w] = "pending"
        /\ Status' = [Status EXCEPT ![w] = "run"]
        /\ Point' = [Point EXCEPT ![w] = n]
    BY <1>2 DEF Status, Point
  <2>2. Promise!Choose(w)
    BY <1>2, <2>1 DEF Promise!Choose, Status, Point
  <2> QED BY <1>0, <2>2 DEF Promise!Next
<1>3. CASE Hit(w)
  <2>1. cache[w[1]] \in Entry /\ cache[w[1]].point \in Nat
    BY <1>0, <1>3, EntryFields DEF Hit, Live
  <2>2. /\ floor[w] <= cleared[w[1]] /\ cleared[w[1]] <= cache[w[1]].point
        /\ 1 <= cache[w[1]].point /\ cache[w[1]].point <= db
    BY <1>0, <1>3 DEF Hit, Live, GenGuards, CacheSurvivesNoClear, CachePublished
  <2>3. floor[w] <= cache[w[1]].point
    BY <1>0, <2>1, <2>2
  <2>4. cache[w[1]].point \in 1 .. db
    BY <2>1, <2>2
  <2>5. /\ pc[w] = "lookup" /\ pc' = [pc EXCEPT ![w] = "run"]
        /\ point' = [point EXCEPT ![w] = cache[w[1]].point]
        /\ UNCHANGED <<db, cleared, floor>>
    BY <1>3 DEF Hit
  <2> QED BY <1>2, <2>3, <2>4, <2>5
<1>4. CASE Miss(w) \/ ReadCurrent(w)
  <2>1. Status' = Status /\ Point' = Point /\ UNCHANGED <<db, cleared, floor>>
    BY <1>4 DEF Miss, ReadCurrent, Status, Point
  <2> QED BY <2>1 DEF Status, Point
<1>5. CASE Fill(w)
  <2>1. point[w] \in 1 .. db /\ floor[w] <= point[w] /\ pc[w] = "fill"
    BY <1>5 DEF Fill, ReadIsFresh
  <2>2. point' = [point EXCEPT ![w] = point[w]]
    BY <1>5 DEF Fill
  <2>3. pc' = [pc EXCEPT ![w] = "run"] /\ UNCHANGED <<db, cleared, floor>>
    BY <1>5 DEF Fill
  <2> QED BY <1>2, <2>1, <2>2, <2>3
<1>6. CASE ReadFails(w) \/ Return(w)
  <2>1. Promise!End({w})
    BY <1>6, LeaveRefines DEF ReadFails, Return
  <2> QED BY <1>0, <2>1 DEF Promise!Next
<1> QED
  BY <1>1, <1>3, <1>4, <1>5, <1>6 DEF Invoke

LEMMA NextRefines == IInv /\ [Next]_vars => [Promise!Next]_(Promise!vars)
<1> SUFFICES ASSUME IInv, [Next]_vars PROVE [Promise!Next]_(Promise!vars)
  OBVIOUS
<1>0. Worker = Promise!Worker
  BY DEF Worker, Promise!Worker
<1>1. ASSUME NEW r \in Replica, Commit(r) PROVE Promise!Change
  BY <1>1 DEF Commit, Promise!Change, repVars, reqVars
<1>2. ASSUME NEW r \in Replica, Restart(r) PROVE Promise!Next
  <2>1. Promise!End({w \in Worker : w[1] = r})
    BY <1>2, LeaveRefines DEF Restart
  <2> QED BY <1>0, <2>1 DEF Promise!Next
<1>3. ASSUME NEW h \in handlers, NotifyRootChainChanged(h) PROVE Promise!Next
  <2>1. h.by \in Replica
    BY DEF IInv, TypeOK, Handler
  <2>2. Promise!Invalidate(h.by)
    BY <1>3, <2>1, ClearRefines DEF NotifyRootChainChanged
  <2> QED BY <2>1, <2>2 DEF Promise!Next
<1>4. ASSUME NEW m \in msgs, Deliver(m) PROVE Promise!Next
  <2>1. m.to \in Replica
    BY DEF IInv, TypeOK, Message
  <2>2. Promise!Invalidate(m.to)
    BY <1>4, <2>1, ClearRefines DEF Deliver
  <2> QED BY <2>1, <2>2 DEF Promise!Next
<1>5. ASSUME NEW w \in Worker, Invoke(w) PROVE [Promise!Next]_(Promise!vars)
  BY <1>5, InvokeRefines
<1>6. ASSUME UNCHANGED <<db, cleared, pc, point, floor>> PROVE UNCHANGED Promise!vars
  BY <1>6 DEF Promise!vars
<1> QED
  BY <1>1, <1>2, <1>3, <1>4, <1>5, <1>6
  DEF Next, SkipNotify, Lose, Tick, vars, dbVars, repVars, reqVars, Promise!Next

(* The cache, its generation numbers, its TTL and its broadcasts implement *)
(* FreshReads: with them, an invocation settles on a published release no  *)
(* older than the last change its replica was told of before it started.   *)
THEOREM Implements == Spec => ImplementsFreshReads
BY Inductive, PromiseInit, NextRefines, PTL
   DEF Spec, ImplementsFreshReads, Promise!Spec

=============================================================================
