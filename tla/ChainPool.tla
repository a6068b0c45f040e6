------------------------------ MODULE ChainPool -----------------------------
(***************************************************************************)
(* The pool of engine instances of one root chain on one replica, and the  *)
(* policy that evicts the instances of versions no longer online           *)
(* (trackPoolVersion, sweepChainPool, chainPoolJanitor).                   *)
(*                                                                         *)
(* An invocation resolves its release as FreshReads promises, registers    *)
(* the version in the chain's entry, sweeps the entry, and only then takes *)
(* its engine from the pool or builds it.  The janitor sweeps too.  A      *)
(* sweep works in steps: the entry is locked for each, and free between    *)
(* them.                                                                   *)
(*                                                                         *)
(* Versions are ordered by PublishedAt, which is fixed when a version is   *)
(* created: the order of their numbers.                                    *)
(***************************************************************************)
EXTENDS Naturals, Sequences, FiniteSets

CONSTANTS
  Worker,       \* invocations that run at the same time
  Janitor,      \* the goroutine of chainPoolJanitor
  MaxVersions,  \* root_chain_pool_max_versions, 0 for no limit
  TTL,          \* root_chain_pool_ttl_minutes in clock ticks, 0 for none
  LastVersion,  \* bound: versions published
  MaxChanges,   \* bound: changes of the online version
  NoWait        \* the zero time of waitStart

ASSUME JanitorAssumption == Janitor \notin Worker
ASSUME PolicyAssumption == MaxVersions \in Nat /\ TTL \in Nat
ASSUME BoundsAssumption == LastVersion \in Nat /\ MaxChanges \in Nat
ASSUME NoWaitAssumption == NoWait \notin Nat

Version == 1 .. LastVersion

Proc == Worker \cup {Janitor}

Unknown == 0   \* currentUnknown

VARIABLES
  online,    \* the versions put online so far, in order; the last one is
  cleared,   \* how many of these changes ClearChainRootByKey has followed
  marking,   \* clears that have yet to mark the entry
  current,   \* chainPoolEntry.current
  versions,  \* chainPoolEntry.versions
  wait,      \* ticks since chainPoolEntry.waitStart
  pool,      \* versions with an instance in the engine pool
  pc,        \* where each invocation and the janitor are
  version,   \* the version an invocation runs
  victim     \* the version a sweep is dropping

dbVars    == <<online, cleared, marking>>
entryVars == <<current, versions, wait>>
procVars  == <<pc, version, victim>>
vars == <<dbVars, entryVars, pool, procVars>>

Init ==
  /\ online = <<>>
  /\ cleared = 0
  /\ marking = 0
  /\ current = Unknown
  /\ versions = {}
  /\ wait = NoWait
  /\ pool = {}
  /\ pc = [p \in Proc |-> "idle"]
  /\ version = [w \in Worker |-> 0]
  /\ victim = [p \in Proc |-> 0]

-----------------------------------------------------------------------------
(* Changes of the online version. *)

Published == {online[i] : i \in 1 .. Len(online)}

(* A publish puts the next version online, a rollback an old one. *)
Change(v) ==
  /\ Len(online) < MaxChanges
  /\ v \in Published \/ v = Cardinality(Published) + 1
  /\ online' = Append(online, v)
  /\ UNCHANGED <<cleared, marking, entryVars, pool, procVars>>

(* Mutant: counts a change that is not there. *)
ClearAhead ==
  /\ cleared < Len(online)
  /\ cleared' = Len(online) + 1
  /\ marking' = marking + 1
  /\ UNCHANGED <<online, entryVars, pool, procVars>>

(* ClearChainRootByKey: the cache under its lock, then the entry under its *)
(* own.                                                                    *)
Clear ==
  /\ cleared < Len(online)
  /\ cleared' = Len(online)
  /\ marking' = marking + 1
  /\ UNCHANGED <<online, entryVars, pool, procVars>>

markChainPoolCurrentUnknown ==
  /\ marking > 0
  /\ marking' = marking - 1
  /\ current' = Unknown
  /\ wait' = NoWait
  /\ UNCHANGED <<online, cleared, versions, pool, procVars>>

-----------------------------------------------------------------------------
(* An invocation, up to its sweep and after it. *)

Goto(p, label) == pc' = [pc EXCEPT ![p] = label]

(* FreshReads: no release older than the last clear. *)
Resolve(w) ==
  /\ pc[w] = "idle"
  /\ \E i \in 1 .. Len(online) :
       /\ cleared <= i
       /\ version' = [version EXCEPT ![w] = online[i]]
  /\ Goto(w, "track")
  /\ UNCHANGED <<dbVars, entryVars, pool, victim>>

(* The version resolved is taken for the one online. *)
trackPoolVersion(w) ==
  /\ pc[w] = "track"
  /\ current' = version[w]
  /\ versions' = versions \cup {version[w]}
  /\ Goto(w, "check")
  /\ UNCHANGED <<dbVars, wait, pool, version, victim>>

(* StartWorkFlow: the instance in the pool, or a new one. *)
StartWorkFlow(w) ==
  /\ pc[w] = "start"
  /\ pool' = pool \cup {version[w]}
  /\ Goto(w, "run")
  /\ UNCHANGED <<dbVars, entryVars, version, victim>>

Return(w) ==
  /\ pc[w] = "run"
  /\ Goto(w, "idle")
  /\ version' = [version EXCEPT ![w] = 0]
  /\ UNCHANGED <<dbVars, entryVars, pool, victim>>

-----------------------------------------------------------------------------
(* sweepChainPool, by an invocation or by the janitor. *)

EndSweep(p) == Goto(p, IF p = Janitor THEN "idle" ELSE "start")

Wake ==
  /\ pc[Janitor] = "idle"
  /\ Goto(Janitor, "check")
  /\ UNCHANGED <<dbVars, entryVars, pool, version, victim>>

(* Under the lock: leave the entry alone while its current is unknown. *)
CheckKnown(p) ==
  /\ pc[p] = "check"
  /\ IF current = Unknown THEN EndSweep(p) ELSE Goto(p, "scan")
  /\ UNCHANGED <<dbVars, entryVars, pool, version, victim>>

(* What may be kept besides the online version. *)
Retain == IF MaxVersions > 0 THEN MaxVersions - 1 ELSE 0

(* Mutant: the current version is no exception. *)
CandidatesOfAll ==
  {v \in versions : Cardinality({u \in versions : v < u}) >= Retain}

(* candidatesLocked: all but the current version and the Retain newest. *)
Candidates ==
  LET spare == versions \ {current}
  IN  {v \in spare : Cardinality({u \in spare : v < u}) >= Retain}

(* Mutant: sorted the other way round. *)
Newest == CHOOSE v \in Candidates : \A u \in Candidates : u <= v

Oldest == CHOOSE v \in Candidates : \A u \in Candidates : v <= u

(* The wait of the head; it starts with the first sweep that finds one. *)
Waited == IF wait = NoWait THEN 0 ELSE wait

ScanFindsNone(p) ==
  /\ pc[p] = "scan"
  /\ Candidates = {}
  /\ wait' = NoWait
  /\ EndSweep(p)
  /\ UNCHANGED <<dbVars, current, versions, pool, version, victim>>

(* Mutant: the wait of the head never starts. *)
ScanWaitsUnstarted(p) ==
  /\ pc[p] = "scan"
  /\ Candidates # {}
  /\ Waited < TTL
  /\ EndSweep(p)
  /\ UNCHANGED <<dbVars, entryVars, pool, version, victim>>

ScanWaits(p) ==
  /\ pc[p] = "scan"
  /\ Candidates # {}
  /\ Waited < TTL
  /\ wait' = Waited
  /\ EndSweep(p)
  /\ UNCHANGED <<dbVars, current, versions, pool, version, victim>>

(* The head leaves the entry; its instance is still in the pool. *)
Evict(p) ==
  /\ pc[p] = "scan"
  /\ Candidates # {}
  /\ Waited >= TTL
  /\ wait' = Waited
  /\ versions' = versions \ {Oldest}
  /\ victim' = [victim EXCEPT ![p] = Oldest]
  /\ Goto(p, "drop")
  /\ UNCHANGED <<dbVars, current, pool, version>>

(* stopAndDropVersion: wait for the flows of the instance for as long as   *)
(* the grace allows, then delete it from the pool.                         *)
stopAndDropVersion(p) ==
  /\ pc[p] = "drop"
  /\ pool' = pool \ {victim[p]}
  /\ victim' = [victim EXCEPT ![p] = 0]
  /\ Goto(p, "restart")
  /\ UNCHANGED <<dbVars, entryVars, version>>

(* The next head waits from now on; with no TTL it is due at once. *)
RestartWait(p) ==
  /\ pc[p] = "restart"
  /\ wait' = 0
  /\ IF TTL > 0 THEN EndSweep(p) ELSE Goto(p, "scan")
  /\ UNCHANGED <<dbVars, current, versions, pool, version, victim>>

AtMostTTL(n) == IF n < TTL THEN n ELSE TTL

Tick ==
  /\ wait' = IF wait = NoWait THEN NoWait ELSE AtMostTTL(wait + 1)
  /\ UNCHANGED <<dbVars, current, versions, pool, procVars>>

-----------------------------------------------------------------------------
Sweep(p) ==
  \/ CheckKnown(p)
  \/ ScanFindsNone(p) \/ ScanWaits(p) \/ Evict(p)
  \/ stopAndDropVersion(p) \/ RestartWait(p)

Next ==
  \/ \E v \in Version : Change(v)
  \/ Clear \/ markChainPoolCurrentUnknown
  \/ \E w \in Worker :
       Resolve(w) \/ trackPoolVersion(w) \/ StartWorkFlow(w) \/ Return(w)
  \/ Wake
  \/ \E p \in Proc : Sweep(p)
  \/ Tick

Spec == Init /\ [][Next]_vars

(***************************************************************************)
(* An invocation that has begun goes on, the janitor's ticker ticks and    *)
(* the clock advances.  No invocation, publish or clear need ever happen.  *)
(***************************************************************************)
Fairness ==
  /\ WF_vars(Tick)
  /\ WF_vars(Wake)
  /\ \A p \in Proc : WF_vars(Sweep(p))
  /\ \A w \in Worker :
       WF_vars(trackPoolVersion(w) \/ StartWorkFlow(w) \/ Return(w))

FairSpec == Spec /\ Fairness

-----------------------------------------------------------------------------
(* Every variable holds a value of its type. *)
TypeOK ==
  /\ online \in Seq(Version)
  /\ cleared \in 0 .. Len(online)
  /\ marking \in Nat
  /\ current \in Version \cup {Unknown}
  /\ versions \subseteq Version
  /\ wait \in (0 .. TTL) \cup {NoWait}
  /\ pool \subseteq Version
  /\ pc \in [Proc -> {"idle", "track", "check", "scan", "drop", "restart", "start", "run"}]
  /\ version \in [Worker -> 0 .. LastVersion]
  /\ victim \in [Proc -> 0 .. LastVersion]

(* The version the entry takes for the online one is registered: no sweep, *)
(* of however many that run at once, removes it in between.                *)
CurrentRegistered == current # Unknown => current \in versions

(* While the entry knows its current version, a sweep leaves it at least   *)
(* as many versions as the policy keeps, and removes the oldest of those   *)
(* that are not current: a rollback to a recent version finds its engine.  *)
EvictsOldestSpare ==
  [][\A v \in versions \ versions' : current # Unknown =>
       /\ Cardinality(versions') >= MaxVersions
       /\ current \in versions'
       /\ \A u \in versions' \ {current} : v < u]_vars

Limit == IF MaxVersions > 0 THEN MaxVersions ELSE 1

(* Once releases stop changing, this replica has been told, and it has     *)
(* resolved the chain since, the entry ends at the size the policy sets.   *)
Drains ==
  <>[](cleared = Len(online) /\ current # Unknown)
    => <>[](Cardinality(versions) <= Limit)

Online == IF online = <<>> THEN 0 ELSE online[Len(online)]

(* While the entry knows its current version, and every change made has    *)
(* reached it, no sweep removes the version that is online.                *)
OnlineKept ==
  [][current # Unknown /\ cleared = Len(online) /\ marking = 0
       => \A v \in versions \ versions' : v # Online]_vars
=============================================================================
