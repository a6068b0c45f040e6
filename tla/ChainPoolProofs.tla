--------------------------- MODULE ChainPoolProofs --------------------------
(***************************************************************************)
(* ChainPool for every policy and any number of invocations and changes:   *)
(* its types, that the version the entry takes for the online one stays    *)
(* registered, and that a sweep never removes more, nor anything newer,    *)
(* than the policy says.                                                   *)
(*                                                                         *)
(* CurrentRegistered is inductive with the types: the candidates are       *)
(* computed and the oldest removed under one lock.  EvictsOldestSpare      *)
(* follows from it and from counting: the oldest candidate has Retain      *)
(* newer versions that are not current, and nothing older is a candidate.  *)
(***************************************************************************)
EXTENDS ChainPool, FiniteSetTheorems, WellFoundedInduction, TLAPS

USE JanitorAssumption, PolicyAssumption, BoundsAssumption, NoWaitAssumption

(* An invocation that has begun has resolved a version. *)
Resolved == \A w \in Worker : pc[w] # "idle" => version[w] \in Version

IInv == TypeOK /\ Resolved /\ CurrentRegistered

-----------------------------------------------------------------------------
(* The candidates. *)

(* A set of versions is finite, and a larger one has at least as many.     *)
LEMMA VersionsFinite ==
  ASSUME NEW S \in SUBSET Version
  PROVE  IsFiniteSet(S) /\ Cardinality(S) \in Nat
<1>1. IsFiniteSet(Version)
  BY FS_Interval DEF Version
<1>2. IsFiniteSet(S)
  BY <1>1, FS_Subset
<1> QED
  BY <1>2, FS_CardinalityType

LEMMA MoreVersions ==
  ASSUME NEW S \in SUBSET Version, NEW T \in SUBSET S
  PROVE  Cardinality(T) <= Cardinality(S)
BY VersionsFinite, FS_Subset

LEMMA RetainNat == Retain \in Nat
BY DEF Retain

LEMMA CandidatesSpare ==
  ASSUME TypeOK
  PROVE  Candidates \subseteq versions \ {current} /\ Candidates \subseteq Version
BY DEF Candidates, TypeOK

(* The sweep removes the oldest candidate. *)
LEMMA OldestIsCandidate ==
  ASSUME TypeOK, Candidates # {}
  PROVE  Oldest \in Candidates /\ \A u \in Candidates : Oldest <= u
<1>1. Candidates \subseteq Nat
  BY CandidatesSpare DEF Version
<1>2. PICK x \in Candidates : \A y \in Candidates : ~ (<<y, x>> \in OpToRel(<, Nat))
  BY <1>1, NatLessThanWellFounded, WFMin
<1>3. ASSUME NEW y \in Candidates PROVE x <= y
  <2>1. x \in Nat /\ y \in Nat
    BY <1>1
  <2>2. ~ (y < x)
    BY <1>2, <2>1 DEF OpToRel
  <2> QED BY <2>1, <2>2
<1> QED
  BY <1>3 DEF Oldest

-----------------------------------------------------------------------------
(* The invariant. *)

LEMMA InductiveInit == Init => IInv
<1> SUFFICES ASSUME Init PROVE IInv
  OBVIOUS
<1>1. online \in Seq(Version) /\ cleared \in 0 .. Len(online)
  BY DEF Init
<1>2. version \in [Worker -> 0 .. LastVersion] /\ victim \in [Proc -> 0 .. LastVersion]
  BY DEF Init
<1> QED
  BY <1>1, <1>2 DEF Init, IInv, TypeOK, Resolved, CurrentRegistered, Unknown, Proc

LEMMA EvictPreserves ==
  ASSUME IInv, NEW p \in Proc, Evict(p)
  PROVE  IInv'
<1>1. Oldest \in versions \ {current} /\ Oldest \in Version
  BY OldestIsCandidate, CandidatesSpare DEF IInv, Evict
<1>2. wait' \in (0 .. TTL) \cup {NoWait}
  BY DEF Evict, IInv, TypeOK, Waited
<1>3. CurrentRegistered'
  BY <1>1 DEF Evict, IInv, CurrentRegistered
<1>4. TypeOK'
  BY <1>1, <1>2 DEF Evict, IInv, TypeOK, Goto, Version, dbVars
<1>5. Resolved'
  BY DEF Evict, IInv, TypeOK, Resolved, Goto
<1> QED
  BY <1>3, <1>4, <1>5 DEF IInv

(* A sweep goes on to its next step. *)
LEMMA GotoPreserves ==
  ASSUME IInv, NEW p \in Proc, pc[p] # "idle", UNCHANGED version,
         NEW label \in {"scan", "drop", "restart"}, Goto(p, label)
  PROVE  /\ pc' \in [Proc -> {"idle", "track", "check", "scan", "drop",
                             "restart", "start", "run"}]
         /\ Resolved'
BY DEF Goto, IInv, TypeOK, Resolved

(* A sweep is over: the janitor rests, an invocation goes on. *)
LEMMA EndSweepPreserves ==
  ASSUME IInv, NEW p \in Proc, pc[p] # "idle", EndSweep(p), UNCHANGED version
  PROVE  /\ pc' \in [Proc -> {"idle", "track", "check", "scan", "drop",
                             "restart", "start", "run"}]
         /\ Resolved'
<1>1. p = Janitor \/ p \in Worker
  BY DEF Proc
<1> QED
  BY <1>1 DEF EndSweep, Goto, IInv, TypeOK, Resolved, Proc

LEMMA InductiveNext == IInv /\ [Next]_vars => IInv'
<1> SUFFICES ASSUME IInv, [Next]_vars PROVE IInv'
  OBVIOUS
<1> USE DEF IInv, TypeOK, Resolved, CurrentRegistered, Goto, dbVars, entryVars, procVars
<1>1. ASSUME NEW v \in Version, Change(v) PROVE IInv'
  BY <1>1 DEF Change
<1>2. CASE Clear
  BY <1>2 DEF Clear
<1>3. CASE markChainPoolCurrentUnknown
  BY <1>3 DEF markChainPoolCurrentUnknown
<1>4. ASSUME NEW w \in Worker, Resolve(w) PROVE IInv'
  <2>1. version' \in [Worker -> 0 .. LastVersion]
    BY <1>4 DEF Resolve, Version
  <2> QED BY <1>4, <2>1 DEF Resolve, Proc
<1>5. ASSUME NEW w \in Worker, trackPoolVersion(w) PROVE IInv'
  <2>1. version[w] \in Version /\ w \in Proc
    BY <1>5 DEF trackPoolVersion, Proc
  <2> QED BY <1>5, <2>1 DEF trackPoolVersion
<1>6. ASSUME NEW w \in Worker, StartWorkFlow(w) PROVE IInv'
  <2>1. version[w] \in Version /\ w \in Proc
    BY <1>6 DEF StartWorkFlow, Proc
  <2> QED BY <1>6, <2>1 DEF StartWorkFlow
<1>7. ASSUME NEW w \in Worker, Return(w) PROVE IInv'
  BY <1>7 DEF Return, Proc
<1>8. CASE Wake
  BY <1>8 DEF Wake, Proc
<1>9. ASSUME NEW p \in Proc, Sweep(p) PROVE IInv'
  <2>1. CASE CheckKnown(p)
    <3>1. CASE current = Unknown
      BY <2>1, <3>1, EndSweepPreserves DEF CheckKnown
    <3>2. CASE current # Unknown
      <4>1. /\ pc[p] # "idle" /\ Goto(p, "scan")
            /\ UNCHANGED <<dbVars, entryVars, pool, version, victim>>
        BY <2>1, <3>2 DEF CheckKnown
      <4> HIDE DEF Goto
      <4>2. pc' \in [Proc -> {"idle", "track", "check", "scan", "drop",
                             "restart", "start", "run"}] /\ Resolved'
        BY <4>1, GotoPreserves
      <4> QED BY <4>1, <4>2
    <3> QED BY <3>1, <3>2
  <2>2. CASE ScanFindsNone(p) \/ ScanWaits(p)
    <3>1. /\ pc[p] # "idle" /\ EndSweep(p) /\ wait' \in (0 .. TTL) \cup {NoWait}
          /\ UNCHANGED <<dbVars, current, versions, pool, version, victim>>
      BY <2>2 DEF ScanFindsNone, ScanWaits, Waited
    <3> QED BY <3>1, EndSweepPreserves
  <2>3. CASE Evict(p)
    BY <2>3, EvictPreserves
  <2>4. CASE stopAndDropVersion(p)
    BY <2>4 DEF stopAndDropVersion
  <2>5. CASE RestartWait(p)
    <3>1. CASE TTL > 0
      BY <2>5, <3>1, EndSweepPreserves DEF RestartWait
    <3>2. CASE ~ (TTL > 0)
      <4>1. /\ pc[p] # "idle" /\ Goto(p, "scan") /\ wait' = 0
            /\ UNCHANGED <<dbVars, current, versions, pool, version, victim>>
        BY <2>5, <3>2 DEF RestartWait
      <4> HIDE DEF Goto
      <4>2. pc' \in [Proc -> {"idle", "track", "check", "scan", "drop",
                             "restart", "start", "run"}] /\ Resolved'
        BY <4>1, GotoPreserves
      <4>3. wait' \in 0 .. TTL
        BY <4>1
      <4> QED BY <4>1, <4>2, <4>3
    <3> QED BY <3>1, <3>2
  <2> QED BY <1>9, <2>1, <2>2, <2>3, <2>4, <2>5 DEF Sweep
<1>10. CASE Tick
  BY <1>10 DEF Tick, AtMostTTL
<1>11. CASE UNCHANGED vars
  BY <1>11 DEF vars
<1> QED
  BY <1>1, <1>2, <1>3, <1>4, <1>5, <1>6, <1>7, <1>8, <1>9, <1>10, <1>11 DEF Next

LEMMA Inductive == Spec => []IInv
BY InductiveInit, InductiveNext, PTL DEF Spec

(* Every variable always holds a value of its type. *)
THEOREM TypeCorrect == Spec => []TypeOK
<1>1. IInv => TypeOK
  BY DEF IInv
<1> QED
  BY Inductive, <1>1, PTL

(* Under any interleaving of invocations, sweeps and changes of the online *)
(* version, the version the entry holds as current is one it has           *)
(* registered.                                                             *)
THEOREM CurrentStays == Spec => []CurrentRegistered
<1>1. IInv => CurrentRegistered
  BY DEF IInv
<1> QED
  BY Inductive, <1>1, PTL

-----------------------------------------------------------------------------
(* What an eviction leaves. *)

(* With the current version known, the entry keeps it, the Retain newest   *)
(* of the others, and nothing older than what it lost.                     *)
LEMMA EvictionLeaves ==
  ASSUME IInv, NEW p \in Proc, Evict(p), current # Unknown
  PROVE  /\ Cardinality(versions') >= MaxVersions
         /\ current \in versions'
         /\ \A u \in versions' \ {current} : Oldest < u
<1> DEFINE spare == versions \ {current}
           newer(v) == {u \in spare : v < u}
<1>1. /\ Oldest \in spare /\ Oldest \in Version /\ Cardinality(newer(Oldest)) >= Retain
      /\ \A u \in Candidates : Oldest <= u
  BY OldestIsCandidate, CandidatesSpare DEF Evict, IInv, Candidates
<1>2. versions' = versions \ {Oldest} /\ current \in versions /\ versions \subseteq Version
  BY DEF Evict, IInv, TypeOK, CurrentRegistered
<1>3. current \in versions'
  BY <1>1, <1>2
<1>4. Cardinality(versions') >= MaxVersions
  <2>1. newer(Oldest) \cup {current} \subseteq versions'
    BY <1>1, <1>2, <1>3 DEF Version
  <2>2. newer(Oldest) \in SUBSET Version /\ versions' \in SUBSET Version
    BY <1>2
  <2>3. Cardinality(newer(Oldest) \cup {current}) = Cardinality(newer(Oldest)) + 1
    <3>1. current \notin newer(Oldest)
      OBVIOUS
    <3>2. IsFiniteSet(newer(Oldest))
      BY <2>2, VersionsFinite
    <3> QED BY <3>1, <3>2, FS_AddElement
  <2>4. Cardinality(newer(Oldest) \cup {current}) <= Cardinality(versions')
    BY <2>1, <2>2, MoreVersions
  <2>5. Cardinality(newer(Oldest)) \in Nat /\ Cardinality(versions') \in Nat
    BY <2>2, VersionsFinite
  <2>6. Retain + 1 >= MaxVersions
    BY DEF Retain
  <2> HIDE DEF newer
  <2> QED BY <1>1, <2>3, <2>4, <2>5, <2>6, RetainNat
<1>5. ASSUME NEW u \in versions' \ {current} PROVE Oldest < u
  <2>1. u \in spare /\ u # Oldest /\ u \in Nat /\ Oldest \in Nat
    BY <1>1, <1>2 DEF Version
  <2>2. CASE u < Oldest
    <3>1. newer(Oldest) \in SUBSET newer(u) /\ newer(u) \in SUBSET Version
      <4>1. spare \subseteq Nat /\ spare \subseteq Version
        BY <1>2 DEF Version
      <4>2. \A x \in spare : Oldest < x => u < x
        BY <2>1, <2>2, <4>1
      <4> QED BY <4>1, <4>2
    <3>2. /\ Cardinality(newer(Oldest)) <= Cardinality(newer(u))
          /\ Cardinality(newer(Oldest)) \in Nat /\ Cardinality(newer(u)) \in Nat
      BY <3>1, MoreVersions, VersionsFinite
    <3>3. Cardinality(newer(u)) >= Retain
      <4> HIDE DEF newer
      <4> QED BY <1>1, <3>2, RetainNat
    <3>4. u \in Candidates
      BY <2>1, <3>3 DEF Candidates
    <3> QED BY <1>1, <2>1, <2>2, <3>4
  <2> QED BY <2>1, <2>2
<1> QED
  BY <1>3, <1>4, <1>5

(* A sweep that knows the current version keeps it and at least            *)
(* MaxVersions versions in all, and removes the oldest of the others,      *)
(* whatever the policy and however many sweeps run at once.                *)
THEOREM SweepsKeepThePolicy == Spec => EvictsOldestSpare
<1> DEFINE Keeps == \A v \in versions \ versions' : current # Unknown =>
             /\ Cardinality(versions') >= MaxVersions
             /\ current \in versions'
             /\ \A u \in versions' \ {current} : v < u
<1>1. IInv /\ [Next]_vars => [Keeps]_vars
  <2> SUFFICES ASSUME IInv, Next PROVE Keeps
    OBVIOUS
  <2>1. ASSUME NEW p \in Proc, Evict(p) PROVE Keeps
    <3>1. \A v \in versions \ versions' : v = Oldest
      BY <2>1 DEF Evict
    <3> QED BY <2>1, <3>1, EvictionLeaves
  <2>2. CASE versions \subseteq versions'
    BY <2>2
  <2> QED
    BY <2>1, <2>2 DEF Next, Change, Clear, markChainPoolCurrentUnknown, Resolve,
       trackPoolVersion, StartWorkFlow, Return, Wake, Sweep, CheckKnown,
       ScanFindsNone, ScanWaits, stopAndDropVersion, RestartWait, Tick, entryVars
<1> QED
  BY Inductive, <1>1, PTL DEF Spec, EvictsOldestSpare
=============================================================================
