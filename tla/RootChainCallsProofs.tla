------------------------ MODULE RootChainCallsProofs ------------------------
(***************************************************************************)
(* RootChainCalls for any project and any depth: its types, that called    *)
(* chains stay and stay published, that the online chains do not call each other in *)
(* a circle, that an invocation is not refused what was checked, and that  *)
(* the recursion of the check is what is said of paths.                    *)
(*                                                                         *)
(* What a publish has checked still holds when it activates, as long as    *)
(* nothing else changed calls: Checked and Alone.  A circle through the    *)
(* new release would be a path that never ends, and the check has seen to  *)
(* it that the paths of MaxDepth chains call nothing: take the longest one *)
(* within the circle.  AsOnline says that a calm invocation goes along     *)
(* online calls, so that a call back into its path would close a circle.   *)
(* Called chains stay because a deletion under way is of nothing online    *)
(* and of no chain that has anything online: Idle.                         *)
(*                                                                         *)
(* The recursion ends because it refuses to go deeper than MaxDepth: what  *)
(* it says of a path is shown from the longest paths down.                 *)
(***************************************************************************)
EXTENDS RootChainCalls, SequenceTheorems, WellFoundedInduction, TLAPS

USE MaxDepthAssumption, MaxChangesAssumption, NoReleaseAssumption

(* At most one publish is between its check and its end. *)
Alone ==
  drift = {} => \A c, d \in Chain :
    publishing[c] # NoRelease /\ publishing[d] # NoRelease => c = d

(* What it has checked still holds. *)
Checked ==
  drift = {} => \A c \in Chain :
    publishing[c] # NoRelease => checkRootChainCalls(c, publishing[c])

(* In particular its targets are published, also if others overlap it. *)
TargetsChecked ==
  drift \cap {"edit", "race"} = {} => \A c \in Chain : publishing[c] # NoRelease =>
    \A t \in CallsOf(publishing[c]) : Found(t)

(* No deletion under way would take a release offline. *)
Idle ==
  "race" \notin drift => \A c \in Chain :
    /\ deleting[c] # NoRelease => deleting[c] # online[c]
    /\ c \in closing => online[c] = NoRelease

(* A calm invocation goes along the calls of what is online. *)
AsOnline ==
  drift = {} /\ calm => \A i \in 1 .. Len(stack) :
    /\ online[stack[i].chain] # NoRelease
    /\ stack[i].left \subseteq OnlineCalls(stack[i].chain)
    /\ i > 1 => stack[i].chain \in OnlineCalls(stack[i - 1].chain)

(* The current release is one of the releases that are not deleted. *)
OnlineIsPast ==
  \A c \in Chain : online[c] # NoRelease => online[c] \in past[c] \ deleted[c]

IInv ==
  /\ TypeOK /\ OnlineIsPast /\ Idle
  /\ Alone /\ Checked /\ TargetsChecked
  /\ TargetsOnline /\ Acyclic
  /\ AsOnline /\ RunsAsChecked

-----------------------------------------------------------------------------
LEMMA CallsOfType ==
  ASSUME TypeOK, NEW r \in Release
  PROVE  CallsOf(r) \subseteq Chain
BY DEF TypeOK, CallsOf, Release

LEMMA OnlineCallsType ==
  ASSUME TypeOK, NEW c \in Chain
  PROVE  OnlineCalls(c) \subseteq Chain
<1>1. CASE online[c] = NoRelease
  BY <1>1 DEF OnlineCalls
<1>2. CASE online[c] # NoRelease
  <2>1. online[c] \in Release
    BY <1>2 DEF TypeOK
  <2> QED BY <1>2, <2>1, CallsOfType DEF OnlineCalls
<1> QED BY <1>1, <1>2

(* The check covers the calls of the chain itself. *)
LEMMA CheckSeesTargets ==
  ASSUME TypeOK, NEW c \in Chain, NEW r \in Release, checkRootChainCalls(c, r)
  PROVE  \A t \in CallsOf(r) : Found(t)
<1> DEFINE p == [i \in 1 .. 1 |-> c]
<1>1. p \in Paths(c, r, 1)
  BY DEF Paths
<1>2. p[1] = c /\ 1 \in 1 .. MaxDepth
  OBVIOUS
<1>3. Calls(c, r, p[1]) = CallsOf(r)
  BY <1>2 DEF Calls
<1> QED BY <1>1, <1>2, <1>3 DEF checkRootChainCalls

(* A set of numbers up to a limit that has a member has a greatest one.    *)
LEMMA GreatestBelow ==
  ASSUME NEW m \in Nat, NEW N \in SUBSET (1 .. m), N # {}
  PROVE  \E n \in N : \A k \in N : k <= n
<1> DEFINE T == {m - n : n \in N}
<1>1. T \in SUBSET Nat /\ T # {}
  <2>1. \A n \in N : m - n \in Nat
    OBVIOUS
  <2>2. PICK n \in N : TRUE
    OBVIOUS
  <2>3. m - n \in T
    BY <2>2
  <2> QED BY <2>1, <2>3
<1>2. PICK x \in T : \A y \in T : ~ (<<y, x>> \in OpToRel(<, Nat))
  <2> HIDE DEF T
  <2> QED BY <1>1, NatLessThanWellFounded, WFMin
<1>3. PICK n \in N : x = m - n
  OBVIOUS
<1>4. ASSUME NEW k \in N PROVE k <= n
  <2>1. m - k \in T /\ m - k \in Nat /\ x \in Nat
    BY <1>1
  <2>2. ~ (m - k < x)
    BY <1>2, <2>1 DEF OpToRel
  <2> QED BY <1>3, <2>1, <2>2
<1> QED BY <1>4

(* A path goes on along every call of its last chain. *)
LEMMA PathGoesOn ==
  ASSUME NEW c \in Chain, NEW r, NEW n \in Nat \ {0}, NEW p \in Paths(c, r, n),
         NEW t \in Chain, t \in Calls(c, r, p[n])
  PROVE  \E q \in Paths(c, r, n + 1) : q[n + 1] = t
<1> DEFINE q == [i \in 1 .. n + 1 |-> IF i = n + 1 THEN t ELSE p[i]]
<1>1. p \in [1 .. n -> Chain] /\ p[1] = c /\ \A i \in 1 .. n - 1 : p[i + 1] \in Calls(c, r, p[i])
  BY DEF Paths
<1>2. q \in [1 .. n + 1 -> Chain] /\ q[1] = c /\ q[n + 1] = t
  BY <1>1
<1>3. ASSUME NEW i \in 1 .. (n + 1) - 1 PROVE q[i + 1] \in Calls(c, r, q[i])
  <2>1. CASE i = n
    <3>1. q[i + 1] = t /\ q[i] = p[n]
      BY <2>1
    <3> QED BY <3>1
  <2>2. CASE i # n
    <3>1. i \in 1 .. n - 1 /\ q[i + 1] = p[i + 1] /\ q[i] = p[i]
      BY <2>2
    <3> QED BY <1>1, <3>1
  <2> QED BY <2>1, <2>2
<1> QED BY <1>2, <1>3 DEF Paths

(* The check depends on what is online, what is found and the sub chain.   *)
LEMMA CheckKept ==
  ASSUME UNCHANGED <<online, sub>>, \A t : Found(t)' <=> Found(t), NEW c \in Chain, NEW r
  PROVE  checkRootChainCalls(c, r)' <=> checkRootChainCalls(c, r)
<1>1. \A d : Calls(c, r, d)' = Calls(c, r, d)
  BY DEF Calls, OnlineCalls, CallsOf
<1>2. \A n : Paths(c, r, n)' = Paths(c, r, n)
  BY <1>1 DEF Paths
<1> QED BY <1>1, <1>2 DEF checkRootChainCalls

(* From a chain whose release has passed the check no calls lead on for    *)
(* ever: a set of chains that each call one of the set cannot have it.     *)
LEMMA NoCircleThrough ==
  ASSUME NEW c \in Chain, NEW r, checkRootChainCalls(c, r),
         NEW S \in SUBSET Chain, c \in S,
         \A d \in S : Calls(c, r, d) \cap S # {}
  PROVE  FALSE
<1> DEFINE N == {n \in 1 .. MaxDepth : \E p \in Paths(c, r, n) : p[n] \in S}
<1>1. 1 \in N
  <2> DEFINE p == [i \in 1 .. 1 |-> c]
  <2>1. p \in Paths(c, r, 1) /\ p[1] \in S
    BY DEF Paths
  <2> QED BY <2>1
<1>2. PICK n \in N : \A k \in N : k <= n
  <2>1. N \in SUBSET (1 .. MaxDepth) /\ N # {}
    BY <1>1
  <2> HIDE DEF N
  <2> QED BY <2>1, GreatestBelow
<1>3. PICK p \in Paths(c, r, n) : p[n] \in S
  OBVIOUS
<1>4. PICK t \in S : t \in Calls(c, r, p[n])
  BY <1>3
<1>5. n < MaxDepth
  BY <1>3, <1>4 DEF checkRootChainCalls
<1>6. \E q \in Paths(c, r, n + 1) : q[n + 1] = t
  BY <1>3, <1>4, PathGoesOn
<1>7. n + 1 \in N
  BY <1>5, <1>6
<1> QED BY <1>2, <1>7

-----------------------------------------------------------------------------
(* The check and the recursion.                                            *)

(* The calls of the i-th chain of q, as the recursion looks them up. *)
CallsOn(r, q, i) == IF i = 1 THEN CallsOf(r) ELSE OnlineCalls(q[i])

(* What the recursion asks of a call of t at the end of a path of n chains. *)
Good(q, n, t) == t \notin {q[i] : i \in 1 .. n} /\ n < MaxDepth /\ Found(t)

(* The paths of n chains that calls lead along from the k chains of p. *)
Beyond(r, p, k, n) ==
  {q \in [1 .. n -> Chain] : /\ \A i \in 1 .. k : q[i] = p[i]
                             /\ \A i \in k .. n - 1 : q[i + 1] \in CallsOn(r, q, i)}

AllGood(r, p, k) ==
  \A n \in k .. MaxDepth : \A q \in Beyond(r, p, k, n) : \A t \in CallsOn(r, q, n) : Good(q, n, t)

LEMMA CallsOnType ==
  ASSUME TypeOK, NEW r \in Release, NEW n \in Nat, NEW q \in [1 .. n -> Chain], NEW i \in 1 .. n
  PROVE  CallsOn(r, q, i) \subseteq Chain
BY CallsOfType, OnlineCallsType DEF CallsOn

(* What lies beyond p is p and what lies beyond the calls of its end. *)
LEMMA OneFurther ==
  ASSUME TypeOK, NEW r \in Release, NEW k \in 1 .. MaxDepth, NEW p \in [1 .. k -> Chain],
         NEW longer,
         \A t \in Chain : longer[t][k + 1] = t /\ \A i \in 1 .. k : longer[t][i] = p[i]
  PROVE  AllGood(r, p, k) <=>
           \A t \in CallsOn(r, p, k) : Good(p, k, t) /\ AllGood(r, longer[t], k + 1)
<1>1. ASSUME AllGood(r, p, k), NEW t \in CallsOn(r, p, k)
      PROVE  Good(p, k, t) /\ AllGood(r, longer[t], k + 1)
  <2>1. p \in Beyond(r, p, k, k)
    BY DEF Beyond
  <2>2. Good(p, k, t)
    BY <1>1, <2>1 DEF AllGood
  <2>3. ASSUME NEW n \in k + 1 .. MaxDepth, NEW q \in Beyond(r, longer[t], k + 1, n)
        PROVE  q \in Beyond(r, p, k, n)
    <3>1. t \in Chain
      BY <1>1, CallsOnType
    <3>2. /\ q \in [1 .. n -> Chain]
          /\ \A i \in 1 .. k + 1 : q[i] = longer[t][i]
          /\ \A i \in k + 1 .. n - 1 : q[i + 1] \in CallsOn(r, q, i)
      BY DEF Beyond
    <3>3. q[k + 1] = t /\ \A i \in 1 .. k : q[i] = p[i]
      BY <3>1, <3>2
    <3>4. q[k + 1] \in CallsOn(r, q, k)
      BY <1>1, <3>3 DEF CallsOn
    <3>5. \A i \in k .. n - 1 : q[i + 1] \in CallsOn(r, q, i)
      BY <3>2, <3>4
    <3> QED BY <3>2, <3>3, <3>5 DEF Beyond
  <2>4. AllGood(r, longer[t], k + 1)
    BY <1>1, <2>3 DEF AllGood
  <2> QED BY <2>2, <2>4
<1>2. ASSUME \A t \in CallsOn(r, p, k) : Good(p, k, t) /\ AllGood(r, longer[t], k + 1),
             NEW n \in k .. MaxDepth, NEW q \in Beyond(r, p, k, n), NEW u \in CallsOn(r, q, n)
      PROVE  Good(q, n, u)
  <2>1. /\ q \in [1 .. n -> Chain]
        /\ \A i \in 1 .. k : q[i] = p[i]
        /\ \A i \in k .. n - 1 : q[i + 1] \in CallsOn(r, q, i)
    BY DEF Beyond
  <2>2. CASE n = k
    <3>1. q = p
      BY <2>1, <2>2
    <3> QED BY <1>2, <2>2, <3>1
  <2>3. CASE n # k
    <3>1. k \in k .. n - 1 /\ k + 1 \in 1 .. n
      BY <2>3
    <3>2. q[k + 1] \in Chain /\ q[k + 1] \in CallsOn(r, p, k)
      BY <2>1, <3>1 DEF CallsOn
    <3>3. \A i \in 1 .. k + 1 : q[i] = longer[q[k + 1]][i]
      BY <2>1, <3>2
    <3>4. q \in Beyond(r, longer[q[k + 1]], k + 1, n)
      BY <2>1, <3>3 DEF Beyond
    <3>5. n \in k + 1 .. MaxDepth
      BY <2>3
    <3>6. AllGood(r, longer[q[k + 1]], k + 1)
      BY <1>2, <3>2
    <3> QED BY <3>4, <3>5, <3>6 DEF AllGood
  <2> QED BY <2>2, <2>3
<1>3. (\A t \in CallsOn(r, p, k) : Good(p, k, t) /\ AllGood(r, longer[t], k + 1)) => AllGood(r, p, k)
  BY <1>2 DEF AllGood
<1> QED BY <1>1, <1>3

(* Paths are sequences, and grow by Append. *)
LEMMA PathIsSequence ==
  ASSUME NEW n \in Nat, NEW p \in [1 .. n -> Chain]
  PROVE  /\ p \in Seq(Chain) /\ Len(p) = n
         /\ \A t \in Chain : /\ Append(p, t) \in [1 .. n + 1 -> Chain]
                             /\ Append(p, t)[n + 1] = t
                             /\ \A i \in 1 .. n : Append(p, t)[i] = p[i]
<1>1. p \in Seq(Chain)
  BY IsASeq
<1>2. Len(p) = n
  BY <1>1, LenProperties
<1>3. ASSUME NEW t \in Chain
      PROVE  /\ Append(p, t) \in [1 .. n + 1 -> Chain]
             /\ Append(p, t)[n + 1] = t
             /\ \A i \in 1 .. n : Append(p, t)[i] = p[i]
  <2> DEFINE q == Append(p, t)
  <2>1. /\ q \in Seq(Chain) /\ Len(q) = n + 1 /\ q[n + 1] = t
        /\ \A i \in 1 .. n : q[i] = p[i]
    BY <1>1, <1>2, AppendProperties
  <2> HIDE DEF q
  <2>2. q \in [1 .. n + 1 -> Chain]
    BY <2>1, LenProperties
  <2> QED BY <2>1, <2>2 DEF q
<1> QED BY <1>1, <1>2, <1>3

(* What the recursion asks of a path, w being what it says of longer ones. *)
Asks(r, w, p) ==
  \A target \in CallsAt(r, p) :
    /\ target \notin {p[i] : i \in 1 .. Len(p)}
    /\ Len(p) < MaxDepth
    /\ Found(target)
    /\ w[Append(p, target)]

(* w and "all beyond is good" ask the same of a path, if they agree on the *)
(* paths that are longer by one.                                           *)
LEMMA AsksGood ==
  ASSUME TypeOK, NEW r \in Release, NEW n \in 1 .. MaxDepth, NEW p \in [1 .. n -> Chain], NEW w,
         n < MaxDepth => \A q \in [1 .. n + 1 -> Chain] : w[q] <=> AllGood(r, q, n + 1)
  PROVE  Asks(r, w, p) <=> AllGood(r, p, n)
<1> DEFINE longer == [t \in Chain |-> Append(p, t)]
<1>1. \A t \in Chain : longer[t] = Append(p, t)
  OBVIOUS
<1>2. Len(p) = n
  BY PathIsSequence
<1>3. \A t \in Chain : longer[t][n + 1] = t /\ \A i \in 1 .. n : longer[t][i] = p[i]
  BY <1>1, PathIsSequence
<1>4. CallsAt(r, p) = CallsOn(r, p, n)
  BY <1>2 DEF CallsAt, CallsOn
<1>5. CallsOn(r, p, n) \subseteq Chain
  BY CallsOnType
<1> HIDE DEF longer
<1>6. AllGood(r, p, n) <=> \A t \in CallsOn(r, p, n) : Good(p, n, t) /\ AllGood(r, longer[t], n + 1)
  BY <1>3, OneFurther
<1>7. ASSUME NEW t \in CallsOn(r, p, n), n < MaxDepth
      PROVE  w[Append(p, t)] <=> AllGood(r, longer[t], n + 1)
  <2>1. Append(p, t) \in [1 .. n + 1 -> Chain] /\ longer[t] = Append(p, t)
    BY <1>1, <1>5, PathIsSequence
  <2> QED BY <1>7, <2>1
<1>8. ASSUME NEW t \in CallsOn(r, p, n)
      PROVE  Good(p, n, t) /\ AllGood(r, longer[t], n + 1)
               <=> /\ t \notin {p[i] : i \in 1 .. Len(p)} /\ Len(p) < MaxDepth
                   /\ Found(t) /\ w[Append(p, t)]
  BY <1>2, <1>7 DEF Good
<1>9. Asks(r, w, p) <=> \A t \in CallsOn(r, p, n) : Good(p, n, t) /\ AllGood(r, longer[t], n + 1)
  BY <1>4, <1>8 DEF Asks
<1> QED BY <1>6, <1>9

LEMMA WalkLength ==
  ASSUME NEW p
  PROVE  p \in Walks <=> \E n \in 1 .. MaxDepth : p \in [1 .. n -> Chain]
BY DEF Walks

(* The recursion is well defined: it says what it asks. *)
LEMMA WalkAsks ==
  ASSUME TypeOK, NEW r \in Release, NEW p \in Walks
  PROVE  walkRootChainCalls(r)[p] <=> Asks(r, walkRootChainCalls(r), p)
<1> DEFINE F(w) == [path \in Walks |->
                      \A target \in CallsAt(r, path) :
                        /\ target \notin {path[i] : i \in 1 .. Len(path)}
                        /\ Len(path) < MaxDepth
                        /\ Found(target)
                        /\ w[Append(path, target)]]
           g == [path \in Walks |-> AllGood(r, path, Len(path))]
<1>1. walkRootChainCalls(r) = CHOOSE w : w = F(w)
  BY DEF walkRootChainCalls
<1>2. g = F(g)
  <2>1. \A w : F(w) = [path \in Walks |-> Asks(r, w, path)]
    BY DEF Asks
  <2>2. ASSUME NEW q \in Walks PROVE g[q] = Asks(r, g, q)
    <3>1. PICK n \in 1 .. MaxDepth : q \in [1 .. n -> Chain]
      BY WalkLength
    <3>2. Len(q) = n
      BY <3>1, PathIsSequence
    <3>3. ASSUME n < MaxDepth, NEW s \in [1 .. n + 1 -> Chain]
          PROVE  g[s] <=> AllGood(r, s, n + 1)
      <4>1. n + 1 \in 1 .. MaxDepth /\ n + 1 \in Nat
        BY <3>3
      <4>2. s \in Walks /\ Len(s) = n + 1
        BY <4>1, WalkLength, PathIsSequence
      <4> QED BY <4>2
    <3>4. g[q] = AllGood(r, q, n)
      BY <3>2
    <3> HIDE DEF g
    <3>5. Asks(r, g, q) <=> AllGood(r, q, n)
      BY <3>1, <3>3, AsksGood
    <3>6. Asks(r, g, q) \in BOOLEAN /\ AllGood(r, q, n) \in BOOLEAN
      BY DEF Asks, AllGood
    <3> QED BY <3>4, <3>5, <3>6
  <2>3. g = [path \in Walks |-> Asks(r, g, path)]
    <3>1. g = [path \in Walks |-> g[path]]
      OBVIOUS
    <3> HIDE DEF g
    <3> QED BY <2>2, <3>1
  <2> HIDE DEF F, g
  <2> QED BY <2>1, <2>3
<1>3. walkRootChainCalls(r) = F(walkRootChainCalls(r))
  <2> HIDE DEF F, g
  <2> QED BY <1>1, <1>2
<1>4. F(walkRootChainCalls(r))[p] = Asks(r, walkRootChainCalls(r), p)
  BY DEF Asks
<1> HIDE DEF F
<1> QED BY <1>3, <1>4

(* It accepts a path when all that lies beyond is good: no path is the     *)
(* longest of which it says otherwise.                                     *)
LEMMA WalkIsAllGood ==
  ASSUME TypeOK, NEW r \in Release, NEW n \in 1 .. MaxDepth, NEW p \in [1 .. n -> Chain]
  PROVE  walkRootChainCalls(r)[p] <=> AllGood(r, p, n)
<1> DEFINE w == walkRootChainCalls(r)
           N == {k \in 1 .. MaxDepth : \E q \in [1 .. k -> Chain] : ~ (w[q] <=> AllGood(r, q, k))}
<1>1. SUFFICES ASSUME N # {} PROVE FALSE
  OBVIOUS
<1>2. PICK k \in N : \A j \in N : j <= k
  <2>1. N \in SUBSET (1 .. MaxDepth) /\ MaxDepth \in Nat
    OBVIOUS
  <2> HIDE DEF N
  <2> QED BY <1>1, <2>1, GreatestBelow
<1>3. PICK q \in [1 .. k -> Chain] : ~ (w[q] <=> AllGood(r, q, k))
  OBVIOUS
<1>4. ASSUME k < MaxDepth, NEW s \in [1 .. k + 1 -> Chain]
      PROVE  w[s] <=> AllGood(r, s, k + 1)
  <2>1. k + 1 \in 1 .. MaxDepth /\ ~ (k + 1 <= k)
    BY <1>4
  <2>2. k + 1 \notin N
    BY <1>2, <2>1
  <2> QED BY <2>1, <2>2
<1>5. k \in 1 .. MaxDepth
  OBVIOUS
<1>6. q \in Walks
  BY <1>5, WalkLength
<1>7. w[q] <=> Asks(r, w, q)
  BY <1>6, WalkAsks
<1> HIDE DEF w
<1>8. Asks(r, w, q) <=> AllGood(r, q, k)
  BY <1>4, <1>5, AsksGood
<1> QED BY <1>3, <1>7, <1>8

(* The recursion takes the release to be published for the calls of the    *)
(* first chain of a path, the check over paths for those of that chain     *)
(* wherever it comes.  They differ only beyond a call back to it, and such *)
(* a call both refuse: a path to it is one of both kinds.                  *)
LEMMA FirstReturn ==
  ASSUME NEW c \in Chain, NEW r, NEW n \in 1 .. MaxDepth, NEW q \in [1 .. n -> Chain],
         q[1] = c, \E i \in 2 .. n : q[i] = c,
         \/ \A i \in 1 .. n - 1 : q[i + 1] \in CallsOn(r, q, i)
         \/ \A i \in 1 .. n - 1 : q[i + 1] \in Calls(c, r, q[i])
  PROVE  \E m \in 1 .. MaxDepth : \E p \in Paths(c, r, m) \cap Beyond(r, <<c>>, 1, m) :
           c \in Calls(c, r, p[m]) \cap CallsOn(r, p, m)
<1> DEFINE N == {m \in 1 .. n : \A i \in 2 .. m : q[i] # c}
<1>1. PICK m \in N : \A k \in N : k <= m
  <2>1. N \in SUBSET (1 .. n) /\ 1 \in N /\ n \in Nat
    OBVIOUS
  <2> HIDE DEF N
  <2> QED BY <2>1, GreatestBelow
<1>2. m \in 1 .. n /\ m # n /\ m + 1 \notin N
  BY <1>1
<1>3. q[m + 1] = c
  <2>1. m + 1 \in 1 .. n
    BY <1>2
  <2>2. PICK i \in 2 .. m + 1 : q[i] = c
    BY <1>2, <2>1
  <2>3. i \notin 2 .. m
    BY <1>1, <2>2
  <2> QED BY <1>2, <2>2, <2>3
<1> DEFINE p == [i \in 1 .. m |-> q[i]]
<1>4. /\ p \in [1 .. m -> Chain] /\ p[1] = c
      /\ \A i \in 1 .. m : p[i] = q[i]
  BY <1>2
<1>5. \A i \in 2 .. m : q[i] # c
  BY <1>1
<1> HIDE DEF p, N
<1>6. ASSUME NEW i \in 1 .. m
      PROVE  CallsOn(r, q, i) = Calls(c, r, q[i]) /\ CallsOn(r, p, i) = Calls(c, r, p[i])
  <2>1. CASE i = 1
    BY <1>4, <2>1 DEF CallsOn, Calls
  <2>2. CASE i # 1
    <3>1. q[i] # c /\ p[i] = q[i]
      BY <1>2, <1>4, <1>5, <2>2
    <3> QED BY <2>2, <3>1 DEF CallsOn, Calls
  <2> QED BY <2>1, <2>2
<1>7. ASSUME NEW i \in 1 .. m
      PROVE  q[i + 1] \in Calls(c, r, p[i])
  <2>1. i \in 1 .. n - 1
    BY <1>2
  <2> QED BY <1>4, <1>6, <2>1
<1>8. ASSUME NEW i \in 1 .. m - 1
      PROVE  p[i + 1] \in Calls(c, r, p[i]) /\ p[i + 1] \in CallsOn(r, p, i)
  <2>1. i \in 1 .. m /\ i + 1 \in 1 .. m
    BY <1>2
  <2>2. p[i + 1] = q[i + 1]
    BY <1>4, <2>1
  <2> QED BY <1>6, <1>7, <2>1, <2>2
<1>9. p \in Paths(c, r, m)
  BY <1>4, <1>8 DEF Paths
<1>10. p \in Beyond(r, <<c>>, 1, m)
  BY <1>4, <1>8 DEF Beyond
<1>11. c \in Calls(c, r, p[m]) \cap CallsOn(r, p, m)
  BY <1>2, <1>3, <1>6, <1>7
<1>12. m \in 1 .. MaxDepth
  BY <1>2
<1> QED BY <1>9, <1>10, <1>11, <1>12

(* Along a path that does not come back to its first chain they agree.     *)
LEMMA SameCalls ==
  ASSUME NEW c \in Chain, NEW r, NEW n \in 1 .. MaxDepth, NEW q \in [1 .. n -> Chain],
         q[1] = c, ~ \E i \in 2 .. n : q[i] = c, NEW i \in 1 .. n
  PROVE  CallsOn(r, q, i) = Calls(c, r, q[i])
<1>1. CASE i = 1
  BY <1>1 DEF CallsOn, Calls
<1>2. CASE i # 1
  <2>1. i \in 2 .. n
    BY <1>2
  <2> QED BY <1>2, <2>1 DEF CallsOn, Calls
<1> QED BY <1>1, <1>2

LEMMA CheckIsAllGood ==
  ASSUME TypeOK, NEW c \in Chain, NEW r \in Release
  PROVE  checkRootChainCalls(c, r) <=> AllGood(r, <<c>>, 1)
<1>0. \A n \in 1 .. MaxDepth : 1 \in 1 .. n /\ <<c>>[1] = c
  OBVIOUS
<1>1. ASSUME AllGood(r, <<c>>, 1), NEW n \in 1 .. MaxDepth, NEW q \in Paths(c, r, n),
             NEW t \in Calls(c, r, q[n])
      PROVE  Good(q, n, t)
  <2>1. /\ q \in [1 .. n -> Chain] /\ q[1] = c
        /\ \A i \in 1 .. n - 1 : q[i + 1] \in Calls(c, r, q[i])
    BY DEF Paths
  <2>2. ~ \E i \in 2 .. n : q[i] = c
    <3>1. SUFFICES ASSUME \E i \in 2 .. n : q[i] = c PROVE FALSE
      OBVIOUS
    <3>2. PICK m \in 1 .. MaxDepth : \E p \in Beyond(r, <<c>>, 1, m) : c \in CallsOn(r, p, m)
      BY <2>1, <3>1, FirstReturn
    <3>3. PICK p \in Beyond(r, <<c>>, 1, m) : c \in CallsOn(r, p, m)
      BY <3>2
    <3>4. Good(p, m, c) /\ p[1] = c
      BY <1>0, <1>1, <3>3 DEF AllGood, Beyond
    <3> QED BY <1>0, <3>4 DEF Good
  <2>3. \A i \in 1 .. n : CallsOn(r, q, i) = Calls(c, r, q[i])
    BY <2>1, <2>2, SameCalls
  <2>4. q \in Beyond(r, <<c>>, 1, n)
    BY <1>0, <2>1, <2>3 DEF Beyond
  <2> QED BY <1>1, <2>3, <2>4 DEF AllGood
<1>2. ASSUME checkRootChainCalls(c, r), NEW n \in 1 .. MaxDepth,
             NEW q \in Beyond(r, <<c>>, 1, n), NEW t \in CallsOn(r, q, n)
      PROVE  Good(q, n, t)
  <2>1. /\ q \in [1 .. n -> Chain] /\ q[1] = c
        /\ \A i \in 1 .. n - 1 : q[i + 1] \in CallsOn(r, q, i)
    BY <1>0 DEF Beyond
  <2>2. ~ \E i \in 2 .. n : q[i] = c
    <3>1. SUFFICES ASSUME \E i \in 2 .. n : q[i] = c PROVE FALSE
      OBVIOUS
    <3>2. PICK m \in 1 .. MaxDepth : \E p \in Paths(c, r, m) : c \in Calls(c, r, p[m])
      BY <2>1, <3>1, FirstReturn
    <3>3. PICK p \in Paths(c, r, m) : c \in Calls(c, r, p[m])
      BY <3>2
    <3>4. p[1] = c /\ \A i \in 1 .. m : p[i] # c
      BY <1>2, <3>3 DEF checkRootChainCalls, Paths
    <3> QED BY <1>0, <3>4
  <2>3. \A i \in 1 .. n : CallsOn(r, q, i) = Calls(c, r, q[i])
    BY <2>1, <2>2, SameCalls
  <2>4. q \in Paths(c, r, n)
    BY <2>1, <2>3 DEF Paths
  <2>5. t \in Calls(c, r, q[n])
    BY <2>3
  <2> QED BY <1>2, <2>4, <2>5 DEF checkRootChainCalls, Good
<1>3. AllGood(r, <<c>>, 1) => checkRootChainCalls(c, r)
  <2> SUFFICES ASSUME AllGood(r, <<c>>, 1), NEW n \in 1 .. MaxDepth, NEW q \in Paths(c, r, n),
                      NEW t \in Calls(c, r, q[n])
               PROVE  (\A i \in 1 .. n : q[i] # t) /\ n < MaxDepth /\ Found(t)
    BY DEF checkRootChainCalls
  <2> QED BY <1>1 DEF Good
<1>4. checkRootChainCalls(c, r) => AllGood(r, <<c>>, 1)
  BY <1>2 DEF AllGood
<1> QED BY <1>3, <1>4

LEMMA WalkMatched == TypeOK => WalkMatches
<1> SUFFICES ASSUME TypeOK, NEW c \in Chain, NEW r \in Release
             PROVE  checkRootChainCalls(c, r) <=> walkRootChainCalls(r)[<<c>>]
  BY DEF WalkMatches
<1>1. <<c>> \in [1 .. 1 -> Chain] /\ 1 \in 1 .. MaxDepth
  <2>1. <<c>> \in Seq(Chain) /\ Len(<<c>>) = 1
    OBVIOUS
  <2>2. \A p \in Seq(Chain) : Len(p) = 1 => p \in [1 .. 1 -> Chain]
    BY LenProperties
  <2> QED BY <2>1, <2>2
<1>2. walkRootChainCalls(r)[<<c>>] <=> AllGood(r, <<c>>, 1)
  BY <1>1, WalkIsAllGood
<1> QED BY <1>2, CheckIsAllGood

-----------------------------------------------------------------------------
(* The invariant. *)

LEMMA InductiveInit == Init => IInv
<1> SUFFICES ASSUME Init PROVE IInv
  OBVIOUS
<1>1. TypeOK
  BY DEF Init, TypeOK
<1>5. OnlineIsPast
  BY DEF Init, OnlineIsPast
<1>6. Idle
  BY DEF Init, Idle
<1>2. Alone /\ Checked /\ TargetsChecked /\ TargetsOnline
  BY DEF Init, Alone, Checked, TargetsChecked, TargetsOnline
<1>3. Acyclic
  BY DEF Init, Acyclic, OnlineCalls
<1>4. AsOnline /\ RunsAsChecked
  BY DEF Init, AsOnline, RunsAsChecked
<1> QED BY <1>1, <1>2, <1>3, <1>4, <1>5, <1>6 DEF IInv

(* A step that leaves the releases alone keeps what concerns them. *)
LEMMA ReleasesKept ==
  ASSUME IInv, UNCHANGED releaseVars
  PROVE  OnlineIsPast' /\ Idle' /\ Alone' /\ Checked' /\ TargetsChecked' /\ TargetsOnline' /\ Acyclic'
<1> USE DEF IInv, releaseVars, deleteVars
<1>0. \A t : Found(t)' <=> Found(t)
  BY DEF Found
<1>6. Idle'
  BY DEF Idle
<1>1. Alone'
  BY DEF Alone
<1>2. Checked'
  BY <1>0, CheckKept DEF Checked
<1>3. TargetsChecked' /\ TargetsOnline'
  BY <1>0 DEF TargetsChecked, TargetsOnline, CallsOf
<1>4. Acyclic'
  BY DEF Acyclic, OnlineCalls, CallsOf
<1>5. OnlineIsPast'
  BY DEF OnlineIsPast
<1> QED BY <1>1, <1>2, <1>3, <1>4, <1>5, <1>6

(* One that also keeps the invocation, or makes it less than calm. *)
LEMMA RunKept ==
  ASSUME IInv, UNCHANGED <<online, sub, stack, refused>>,
         drift \subseteq drift', calm' => calm
  PROVE  AsOnline' /\ RunsAsChecked'
BY DEF IInv, AsOnline, RunsAsChecked, OnlineCalls, CallsOf

LEMMA RunDisturbed ==
  ASSUME ~ calm'
  PROVE  AsOnline' /\ RunsAsChecked'
BY DEF AsOnline, RunsAsChecked

-----------------------------------------------------------------------------
(* Changes of the calls. *)

LEMMA CheckPreserves ==
  ASSUME IInv, NEW c \in Chain, NEW r \in Release, Check(c, r)
  PROVE  IInv'
<1> USE DEF IInv
<1>1. TypeOK'
  BY DEF Check, Begin, TypeOK, Drift, runVars, deleteVars
<1>2. /\ drift \subseteq drift'
      /\ UNCHANGED <<online, past, sub, deleteVars, runVars, calm>>
      /\ \A t : Found(t)' <=> Found(t)
  BY DEF Check, Drift, Found, deleteVars
<1>3. Alone' /\ Checked'
  <2> SUFFICES ASSUME drift' = {} PROVE Alone' /\ Checked'
    BY DEF Alone, Checked
  <2>1. drift = {} /\ \A d \in Chain : publishing[d] = NoRelease
    BY DEF Check, Drift
  <2>2. \A d \in Chain : publishing'[d] # NoRelease => d = c /\ publishing'[d] = r
    BY <2>1 DEF Check, TypeOK
  <2>3. checkRootChainCalls(c, r)'
    BY <1>2, CheckKept DEF Check
  <2> QED BY <2>2, <2>3 DEF Alone, Checked
<1>4. TargetsChecked'
  <2>1. \A t \in CallsOf(r) : Found(t)
    BY CheckSeesTargets DEF Check
  <2>2. \A d \in Chain : publishing'[d] = IF d = c THEN r ELSE publishing[d]
    BY DEF Check, TypeOK
  <2> QED BY <1>2, <2>1, <2>2 DEF TargetsChecked, CallsOf
<1>5. TargetsOnline'
  BY <1>2 DEF TargetsOnline, CallsOf
<1>6. Acyclic'
  BY <1>2 DEF Acyclic, OnlineCalls, CallsOf
<1>7. AsOnline' /\ RunsAsChecked'
  BY <1>2, RunKept DEF runVars
<1>8. OnlineIsPast' /\ Idle'
  BY <1>2 DEF OnlineIsPast, Idle, deleteVars
<1> QED BY <1>1, <1>3, <1>4, <1>5, <1>6, <1>7, <1>8

(* A release of c goes online: what was found still is. *)
LEMMA OnlineStays ==
  ASSUME TypeOK, NEW c \in Chain, NEW r \in Release,
         online' = [online EXCEPT ![c] = r], UNCHANGED rows
  PROVE  \A t \in Chain : Found(t) => Found(t)'
BY DEF TypeOK, Found

LEMMA ActivatePreserves ==
  ASSUME IInv, NEW c \in Chain, Activate(c)
  PROVE  IInv'
<1> USE DEF IInv
<1> DEFINE r == publishing[c]
<1>0. r \in Release /\ r # NoRelease
  BY DEF Activate, TypeOK
<1>1. TypeOK'
  BY <1>0 DEF Activate, Store, Drift, TypeOK, runVars
<1>2. UNCHANGED <<sub, rows, closing>> /\ drift \subseteq drift' /\ ~ calm'
  BY DEF Activate, Store, Drift
<1>3. Alone' /\ Checked'
  <2> SUFFICES ASSUME drift' = {} PROVE Alone' /\ Checked'
    BY DEF Alone, Checked
  <2>1. \A d \in Chain : publishing'[d] = NoRelease
    BY <1>0, <1>2 DEF Activate, Alone, TypeOK
  <2> QED BY <2>1 DEF Alone, Checked
<1>4. \A t \in Chain : Found(t) => Found(t)'
  BY <1>0, <1>2, OnlineStays DEF Activate
<1>5. ASSUME NEW d \in Chain
      PROVE  /\ publishing'[d] # NoRelease => publishing'[d] = publishing[d]
             /\ past'[d] \subseteq past[d] \cup (IF d = c THEN {r} ELSE {})
  BY DEF Activate, Store, TypeOK
<1>6. TargetsChecked'
  <2> SUFFICES ASSUME drift' \cap {"edit", "race"} = {}, NEW d \in Chain, publishing'[d] # NoRelease,
                      NEW t \in CallsOf(publishing[d])'
               PROVE  Found(t)'
    BY DEF TargetsChecked
  <2>1. publishing'[d] = publishing[d] /\ publishing[d] \in Release
    BY <1>5 DEF TypeOK
  <2>2. t \in CallsOf(publishing[d])
    BY <1>2, <2>1 DEF CallsOf
  <2>3. t \in Chain
    BY <2>1, <2>2, CallsOfType
  <2> QED BY <1>2, <1>4, <2>1, <2>2, <2>3 DEF TargetsChecked
<1>7. TargetsOnline'
  <2> SUFFICES ASSUME drift' \cap {"edit", "race"} = {}, NEW d \in Chain, NEW s \in past'[d],
                      NEW t \in CallsOf(s)'
               PROVE  Found(t)'
    BY DEF TargetsOnline
  <2>1. s \in Release
    BY <1>1 DEF TypeOK
  <2>2. t \in CallsOf(s)
    BY <1>2 DEF CallsOf
  <2>3. t \in Chain
    BY <2>1, <2>2, CallsOfType
  <2>4. Found(t)
    <3>1. CASE s \in past[d]
      BY <1>2, <2>2, <3>1 DEF TargetsOnline
    <3>2. CASE s = r
      BY <1>0, <1>2, <2>2, <3>2 DEF TargetsChecked
    <3> QED BY <1>5, <3>1, <3>2
  <2> QED BY <1>4, <2>3, <2>4
<1>8. Acyclic'
  <2> SUFFICES ASSUME drift' = {}, NEW S \in SUBSET Chain, S # {},
                      \A d \in S : OnlineCalls(d)' \cap S # {}
               PROVE  FALSE
    BY DEF Acyclic
  <2>1. \A d \in Chain : OnlineCalls(d)' = Calls(c, r, d)
    BY <1>0, <1>2 DEF Activate, TypeOK, OnlineCalls, Calls, CallsOf
  <2>2. CASE c \in S
    <3>1. checkRootChainCalls(c, r)
      BY <1>0, <1>2 DEF Checked
    <3> HIDE DEF r
    <3> QED BY <2>1, <2>2, <3>1, NoCircleThrough
  <2>3. CASE c \notin S
    <3>1. \A d \in S : OnlineCalls(d)' = OnlineCalls(d)
      BY <2>1, <2>3 DEF Calls, OnlineCalls
    <3> QED BY <1>2, <3>1 DEF Acyclic
  <2> QED BY <2>2, <2>3
<1>9. AsOnline' /\ RunsAsChecked'
  BY <1>2, RunDisturbed
<1>10. OnlineIsPast'
  <2>1. ASSUME NEW d \in Chain, d # c PROVE /\ online'[d] = online[d] /\ past'[d] = past[d]
                                               /\ deleted'[d] = deleted[d]
    BY <2>1 DEF Activate, Store, TypeOK
  <2>2. online'[c] = r /\ r \in past'[c] \ deleted'[c]
    BY DEF Activate, Store, TypeOK
  <2> QED BY <2>1, <2>2 DEF OnlineIsPast
<1>11. Idle'
  <2> SUFFICES ASSUME "race" \notin drift', NEW d \in Chain
               PROVE  /\ deleting'[d] # NoRelease => deleting'[d] # online'[d]
                      /\ d \in closing' => online'[d] = NoRelease
    BY DEF Idle
  <2>1. CASE d = c
    <3>1. c \notin closing
      BY DEF Activate, Drift
    <3>2. online'[c] = r /\ deleting'[c] = IF deleting[c] = r THEN NoRelease ELSE deleting[c]
      BY DEF Activate, Store, TypeOK
    <3> QED BY <1>0, <1>2, <2>1, <3>1, <3>2
  <2>2. CASE d # c
    <3>1. online'[d] = online[d] /\ deleting'[d] = deleting[d]
      BY <2>2 DEF Activate, Store, TypeOK
    <3> QED BY <1>2, <3>1 DEF Idle
  <2> QED BY <2>1, <2>2
<1> QED BY <1>1, <1>3, <1>6, <1>7, <1>8, <1>9, <1>10, <1>11

LEMMA GiveUpPreserves ==
  ASSUME IInv, NEW c \in Chain, GiveUp(c)
  PROVE  IInv'
<1> USE DEF IInv
<1>0. publishing[c] \in Release /\ publishing[c] # NoRelease
  BY DEF GiveUp, TypeOK
<1>1. TypeOK'
  BY <1>0 DEF GiveUp, Store, TypeOK, runVars, deleteVars
<1>2. \A d \in Chain : publishing'[d] # NoRelease => publishing'[d] = publishing[d]
  BY DEF GiveUp, TypeOK
<1>3. UNCHANGED <<online, rows, closing, sub, drift, runVars, calm>>
  BY DEF GiveUp, Store, deleteVars
<1>4. \A t : Found(t)' <=> Found(t)
  BY <1>3 DEF Found
<1>5. ASSUME NEW d \in Chain
      PROVE  /\ past[d] \subseteq past'[d]
             /\ past'[d] \subseteq past[d] \cup (IF d = c THEN {publishing[c]} ELSE {})
             /\ deleted'[d] \subseteq deleted[d]
             /\ deleting'[d] \in {deleting[d], NoRelease}
  BY DEF GiveUp, Store, TypeOK, deleteVars
<1>6. Alone'
  BY <1>2, <1>3 DEF Alone
<1>7. Checked'
  BY <1>2, <1>3, <1>4, CheckKept DEF Checked
<1>8. TargetsChecked'
  BY <1>2, <1>3, <1>4 DEF TargetsChecked, CallsOf
<1>9. TargetsOnline'
  <2> SUFFICES ASSUME drift' \cap {"edit", "race"} = {}, NEW d \in Chain, NEW s \in past'[d],
                      NEW t \in CallsOf(s)'
               PROVE  Found(t)'
    BY DEF TargetsOnline
  <2>1. t \in CallsOf(s)
    BY <1>3 DEF CallsOf
  <2>2. CASE s \in past[d]
    BY <1>3, <1>4, <2>1, <2>2 DEF TargetsOnline
  <2>3. CASE s = publishing[c]
    BY <1>0, <1>3, <1>4, <2>1, <2>3 DEF TargetsChecked
  <2> QED BY <1>5, <2>2, <2>3
<1>10. Acyclic'
  BY <1>3 DEF Acyclic, OnlineCalls, CallsOf
<1>11. AsOnline' /\ RunsAsChecked'
  BY <1>3, RunKept DEF runVars
<1>12. OnlineIsPast' /\ Idle'
  BY <1>3, <1>5 DEF OnlineIsPast, Idle
<1> QED BY <1>1, <1>6, <1>7, <1>8, <1>9, <1>10, <1>11, <1>12

LEMMA RollbackPreserves ==
  ASSUME IInv, NEW c \in Chain, NEW r \in past[c], Rollback(c, r)
  PROVE  IInv'
<1> USE DEF IInv
<1>0. r \in Release
  BY DEF TypeOK
<1>1. TypeOK'
  BY <1>0 DEF Rollback, Race, TypeOK, Drift, runVars, deleteVars
<1>2. /\ drift' # {} /\ drift \subseteq drift' /\ ~ calm'
      /\ UNCHANGED <<rows, deleted, deleting, closing, past, sub, publishing>>
      /\ r \notin deleted[c]
  BY DEF Rollback, Drift, deleteVars
<1>4. \A t \in Chain : Found(t) => Found(t)'
  BY <1>0, <1>2, OnlineStays DEF Rollback
<1>5. \A s \in Release : CallsOf(s)' = CallsOf(s) /\ CallsOf(s) \subseteq Chain
  BY <1>2, CallsOfType DEF CallsOf
<1>6. TargetsChecked'
  BY <1>2, <1>4, <1>5 DEF TargetsChecked, TypeOK
<1>7. TargetsOnline'
  BY <1>2, <1>4, <1>5 DEF TargetsOnline, TypeOK
<1>8. Alone' /\ Checked' /\ Acyclic'
  BY <1>2 DEF Alone, Checked, Acyclic
<1>9. AsOnline' /\ RunsAsChecked'
  BY <1>2, RunDisturbed
<1>10. \A d \in Chain : online'[d] = IF d = c THEN r ELSE online[d]
  BY DEF Rollback, TypeOK
<1>11. OnlineIsPast'
  BY <1>2, <1>10 DEF OnlineIsPast
<1>12. Idle'
  <2> SUFFICES ASSUME "race" \notin drift' PROVE Idle'
    BY DEF Idle
  <2>1. c \notin closing /\ deleting[c] # r
    BY DEF Rollback, Race, Drift
  <2> QED BY <1>2, <1>10, <2>1 DEF Idle
<1> QED BY <1>1, <1>6, <1>7, <1>8, <1>9, <1>11, <1>12

LEMMA EditPreserves ==
  ASSUME IInv, NEW calls \in SUBSET Chain, EditSubChain(calls)
  PROVE  IInv'
<1> USE DEF IInv
<1>1. TypeOK'
  BY DEF EditSubChain, TypeOK, Drift, runVars, deleteVars
<1>2. "edit" \in drift' /\ ~ calm'
  BY DEF EditSubChain, Drift
<1>3. Alone' /\ Checked' /\ Acyclic' /\ TargetsChecked' /\ TargetsOnline'
  BY <1>2 DEF Alone, Checked, Acyclic, TargetsChecked, TargetsOnline
<1>4. AsOnline' /\ RunsAsChecked'
  BY <1>2, RunDisturbed
<1>5. OnlineIsPast' /\ Idle'
  BY DEF EditSubChain, Drift, OnlineIsPast, Idle, deleteVars
<1> QED BY <1>1, <1>3, <1>4, <1>5

-----------------------------------------------------------------------------
(* Deletions.                                                              *)

(* Of a step that leaves what is found as it is, and brings nothing        *)
(* online, only its types and what it deletes are left to be shown.        *)
LEMMA NothingLost ==
  ASSUME IInv, UNCHANGED <<drift, deleteFrame>>,
         "race" \notin drift => online' = online /\ \A t : Found(t)' <=> Found(t)
  PROVE  /\ Alone' /\ Checked' /\ TargetsChecked' /\ TargetsOnline' /\ Acyclic'
         /\ AsOnline' /\ RunsAsChecked'
<1> USE DEF IInv
<1>1. CASE "race" \in drift
  BY <1>1 DEF Alone, Checked, TargetsChecked, TargetsOnline, Acyclic, AsOnline, RunsAsChecked
<1>2. CASE "race" \notin drift
  <2>1. online' = online /\ (\A t : Found(t)' <=> Found(t))
    BY <1>2
  <2>2. UNCHANGED <<drift, past, sub, publishing, stack, refused, calm>>
    BY DEF deleteFrame, runVars
  <2>3. Alone'
    BY <2>2 DEF Alone
  <2>4. Checked'
    BY <2>1, <2>2, CheckKept DEF Checked
  <2>5. TargetsChecked' /\ TargetsOnline'
    BY <2>1, <2>2 DEF TargetsChecked, TargetsOnline, CallsOf
  <2>6. Acyclic'
    BY <2>1, <2>2 DEF Acyclic, OnlineCalls, CallsOf
  <2>7. AsOnline' /\ RunsAsChecked'
    BY <2>1, <2>2, RunKept
  <2> QED BY <2>3, <2>4, <2>5, <2>6, <2>7
<1> QED BY <1>1, <1>2

(* The checks of deletions, and deletions that fail. *)
LEMMA DeleteChecksPreserve ==
  ASSUME IInv, NEW c \in Chain,
         (\E r \in past[c] : DeleteCheck(c, r)) \/ DeleteChainCheck(c) \/ DeletionFails(c)
  PROVE  IInv'
<1> USE DEF IInv
<1>1. UNCHANGED <<online, drift, rows, deleteFrame>>
  BY DEF DeleteCheck, DeleteChainCheck, DeletionFails
<1>2. TypeOK'
  <2>1. CASE \E r \in past[c] : DeleteCheck(c, r)
    BY <2>1 DEF DeleteCheck, Begin, TypeOK, deleteFrame, runVars
  <2>2. CASE DeleteChainCheck(c)
    BY <2>2 DEF DeleteChainCheck, Begin, TypeOK, deleteFrame, runVars
  <2>3. CASE DeletionFails(c)
    BY <2>3 DEF DeletionFails, TypeOK, deleteFrame, runVars
  <2> QED BY <2>1, <2>2, <2>3
<1>3. \A t : Found(t)' <=> Found(t)
  BY <1>1 DEF Found
<1>4. /\ Alone' /\ Checked' /\ TargetsChecked' /\ TargetsOnline' /\ Acyclic'
      /\ AsOnline' /\ RunsAsChecked'
  BY <1>1, <1>3, NothingLost
<1>5. OnlineIsPast'
  <2>1. UNCHANGED deleted
    BY DEF DeleteCheck, DeleteChainCheck, DeletionFails
  <2> QED BY <1>1, <2>1 DEF OnlineIsPast, deleteFrame
<1>6. Idle'
  <2> SUFFICES ASSUME "race" \notin drift, NEW d \in Chain
               PROVE  /\ deleting'[d] # NoRelease => deleting'[d] # online[d]
                      /\ d \in closing' => online[d] = NoRelease
    BY <1>1 DEF Idle
  <2>1. ASSUME NEW r \in past[c], DeleteCheck(c, r)
        PROVE  deleting'[d] \in {deleting[d], NoRelease} \/ deleting'[d] # online[d]
    BY <2>1 DEF DeleteCheck, TypeOK
  <2>2. ASSUME DeleteChainCheck(c) \/ DeletionFails(c)
        PROVE  deleting'[d] \in {deleting[d], NoRelease}
    BY <2>2 DEF DeleteChainCheck, DeletionFails, TypeOK
  <2>3. ASSUME DeleteChainCheck(c), d = c
        PROVE  online[d] = NoRelease
    <3>1. past[c] = deleted[c]
      BY <2>3 DEF DeleteChainCheck
    <3> QED BY <2>3, <3>1 DEF OnlineIsPast
  <2>4. d \in closing' => d \in closing \/ (DeleteChainCheck(c) /\ d = c)
    BY DEF DeleteCheck, DeleteChainCheck, DeletionFails
  <2> QED BY <2>1, <2>2, <2>3, <2>4 DEF Idle
<1> QED BY <1>2, <1>4, <1>5, <1>6

LEMMA DeleteReleasePreserves ==
  ASSUME IInv, NEW c \in Chain, DeleteRelease(c)
  PROVE  IInv'
<1> USE DEF IInv
<1>1. TypeOK'
  BY DEF DeleteRelease, TypeOK, deleteFrame, runVars
<1>2. UNCHANGED <<drift, rows, closing, deleteFrame>>
  BY DEF DeleteRelease
<1>3. \A d \in Chain : /\ online'[d] \in {online[d], NoRelease}
                       /\ deleting'[d] \in {deleting[d], NoRelease}
  BY DEF DeleteRelease, TypeOK
<1>4. ASSUME "race" \notin drift PROVE online' = online
  <2>1. online[c] # deleting[c]
    BY <1>4 DEF DeleteRelease, Idle
  <2> QED BY <2>1 DEF DeleteRelease, TypeOK
<1>5. ASSUME "race" \notin drift PROVE \A t : Found(t)' <=> Found(t)
  BY <1>2, <1>4, <1>5 DEF Found
<1>6. /\ Alone' /\ Checked' /\ TargetsChecked' /\ TargetsOnline' /\ Acyclic'
      /\ AsOnline' /\ RunsAsChecked'
  BY <1>2, <1>4, <1>5, NothingLost
<1>7. OnlineIsPast'
  <2>1. \A d \in Chain : deleted'[d] = IF d = c THEN deleted[d] \cup {deleting[d]} ELSE deleted[d]
    BY DEF DeleteRelease, TypeOK
  <2>2. online'[c] # deleting[c]
    BY DEF DeleteRelease, TypeOK
  <2> QED BY <1>2, <1>3, <2>1, <2>2 DEF OnlineIsPast, deleteFrame
<1>8. Idle'
  BY <1>2, <1>3 DEF Idle
<1> QED BY <1>1, <1>6, <1>7, <1>8

LEMMA DeleteRootChainPreserves ==
  ASSUME IInv, NEW c \in Chain, DeleteRootChain(c)
  PROVE  IInv'
<1> USE DEF IInv
<1>1. TypeOK'
  BY DEF DeleteRootChain, TypeOK, deleteFrame, runVars
<1>2. UNCHANGED <<drift, online, deleted, deleting, deleteFrame>> /\ closing' \subseteq closing
  BY DEF DeleteRootChain
<1>3. ASSUME "race" \notin drift PROVE \A t : Found(t)' <=> Found(t)
  <2>1. online[c] = NoRelease
    BY <1>3 DEF DeleteRootChain, Idle
  <2> QED BY <1>2, <2>1 DEF DeleteRootChain, Found
<1>4. /\ Alone' /\ Checked' /\ TargetsChecked' /\ TargetsOnline' /\ Acyclic'
      /\ AsOnline' /\ RunsAsChecked'
  BY <1>2, <1>3, NothingLost
<1>5. OnlineIsPast' /\ Idle'
  BY <1>2 DEF OnlineIsPast, Idle, deleteFrame
<1> QED BY <1>1, <1>4, <1>5

-----------------------------------------------------------------------------
(* The invocation. *)

LEMMA StackChains ==
  ASSUME TypeOK
  PROVE  \A i \in 1 .. Len(stack) : stack[i].chain \in Chain
<1>1. stack \in Seq(Frame)
  BY DEF TypeOK
<1>2. \A i \in 1 .. Len(stack) : stack[i] \in Frame
  BY <1>1
<1> QED BY <1>2 DEF Frame

LEMMA InvokePreserves ==
  ASSUME IInv, NEW c \in Chain, NEW r \in past[c], Invoke(c, r)
  PROVE  IInv'
<1> USE DEF IInv
<1>0. r \in Release /\ CallsOf(r) \subseteq Chain
  BY CallsOfType DEF TypeOK
<1>1. stack' = <<[chain |-> c, left |-> CallsOf(r)]>> /\ (calm' <=> r = online[c])
  <2>1. stack' = Append(<<>>, [chain |-> c, left |-> CallsOf(r)])
    BY DEF Invoke, Enter
  <2>2. calm' <=> r = online[c]
    BY DEF Invoke, Enter
  <2> HIDE DEF IInv
  <2> QED BY <2>1, <2>2
<1>2. UNCHANGED releaseVars /\ refused' = "no" /\ calm' \in BOOLEAN
  BY DEF Invoke, Enter
<1>3. TypeOK'
  <2>1. stack' \in Seq(Frame)
    BY <1>0, <1>1 DEF Frame
  <2> QED BY <1>2, <2>1 DEF TypeOK, releaseVars, deleteVars
<1>4. AsOnline'
  <2> SUFFICES ASSUME drift' = {}, calm', NEW i \in 1 .. Len(stack')
               PROVE  /\ online'[stack'[i].chain] # NoRelease
                      /\ stack'[i].left \subseteq OnlineCalls(stack[i].chain)'
                      /\ i > 1 => stack'[i].chain \in OnlineCalls(stack[i - 1].chain)'
    BY DEF AsOnline
  <2>1. i = 1 /\ stack'[1] = [chain |-> c, left |-> CallsOf(r)]
    BY <1>1
  <2>2. online'[c] = r /\ r # NoRelease /\ OnlineCalls(c)' = CallsOf(r)
    BY <1>0, <1>1, <1>2 DEF releaseVars, OnlineCalls, CallsOf
  <2> QED BY <2>1, <2>2
<1>5. RunsAsChecked'
  BY <1>2 DEF RunsAsChecked
<1> QED BY <1>2, <1>3, <1>4, <1>5, ReleasesKept

(* The call that is made leaves the stack as it was, less the call. *)
LEMMA ReachedStack ==
  ASSUME TypeOK, NEW t \in Chain, CanCall(t)
  PROVE  /\ Reached(t) \in Seq(Frame)
         /\ Len(Reached(t)) = Len(stack) /\ Len(stack) \in Nat \ {0}
         /\ \A i \in 1 .. Len(stack) :
              /\ Reached(t)[i].chain = stack[i].chain
              /\ Reached(t)[i].left \subseteq stack[i].left
<1>1. stack \in Seq(Frame) /\ Len(stack) \in Nat \ {0}
  BY DEF TypeOK, CanCall
<1>2. stack[Len(stack)] \in Frame
  BY <1>1
<1>3. \A i \in 1 .. Len(stack) :
        Reached(t)[i] = IF i = Len(stack)
                        THEN [stack[i] EXCEPT !.left = @ \ {t}] ELSE stack[i]
  <2>1. DOMAIN stack = 1 .. Len(stack)
    BY <1>1
  <2> QED BY <1>1, <2>1 DEF Reached
<1>4. Reached(t) \in Seq(Frame) /\ Len(Reached(t)) = Len(stack)
  BY <1>1, <1>2 DEF Reached, Frame
<1>5. \A i \in 1 .. Len(stack) : stack[i] \in Frame
  BY <1>1
<1> QED BY <1>1, <1>3, <1>4, <1>5 DEF Frame

LEMMA CallPreserves ==
  ASSUME IInv, NEW t \in Chain, NEW r \in past[t], Call(t, r)
  PROVE  IInv'
<1> USE DEF IInv
<1> DEFINE n == Len(stack)
           below == Reached(t)
           frame == [chain |-> t, left |-> CallsOf(r)]
<1>0. r \in Release /\ frame \in Frame
  BY CallsOfType DEF TypeOK, Frame
<1>1. stack' = Append(below, frame) /\ (calm' <=> calm /\ r = online[t])
  BY DEF Call, Enter
<1>2. UNCHANGED releaseVars /\ UNCHANGED refused /\ CanCall(t)
  BY DEF Call
<1>3. /\ below \in Seq(Frame) /\ Len(below) = n /\ n \in Nat \ {0}
      /\ \A i \in 1 .. n : below[i].chain = stack[i].chain /\ below[i].left \subseteq stack[i].left
  BY <1>2, ReachedStack
<1>4. /\ stack' \in Seq(Frame) /\ Len(stack') = n + 1 /\ stack'[n + 1] = frame
      /\ \A i \in 1 .. n : stack'[i] = below[i]
  <2> HIDE DEF below, frame, n
  <2> QED BY <1>0, <1>1, <1>3
<1>5. TypeOK'
  BY <1>1, <1>2, <1>4 DEF TypeOK, releaseVars, deleteVars
<1>6. AsOnline'
  <2> SUFFICES ASSUME drift' = {}, calm', NEW i \in 1 .. Len(stack')
               PROVE  /\ online'[stack'[i].chain] # NoRelease
                      /\ stack'[i].left \subseteq OnlineCalls(stack[i].chain)'
                      /\ i > 1 => stack'[i].chain \in OnlineCalls(stack[i - 1].chain)'
    BY DEF AsOnline
  <2>1. \A c \in Chain : OnlineCalls(c)' = OnlineCalls(c)
    BY <1>2 DEF OnlineCalls, CallsOf, releaseVars
  <2>2. drift = {} /\ calm /\ online' = online /\ online[t] = r
    BY <1>1, <1>2 DEF releaseVars
  <2>3. CASE i = n + 1
    <3>1. stack'[i].chain = t /\ stack'[i].left = CallsOf(r)
      BY <1>4, <2>3
    <3>2. online[t] # NoRelease /\ OnlineCalls(t) = CallsOf(r)
      BY <1>0, <2>2 DEF OnlineCalls
    <3>3. i - 1 = n /\ n \in 1 .. n /\ stack'[n].chain = stack[n].chain
      BY <1>3, <1>4, <2>3
    <3>4. t \in OnlineCalls(stack[n].chain)
      BY <1>2, <2>2, <3>3 DEF AsOnline, CanCall, Top
    <3>5. stack'[n].chain \in Chain
      BY <3>3, StackChains
    <3> QED BY <2>1, <2>2, <3>1, <3>2, <3>3, <3>4, <3>5
  <2>4. CASE i # n + 1
    <3>1. i \in 1 .. n /\ (i > 1 => i - 1 \in 1 .. n)
      BY <1>3, <1>4, <2>4
    <3>2. \A j \in 1 .. n : stack'[j].chain = stack[j].chain /\ stack'[j].left \subseteq stack[j].left
      BY <1>3, <1>4
    <3>3. \A j \in 1 .. n : stack[j].chain \in Chain
      BY StackChains
    <3> QED BY <2>1, <2>2, <3>1, <3>2, <3>3 DEF AsOnline
  <2> QED BY <2>3, <2>4
<1>7. RunsAsChecked'
  BY <1>1, <1>2 DEF RunsAsChecked, releaseVars
<1> QED BY <1>2, <1>5, <1>6, <1>7, ReleasesKept

(* In a calm invocation no call is one back into the path. *)
LEMMA NoRecursion ==
  ASSUME IInv, drift = {}, calm, NEW t \in Chain, CanCall(t)
  PROVE  ~ OnPath(t) /\ Found(t)
<1> USE DEF IInv
<1> DEFINE n == Len(stack)
<1>1. stack \in Seq(Frame) /\ n \in Nat \ {0} /\ n \in 1 .. n
  BY DEF TypeOK, CanCall
<1>2. t \in OnlineCalls(stack[n].chain) /\ stack[n].chain \in Chain
  <2>1. t \in stack[n].left /\ stack[n] \in Frame
    BY <1>1 DEF CanCall, Top
  <2>2. stack[n].left \subseteq OnlineCalls(stack[n].chain)
    BY <1>1 DEF AsOnline
  <2> QED BY <2>1, <2>2 DEF Frame
<1>3. Found(t)
  <2>1. online[stack[n].chain] # NoRelease /\ online[stack[n].chain] \in Release
    BY <1>1, <1>2 DEF AsOnline, TypeOK
  <2>2. t \in CallsOf(online[stack[n].chain])
    BY <1>2, <2>1 DEF OnlineCalls
  <2> QED BY <1>2, <2>1, <2>2 DEF OnlineIsPast, TargetsOnline
<1>4. ASSUME NEW j \in 1 .. n, stack[j].chain = t
      PROVE  FALSE
  <2> DEFINE S == {stack[i].chain : i \in j .. n}
  <2>1. S \in SUBSET Chain /\ S # {}
    <3>1. \A i \in j .. n : stack[i].chain \in Chain
      BY StackChains
    <3>2. stack[j].chain \in S
      BY <1>1
    <3> QED BY <3>1, <3>2
  <2>2. ASSUME NEW d \in S PROVE OnlineCalls(d) \cap S # {}
    <3>1. PICK i \in j .. n : d = stack[i].chain
      OBVIOUS
    <3>2. CASE i = n
      BY <1>1, <1>2, <1>4, <3>1, <3>2
    <3>3. CASE i # n
      <4>1. i + 1 \in j .. n /\ i + 1 \in 1 .. n /\ i + 1 > 1 /\ (i + 1) - 1 = i
        BY <1>1, <3>1, <3>3
      <4>2. stack[i + 1].chain \in OnlineCalls(stack[i].chain)
        BY <4>1 DEF AsOnline
      <4> QED BY <3>1, <4>1, <4>2
    <3> QED BY <3>2, <3>3
  <2> HIDE DEF S
  <2> QED BY <2>1, <2>2 DEF Acyclic
<1> QED BY <1>3, <1>4 DEF OnPath

(* What has fewer calls left, or fewer chains, still goes along the online. *)
LEMMA AsOnlineKept ==
  ASSUME IInv, UNCHANGED <<releaseVars, calm>>,
         Len(stack) \in Nat, Len(stack') \in Nat, Len(stack') <= Len(stack),
         \A i \in 1 .. Len(stack') :
           stack'[i].chain = stack[i].chain /\ stack'[i].left \subseteq stack[i].left
  PROVE  AsOnline'
<1> USE DEF IInv
<1> SUFFICES ASSUME drift' = {}, calm', NEW i \in 1 .. Len(stack')
             PROVE  /\ online'[stack'[i].chain] # NoRelease
                    /\ stack'[i].left \subseteq OnlineCalls(stack[i].chain)'
                    /\ i > 1 => stack'[i].chain \in OnlineCalls(stack[i - 1].chain)'
  BY DEF AsOnline
<1>1. \A c \in Chain : OnlineCalls(c)' = OnlineCalls(c)
  BY DEF OnlineCalls, CallsOf, releaseVars
<1>2. i \in 1 .. Len(stack) /\ stack[i].chain \in Chain /\ online' = online
  BY StackChains DEF releaseVars
<1>3. online[stack[i].chain] # NoRelease /\ stack[i].left \subseteq OnlineCalls(stack[i].chain)
  BY <1>2 DEF AsOnline, releaseVars
<1>4. ASSUME i > 1
      PROVE  stack'[i].chain \in OnlineCalls(stack[i - 1].chain)'
  <2>1. i - 1 \in 1 .. Len(stack') /\ i - 1 \in 1 .. Len(stack)
    BY <1>4
  <2>2. stack[i - 1].chain \in Chain /\ stack'[i - 1].chain = stack[i - 1].chain
    BY <2>1, StackChains
  <2>3. stack[i].chain \in OnlineCalls(stack[i - 1].chain)
    BY <1>2, <1>4 DEF AsOnline, releaseVars
  <2> QED BY <1>1, <2>2, <2>3
<1> QED BY <1>1, <1>2, <1>3, <1>4

LEMMA RefusePreserves ==
  ASSUME IInv, NEW t \in Chain, Refuse(t)
  PROVE  IInv'
<1> USE DEF IInv
<1>1. UNCHANGED <<releaseVars, calm>> /\ stack' = Reached(t) /\ CanCall(t) /\ refused' = Refusal(t)
  BY DEF Refuse
<1>2. /\ stack' \in Seq(Frame) /\ Len(stack') = Len(stack) /\ Len(stack) \in Nat \ {0}
      /\ \A i \in 1 .. Len(stack) :
           stack'[i].chain = stack[i].chain /\ stack'[i].left \subseteq stack[i].left
  BY <1>1, ReachedStack
<1>3. TypeOK'
  BY <1>1, <1>2 DEF TypeOK, releaseVars, deleteVars, Refusal
<1>4. AsOnline'
  BY <1>1, <1>2, AsOnlineKept
<1>5. RunsAsChecked'
  <2>1. CASE drift = {} /\ calm
    <3>1. Refusal(t) = "depth"
      BY <1>1, <2>1, NoRecursion DEF Refuse, Refusal
    <3> QED BY <1>1, <3>1 DEF RunsAsChecked
  <2>2. CASE ~ (drift = {} /\ calm)
    BY <1>1, <2>2 DEF RunsAsChecked, releaseVars
  <2> QED BY <2>1, <2>2
<1> QED BY <1>1, <1>3, <1>4, <1>5, ReleasesKept

LEMMA ReturnPreserves ==
  ASSUME IInv, Return
  PROVE  IInv'
<1> USE DEF IInv
<1>1. UNCHANGED <<refused, releaseVars, calm>>
  BY DEF Return
<1>2. /\ stack' \in Seq(Frame) /\ Len(stack) \in Nat \ {0} /\ Len(stack') = Len(stack) - 1
      /\ \A i \in 1 .. Len(stack') : stack'[i] = stack[i]
  <2> DEFINE n == Len(stack)
  <2>1. stack \in Seq(Frame) /\ n \in Nat \ {0} /\ stack' = SubSeq(stack, 1, n - 1)
    BY DEF Return, TypeOK
  <2>2. \A i \in 1 .. n - 1 : stack[i] \in Frame
    BY <2>1
  <2>3. /\ SubSeq(stack, 1, n - 1) \in Seq(Frame)
        /\ Len(SubSeq(stack, 1, n - 1)) = n - 1
        /\ \A i \in 1 .. n - 1 : SubSeq(stack, 1, n - 1)[i] = stack[i]
    <3> HIDE DEF n
    <3>1. 1 \in Int /\ n - 1 \in Int /\ (n - 1) - 1 + 1 = n - 1
      BY <2>1
    <3>2. /\ SubSeq(stack, 1, n - 1) \in Seq(Frame)
          /\ Len(SubSeq(stack, 1, n - 1)) = IF 1 <= n - 1 THEN (n - 1) - 1 + 1 ELSE 0
          /\ \A i \in 1 .. (n - 1) - 1 + 1 : SubSeq(stack, 1, n - 1)[i] = stack[1 + i - 1]
      BY <2>2, <3>1, SubSeqProperties
    <3> QED BY <2>1, <3>1, <3>2
  <2> QED BY <2>1, <2>3
<1>3. TypeOK'
  BY <1>1, <1>2 DEF TypeOK, releaseVars, deleteVars
<1>4. AsOnline'
  BY <1>1, <1>2, AsOnlineKept
<1>5. RunsAsChecked'
  BY <1>1 DEF RunsAsChecked, releaseVars
<1> QED BY <1>1, <1>3, <1>4, <1>5, ReleasesKept

LEMMA InductiveNext == IInv /\ [Next]_vars => IInv'
<1> SUFFICES ASSUME IInv, [Next]_vars PROVE IInv'
  OBVIOUS
<1>1. CASE UNCHANGED vars
  <2>1. UNCHANGED releaseVars /\ UNCHANGED <<runVars, calm>>
    BY <1>1 DEF vars
  <2>2. TypeOK'
    BY <2>1 DEF IInv, TypeOK, releaseVars, deleteVars, runVars
  <2>3. AsOnline' /\ RunsAsChecked'
    BY <2>1, RunKept DEF releaseVars, runVars
  <2> QED BY <2>1, <2>2, <2>3, ReleasesKept DEF IInv
<1>2. ASSUME NEW c \in Chain, NEW r \in Release, Check(c, r) PROVE IInv'
  BY <1>2, CheckPreserves
<1>3. ASSUME NEW c \in Chain, Activate(c) \/ GiveUp(c) PROVE IInv'
  BY <1>3, ActivatePreserves, GiveUpPreserves
<1>8. ASSUME NEW c \in Chain,
             \/ (\E r \in past[c] : DeleteCheck(c, r)) \/ DeleteChainCheck(c) \/ DeletionFails(c)
             \/ DeleteRelease(c) \/ DeleteRootChain(c)
      PROVE  IInv'
  BY <1>8, DeleteChecksPreserve, DeleteReleasePreserves, DeleteRootChainPreserves
<1>4. ASSUME NEW c \in Chain, NEW r \in past[c], Rollback(c, r) \/ Invoke(c, r) \/ Call(c, r)
      PROVE  IInv'
  BY <1>4, RollbackPreserves, InvokePreserves, CallPreserves
<1>5. ASSUME NEW c \in Chain, Refuse(c) PROVE IInv'
  BY <1>5, RefusePreserves
<1>6. ASSUME NEW calls \in SUBSET Chain, EditSubChain(calls) PROVE IInv'
  BY <1>6, EditPreserves
<1>7. CASE Return
  BY <1>7, ReturnPreserves
<1> QED BY <1>1, <1>2, <1>3, <1>4, <1>5, <1>6, <1>7, <1>8 DEF Next

LEMMA Inductive == Spec => []IInv
<1> QED BY InductiveInit, InductiveNext, PTL DEF Spec

(* Every reachable state is well typed. *)
THEOREM TypeCorrect == Spec => []TypeOK
<1>1. IInv => TypeOK
  BY DEF IInv
<1> QED BY <1>1, Inductive, PTL

(* Publishes one at a time leave no circle of calls online. *)
THEOREM NoCircleOnline == Spec => []Acyclic
<1>1. IInv => Acyclic
  BY DEF IInv
<1> QED BY <1>1, Inductive, PTL

(* What releases call stays there and published, also when publishes       *)
(* overlap, releases are rolled back, and releases and chains deleted,     *)
(* unless what a deletion has checked comes online before it deletes.      *)
THEOREM TargetsStay == Spec => []TargetsOnline
<1>1. IInv => TargetsOnline
  BY DEF IInv
<1> QED BY <1>1, Inductive, PTL

(* A calm invocation is not refused for recursion or a missing target. *)
THEOREM CheckedCallsRun == Spec => []RunsAsChecked
<1>1. IInv => RunsAsChecked
  BY DEF IInv
<1> QED BY <1>1, Inductive, PTL

(* The check over paths and the recursion as it is written accept the same *)
(* releases, whatever is online (walkRootChainCalls).                      *)
THEOREM WalkIsMatched == Spec => []WalkMatches
<1> QED BY TypeCorrect, WalkMatched, PTL
=============================================================================
