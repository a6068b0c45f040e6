--------------------------- MODULE RootChainCalls ---------------------------
(***************************************************************************)
(* Root chains that call root chains (root_chain_call.go,                  *)
(* root_chain_call_node.go): the check of the calls that a publish makes,  *)
(* what changes the calls behind its back, and the guard at run time.      *)
(*                                                                         *)
(* A release is what it calls: its own nodes, and whether it refers to a   *)
(* sub chain.  A release keeps its own nodes for good, but sub chains are  *)
(* read when they are needed, by the check and by an invocation.  Versions *)
(* of a chain with the same content count as one release, which is deleted *)
(* with the last of them.                                                  *)
(***************************************************************************)
EXTENDS Naturals, Sequences, FiniteSets

CONSTANTS
  Chain,         \* root chains of a project
  MaxDepth,      \* MaxRootChainCallDepth
  MaxChanges,    \* bound: publishes and deletions
  NoRelease      \* nothing published, nothing being published

ASSUME MaxDepthAssumption == MaxDepth \in Nat \ {0}
ASSUME MaxChangesAssumption == MaxChanges \in Nat

Release == [own : SUBSET Chain, uses : BOOLEAN]

ASSUME NoReleaseAssumption == NoRelease \notin Release

VARIABLES
  rows,       \* chains that are in wf_root_chains
  online,     \* the current release of each chain
  past,       \* all releases each chain has had: a cache may still run them
  deleted,    \* those of them that are deleted
  sub,        \* the calls in the sub chain
  publishing, \* the release a publish has checked and not yet activated
  deleting,   \* the release a deletion has checked and not yet deleted
  closing,    \* chains found without a release and not yet deleted
  count,      \* publishes and deletions begun
  stack,      \* the invocation followed: chains under way, calls they have left
  refused,    \* why a call of this invocation was refused last
  drift,      \* history: what has changed calls unchecked
  calm        \* history: has nothing come online and no sub chain changed
              \* since this invocation began, and has it met the online
              \* releases only

deleteVars == <<rows, deleted, deleting, closing>>
releaseVars == <<online, past, sub, publishing, count, drift, deleteVars>>
runVars == <<stack, refused>>
vars == <<releaseVars, runVars, calm>>

Init ==
  /\ rows = Chain
  /\ online = [c \in Chain |-> NoRelease]
  /\ past = [c \in Chain |-> {}]
  /\ deleted = [c \in Chain |-> {}]
  /\ sub \in SUBSET Chain
  /\ publishing = [c \in Chain |-> NoRelease]
  /\ deleting = [c \in Chain |-> NoRelease]
  /\ closing = {}
  /\ count = 0
  /\ stack = <<>>
  /\ refused = "no"
  /\ drift = {}
  /\ calm = TRUE

-----------------------------------------------------------------------------
(* The check. *)

(* rootChainCallSignature finds a chain that has its row and a current     *)
(* release.                                                                *)
Found(t) == t \in rows /\ online[t] # NoRelease

(* rootChainCallSignature: the nodes of a release, sub chain included. *)
CallsOf(r) == r.own \cup (IF r.uses THEN sub ELSE {})

OnlineCalls(c) == IF online[c] = NoRelease THEN {} ELSE CallsOf(online[c])

(* Mutant: sub chains are not looked into. *)
CallsOwn(c, r, d) ==
  IF d = c THEN r.own
  ELSE IF online[d] = NoRelease THEN {} ELSE online[d].own

(* What the nodes of a chain would call with release r of chain c online.  *)
Calls(c, r, d) == IF d = c THEN CallsOf(r) ELSE OnlineCalls(d)

(* The paths of n chains that calls lead along from c. *)
Paths(c, r, n) ==
  {p \in [1 .. n -> Chain] :
     p[1] = c /\ \A i \in 1 .. n - 1 : p[i + 1] \in Calls(c, r, p[i])}

(* Mutant: only the calls of the chain itself are looked at. *)
ChecksItself(c, r) ==
  \A t \in CallsOf(r) : t # c /\ Found(t) /\ MaxDepth > 1

(* Mutant: one level too many. *)
ChecksOneMore(c, r) ==
  \A n \in 1 .. MaxDepth : \A p \in Paths(c, r, n) :
    \A t \in Calls(c, r, p[n]) :
      /\ \A i \in 1 .. n : p[i] # t
      /\ Found(t)

(* No call on any path is one back into the path, one too deep, or one of  *)
(* a chain that is not published.                                          *)
checkRootChainCalls(c, r) ==
  \A n \in 1 .. MaxDepth : \A p \in Paths(c, r, n) :
    \A t \in Calls(c, r, p[n]) :
      /\ \A i \in 1 .. n : p[i] # t
      /\ n < MaxDepth
      /\ Found(t)

(* The same as it is written: one call node after the other, depth first,  *)
(* from a path that ends in the chain whose nodes are looked at.           *)
Walks == UNION {[1 .. n -> Chain] : n \in 1 .. MaxDepth}

CallsAt(r, path) == IF Len(path) = 1 THEN CallsOf(r) ELSE OnlineCalls(path[Len(path)])

walkRootChainCalls(r) ==
  LET walk[path \in Walks] ==
        \A target \in CallsAt(r, path) :
          /\ target \notin {path[i] : i \in 1 .. Len(path)}
          /\ Len(path) < MaxDepth
          /\ Found(target)
          /\ walk[Append(path, target)]
  IN  walk

-----------------------------------------------------------------------------
(* Changes of the calls. *)

Begin == count < MaxChanges /\ count' = count + 1

Drift(how) == drift' = drift \cup how

(* PublishRootChain, up to the end of its checks: a publish that is        *)
(* refused leaves nothing behind.                                          *)
Check(c, r) ==
  /\ Begin
  /\ c \in rows
  /\ publishing[c] = NoRelease
  /\ checkRootChainCalls(c, r)
  /\ publishing' = [publishing EXCEPT ![c] = r]
  /\ Drift(IF \E d \in Chain : publishing[d] # NoRelease THEN {"overlap"} ELSE {})
  /\ UNCHANGED <<online, past, sub, deleteVars, runVars, calm>>

(* The release is stored: a deletion of an older one of the same content   *)
(* no longer shows.                                                        *)
Store(c) ==
  /\ past' = [past EXCEPT ![c] = @ \cup {publishing[c]}]
  /\ deleted' = [deleted EXCEPT ![c] = @ \ {publishing[c]}]
  /\ deleting' = [deleting EXCEPT ![c] = IF @ = publishing[c] THEN NoRelease ELSE @]
  /\ UNCHANGED <<rows, closing>>

(* Release r of c comes online while a deletion has looked at it, or has   *)
(* found c without a release.                                              *)
Race(c, r) == IF c \in closing \/ deleting[c] = r THEN {"race"} ELSE {}

(* Mutant: goes on after a check that was refused. *)
ActivateAnyway(c) ==
  /\ Store(c)
  /\ online' = [online EXCEPT ![c] = publishing[c]]
  /\ publishing' = [publishing EXCEPT ![c] = NoRelease]
  /\ calm' = FALSE
  /\ UNCHANGED <<sub, count, drift, runVars>>

(* The rest of it: the new release is stored and becomes current, whether  *)
(* or not the chain still has its row.                                     *)
Activate(c) ==
  /\ publishing[c] # NoRelease
  /\ Store(c)
  /\ online' = [online EXCEPT ![c] = publishing[c]]
  /\ publishing' = [publishing EXCEPT ![c] = NoRelease]
  /\ Drift(IF c \in closing THEN {"race"} ELSE {})
  /\ calm' = FALSE
  /\ UNCHANGED <<sub, count, runVars>>

(* The publish ends early: before it has stored the release, or, when the  *)
(* chain has another one online, after it.                                 *)
GiveUp(c) ==
  /\ publishing[c] # NoRelease
  /\ \/ UNCHANGED <<past, deleteVars>>
     \/ online[c] # NoRelease /\ Store(c)
  /\ publishing' = [publishing EXCEPT ![c] = NoRelease]
  /\ UNCHANGED <<online, sub, count, drift, runVars, calm>>

(* RollbackRootChain and SetCurrentRelease make no check of the calls. *)
Rollback(c, r) ==
  /\ r \in past[c] \ (deleted[c] \cup {online[c]})
  /\ online' = [online EXCEPT ![c] = r]
  /\ Drift({"rollback"} \cup Race(c, r))
  /\ calm' = FALSE
  /\ UNCHANGED <<past, sub, publishing, count, deleteVars, runVars>>

(* Nor does a change of a sub chain: the check and every invocation that   *)
(* begins read it as it is then.                                           *)
EditSubChain(calls) ==
  /\ calls # sub
  /\ sub' = calls
  /\ Drift({"edit"})
  /\ calm' = FALSE
  /\ UNCHANGED <<online, past, publishing, count, deleteVars, runVars>>

-----------------------------------------------------------------------------
(* Deletions.  Each looks first and deletes then, in statements between    *)
(* which others come.  A chain has one of each kind under way at a time.   *)

deleteFrame == <<past, sub, publishing, runVars, calm>>

(* Mutant: the release that is online may be deleted. *)
DeleteCheckAny(c, r) ==
  /\ Begin
  /\ deleting[c] = NoRelease
  /\ r \in past[c] \ deleted[c]
  /\ deleting' = [deleting EXCEPT ![c] = r]
  /\ UNCHANGED <<online, drift, rows, deleted, closing, deleteFrame>>

(* DeleteByVersion: the release is not the current one.  Stable marks,     *)
(* which protect further ones, are left out.                               *)
DeleteCheck(c, r) ==
  /\ Begin
  /\ deleting[c] = NoRelease
  /\ r \in past[c] \ (deleted[c] \cup {online[c]})
  /\ deleting' = [deleting EXCEPT ![c] = r]
  /\ UNCHANGED <<online, drift, rows, deleted, closing, deleteFrame>>

(* It goes, whatever it is by now. *)
DeleteRelease(c) ==
  /\ deleting[c] # NoRelease
  /\ deleted' = [deleted EXCEPT ![c] = @ \cup {deleting[c]}]
  /\ online' = [online EXCEPT ![c] = IF @ = deleting[c] THEN NoRelease ELSE @]
  /\ deleting' = [deleting EXCEPT ![c] = NoRelease]
  /\ UNCHANGED <<count, drift, rows, closing, deleteFrame>>

(* DeleteRootChain: the chain has no releases. *)
DeleteChainCheck(c) ==
  /\ Begin
  /\ c \in rows \ closing
  /\ past[c] = deleted[c]
  /\ closing' = closing \cup {c}
  /\ UNCHANGED <<online, drift, rows, deleted, deleting, deleteFrame>>

(* Its row goes, for good: a new chain has a new id. *)
DeleteRootChain(c) ==
  /\ c \in closing
  /\ rows' = rows \ {c}
  /\ closing' = closing \ {c}
  /\ UNCHANGED <<count, online, drift, deleted, deleting, deleteFrame>>

(* A deletion fails, or its process ends. *)
DeletionFails(c) ==
  /\ deleting[c] # NoRelease \/ c \in closing
  /\ deleting' = [deleting EXCEPT ![c] = NoRelease]
  /\ closing' = closing \ {c}
  /\ UNCHANGED <<count, online, drift, rows, deleted, deleteFrame>>

-----------------------------------------------------------------------------
(* An invocation. *)

Top == stack[Len(stack)]

OnPath(c) == \E i \in 1 .. Len(stack) : stack[i].chain = c

(* InvokeRootChain resolves a release of c: as a rule the online one, from *)
(* a cache perhaps an older one.                                           *)
Enter(c, r, below, quiet) ==
  /\ stack' = Append(below, [chain |-> c, left |-> CallsOf(r)])
  /\ calm' = (quiet /\ r = online[c])

Invoke(c, r) ==
  /\ stack = <<>>
  /\ Enter(c, r, <<>>, TRUE)
  /\ refused' = "no"
  /\ UNCHANGED releaseVars

(* The node of the top chain that calls t has been reached. *)
Reached(t) == [stack EXCEPT ![Len(stack)].left = @ \ {t}]

CanCall(t) == stack # <<>> /\ t \in Top.left

Call(t, r) ==
  /\ CanCall(t)
  /\ t \in rows
  /\ ~ OnPath(t)
  /\ Len(stack) < MaxDepth
  /\ Enter(t, r, Reached(t), calm)
  /\ UNCHANGED <<refused, releaseVars>>

(* nextRootChainCallPath refuses, or no row or no release is found: the    *)
(* node fails and the flow goes on along its Failure route, if it has one. *)
Refusal(t) ==
  IF OnPath(t) THEN "recursion" ELSE IF Len(stack) >= MaxDepth THEN "depth" ELSE "missing"

Refuse(t) ==
  /\ CanCall(t)
  /\ OnPath(t) \/ Len(stack) >= MaxDepth \/ ~ Found(t)
  /\ stack' = Reached(t)
  /\ refused' = Refusal(t)
  /\ UNCHANGED <<releaseVars, calm>>

(* The chain on top ends, with or without having made all its calls. *)
Return ==
  /\ stack # <<>>
  /\ stack' = SubSeq(stack, 1, Len(stack) - 1)
  /\ UNCHANGED <<refused, releaseVars, calm>>

-----------------------------------------------------------------------------
Next ==
  \/ \E c \in Chain :
       \/ \E r \in Release : Check(c, r)
       \/ Activate(c) \/ GiveUp(c)
       \/ \E r \in past[c] : Rollback(c, r) \/ Invoke(c, r) \/ Call(c, r) \/ DeleteCheck(c, r)
       \/ DeleteRelease(c) \/ DeleteChainCheck(c) \/ DeleteRootChain(c) \/ DeletionFails(c)
       \/ Refuse(c)
  \/ \E calls \in SUBSET Chain : EditSubChain(calls)
  \/ Return

Spec == Init /\ [][Next]_vars

-----------------------------------------------------------------------------
Frame == [chain : Chain, left : SUBSET Chain]

(* Every variable holds a value of its type. *)
TypeOK ==
  /\ rows \subseteq Chain
  /\ online \in [Chain -> Release \cup {NoRelease}]
  /\ past \in [Chain -> SUBSET Release]
  /\ deleted \in [Chain -> SUBSET Release]
  /\ sub \subseteq Chain
  /\ publishing \in [Chain -> Release \cup {NoRelease}]
  /\ deleting \in [Chain -> Release \cup {NoRelease}]
  /\ closing \subseteq Chain
  /\ count \in Nat
  /\ stack \in Seq(Frame)
  /\ refused \in {"no", "recursion", "depth", "missing"}
  /\ drift \subseteq {"overlap", "rollback", "edit", "race"}
  /\ calm \in BOOLEAN

(* The check over paths accepts what the recursion accepts, whatever is    *)
(* online: also circles that rollbacks have left, on which only the path   *)
(* and the depth end the recursion (walkRootChainCalls).                   *)
WalkMatches ==
  \A c \in Chain, r \in Release :
    checkRootChainCalls(c, r) <=> walkRootChainCalls(r)[<<c>>]

(* As long as publishes come one at a time, and nothing is rolled back and *)
(* no sub chain changed, the chains online do not call each other in a     *)
(* circle: each publish looks at what is online then, and only at what its *)
(* own chain reaches.                                                      *)
Acyclic ==
  drift = {} =>
    \A S \in SUBSET Chain : S # {} =>
      \E c \in S : OnlineCalls(c) \cap S = {}

(* Whatever publishes overlap, whatever is rolled back and whatever is     *)
(* deleted, every chain that some release calls is there and has a release *)
(* online, unless a sub chain was changed, or a release has come online    *)
(* between the check of a deletion, of this release or of its chain, and   *)
(* the deletion: DeleteByVersion and DeleteRootChain keep what is called,  *)
(* though neither asks who calls it.                                       *)
TargetsOnline ==
  drift \cap {"edit", "race"} = {} =>
    \A c \in Chain : \A r \in past[c] : \A t \in CallsOf(r) : Found(t)

(* An invocation during which nothing changes, and that finds the online   *)
(* releases, makes its calls as the publishes have checked them: the guard *)
(* at run time refuses none for recursion, and no target is missing.       *)
RunsAsChecked ==
  drift = {} /\ calm => refused \notin {"recursion", "missing"}
=============================================================================
