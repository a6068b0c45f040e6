---------------------------- MODULE ReleaseStore ----------------------------
(***************************************************************************)
(* The releases of one root chain in the database: publish, rollback,      *)
(* set-current, delete and stable marks (WorkflowService over              *)
(* RootChainReleaseRepo), by administrators whose requests interleave.     *)
(*                                                                         *)
(* Every statement or transaction of the repository is one step; what a    *)
(* service method does between two of them is open to everybody else.  A   *)
(* request may end after any of its steps: the database answers with an    *)
(* error, or the process stops.                                            *)
(*                                                                         *)
(* Deleting a release is soft (GORM's deleted_at): every query below       *)
(* leaves a deleted row out, except the one that numbers a new release.    *)
(***************************************************************************)
EXTENDS Naturals, FiniteSets

CONSTANTS
  Admin,        \* requests that run at the same time
  Doc,          \* contents of a root chain that differ
  NoDoc,        \* no content: of an absent row, of an idle request
  LastVersion   \* bound: version numbers modelled

ASSUME NoDocAssumption == NoDoc \notin Doc
ASSUME LastVersionAssumption == LastVersion \in Nat \ {0}

Version == 1 .. LastVersion

VARIABLES
  draft,     \* the chain's row in wf_root_chains: its content, NoDoc if deleted
  release,   \* wf_root_chain_releases by version
  job,       \* what each administrator's request is doing
  chosen,    \* history: the version of the last SetCurrent transaction
  overlapped \* history: has a request run while another was under way

vars == <<draft, release, job, chosen, overlapped>>

Absent == [doc |-> NoDoc, current |-> FALSE, stable |-> FALSE, deleted |-> FALSE]

Idle == [step |-> "idle", doc |-> NoDoc, version |-> 0]

Init ==
  /\ draft \in Doc
  /\ release = [v \in Version |-> Absent]
  /\ job = [a \in Admin |-> Idle]
  /\ chosen = 0
  /\ overlapped = FALSE

-----------------------------------------------------------------------------
(* Queries. *)

Rows == {v \in Version : release[v] # Absent}

Live == {v \in Rows : ~ release[v].deleted}

Current == {v \in Live : release[v].current}

(* Mutant: the newest current row. *)
GetCurrentNewest ==
  IF Current = {} THEN 0 ELSE CHOOSE v \in Current : \A u \in Current : u <= v

(* GetCurrent: First orders by primary key, and rows are inserted in the   *)
(* order of their version.                                                 *)
GetCurrent ==
  IF Current = {} THEN 0 ELSE CHOOSE v \in Current : \A u \in Current : v <= u

(* Mutant: without Unscoped. *)
MaxVersionLive ==
  IF Live = {} THEN 0 ELSE CHOOSE v \in Live : \A u \in Live : u <= v

(* MaxVersion counts the deleted rows too (Unscoped). *)
MaxVersion ==
  IF Rows = {} THEN 0 ELSE CHOOSE v \in Rows : \A u \in Rows : u <= v

-----------------------------------------------------------------------------
(* Publishing. *)

Step(a, s) == job[a].step = s

Finish(a) == job' = [job EXCEPT ![a] = Idle]

(* SaveRootChain changes the draft only. *)
SaveRootChain(d) ==
  /\ draft \notin {NoDoc, d}
  /\ draft' = d
  /\ UNCHANGED <<release, job, chosen>>

(* PublishRootChain reads the draft; its checks of the content pass. *)
ReadDraft(a) ==
  /\ Step(a, "idle")
  /\ draft # NoDoc
  /\ job' = [job EXCEPT ![a] = [step |-> "compare", doc |-> draft, version |-> 0]]
  /\ UNCHANGED <<draft, release, chosen>>

SameAsOnline(d) == GetCurrent # 0 /\ release[GetCurrent].doc = d

(* The comparison with the online version; an error of that query is       *)
(* taken for "nothing online".                                             *)
CompareDiffers(a) ==
  /\ Step(a, "compare")
  /\ ~ SameAsOnline(job[a].doc)
  /\ job' = [job EXCEPT ![a].step = "number"]
  /\ UNCHANGED <<draft, release, chosen>>

CompareFails(a) ==
  /\ Step(a, "compare")
  /\ job' = [job EXCEPT ![a].step = "number"]
  /\ UNCHANGED <<draft, release, chosen>>

CompareRefuses(a) ==
  /\ Step(a, "compare")
  /\ SameAsOnline(job[a].doc)
  /\ Finish(a)
  /\ UNCHANGED <<draft, release, chosen>>

ReadMaxVersion(a) ==
  /\ Step(a, "number")
  /\ MaxVersion < LastVersion
  /\ job' = [job EXCEPT ![a].step = "insert", ![a].version = MaxVersion + 1]
  /\ UNCHANGED <<draft, release, chosen>>

(* Mutant: an upsert, no unique index. *)
CreateUpserts(a) ==
  /\ Step(a, "insert")
  /\ release' = [release EXCEPT ![job[a].version] =
                   [doc |-> job[a].doc, current |-> TRUE,
                    stable |-> FALSE, deleted |-> FALSE]]
  /\ job' = [job EXCEPT ![a].step = "activate"]
  /\ UNCHANGED <<draft, chosen>>

(* Create: the row is current from the start. *)
Create(a) ==
  /\ Step(a, "insert")
  /\ job[a].version \notin Rows
  /\ release' = [release EXCEPT ![job[a].version] =
                   [doc |-> job[a].doc, current |-> TRUE,
                    stable |-> FALSE, deleted |-> FALSE]]
  /\ job' = [job EXCEPT ![a].step = "activate"]
  /\ UNCHANGED <<draft, chosen>>

(* The unique index uk_project_chain_version, which has no deleted_at. *)
CreateConflicts(a) ==
  /\ Step(a, "insert")
  /\ job[a].version \in Rows
  /\ Finish(a)
  /\ UNCHANGED <<draft, release, chosen>>

(* Mutant: RowsAffected is not looked at. *)
SetCurrentUnchecked(v) ==
  /\ release' = [u \in Version |->
                   IF u \in Live THEN [release[u] EXCEPT !.current = (u = v)]
                   ELSE release[u]]
  /\ chosen' = v

(* The SetCurrent transaction: no row of the chain but v is current.  With *)
(* no live row v it is rolled back.                                        *)
SetCurrent(v) ==
  /\ v \in Live
  /\ release' = [u \in Version |->
                   IF u \in Live THEN [release[u] EXCEPT !.current = (u = v)]
                   ELSE release[u]]
  /\ chosen' = v

Activate(a) ==
  /\ Step(a, "activate")
  /\ SetCurrent(job[a].version)
  /\ Finish(a)
  /\ UNCHANGED draft

(* The request ends early: a statement fails, the new row is gone when it  *)
(* should become current, or the process stops.                            *)
Abort(a) ==
  /\ ~ Step(a, "idle")
  /\ Finish(a)
  /\ UNCHANGED <<draft, release, chosen>>

-----------------------------------------------------------------------------
(* Operations on published versions. *)

(* RollbackRootChain and SetCurrentRelease. *)
Rollback(a, v) ==
  /\ Step(a, "idle")
  /\ SetCurrent(v)
  /\ UNCHANGED <<draft, job>>

SetStable(a, v, stable) ==
  /\ Step(a, "idle")
  /\ v \in Live
  /\ release' = [release EXCEPT ![v].stable = stable]
  /\ UNCHANGED <<draft, job, chosen>>

(* Mutant: stable versions are not protected. *)
DeleteCheckCurrent(a, v) ==
  /\ Step(a, "idle")
  /\ v \in Live
  /\ ~ release[v].current
  /\ job' = [job EXCEPT ![a] = [step |-> "delete", doc |-> NoDoc, version |-> v]]
  /\ UNCHANGED <<draft, release, chosen>>

(* DeleteByVersion: the row is read without a lock, the update that        *)
(* deletes it does not look at its marks again.                            *)
DeleteCheck(a, v) ==
  /\ Step(a, "idle")
  /\ v \in Live
  /\ ~ release[v].current
  /\ ~ release[v].stable
  /\ job' = [job EXCEPT ![a] = [step |-> "delete", doc |-> NoDoc, version |-> v]]
  /\ UNCHANGED <<draft, release, chosen>>

(* Mutant: the deleted row loses its content. *)
DeleteBlanks(a) ==
  /\ Step(a, "delete")
  /\ release' = [release EXCEPT ![job[a].version].deleted = TRUE,
                                ![job[a].version].doc = NoDoc]
  /\ Finish(a)
  /\ UNCHANGED <<draft, chosen>>

Delete(a) ==
  /\ Step(a, "delete")
  /\ release' = [release EXCEPT ![job[a].version].deleted = TRUE]
  /\ Finish(a)
  /\ UNCHANGED <<draft, chosen>>

(* Mutant: HasReleases is not asked. *)
ReleasesUnasked(a) ==
  /\ Step(a, "idle")
  /\ draft # NoDoc
  /\ job' = [job EXCEPT ![a] = [step |-> "drop", doc |-> NoDoc, version |-> 0]]
  /\ UNCHANGED <<draft, release, chosen>>

(* DeleteRootChain: HasReleases, then the physical delete of the draft. *)
HasNoReleases(a) ==
  /\ Step(a, "idle")
  /\ draft # NoDoc
  /\ Live = {}
  /\ job' = [job EXCEPT ![a] = [step |-> "drop", doc |-> NoDoc, version |-> 0]]
  /\ UNCHANGED <<draft, release, chosen>>

DeleteRootChain(a) ==
  /\ Step(a, "drop")
  /\ draft' = NoDoc
  /\ Finish(a)
  /\ UNCHANGED <<release, chosen>>

-----------------------------------------------------------------------------
PublishRootChain(a) ==
  \/ ReadDraft(a)
  \/ CompareDiffers(a) \/ CompareFails(a) \/ CompareRefuses(a)
  \/ ReadMaxVersion(a)
  \/ Create(a) \/ CreateConflicts(a)
  \/ Activate(a)

Request(a) ==
  \/ PublishRootChain(a)
  \/ Abort(a)
  \/ \E v \in Version :
       \/ Rollback(a, v)
       \/ \E stable \in BOOLEAN : SetStable(a, v, stable)
       \/ DeleteCheck(a, v)
  \/ Delete(a)
  \/ HasNoReleases(a)
  \/ DeleteRootChain(a)

NoteOverlap(a) ==
  overlapped' = (overlapped \/ \E b \in Admin \ {a} : ~ Step(b, "idle"))

Next ==
  \/ \E d \in Doc : SaveRootChain(d) /\ UNCHANGED overlapped
  \/ \E a \in Admin : Request(a) /\ NoteOverlap(a)

Spec == Init /\ [][Next]_vars

-----------------------------------------------------------------------------
Row == [doc : Doc, current : BOOLEAN, stable : BOOLEAN, deleted : BOOLEAN]

Job == [step : {"idle", "compare", "number", "insert", "activate", "delete", "drop"},
        doc : Doc \cup {NoDoc}, version : 0 .. LastVersion]

(* Every variable holds a value of its type. *)
TypeOK ==
  /\ draft \in Doc \cup {NoDoc}
  /\ release \in [Version -> Row \cup {Absent}]
  /\ job \in [Admin -> Job]
  /\ chosen \in 0 .. LastVersion
  /\ overlapped \in BOOLEAN

(* A published version is never changed and its row never goes away, even  *)
(* when two publishes pick the same number: what was invoked yesterday can *)
(* be rolled back to tomorrow.                                             *)
PublishedImmutable ==
  [][\A v \in Rows : v \in Rows' /\ release'[v].doc = release[v].doc]_vars

(* The version last made current stays the one GetCurrent answers, however *)
(* many publishes insert a row of theirs that is current as well and       *)
(* finish, fail or stop there: only its deletion takes it away.            *)
ChosenStaysOnline ==
  chosen \in Live => GetCurrent = chosen

(* As long as no two requests overlap, a chain that serves a version goes  *)
(* on serving one, whatever request fails or stops half way.               *)
NeverOffline == [][GetCurrent # 0 /\ ~ overlapped' => GetCurrent' # 0]_vars

(* DeleteByVersion protects the current version and the stable ones: no    *)
(* deleted row carries either mark.                                        *)
ProtectedKept ==
  \A v \in Rows : release[v].deleted =>
    ~ release[v].current /\ ~ release[v].stable

(* They are protected from requests that come one at a time, whichever     *)
(* of these was cut off half way before.                                   *)
ProtectedAlone == ~ overlapped => ProtectedKept

(* The number that a publish without company has read is free when it      *)
(* inserts, also after the version with the highest number was deleted:    *)
(* a deletion never makes publishing impossible.                           *)
NumberIsFree ==
  ~ overlapped => \A a \in Admin :
    Step(a, "insert") => job[a].version \notin Rows

(* A root chain with releases is not deleted by requests one at a time. *)
ChainKept == ~ overlapped /\ draft = NoDoc => Live = {}

(* However requests interleave and wherever they end, readers see what     *)
(* OnlineRelease promises: contents that stay, numbers in order, and one   *)
(* version online, switched in single steps, of which no half-finished     *)
(* publish takes the place (GetCurrent over Create and SetCurrent).        *)
Promise ==
  INSTANCE OnlineRelease WITH
    content <- [v \in Version |-> release[v].doc],
    online  <- GetCurrent,
    shared  <- overlapped

ImplementsOnlineRelease == Promise!Spec
=============================================================================
