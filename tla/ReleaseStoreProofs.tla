------------------------- MODULE ReleaseStoreProofs -------------------------
(***************************************************************************)
(* ReleaseStore for every number of administrators, contents and versions: *)
(* its types, that a published row is never changed, and that the version  *)
(* last made current is the one GetCurrent answers.                        *)
(*                                                                         *)
(* The last needs more than itself: a half-published version is flagged    *)
(* current too, and does not win because its number is higher than the     *)
(* chosen one's.  That holds since the versions used are 1 .. n with no    *)
(* gap (Dense), and a publish that is about to insert has seen every       *)
(* number below its own in use (NumberedAbove).                            *)
(*                                                                         *)
(* The same facts give the refinement of OnlineRelease: of several rows    *)
(* flagged current every reader is given the lowest, which an insertion    *)
(* does not change and only SetCurrent and a deletion do.                  *)
(***************************************************************************)
EXTENDS ReleaseStore, WellFoundedInduction, TLAPS

Dense == \A v \in Rows : \A u \in Version : u < v => u \in Rows

NumberedAbove ==
  \A a \in Admin : Step(a, "insert") =>
    /\ job[a].version \in Version
    /\ \A u \in Version : u < job[a].version => u \in Rows

RowsInHand ==
  \A a \in Admin : job[a].step \in {"activate", "delete"} => job[a].version \in Rows

(* A publish that has read its draft holds its content. *)
DocInHand ==
  \A a \in Admin :
    job[a].step \in {"compare", "number", "insert"} => job[a].doc \in Doc

ChosenIsLowest ==
  chosen # 0 =>
    /\ chosen \in Rows
    /\ chosen \in Live => release[chosen].current
    /\ \A v \in Current : chosen <= v

IInv ==
  TypeOK /\ Dense /\ NumberedAbove /\ RowsInHand /\ DocInHand /\ ChosenIsLowest

USE NoDocAssumption, LastVersionAssumption

-----------------------------------------------------------------------------
(* The queries. *)

(* MaxVersion of a table with rows is the number of one of them, and no    *)
(* row has a higher one.                                                   *)
LEMMA MaxVersionIsMax ==
  ASSUME Rows # {}
  PROVE  MaxVersion \in Rows /\ \A u \in Rows : u <= MaxVersion
<1> DEFINE Down == {LastVersion - v : v \in Rows}
<1>1. Rows \subseteq Version /\ \A v \in Version : v \in Nat /\ LastVersion - v \in Nat
  BY DEF Rows, Version
<1>2. Down \subseteq Nat /\ Down # {}
  BY <1>1
<1>3. PICK x \in Down : \A y \in Down : ~ (<<y, x>> \in OpToRel(<, Nat))
  <2> HIDE DEF Down
  <2> QED BY <1>2, NatLessThanWellFounded, WFMin
<1>4. PICK v \in Rows : x = LastVersion - v
  OBVIOUS
<1>5. \A u \in Rows : u <= v
  <2> SUFFICES ASSUME NEW u \in Rows PROVE u <= v
    OBVIOUS
  <2>1. LastVersion - u \in Down
    OBVIOUS
  <2>2. ~ (LastVersion - u < x)
    BY <1>2, <1>3, <2>1 DEF OpToRel
  <2> QED BY <1>1, <1>4, <2>2
<1>6. MaxVersion = CHOOSE w \in Rows : \A u \in Rows : u <= w
  BY DEF MaxVersion
<1> QED
  BY <1>5, <1>6

(* GetCurrent answers the lowest current version. *)
LEMMA LowestIsCurrent ==
  ASSUME NEW c \in Current, \A v \in Current : c <= v
  PROVE  GetCurrent = c
<1>1. Current \subseteq Nat
  BY DEF Current, Live, Rows, Version
<1>2. \A v \in Current : (\A u \in Current : v <= u) => v = c
  BY <1>1
<1>3. GetCurrent = CHOOSE v \in Current : \A u \in Current : v <= u
  BY DEF GetCurrent
<1> QED
  BY <1>2, <1>3

(* If there is a current version, GetCurrent answers the lowest. *)
LEMMA LowestIsFound ==
  Current # {} => GetCurrent \in Current /\ \A v \in Current : GetCurrent <= v
<1> SUFFICES ASSUME Current # {}
             PROVE  GetCurrent \in Current /\ \A v \in Current : GetCurrent <= v
  OBVIOUS
<1>1. Current \subseteq Nat
  BY DEF Current, Live, Rows, Version
<1>2. PICK x \in Current : \A y \in Current : ~ (<<y, x>> \in OpToRel(<, Nat))
  BY <1>1, NatLessThanWellFounded, WFMin
<1>3. \A v \in Current : x <= v
  <2> SUFFICES ASSUME NEW v \in Current PROVE x <= v
    OBVIOUS
  <2>1. v \in Nat /\ x \in Nat
    BY <1>1
  <2>2. ~ (v < x)
    BY <1>2, <2>1 DEF OpToRel
  <2> QED BY <2>1, <2>2
<1>4. GetCurrent = x
  BY <1>3, LowestIsCurrent
<1> QED
  BY <1>3, <1>4

LEMMA CurrentIsFound == Current # {} => GetCurrent # 0
<1>1. 0 \notin Current
  BY DEF Current, Live, Rows, Version
<1> QED
  BY <1>1, LowestIsFound

LEMMA RowFields ==
  ASSUME TypeOK, NEW v \in Rows
  PROVE  release[v] \in Row
BY DEF TypeOK, Rows

LEMMA RowIsNotAbsent == \A r \in Row : r # Absent
BY DEF Row, Absent

-----------------------------------------------------------------------------
LEMMA InductiveInit == Init => IInv
<1> SUFFICES ASSUME Init PROVE IInv
  OBVIOUS
<1>1. TypeOK
  <2>1. overlapped \in BOOLEAN
    BY DEF Init
  <2>2. job \in [Admin -> Job] /\ release \in [Version -> Row \cup {Absent}]
    BY DEF Init, Idle, Job
  <2>3. draft \in Doc \cup {NoDoc} /\ chosen \in 0 .. LastVersion
    BY DEF Init
  <2> QED BY <2>1, <2>2, <2>3 DEF TypeOK
<1>2. Dense /\ NumberedAbove /\ RowsInHand /\ DocInHand /\ ChosenIsLowest
  BY RowIsNotAbsent DEF Init, Dense, NumberedAbove, RowsInHand, DocInHand,
     ChosenIsLowest, Rows, Step, Idle
<1> QED
  BY <1>1, <1>2 DEF IInv

(* A step that leaves the table alone, and moves one request to a step     *)
(* where it holds no number or a number that is there.                     *)
LEMMA JobPreserves ==
  ASSUME IInv, NEW a \in Admin, NEW j \in Job,
         job' = [job EXCEPT ![a] = j],
         j.step = "insert" =>
           /\ j.version \in Version
           /\ \A u \in Version : u < j.version => u \in Rows,
         j.step \in {"activate", "delete"} => j.version \in Rows,
         j.step \in {"compare", "number", "insert"} => j.doc \in Doc,
         draft' \in Doc \cup {NoDoc}, UNCHANGED <<release, chosen>>,
         overlapped' \in BOOLEAN
  PROVE  IInv'
<1>1. TypeOK'
  BY DEF IInv, TypeOK
<1>2. Rows' = Rows /\ Live' = Live /\ Current' = Current
  BY DEF Rows, Live, Current
<1>3. NumberedAbove' /\ RowsInHand' /\ DocInHand'
  BY <1>2 DEF IInv, TypeOK, NumberedAbove, RowsInHand, DocInHand, Step
<1> QED
  BY <1>1, <1>2, <1>3 DEF IInv, Dense, ChosenIsLowest

LEMMA IdleIsJob == Idle \in Job
BY DEF Idle, Job

(* The SetCurrent transaction, whether or not a request ends with it. *)
LEMMA SetCurrentPreserves ==
  ASSUME IInv, NEW v \in Version, SetCurrent(v),
         job' = job \/ \E a \in Admin : Finish(a), draft' = draft,
         overlapped' \in BOOLEAN
  PROVE  IInv'
<1>1. \A u \in Rows : [release[u] EXCEPT !.current = (u = v)] \in Row
  BY RowFields DEF IInv, Row
<1>2. Rows' = Rows /\ Live' = Live
  BY <1>1, RowFields, RowIsNotAbsent DEF IInv, SetCurrent, Rows, Live, Row
<1>3. Current' = {v}
  BY <1>2, RowFields DEF IInv, SetCurrent, Current, Live, Rows, Row
<1>4. job' \in [Admin -> Job] /\ \A a \in Admin : job'[a] = job[a] \/ job'[a] = Idle
  BY IdleIsJob DEF IInv, TypeOK, Finish
<1>5. TypeOK'
  <2>1. release' \in [Version -> Row \cup {Absent}]
    BY <1>1 DEF IInv, TypeOK, SetCurrent, Live
  <2> QED BY <1>4, <2>1 DEF IInv, TypeOK, SetCurrent, Version
<1>6. NumberedAbove' /\ RowsInHand' /\ DocInHand'
  BY <1>2, <1>4 DEF IInv, NumberedAbove, RowsInHand, DocInHand, Step, Idle
<1>7. ChosenIsLowest'
  <2>1. chosen' = v /\ v \in Live' /\ v \in Rows' /\ v \in Current'
    BY <1>2, <1>3 DEF SetCurrent, Live
  <2>2. v <= v
    BY DEF Version
  <2> QED BY <1>3, <2>1, <2>2 DEF ChosenIsLowest, Current
<1> QED
  BY <1>2, <1>5, <1>6, <1>7 DEF IInv, Dense

(* A publish inserts its row: the next number, above the chosen one. *)
LEMMA CreatePreserves ==
  ASSUME IInv, NEW a \in Admin, Create(a), overlapped' \in BOOLEAN
  PROVE  IInv'
<1> DEFINE n == job[a].version
           row == [doc |-> job[a].doc, current |-> TRUE, stable |-> FALSE, deleted |-> FALSE]
<1>1. n \in Version /\ n \notin Rows /\ \A u \in Version : u < n => u \in Rows
  BY DEF Create, IInv, NumberedAbove
<1>2. row \in Row /\ job[a].step = "insert"
  BY DEF Create, Step, Row, IInv, DocInHand
<1>3. release' = [release EXCEPT ![n] = row] /\ UNCHANGED <<draft, chosen>>
  BY DEF Create
<1> HIDE DEF row
<1>4. Rows' = Rows \cup {n} /\ Live' = Live \cup {n} /\ Current' = Current \cup {n}
  <2>1. row # Absent /\ row.current /\ ~ row.deleted
    BY <1>2, RowIsNotAbsent DEF row
  <2> QED BY <1>1, <1>3, <2>1 DEF IInv, TypeOK, Rows, Live, Current
<1>5. /\ job' \in [Admin -> Job] /\ job'[a].step = "activate" /\ job'[a].version = n
      /\ \A b \in Admin : b # a => job'[b] = job[b]
  BY DEF Create, IInv, TypeOK, Job
<1>6. TypeOK'
  BY <1>1, <1>2, <1>3, <1>5 DEF IInv, TypeOK
<1>7. Dense'
  BY <1>1, <1>4 DEF IInv, Dense
<1>8. NumberedAbove' /\ RowsInHand' /\ DocInHand'
  BY <1>4, <1>5 DEF IInv, NumberedAbove, RowsInHand, DocInHand, Step
<1>9. ChosenIsLowest'
  <2> SUFFICES ASSUME chosen # 0
               PROVE  /\ chosen \in Rows'
                      /\ chosen \in Live' => release'[chosen].current
                      /\ \A v \in Current' : chosen <= v
    BY <1>3 DEF ChosenIsLowest
  <2>1. chosen \in Rows /\ chosen # n
    BY <1>1 DEF IInv, ChosenIsLowest
  <2>2. chosen <= n
    <3>1. chosen \in Version /\ chosen \in Nat /\ n \in Nat
      BY <1>1, <2>1 DEF Rows, Version
    <3>2. ~ (n < chosen)
      BY <1>1, <2>1 DEF IInv, Dense
    <3> QED BY <3>1, <3>2
  <2> QED BY <1>3, <1>4, <2>1, <2>2 DEF IInv, ChosenIsLowest
<1> QED
  BY <1>6, <1>7, <1>8, <1>9 DEF IInv

(* A mark of one row changes, current excepted, or the row is deleted. *)
LEMMA MarkPreserves ==
  ASSUME IInv, NEW v \in Rows, NEW r \in Row,
         r.current = release[v].current,
         r.deleted \/ ~ release[v].deleted,
         release' = [release EXCEPT ![v] = r],
         job' = job \/ \E a \in Admin : Finish(a), UNCHANGED <<draft, chosen>>,
         overlapped' \in BOOLEAN
  PROVE  IInv'
<1>1. v \in Version /\ release[v] \in Row /\ r # Absent
  BY RowFields, RowIsNotAbsent DEF IInv, Rows
<1>2. Rows' = Rows
  BY <1>1 DEF IInv, TypeOK, Rows
<1>3. Live' \subseteq Live /\ \A u \in Live' : release'[u].current = release[u].current
  BY <1>1, <1>2 DEF IInv, TypeOK, Live, Row
<1>4. Current' \subseteq Current
  BY <1>3 DEF Current
<1>5. job' \in [Admin -> Job] /\ \A a \in Admin : job'[a] = job[a] \/ job'[a] = Idle
  BY IdleIsJob DEF IInv, TypeOK, Finish
<1>6. TypeOK'
  BY <1>1, <1>5 DEF IInv, TypeOK
<1>7. NumberedAbove' /\ RowsInHand' /\ DocInHand'
  BY <1>2, <1>5 DEF IInv, NumberedAbove, RowsInHand, DocInHand, Step, Idle
<1> QED
  BY <1>2, <1>3, <1>4, <1>6, <1>7 DEF IInv, Dense, ChosenIsLowest

LEMMA InductiveNext == IInv /\ [Next]_vars => IInv'
<1> SUFFICES ASSUME IInv, [Next]_vars PROVE IInv'
  OBVIOUS
<1>0. draft \in Doc \cup {NoDoc} /\ \A a \in Admin : job[a] \in Job
  BY DEF IInv, TypeOK
<1>a. overlapped' \in BOOLEAN
  BY DEF Next, NoteOverlap, vars, IInv, TypeOK
<1>1. ASSUME NEW d \in Doc, SaveRootChain(d) PROVE IInv'
  BY <1>a, <1>1 DEF SaveRootChain, IInv, TypeOK, Dense, NumberedAbove, RowsInHand,
              DocInHand, ChosenIsLowest, Rows, Live, Current, Step
<1>2. ASSUME NEW a \in Admin, ReadDraft(a) PROVE IInv'
  <2> DEFINE j == [step |-> "compare", doc |-> draft, version |-> 0]
  <2>1. j \in Job /\ j.doc \in Doc
    BY <1>0, <1>2 DEF ReadDraft, Job
  <2> QED BY <1>0, <1>2, <2>1, <1>a, JobPreserves DEF ReadDraft
<1>3. ASSUME NEW a \in Admin, CompareDiffers(a) \/ CompareFails(a) PROVE IInv'
  <2> DEFINE j == [job[a] EXCEPT !.step = "number"]
  <2>1. j \in Job /\ j.step = "number" /\ j.doc \in Doc
    BY <1>0, <1>3 DEF CompareDiffers, CompareFails, Step, Job, IInv, DocInHand
  <2>2. job' = [job EXCEPT ![a] = j] /\ UNCHANGED <<draft, release, chosen>>
    BY <1>3 DEF CompareDiffers, CompareFails
  <2> HIDE DEF j
  <2> QED BY <1>0, <2>1, <2>2, <1>a, JobPreserves
<1>4. ASSUME NEW a \in Admin, ReadMaxVersion(a) PROVE IInv'
  <2> DEFINE j == [job[a] EXCEPT !.step = "insert", !.version = MaxVersion + 1]
  <2>1. MaxVersion + 1 \in Version /\ \A u \in Version : u < MaxVersion + 1 => u \in Rows
    <3>1. CASE Rows = {}
      BY <3>1 DEF MaxVersion, Version
    <3>2. CASE Rows # {}
      <4>1. MaxVersion \in Rows /\ MaxVersion \in Version /\ MaxVersion < LastVersion
        BY <1>4, <3>2, MaxVersionIsMax DEF ReadMaxVersion, Rows
      <4>2. MaxVersion + 1 \in Version
        BY <4>1 DEF Version
      <4>3. ASSUME NEW u \in Version, u < MaxVersion + 1 PROVE u \in Rows
        <5>1. u = MaxVersion \/ u < MaxVersion
          BY <4>1, <4>3 DEF Version
        <5> QED BY <4>1, <5>1 DEF IInv, Dense
      <4> QED BY <4>2, <4>3
    <3> QED BY <3>1, <3>2
  <2>2. /\ j \in Job /\ j.step = "insert" /\ j.version = MaxVersion + 1
        /\ j.doc \in Doc
    <3>1. job[a] \in Job /\ job[a].doc \in Doc
      BY <1>0, <1>4 DEF ReadMaxVersion, Step, IInv, DocInHand
    <3>2. MaxVersion + 1 \in 0 .. LastVersion
      BY <2>1 DEF Version
    <3> QED BY <3>1, <3>2 DEF Job
  <2>3. job' = [job EXCEPT ![a] = j] /\ UNCHANGED <<draft, release, chosen>>
    BY <1>4 DEF ReadMaxVersion
  <2> HIDE DEF j
  <2> QED BY <1>0, <2>1, <2>2, <2>3, <1>a, JobPreserves
<1>5. ASSUME NEW a \in Admin, Create(a) PROVE IInv'
  BY <1>5, <1>a, CreatePreserves
<1>6. ASSUME NEW a \in Admin,
             CompareRefuses(a) \/ CreateConflicts(a) \/ Abort(a) \/ DeleteRootChain(a)
      PROVE  IInv'
  <2>1. Finish(a) /\ UNCHANGED <<release, chosen>> /\ draft' \in Doc \cup {NoDoc}
    BY <1>0, <1>6 DEF CompareRefuses, CreateConflicts, Abort, DeleteRootChain
  <2> QED BY <2>1, IdleIsJob, <1>a, JobPreserves DEF Finish, Idle
<1>7. ASSUME NEW a \in Admin, Activate(a) PROVE IInv'
  <2>1. job[a].version \in Version
    BY <1>7 DEF Activate, Step, IInv, RowsInHand, Rows
  <2> QED BY <1>7, <2>1, <1>a, SetCurrentPreserves DEF Activate
<1>8. ASSUME NEW a \in Admin, NEW v \in Version, Rollback(a, v) PROVE IInv'
  BY <1>8, <1>a, SetCurrentPreserves DEF Rollback
<1>9. ASSUME NEW a \in Admin, NEW v \in Version, NEW stable \in BOOLEAN,
             SetStable(a, v, stable)
      PROVE  IInv'
  <2> DEFINE r == [release[v] EXCEPT !.stable = stable]
  <2>1. v \in Rows /\ ~ release[v].deleted
    BY <1>9 DEF SetStable, Live
  <2>2. r \in Row /\ r.current = release[v].current
    BY <2>1, RowFields DEF IInv, Row
  <2>3. release' = [release EXCEPT ![v] = r] /\ UNCHANGED <<draft, job, chosen>>
    BY <1>9 DEF SetStable
  <2> HIDE DEF r
  <2> QED BY <2>1, <2>2, <2>3, <1>a, MarkPreserves
<1>10. ASSUME NEW a \in Admin, NEW v \in Version, DeleteCheck(a, v) PROVE IInv'
  <2> DEFINE j == [step |-> "delete", doc |-> NoDoc, version |-> v]
  <2>1. j \in Job /\ v \in Rows
    BY <1>10 DEF DeleteCheck, Job, Version, Live
  <2> QED BY <1>0, <1>10, <2>1, <1>a, JobPreserves DEF DeleteCheck
<1>11. ASSUME NEW a \in Admin, Delete(a) PROVE IInv'
  <2> DEFINE v == job[a].version
             r == [release[v] EXCEPT !.deleted = TRUE]
  <2>1. v \in Rows
    BY <1>11 DEF Delete, Step, IInv, RowsInHand
  <2>2. r \in Row /\ r.current = release[v].current /\ r.deleted
    BY <2>1, RowFields DEF IInv, Row
  <2>3. release' = [release EXCEPT ![v] = r] /\ Finish(a) /\ UNCHANGED <<draft, chosen>>
    BY <1>11 DEF Delete
  <2> HIDE DEF r, v
  <2> QED BY <2>1, <2>2, <2>3, <1>a, MarkPreserves
<1>12. ASSUME NEW a \in Admin, HasNoReleases(a) PROVE IInv'
  <2> DEFINE j == [step |-> "drop", doc |-> NoDoc, version |-> 0]
  <2>1. j \in Job
    BY DEF Job
  <2> QED BY <1>0, <1>12, <2>1, <1>a, JobPreserves DEF HasNoReleases
<1>13. CASE UNCHANGED vars
  BY <1>13 DEF vars, IInv, TypeOK, Dense, NumberedAbove, RowsInHand, DocInHand,
               ChosenIsLowest, Rows, Live, Current, Step
<1> QED
  BY <1>1, <1>2, <1>3, <1>4, <1>5, <1>6, <1>7, <1>8, <1>9, <1>10, <1>11, <1>12, <1>13
  DEF Next, Request, PublishRootChain

LEMMA Inductive == Spec => []IInv
BY InductiveInit, InductiveNext, PTL DEF Spec

-----------------------------------------------------------------------------
(* Every variable always holds a value of its type: in particular a row is *)
(* complete as soon as it is there, and no request acts on a missing one.  *)
THEOREM TypeCorrect == Spec => []TypeOK
<1>1. IInv => TypeOK
  BY DEF IInv
<1> QED
  BY Inductive, <1>1, PTL

(* The release GetCurrent answers is the one an administrator made current *)
(* last, for any number of publishes that insert, fail or stop meanwhile;  *)
(* only a deletion takes it away.                                          *)
THEOREM ChosenServes == Spec => []ChosenStaysOnline
<1>1. IInv => ChosenStaysOnline
  <2> SUFFICES ASSUME IInv, chosen \in Live PROVE GetCurrent = chosen
    BY DEF ChosenStaysOnline
  <2>1. chosen # 0
    BY DEF Live, Rows, Version
  <2>2. chosen \in Current /\ \A v \in Current : chosen <= v
    BY <2>1 DEF IInv, ChosenIsLowest, Current
  <2> QED BY <2>2, LowestIsCurrent
<1> QED
  BY Inductive, <1>1, PTL

(* No request changes the content of a published version or removes its    *)
(* row, not even when two publishes are given the same number.             *)
THEOREM PublishedKept == Spec => PublishedImmutable
<1> DEFINE Kept == \A v \in Rows : v \in Rows' /\ release'[v].doc = release[v].doc
<1>1. IInv /\ [Next]_vars => [Kept]_vars
  <2> SUFFICES ASSUME IInv, Next, NEW v \in Rows
               PROVE  v \in Rows' /\ release'[v].doc = release[v].doc
    BY DEF vars
  <2>1. v \in Version /\ release[v] \in Row
    BY RowFields DEF IInv, Rows
  <2>2. ASSUME release'[v] \in Row, release'[v].doc = release[v].doc
        PROVE  v \in Rows' /\ release'[v].doc = release[v].doc
    BY <2>1, <2>2, RowIsNotAbsent DEF Rows
  <2>3. ASSUME NEW a \in Admin, Create(a) PROVE release'[v] = release[v]
    BY <2>1, <2>3 DEF Create, IInv, TypeOK
  <2>4. ASSUME NEW u \in Version, SetCurrent(u)
        PROVE  release'[v] \in Row /\ release'[v].doc = release[v].doc
    BY <2>1, <2>4 DEF SetCurrent, Row
  <2>5. ASSUME NEW a \in Admin, NEW u \in Version, NEW stable \in BOOLEAN,
               SetStable(a, u, stable)
        PROVE  release'[v] \in Row /\ release'[v].doc = release[v].doc
    BY <2>1, <2>5 DEF SetStable, IInv, TypeOK, Row
  <2>6. ASSUME NEW a \in Admin, Delete(a)
        PROVE  release'[v] \in Row /\ release'[v].doc = release[v].doc
    BY <2>1, <2>6 DEF Delete, IInv, TypeOK, Row
  <2>7. ASSUME NEW a \in Admin, Activate(a)
        PROVE  job[a].version \in Version /\ SetCurrent(job[a].version)
    BY <2>7 DEF Activate, Step, IInv, RowsInHand, Rows
  <2>8. CASE UNCHANGED release
    BY <2>1, <2>2, <2>8
  <2> QED
    BY <2>1, <2>2, <2>3, <2>4, <2>5, <2>6, <2>7, <2>8
    DEF Next, Request, PublishRootChain, SaveRootChain, ReadDraft, CompareDiffers,
        CompareFails, CompareRefuses, ReadMaxVersion, CreateConflicts, Abort,
        Rollback, DeleteCheck, HasNoReleases, DeleteRootChain
<1> QED
  BY Inductive, <1>1, PTL DEF Spec, PublishedImmutable

-----------------------------------------------------------------------------
(* Requests one at a time. *)

(* What a lone request holds at each of its steps still is so: nobody has  *)
(* been there since it looked.                                             *)
StillProtected ==
  \A a \in Admin : Step(a, "delete") =>
    ~ release[job[a].version].current /\ ~ release[job[a].version].stable

StillUnreleased == \A a \in Admin : Step(a, "drop") => Live = {}

StillDrafted ==
  draft = NoDoc =>
    \A a \in Admin : job[a].step \notin {"compare", "number", "insert", "activate"}

StillFree == \A a \in Admin : Step(a, "insert") => job[a].version \notin Rows

Undisturbed ==
  /\ ProtectedKept
  /\ draft = NoDoc => Live = {}
  /\ StillProtected /\ StillUnreleased /\ StillDrafted /\ StillFree

AloneInv == ~ overlapped => Undisturbed

LEMMA AloneInit == Init => AloneInv
BY RowIsNotAbsent, NoDocAssumption
DEF Init, AloneInv, Undisturbed, ProtectedKept, StillProtected, StillUnreleased,
    StillDrafted, StillFree, Rows, Live, Step, Idle

(* While no requests overlap, the others rest during a step of one. *)
LEMMA OthersRest ==
  ASSUME IInv, NEW a \in Admin, Request(a), NoteOverlap(a), ~ overlapped'
  PROVE  ~ overlapped /\ \A b \in Admin : b # a => Step(b, "idle")
BY DEF NoteOverlap, IInv, TypeOK

(* A step of a lone request that leaves the table and the draft alone, and *)
(* takes it to a step whose findings hold.                                 *)
LEMMA LoneJobPreserves ==
  ASSUME IInv, Undisturbed, NEW a \in Admin, NEW j \in Job,
         \A b \in Admin : b # a => Step(b, "idle"),
         job' = [job EXCEPT ![a] = j], UNCHANGED <<draft, release>>,
         j.step = "delete" =>
           ~ release[j.version].current /\ ~ release[j.version].stable,
         j.step = "drop" => Live = {},
         j.step \in {"compare", "number", "insert", "activate"} => draft # NoDoc,
         j.step = "insert" => j.version \notin Rows
  PROVE  Undisturbed'
<1>1. Rows' = Rows /\ Live' = Live /\ ProtectedKept'
  BY DEF Rows, Live, Undisturbed, ProtectedKept
<1>2. \A b \in Admin : job'[b] = IF b = a THEN j ELSE job[b]
  BY DEF IInv, TypeOK
<1> QED
  BY <1>1, <1>2
  DEF Undisturbed, StillProtected, StillUnreleased, StillDrafted, StillFree, Step

(* A step that ends a lone request, or is one by itself. *)
LEMMA LoneEndPreserves ==
  ASSUME IInv, NEW a \in Admin,
         \A b \in Admin : b # a => Step(b, "idle"),
         Finish(a) \/ (Step(a, "idle") /\ job' = job),
         ProtectedKept', (draft = NoDoc => Live = {})'
  PROVE  Undisturbed'
<1>1. \A b \in Admin : job'[b].step = "idle"
  BY DEF Finish, IInv, TypeOK, Step, Idle
<1> QED
  BY <1>1 DEF Undisturbed, StillProtected, StillUnreleased, StillDrafted, StillFree, Step

(* What the SetCurrent transaction leaves. *)
LEMMA SetCurrentKeeps ==
  ASSUME IInv, ProtectedKept, NEW v \in Version, SetCurrent(v)
  PROVE  ProtectedKept' /\ Live' = Live
<1>1. \A u \in Rows : [release[u] EXCEPT !.current = (u = v)] \in Row
  BY RowFields DEF IInv, Row
<1>2. Rows' = Rows /\ Live' = Live
  BY <1>1, RowFields, RowIsNotAbsent DEF IInv, SetCurrent, Rows, Live, Row
<1>3. \A u \in Rows : release'[u].deleted => release'[u] = release[u]
  BY <1>2, RowFields DEF SetCurrent, Rows, Live, IInv, Row
<1> QED
  BY <1>2, <1>3 DEF ProtectedKept

LEMMA AloneNext == IInv /\ AloneInv /\ [Next]_vars => AloneInv'
<1> SUFFICES ASSUME IInv, AloneInv, [Next]_vars, ~ overlapped' PROVE Undisturbed'
  BY DEF AloneInv
<1>0. \A a \in Admin : job[a] \in Job
  BY DEF IInv, TypeOK
<1>1. CASE UNCHANGED vars
  BY <1>1 DEF vars, AloneInv, Undisturbed, ProtectedKept, StillProtected,
     StillUnreleased, StillDrafted, StillFree, Rows, Live, Step
<1>2. ASSUME NEW d \in Doc, SaveRootChain(d), UNCHANGED overlapped PROVE Undisturbed'
  BY <1>2, NoDocAssumption DEF SaveRootChain, AloneInv, Undisturbed, ProtectedKept,
     StillProtected, StillUnreleased, StillDrafted, StillFree, Rows, Live, Step
<1>3. ASSUME NEW a \in Admin, Request(a), NoteOverlap(a) PROVE Undisturbed'
  <2>1. Undisturbed /\ \A b \in Admin : b # a => Step(b, "idle")
    BY <1>3, OthersRest DEF AloneInv
  <2>2. CASE ReadDraft(a)
    <3> DEFINE j == [step |-> "compare", doc |-> draft, version |-> 0]
    <3>1. j \in Job
      BY <2>2 DEF ReadDraft, Job, IInv, TypeOK
    <3> QED BY <2>1, <2>2, <3>1, LoneJobPreserves DEF ReadDraft
  <2>3. CASE CompareDiffers(a) \/ CompareFails(a)
    <3> DEFINE j == [job[a] EXCEPT !.step = "number"]
    <3>1. j \in Job /\ j.step = "number" /\ draft # NoDoc
      BY <1>0, <2>1, <2>3
      DEF CompareDiffers, CompareFails, Step, Job, Undisturbed, StillDrafted
    <3>2. job' = [job EXCEPT ![a] = j] /\ UNCHANGED <<draft, release>>
      BY <2>3 DEF CompareDiffers, CompareFails
    <3> HIDE DEF j
    <3> QED BY <2>1, <3>1, <3>2, LoneJobPreserves
  <2>4. CASE ReadMaxVersion(a)
    <3> DEFINE j == [job[a] EXCEPT !.step = "insert", !.version = MaxVersion + 1]
    <3>1. MaxVersion \in Nat /\ MaxVersion < LastVersion /\ MaxVersion + 1 \notin Rows
      <4>1. CASE Rows = {}
        BY <2>4, <4>1 DEF ReadMaxVersion, MaxVersion
      <4>2. CASE Rows # {}
        BY <2>4, <4>2, MaxVersionIsMax DEF ReadMaxVersion, Rows, Version
      <4> QED BY <4>1, <4>2
    <3>2. j \in Job /\ j.step = "insert" /\ j.version = MaxVersion + 1 /\ draft # NoDoc
      <4>1. MaxVersion + 1 \in 0 .. LastVersion
        BY <3>1
      <4> QED
        BY <1>0, <2>1, <2>4, <4>1
        DEF ReadMaxVersion, Step, Job, Undisturbed, StillDrafted
    <3>3. job' = [job EXCEPT ![a] = j] /\ UNCHANGED <<draft, release>>
      BY <2>4 DEF ReadMaxVersion
    <3> HIDE DEF j
    <3> QED BY <2>1, <3>1, <3>2, <3>3, LoneJobPreserves
  <2>5. CASE Create(a)
    <3> DEFINE n == job[a].version
               j == [job[a] EXCEPT !.step = "activate"]
    <3>1. /\ n \in Version /\ n \notin Rows /\ job[a].doc \in Doc /\ draft # NoDoc
          /\ Step(a, "insert")
      BY <2>1, <2>5 DEF Create, IInv, NumberedAbove, DocInHand, Step, Undisturbed, StillDrafted
    <3>2. /\ \A u \in Version : u # n => release'[u] = release[u]
          /\ ~ release'[n].deleted
          /\ draft' = draft
      BY <2>5, <3>1 DEF Create, IInv, TypeOK
    <3>3. \A u \in Rows' : u = n \/ u \in Rows
      BY <3>2 DEF Rows
    <3>4. ProtectedKept'
      BY <2>1, <3>1, <3>2, <3>3 DEF Undisturbed, ProtectedKept, Rows
    <3>5. \A b \in Admin : job'[b].step \in {"idle", "activate"}
      BY <2>1, <2>5 DEF Create, IInv, TypeOK, Step
    <3> QED
      BY <3>1, <3>2, <3>4, <3>5
      DEF Undisturbed, StillProtected, StillUnreleased, StillDrafted, StillFree, Step
  <2>6. CASE CompareRefuses(a) \/ CreateConflicts(a) \/ Abort(a)
    BY <2>1, <2>6, LoneEndPreserves
    DEF CompareRefuses, CreateConflicts, Abort, Undisturbed, ProtectedKept, Rows, Live
  <2>7. CASE Activate(a)
    <3>1. job[a].version \in Version /\ SetCurrent(job[a].version) /\ Finish(a)
      BY <2>7 DEF Activate, Step, IInv, RowsInHand, Rows
    <3>2. ProtectedKept' /\ Live' = Live /\ draft' = draft
      BY <2>1, <2>7, <3>1, SetCurrentKeeps DEF Activate, Undisturbed
    <3> QED BY <2>1, <3>1, <3>2, LoneEndPreserves DEF Undisturbed
  <2>8. ASSUME NEW v \in Version, Rollback(a, v) PROVE Undisturbed'
    <3>1. ProtectedKept' /\ Live' = Live /\ draft' = draft
      BY <2>1, <2>8, SetCurrentKeeps DEF Rollback, Undisturbed
    <3> QED BY <2>1, <2>8, <3>1, LoneEndPreserves DEF Rollback, Undisturbed
  <2>9. ASSUME NEW v \in Version, NEW stable \in BOOLEAN, SetStable(a, v, stable)
        PROVE  Undisturbed'
    <3>1. v \in Rows /\ ~ release[v].deleted /\ release[v] \in Row
      BY <2>9, RowFields DEF SetStable, Live, IInv
    <3>2. /\ \A u \in Version : u # v => release'[u] = release[u]
          /\ ~ release'[v].deleted /\ release'[v] \in Row
      BY <2>9, <3>1 DEF SetStable, IInv, TypeOK, Row, Rows
    <3>3. Rows' = Rows /\ Live' = Live
      BY <3>1, <3>2, RowIsNotAbsent DEF Rows, Live
    <3>4. ProtectedKept'
      BY <2>1, <3>2, <3>3 DEF Undisturbed, ProtectedKept, Rows
    <3> QED BY <2>1, <2>9, <3>3, <3>4, LoneEndPreserves DEF SetStable, Undisturbed
  <2>10. ASSUME NEW v \in Version, DeleteCheck(a, v) PROVE Undisturbed'
    <3> DEFINE j == [step |-> "delete", doc |-> NoDoc, version |-> v]
    <3>1. j \in Job
      BY DEF Job, Version
    <3> QED BY <2>1, <2>10, <3>1, LoneJobPreserves DEF DeleteCheck
  <2>11. CASE Delete(a)
    <3> DEFINE v == job[a].version
    <3>1. v \in Rows /\ release[v] \in Row /\ ~ release[v].current /\ ~ release[v].stable
      BY <2>1, <2>11, RowFields
      DEF Delete, Step, IInv, RowsInHand, Undisturbed, StillProtected
    <3>2. /\ \A u \in Version : u # v => release'[u] = release[u]
          /\ release'[v].deleted /\ ~ release'[v].current /\ ~ release'[v].stable
          /\ draft' = draft
      BY <2>11, <3>1 DEF Delete, IInv, TypeOK, Row, Rows
    <3>3. Live' \subseteq Live /\ Rows' \subseteq Rows
      BY <3>1, <3>2 DEF Rows, Live
    <3>4. ProtectedKept'
      BY <2>1, <3>2, <3>3 DEF Undisturbed, ProtectedKept, Rows
    <3> HIDE DEF v
    <3> QED BY <2>1, <2>11, <3>2, <3>3, <3>4, LoneEndPreserves DEF Delete, Undisturbed
  <2>12. CASE HasNoReleases(a)
    <3> DEFINE j == [step |-> "drop", doc |-> NoDoc, version |-> 0]
    <3>1. j \in Job
      BY DEF Job
    <3> QED BY <2>1, <2>12, <3>1, LoneJobPreserves DEF HasNoReleases
  <2>13. CASE DeleteRootChain(a)
    <3>1. Live = {} /\ Live' = Live /\ ProtectedKept'
      BY <2>1, <2>13
      DEF DeleteRootChain, Undisturbed, StillUnreleased, ProtectedKept, Rows, Live
    <3> QED BY <2>1, <2>13, <3>1, LoneEndPreserves DEF DeleteRootChain
  <2> QED
    BY <1>3, <2>2, <2>3, <2>4, <2>5, <2>6, <2>7, <2>8, <2>9, <2>10, <2>11, <2>12, <2>13
    DEF Request, PublishRootChain
<1> QED
  BY <1>1, <1>2, <1>3 DEF Next

LEMMA Alone == Spec => []AloneInv
BY AloneInit, AloneNext, Inductive, PTL DEF Spec

(* However many requests there are and wherever each of them was cut off,  *)
(* as long as they come one at a time no current or stable version is ever *)
(* deleted.                                                                *)
THEOREM ProtectedServed == Spec => []ProtectedAlone
<1>1. AloneInv => ProtectedAlone
  BY DEF AloneInv, Undisturbed, ProtectedAlone
<1> QED
  BY Alone, <1>1, PTL

(* One at a time, no request deletes a root chain that has releases. *)
THEOREM ReleasesHaveChain == Spec => []ChainKept
<1>1. AloneInv => ChainKept
  BY DEF AloneInv, Undisturbed, ChainKept
<1> QED
  BY Alone, <1>1, PTL

(* One at a time, a publish never runs into the unique index, whatever was *)
(* deleted before.                                                         *)
THEOREM PublishFindsNumber == Spec => []NumberIsFree
<1>1. AloneInv => NumberIsFree
  BY DEF AloneInv, Undisturbed, StillFree, NumberIsFree
<1> QED
  BY Alone, <1>1, PTL

(* One at a time, wherever each request is cut off, a chain that serves a  *)
(* version goes on serving one (Create before SetCurrent, DeleteByVersion).*)
THEOREM StaysOnline == Spec => NeverOffline
<1> DEFINE Stays == GetCurrent # 0 /\ ~ overlapped' => GetCurrent' # 0
<1>a. (Current # {} => GetCurrent # 0)'
  BY CurrentIsFound, PTL
<1>1. IInv /\ AloneInv /\ [Next]_vars => [Stays]_vars
  <2> SUFFICES ASSUME IInv, AloneInv, Next, GetCurrent # 0, ~ overlapped'
               PROVE  GetCurrent' # 0
    BY DEF vars
  <2>1. Current # {}
    BY DEF GetCurrent
  <2>2. ASSUME Current' # {} PROVE GetCurrent' # 0
    BY <1>a, <2>2
  <2>3. ASSUME UNCHANGED release PROVE Current' # {}
    BY <2>1, <2>3 DEF Current, Live, Rows
  <2>4. PICK c \in Current : TRUE
    BY <2>1
  <2>5. c \in Version /\ release[c] \in Row /\ ~ release[c].deleted /\ release[c].current /\ c \in Live
    BY RowFields DEF Current, Live, Rows, IInv
  <2>6. ASSUME release'[c] \in Row, ~ release'[c].deleted, release'[c].current
        PROVE  Current' # {}
    BY <2>5, <2>6, RowIsNotAbsent DEF Current, Live, Rows
  <2>7. ASSUME NEW a \in Admin, Create(a) PROVE Current' # {}
    <3>1. release'[c] = release[c]
      BY <2>5, <2>7 DEF Create, Live, IInv, TypeOK
    <3> QED BY <2>5, <2>6, <3>1
  <2>8. ASSUME NEW v \in Version, SetCurrent(v) PROVE Current' # {}
    <3>1. release[v] \in Row /\ ~ release[v].deleted
      BY <2>8, RowFields DEF SetCurrent, Live, IInv
    <3>2. release'[v] \in Row /\ ~ release'[v].deleted /\ release'[v].current
      BY <2>8, <3>1 DEF SetCurrent, Row
    <3> QED BY <3>2, RowIsNotAbsent DEF Current, Live, Rows
  <2>9. ASSUME NEW a \in Admin, Activate(a) PROVE Current' # {}
    <3>1. job[a].version \in Version /\ SetCurrent(job[a].version)
      BY <2>9 DEF Activate, Step, IInv, RowsInHand, Rows
    <3> QED BY <2>8, <3>1
  <2>10. ASSUME NEW a \in Admin, NEW v \in Version, NEW stable \in BOOLEAN,
               SetStable(a, v, stable)
        PROVE  Current' # {}
    <3>1. release'[c] \in Row /\ ~ release'[c].deleted /\ release'[c].current
      BY <2>5, <2>10 DEF SetStable, IInv, TypeOK, Row
    <3> QED BY <2>6, <3>1
  <2>11. ASSUME NEW a \in Admin, Delete(a), NoteOverlap(a), Request(a) PROVE Current' # {}
    <3>1. ~ release[job[a].version].current
      BY <2>11, OthersRest DEF AloneInv, Undisturbed, StillProtected, Delete
    <3>2. c # job[a].version
      BY <2>5, <3>1
    <3>3. release'[c] = release[c]
      BY <2>5, <2>11, <3>2 DEF Delete, IInv, TypeOK
    <3> QED BY <2>5, <2>6, <3>3
  <2>12. ASSUME NEW a \in Admin, Request(a), NoteOverlap(a) PROVE Current' # {}
    BY <2>3, <2>7, <2>8, <2>9, <2>10, <2>11, <2>12
    DEF Request, PublishRootChain, ReadDraft, CompareDiffers, CompareFails,
        CompareRefuses, ReadMaxVersion, CreateConflicts, Abort, Rollback, DeleteCheck,
        HasNoReleases, DeleteRootChain
  <2> QED
    BY <2>2, <2>3, <2>12 DEF Next, SaveRootChain
<1> QED
  BY Alone, Inductive, <1>1, PTL DEF Spec, NeverOffline

-----------------------------------------------------------------------------
(* Readers see what OnlineRelease promises. *)

LEMMA PublishedAreRows ==
  ASSUME TypeOK
  PROVE  Promise!Published = Rows /\ Promise!Version = Version
<1>1. \A v \in Version : release[v] # Absent <=> release[v].doc # NoDoc
  BY RowIsNotAbsent DEF TypeOK, Row, Absent
<1> QED
  BY <1>1 DEF Promise!Published, Promise!Version, Version, Rows

(* Nothing is current: GetCurrent answers no version. *)
LEMMA NoneIsFound == GetCurrent = 0 <=> Current = {}
BY CurrentIsFound DEF GetCurrent

(* What GetCurrent answers, in one formula: the proofs below need it of    *)
(* the next state too.                                                     *)
Answers ==
  /\ GetCurrent = 0 <=> Current = {}
  /\ \A c \in Current : (\A v \in Current : c <= v) => GetCurrent = c
  /\ Current # {} => GetCurrent \in Current /\ \A v \in Current : GetCurrent <= v

LEMMA AnswersAlways == Answers
BY NoneIsFound, LowestIsCurrent, LowestIsFound DEF Answers

LEMMA AnswersNext == Answers'
BY AnswersAlways, PTL

(* Steps after which readers find what they found. *)
LEMMA SameForReaders ==
  ASSUME IInv, \A v \in Version : release'[v].doc = release[v].doc,
         Current' = Current, overlapped' \in BOOLEAN, overlapped => overlapped'
  PROVE  Promise!Next
<1>1. GetCurrent' = GetCurrent
  BY DEF GetCurrent
<1> QED
  BY <1>1 DEF Promise!Next, Promise!Rest

LEMMA SetCurrentRefines ==
  ASSUME IInv, NEW v \in Version, SetCurrent(v), overlapped' \in BOOLEAN, overlapped => overlapped'
  PROVE  Promise!Next
<1>1. \A u \in Rows : [release[u] EXCEPT !.current = (u = v)] \in Row
  BY RowFields DEF IInv, Row
<1>2. Rows' = Rows /\ Live' = Live
  BY <1>1, RowFields, RowIsNotAbsent DEF IInv, SetCurrent, Rows, Live, Row
<1>3. Current' = {v}
  BY <1>2, RowFields DEF IInv, SetCurrent, Current, Live, Rows, Row
<1>4. \A u \in Version : release'[u].doc = release[u].doc
  BY RowFields DEF IInv, SetCurrent, Live, Rows, Row
<1>5. GetCurrent' = v
  BY <1>3, AnswersNext DEF Answers, Version
<1>6. v \in Promise!Published /\ v \in Promise!Version
  BY PublishedAreRows DEF IInv, SetCurrent, Live
<1>7. Promise!Switch(v)
  BY <1>4, <1>5, <1>6 DEF Promise!Switch
<1> QED
  BY <1>6, <1>7 DEF Promise!Next

LEMMA CreateRefines ==
  ASSUME IInv, NEW a \in Admin, Create(a), overlapped' \in BOOLEAN, overlapped => overlapped'
  PROVE  Promise!Next
<1>0. job[a].version \in Version /\ job[a].doc \in Doc
  BY DEF Create, IInv, NumberedAbove, DocInHand, Step
<1>n. PICK n \in Version : n = job[a].version
  BY <1>0
<1>d. PICK d \in Doc : d = job[a].doc
  BY <1>0
<1> DEFINE row == [doc |-> d, current |-> TRUE, stable |-> FALSE, deleted |-> FALSE]
<1>1. n \notin Rows /\ (\A u \in Version : u < n => u \in Rows)
  BY <1>n DEF Create, IInv, NumberedAbove, Step
<1>2. release' = [release EXCEPT ![n] = row] /\ row \in Row
  BY <1>n, <1>d DEF Create, Row
<1>3. Current' = Current \cup {n}
  <2>1. row # Absent /\ row.current /\ ~ row.deleted
    BY <1>2, RowIsNotAbsent DEF row
  <2> HIDE DEF row
  <2> QED BY <1>1, <1>2, <2>1 DEF IInv, TypeOK, Rows, Live, Current
<1>4. \A u \in Version : u \in Rows <=> u < n
  <2> SUFFICES ASSUME NEW u \in Version, u \in Rows PROVE u < n
    BY <1>1
  <2>1. ~ (n < u) /\ u # n
    BY <1>1 DEF IInv, Dense
  <2> QED BY <1>1, <2>1 DEF Version
<1>5. [v \in Version |-> release'[v].doc] = [[v \in Version |-> release[v].doc] EXCEPT ![n] = d]
  <2>1. row.doc = d
    OBVIOUS
  <2> HIDE DEF row
  <2> QED BY <1>1, <1>2, <2>1 DEF IInv, TypeOK
<1> HIDE DEF row
<1>6. GetCurrent' = IF GetCurrent = 0 THEN n ELSE GetCurrent
  <2>1. CASE GetCurrent = 0
    <3>1. Current' = {n}
      BY <1>3, <2>1, NoneIsFound
    <3> QED BY <1>1, <2>1, <3>1, AnswersNext DEF Answers, Version
  <2>2. CASE GetCurrent # 0
    <3>1. GetCurrent \in Current /\ \A v \in Current : GetCurrent <= v
      BY <2>2, NoneIsFound, LowestIsFound
    <3>2. GetCurrent \in Rows /\ GetCurrent \in Version
      BY <3>1 DEF Current, Live, Rows
    <3>3. GetCurrent <= n
      BY <1>1, <1>4, <3>2 DEF Version
    <3> QED BY <1>3, <2>2, <3>1, <3>3, AnswersNext DEF Answers
  <2> QED BY <2>1, <2>2
<1>7. Promise!Publish(n, d)
  BY <1>4, <1>5, <1>6, PublishedAreRows DEF Promise!Publish, IInv
<1>8. n \in Promise!Version
  BY PublishedAreRows DEF IInv
<1> QED
  BY <1>7, <1>8 DEF Promise!Next

LEMMA SetStableRefines ==
  ASSUME IInv, NEW a \in Admin, NEW v \in Version, NEW stable \in BOOLEAN,
         SetStable(a, v, stable), overlapped' \in BOOLEAN, overlapped => overlapped'
  PROVE  Promise!Next
<1>1. v \in Rows /\ release[v] \in Row
  BY RowFields DEF SetStable, Live, IInv
<1>2. /\ \A u \in Version : u # v => release'[u] = release[u]
      /\ release'[v] \in Row /\ release'[v].doc = release[v].doc
      /\ release'[v].deleted = release[v].deleted /\ release'[v].current = release[v].current
  BY <1>1 DEF SetStable, IInv, TypeOK, Row, Rows
<1>3. Rows' = Rows
  BY <1>1, <1>2, RowIsNotAbsent DEF Rows
<1>4. Current' = Current
  BY <1>2, <1>3 DEF Live, Current, Rows
<1>5. \A u \in Version : release'[u].doc = release[u].doc
  BY <1>2
<1> QED
  BY <1>4, <1>5, SameForReaders

(* Only in company a request deletes the version online: the others look   *)
(* at the mark and nobody sets it meanwhile.                               *)
LEMMA DeleteRefines ==
  ASSUME IInv, AloneInv, NEW a \in Admin, Delete(a), Request(a), NoteOverlap(a),
         overlapped' \in BOOLEAN, overlapped => overlapped'
  PROVE  Promise!Next
<1> DEFINE v == job[a].version
<1>1. v \in Rows /\ v \in Version /\ release[v] \in Row
  BY RowFields DEF Delete, Step, IInv, RowsInHand, Rows
<1>2. ~ overlapped' => ~ release[v].current
  BY OthersRest DEF AloneInv, Undisturbed, StillProtected, Delete
<1>3. /\ \A u \in Version : u # v => release'[u] = release[u]
      /\ release'[v] \in Row /\ release'[v].doc = release[v].doc /\ release'[v].deleted
  BY <1>1 DEF Delete, IInv, TypeOK, Row, Rows
<1> HIDE DEF v
<1>4. Rows' = Rows
  BY <1>1, <1>3, RowIsNotAbsent DEF Rows
<1>5. Current' = Current \ {v}
  BY <1>1, <1>3, <1>4 DEF Live, Current, Rows
<1>6. \A u \in Version : release'[u].doc = release[u].doc
  BY <1>3
<1>7. CASE v \notin Current
  BY <1>5, <1>6, <1>7, SameForReaders
<1>8. CASE v \in Current
  <2>1. overlapped'
    BY <1>2, <1>8 DEF Current
  <2>2. GetCurrent \in Current /\ \A u \in Current : GetCurrent <= u
    BY <1>8, LowestIsFound
  <2>3. CASE GetCurrent # v
    <3>1. GetCurrent' = GetCurrent
      BY <1>5, <2>2, <2>3, AnswersNext DEF Answers
    <3> QED BY <1>6, <3>1 DEF Promise!Next, Promise!Rest
  <2>4. CASE GetCurrent = v
    <3>1. GetCurrent # 0
      BY <1>8, NoneIsFound
    <3>2. ASSUME GetCurrent' # 0 PROVE GetCurrent' \in Promise!Published /\ GetCurrent < GetCurrent'
      <4>1. GetCurrent' \in Current /\ GetCurrent' # GetCurrent
        BY <1>5, <2>4, <3>2, AnswersNext DEF Answers
      <4>2. GetCurrent' \in Rows /\ GetCurrent' \in Nat /\ GetCurrent \in Nat
        BY <2>2, <4>1 DEF Current, Live, Rows, Version
      <4>3. GetCurrent <= GetCurrent'
        BY <2>2, <4>1
      <4> QED BY <4>1, <4>2, <4>3, PublishedAreRows DEF IInv
    <3>3. Promise!Withdraw
      BY <1>6, <2>1, <3>1, <3>2 DEF Promise!Withdraw
    <3> QED BY <3>3 DEF Promise!Next
  <2> QED BY <2>3, <2>4
<1> QED
  BY <1>7, <1>8

LEMMA PromiseInit == Init => Promise!Init
<1> SUFFICES ASSUME Init PROVE Promise!Init
  OBVIOUS
<1>1. \A v \in Version : release[v] = Absent
  BY DEF Init
<1>2. GetCurrent = 0
  BY <1>1, NoneIsFound DEF Current, Live, Rows
<1> QED
  BY <1>1, <1>2 DEF Init, Promise!Init, Promise!Version, Version, Absent

LEMMA NextRefines ==
  IInv /\ AloneInv /\ [Next]_vars => [Promise!Next]_(Promise!vars)
<1> SUFFICES ASSUME IInv, AloneInv, [Next]_vars PROVE [Promise!Next]_(Promise!vars)
  OBVIOUS
<1>1. CASE UNCHANGED vars
  BY <1>1 DEF vars, Promise!vars, GetCurrent, Current, Live, Rows
<1>2. ASSUME Next PROVE overlapped' \in BOOLEAN /\ (overlapped => overlapped')
  BY <1>2 DEF Next, NoteOverlap, IInv, TypeOK
<1>3. ASSUME Next, UNCHANGED release PROVE Promise!Next
  <2>1. Current' = Current
    BY <1>3 DEF Current, Live, Rows
  <2> QED BY <1>2, <1>3, <2>1, SameForReaders
<1>4. ASSUME NEW a \in Admin, Request(a), NoteOverlap(a) PROVE Promise!Next
  <2>1. Next
    BY <1>4 DEF Next
  <2>2. CASE Create(a)
    BY <1>2, <2>1, <2>2, CreateRefines
  <2>3. CASE Activate(a)
    <3>1. job[a].version \in Version /\ SetCurrent(job[a].version)
      BY <2>3 DEF Activate, Step, IInv, RowsInHand, Rows
    <3> QED BY <1>2, <2>1, <3>1, SetCurrentRefines
  <2>4. ASSUME NEW v \in Version, Rollback(a, v) PROVE Promise!Next
    BY <1>2, <2>1, <2>4, SetCurrentRefines DEF Rollback
  <2>5. ASSUME NEW v \in Version, NEW stable \in BOOLEAN, SetStable(a, v, stable)
        PROVE  Promise!Next
    BY <1>2, <2>1, <2>5, SetStableRefines
  <2>6. CASE Delete(a)
    BY <1>2, <1>4, <2>1, <2>6, DeleteRefines
  <2> QED
    BY <1>3, <1>4, <2>1, <2>2, <2>3, <2>4, <2>5, <2>6
    DEF Request, PublishRootChain, ReadDraft, CompareDiffers, CompareFails,
        CompareRefuses, ReadMaxVersion, CreateConflicts, Abort, DeleteCheck,
        HasNoReleases, DeleteRootChain
<1> QED
  BY <1>1, <1>3, <1>4 DEF Next, SaveRootChain

(* Whatever requests interleave and wherever they end, the table keeps to  *)
(* OnlineRelease: the contents, the order of the numbers, and what is      *)
(* online change for its readers as that promises (GetCurrent, Create,     *)
(* SetCurrent, DeleteByVersion).                                           *)
THEOREM Implements == Spec => ImplementsOnlineRelease
BY Inductive, Alone, PromiseInit, NextRefines, PTL
   DEF Spec, ImplementsOnlineRelease, Promise!Spec
=============================================================================
