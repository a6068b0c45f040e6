------------------------- MODULE OfflineAlertProofs -------------------------
(***************************************************************************)
(* OfflineAlert for any number of activities, and any thresholds and ages  *)
(* the assumptions allow: its types, that no alert is sent of an activity  *)
(* in view, and that no recovery is announced that did not take place.     *)
(*                                                                         *)
(* NoFalseAlarm rests on how far what the manager holds can lag behind an  *)
(* activity in view.  Watched says it of one tick: a listener task has     *)
(* scanned the last report or has its scan still to do, and without a task *)
(* there is nothing to judge by.  Settled says it of two: what was seen is *)
(* at most a tick old, and where nothing was seen the grace has only begun.*)
(***************************************************************************)
EXTENDS OfflineAlert, TLAPS

USE ThresholdAssumption, AgesAssumption, NeverAssumption

(* What the manager has seen lately was reported, and not before. *)
Seen ==
  \A a \in Activity : hbLast[a] # Never /\ hbLast[a] < Threshold =>
    beat[a] # Never /\ beat[a] <= hbLast[a]

(* Whatever is in the books as offline was alerted, and nothing since. *)
Pending == \A a \in Activity : offline[a] # NotOffline => told[a] = "offline"

Watched ==
  \A a \in Activity : steady[a] >= 1 =>
    /\ a \in up /\ redis = "up" /\ beat[a] = 0
    /\ task \/ (hbLast[a] = Never /\ monitored[a] # "redis")
    /\ task /\ ~ scanDue => hbLast[a] = 0

Settled ==
  \A a \in Activity : steady[a] >= 2 =>
    /\ hbLast[a] # Never => hbLast[a] <= 1
    /\ hbLast[a] = Never /\ monitored[a] = "redis" => added[a] = 0
    /\ hbLast[a] = Never /\ task => monitored[a] # "blind"

IInv == TypeOK /\ Seen /\ Pending /\ Watched /\ Settled

-----------------------------------------------------------------------------
(* Operators. *)

LEMMA NotOfflineIsNoState == NotOffline \notin State
BY DEF NotOffline, State

LEMMA AlertLimitNat == AlertLimit \in Nat \ {0}
BY DEF AlertLimit

LEMMA OlderType ==
  ASSUME NEW limit \in Nat, NEW age \in 0 .. limit \cup {Never}
  PROVE  /\ Older(age, limit) \in 0 .. limit \cup {Never}
         /\ Older(age, limit) = Never <=> age = Never
         /\ age # Never /\ age < limit => Older(age, limit) = age + 1
         /\ age = limit => Older(age, limit) = limit
BY DEF Older, AtMost

LEMMA DisturbType ==
  ASSUME TypeOK, NEW as, Disturb(as)
  PROVE  /\ steady' \in [Activity -> 0 .. 2]
         /\ \A a \in Activity : steady'[a] # 0 => a \notin as /\ steady'[a] = steady[a]
<1>1. \A a \in Activity : steady'[a] = IF a \in as THEN 0 ELSE steady[a]
  BY DEF Disturb
<1>2. \A a \in Activity : steady'[a] \in 0 .. 2
  <2>1. \A a \in Activity : steady[a] \in 0 .. 2
    BY DEF TypeOK
  <2>2. ASSUME NEW a \in Activity PROVE steady'[a] = 0 \/ steady'[a] = steady[a]
    BY <1>1
  <2> QED BY <2>1, <2>2
<1>3. steady' \in [Activity -> 0 .. 2]
  BY <1>2 DEF Disturb
<1> QED
  BY <1>1, <1>3

(* The four outcomes of a check exclude each other. *)
LEMMA OutcomesExclusive ==
  ASSUME TypeOK, NEW a \in Activity
  PROVE  /\ New(a) => ~ Reminds(a) /\ ~ GivesUp(a) /\ ~ Recovered(a)
         /\ Reminds(a) => ~ GivesUp(a) /\ ~ Recovered(a)
         /\ GivesUp(a) => ~ Recovered(a)
BY DEF New, Reminds, GivesUp, Recovered, IsOffline, IsBack, Overdue, Unseen, TypeOK

LEMMA CheckOutcome ==
  ASSUME TypeOK, checkOfflineActivities, NEW a \in Activity
  PROVE  /\ New(a) => offline'[a] = [at |-> 0, alert |-> 0] /\ told'[a] = "offline"
         /\ Reminds(a) => /\ offline'[a] = [offline[a] EXCEPT !.alert = 0]
                          /\ told'[a] = "offline"
         /\ GivesUp(a) => offline'[a] = NotOffline /\ told'[a] = told[a]
         /\ Recovered(a) => offline'[a] = NotOffline /\ told'[a] = "recovered"
         /\ ~ New(a) /\ ~ Reminds(a) /\ ~ GivesUp(a) /\ ~ Recovered(a) =>
              offline'[a] = offline[a] /\ told'[a] = told[a]
BY OutcomesExclusive DEF checkOfflineActivities

-----------------------------------------------------------------------------
(* The invariant, action by action. *)

LEMMA InductiveInit == Init => IInv
<1> SUFFICES ASSUME Init PROVE IInv
  OBVIOUS
<1>1. /\ beat \in [Activity -> 0 .. CacheTTL + 1 \cup {Never}]
      /\ hbLast \in [Activity -> 0 .. Threshold \cup {Never}]
      /\ added \in [Activity -> 0 .. Grace \cup {Never}]
      /\ steady \in [Activity -> 0 .. 2]
  BY DEF Init
<1>2. /\ monitored \in [Activity -> {"no", "blind", "redis"}]
      /\ \A a \in Activity : monitored[a] = "no" <=> added[a] = Never
      /\ offline \in [Activity -> State \cup {NotOffline}]
      /\ told \in [Activity -> {"nothing", "offline", "recovered"}]
  BY DEF Init
<1>3. /\ task \in BOOLEAN /\ scanDue \in BOOLEAN /\ redis \in {"none", "down", "up"}
      /\ up \subseteq Activity /\ wanted \subseteq Activity /\ givenUp \subseteq Activity
  BY DEF Init
<1>4. Seen /\ Pending /\ Watched /\ Settled
  BY DEF Init, Seen, Pending, Watched, Settled
<1> QED
  BY <1>1, <1>2, <1>3, <1>4 DEF IInv, TypeOK

LEMMA WorldPreserves == IInv /\ World => IInv'
<1> SUFFICES ASSUME IInv, World PROVE IInv'
  OBVIOUS
<1> USE DEF IInv, TypeOK, Seen, Pending, Watched, Settled
<1>1. ASSUME NEW a \in Activity, StartWorker(a) PROVE IInv'
  BY <1>1 DEF StartWorker, listenVars, alertVars, historyVars
<1>2. ASSUME NEW a \in Activity, StopWorker(a) PROVE IInv'
  BY <1>2, DisturbType DEF StopWorker, listenVars, alertVars
<1>3. ASSUME NEW as \in SUBSET Activity, SetWanted(as) PROVE IInv'
  BY <1>3 DEF SetWanted, listenVars, alertVars, historyVars
<1>4. ASSUME NEW r \in {"none", "down", "up"}, SetRedis(r) PROVE IInv'
  BY <1>4, DisturbType DEF SetRedis, listenVars, alertVars
<1> QED
  BY <1>1, <1>2, <1>3, <1>4 DEF World

LEMMA ReconcilePreserves == IInv /\ reconcile => IInv'
<1> SUFFICES ASSUME IInv, reconcile PROVE IInv'
  OBVIOUS
<1>1. UNCHANGED <<up, beat, wanted, redis, hbLast, monitored, added, offline, told, givenUp>>
  BY DEF reconcile, worldVars, alertVars
<1>2. CASE redis = "up" /\ StartTask
  <2>1. /\ steady' \in [Activity -> 0 .. 2]
        /\ \A a \in Activity : steady'[a] # 0 =>
             steady'[a] = steady[a] /\ (task \/ monitored[a] # "blind")
    BY <1>2, DisturbType DEF StartTask, IInv
  <2>2. task' = TRUE /\ scanDue' = (scanDue \/ ~ task)
    BY <1>2 DEF StartTask
  <2>3. TypeOK'
    BY <1>1, <2>1, <2>2 DEF IInv, TypeOK
  <2>4. Watched'
    <3> SUFFICES ASSUME NEW a \in Activity, steady'[a] >= 1
                 PROVE  /\ a \in up /\ redis = "up" /\ beat[a] = 0
                        /\ ~ scanDue' => hbLast[a] = 0
      BY <1>1, <2>2 DEF Watched
    <3>1. steady[a] >= 1
      BY <2>1
    <3> QED BY <2>2, <3>1 DEF IInv, Watched
  <2>5. Settled'
    BY <1>1, <2>1, <2>2 DEF IInv, TypeOK, Watched, Settled
  <2> QED BY <1>1, <2>3, <2>4, <2>5 DEF IInv, Seen, Pending
<1>3. CASE redis # "up" /\ task' \in BOOLEAN /\ UNCHANGED <<scanDue, steady>>
  BY <1>1, <1>3 DEF IInv, TypeOK, Seen, Pending, Watched, Settled
<1> QED
  BY <1>2, <1>3 DEF reconcile, CloseTask, IInv, TypeOK

LEMMA ScanPreserves ==
  ASSUME IInv, NEW gone \in SUBSET Silent, scanHeartbeats(gone)
  PROVE  IInv'
<1>1. UNCHANGED <<up, beat, wanted, redis, task, monitored, added, offline, told, givenUp, steady>>
  BY DEF scanHeartbeats, worldVars, alertVars, historyVars
<1>2. task /\ scanDue' = FALSE
  BY DEF scanHeartbeats
<1>3. ASSUME NEW a \in Activity
      PROVE  /\ hbLast'[a] \in 0 .. Threshold \cup {Never}
             /\ \/ hbLast'[a] = hbLast[a]
                \/ /\ beat[a] # Never /\ hbLast'[a] # Never
                   /\ hbLast'[a] < Threshold => beat[a] <= hbLast'[a]
                   /\ hbLast[a] # Never => hbLast'[a] <= hbLast[a]
             /\ redis = "up" /\ beat[a] = 0 => hbLast'[a] = 0
  <2>1. CASE redis = "up" /\ a \in Found(gone)
    <3>1. hbLast'[a] = Younger(AtMost(beat[a], Threshold), hbLast[a])
      BY <2>1 DEF scanHeartbeats
    <3>2. /\ beat[a] \in 0 .. CacheTTL + 1 /\ beat[a] # Never
          /\ hbLast[a] \in 0 .. Threshold \cup {Never}
      BY <2>1 DEF Found, IInv, TypeOK
    <3> QED BY <3>1, <3>2 DEF Younger, AtMost, IInv, Seen
  <2>2. CASE ~ (redis = "up" /\ a \in Found(gone))
    <3>1. hbLast'[a] = hbLast[a] /\ hbLast[a] \in 0 .. Threshold \cup {Never}
      BY <2>2 DEF scanHeartbeats, IInv, TypeOK
    <3>2. beat[a] = 0 => a \in Found(gone)
      BY DEF Found, Silent
    <3> QED BY <2>2, <3>1, <3>2
  <2> QED BY <2>1, <2>2
<1>4. hbLast' \in [Activity -> 0 .. Threshold \cup {Never}]
  BY <1>3 DEF scanHeartbeats
<1>5. TypeOK'
  BY <1>1, <1>2, <1>4 DEF IInv, TypeOK
<1>6. Seen'
  BY <1>1, <1>3 DEF IInv, Seen
<1>7. Watched' /\ Settled'
  BY <1>1, <1>2, <1>3 DEF IInv, TypeOK, Watched, Settled
<1> QED
  BY <1>1, <1>5, <1>6, <1>7 DEF IInv, Pending

LEMMA RefreshPreserves == IInv /\ refreshMonitored => IInv'
<1> SUFFICES ASSUME IInv, refreshMonitored PROVE IInv'
  OBVIOUS
<1>1. UNCHANGED <<up, beat, wanted, redis, task, scanDue, hbLast, told, givenUp, steady>>
  BY DEF refreshMonitored, worldVars, listenVars, historyVars
<1>2. /\ monitored' \in [Activity -> {"no", "blind", "redis"}]
      /\ \A a \in Activity :
           /\ monitored'[a] = "redis" => task
           /\ monitored'[a] = "blind" => ~ task
           /\ monitored'[a] = "no" <=> a \notin wanted
  BY DEF refreshMonitored
<1>3. /\ added' \in [Activity -> 0 .. Grace \cup {Never}]
      /\ \A a \in Activity :
           /\ added'[a] = Never <=> a \notin wanted
           /\ a \in wanted /\ added[a] \in {Never, 0} => added'[a] = 0
  BY DEF refreshMonitored, AddedAt, IInv, TypeOK
<1>4. /\ offline' \in [Activity -> State \cup {NotOffline}]
      /\ \A a \in Activity : offline'[a] \in {offline[a], NotOffline}
  BY DEF refreshMonitored, IInv, TypeOK
<1>5. TypeOK'
  BY <1>1, <1>2, <1>3, <1>4 DEF IInv, TypeOK
<1>6. Watched'
  BY <1>1, <1>2 DEF IInv, TypeOK, Watched
<1>7. Settled'
  <2> SUFFICES ASSUME NEW a \in Activity, steady[a] >= 2
               PROVE  /\ hbLast[a] # Never => hbLast[a] <= 1
                      /\ hbLast[a] = Never /\ monitored'[a] = "redis" => added'[a] = 0
                      /\ hbLast[a] = Never /\ task => monitored'[a] # "blind"
    BY <1>1 DEF Settled
  <2>1. ASSUME hbLast[a] = Never, monitored'[a] = "redis" PROVE added[a] \in {Never, 0}
    <3>1. task /\ monitored[a] # "blind"
      BY <1>2, <2>1 DEF IInv, Settled
    <3> QED BY <2>1, <3>1 DEF IInv, TypeOK, Settled
  <2> QED BY <1>2, <1>3, <2>1 DEF IInv, Settled
<1> QED
  BY <1>1, <1>4, <1>5, <1>6, <1>7 DEF IInv, Seen, Pending

LEMMA CheckPreserves == IInv /\ checkOfflineActivities => IInv'
<1> SUFFICES ASSUME IInv, checkOfflineActivities PROVE IInv'
  OBVIOUS
<1>1. UNCHANGED <<up, beat, wanted, redis, task, scanDue, hbLast, monitored, added, steady>>
  BY DEF checkOfflineActivities, worldVars, listenVars
<1>2. ASSUME NEW a \in Activity
      PROVE  /\ offline'[a] \in State \cup {NotOffline}
             /\ told'[a] \in {"nothing", "offline", "recovered"}
             /\ offline'[a] # NotOffline => told'[a] = "offline"
  <2>1. TypeOK /\ offline[a] \in State \cup {NotOffline}
    BY DEF IInv, TypeOK
  <2>2. CASE New(a)
    <3>1. [at |-> 0, alert |-> 0] \in State
      BY AlertLimitNat DEF State
    <3> QED BY <2>1, <2>2, <3>1, CheckOutcome
  <2>3. CASE Reminds(a)
    <3>1. offline[a] \in State
      BY <2>1, <2>3 DEF Reminds
    <3>2. [offline[a] EXCEPT !.alert = 0] \in State
      BY <3>1, AlertLimitNat DEF State
    <3> QED BY <2>1, <2>3, <3>2, CheckOutcome
  <2>4. CASE GivesUp(a) \/ Recovered(a)
    BY <2>1, <2>4, CheckOutcome DEF IInv, TypeOK
  <2>5. CASE ~ New(a) /\ ~ Reminds(a) /\ ~ GivesUp(a) /\ ~ Recovered(a)
    BY <2>1, <2>5, CheckOutcome DEF IInv, TypeOK, Pending
  <2> QED BY <2>2, <2>3, <2>4, <2>5
<1>3. /\ offline' \in [Activity -> State \cup {NotOffline}]
      /\ told' \in [Activity -> {"nothing", "offline", "recovered"}]
  BY <1>2 DEF checkOfflineActivities
<1>4. givenUp' \subseteq Activity
  BY DEF checkOfflineActivities, IInv, TypeOK
<1>5. TypeOK'
  BY <1>1, <1>3, <1>4 DEF IInv, TypeOK
<1> QED
  BY <1>1, <1>2, <1>5 DEF IInv, Seen, Pending, Watched, Settled

LEMMA RestartPreserves == IInv /\ Restart => IInv'
<1> SUFFICES ASSUME IInv, Restart PROVE IInv'
  OBVIOUS
<1>1. /\ UNCHANGED <<up, beat, wanted, redis, told, givenUp, steady>>
      /\ task' = FALSE /\ scanDue' = FALSE
      /\ \A a \in Activity : /\ hbLast'[a] = Never /\ monitored'[a] = "no"
                             /\ added'[a] = Never /\ offline'[a] = NotOffline
  BY DEF Restart, worldVars, historyVars
<1>2. /\ hbLast' \in [Activity -> 0 .. Threshold \cup {Never}]
      /\ added' \in [Activity -> 0 .. Grace \cup {Never}]
      /\ monitored' \in [Activity -> {"no", "blind", "redis"}]
      /\ offline' \in [Activity -> State \cup {NotOffline}]
  BY DEF Restart
<1>3. TypeOK'
  BY <1>1, <1>2 DEF IInv, TypeOK
<1> QED
  BY <1>1, <1>3 DEF IInv, Seen, Pending, Watched, Settled

LEMMA TickPreserves == IInv /\ Tick => IInv'
<1> SUFFICES ASSUME IInv, Tick PROVE IInv'
  OBVIOUS
<1>1. UNCHANGED <<up, wanted, redis, task, monitored, told>> /\ scanDue' = TRUE
  BY DEF Tick
<1>2. task => ~ scanDue
  BY DEF Tick
<1>3. ASSUME NEW a \in Activity
      PROVE  /\ beat'[a] \in 0 .. CacheTTL + 1 \cup {Never}
             /\ Reports(a) => beat'[a] = 0
             /\ ~ Reports(a) => beat'[a] = Older(beat[a], CacheTTL + 1)
  <2>1. beat[a] \in 0 .. CacheTTL + 1 \cup {Never} /\ CacheTTL + 1 \in Nat
    BY DEF IInv, TypeOK
  <2>2. Older(beat[a], CacheTTL + 1) \in 0 .. CacheTTL + 1 \cup {Never}
    BY <2>1, OlderType
  <2>3. beat'[a] = IF Reports(a) THEN 0 ELSE Older(beat[a], CacheTTL + 1)
    BY DEF Tick
  <2> QED BY <2>2, <2>3
<1>4. ASSUME NEW a \in Activity
      PROVE  /\ hbLast'[a] = Older(hbLast[a], Threshold)
             /\ hbLast'[a] \in 0 .. Threshold \cup {Never}
             /\ added'[a] = Older(added[a], Grace)
             /\ added'[a] \in 0 .. Grace \cup {Never}
             /\ added'[a] = Never <=> added[a] = Never
  <2>1. hbLast[a] \in 0 .. Threshold \cup {Never} /\ added[a] \in 0 .. Grace \cup {Never}
    BY DEF IInv, TypeOK
  <2>2. hbLast'[a] = Older(hbLast[a], Threshold) /\ added'[a] = Older(added[a], Grace)
    BY DEF Tick
  <2>3. Older(hbLast[a], Threshold) \in 0 .. Threshold \cup {Never}
    BY <2>1, OlderType
  <2>4. /\ Older(added[a], Grace) \in 0 .. Grace \cup {Never}
        /\ Older(added[a], Grace) = Never <=> added[a] = Never
    BY <2>1, OlderType
  <2> QED BY <2>2, <2>3, <2>4
<1>5. ASSUME NEW a \in Activity
      PROVE  /\ offline'[a] \in State \cup {NotOffline}
             /\ offline[a] = NotOffline => offline'[a] = NotOffline
  <2>1. CASE offline[a] = NotOffline
    BY <2>1 DEF Tick
  <2>2. CASE offline[a] \in State
    <3>1. offline'[a] = [at |-> AtMost(offline[a].at + 1, GiveUp + 1),
                         alert |-> AtMost(offline[a].alert + 1, AlertLimit)]
      BY <2>2, NotOfflineIsNoState DEF Tick
    <3>2. offline[a].at \in 0 .. GiveUp + 1 /\ offline[a].alert \in 0 .. AlertLimit
      BY <2>2 DEF State
    <3> QED BY <2>2, <3>1, <3>2, AlertLimitNat, NotOfflineIsNoState DEF State, AtMost
  <2> QED BY <2>1, <2>2 DEF IInv, TypeOK
<1>6. ASSUME NEW a \in Activity
      PROVE  /\ steady'[a] \in 0 .. 2
             /\ steady'[a] >= 1 => InView(a)
             /\ steady'[a] >= 2 => steady[a] >= 1
  BY DEF Tick, IInv, TypeOK, AtMost
<1>7. TypeOK'
  <2>1. /\ beat' \in [Activity -> 0 .. CacheTTL + 1 \cup {Never}]
        /\ hbLast' \in [Activity -> 0 .. Threshold \cup {Never}]
        /\ added' \in [Activity -> 0 .. Grace \cup {Never}]
        /\ offline' \in [Activity -> State \cup {NotOffline}]
        /\ steady' \in [Activity -> 0 .. 2]
    BY <1>3, <1>4, <1>5, <1>6 DEF Tick
  <2>2. givenUp' \subseteq Activity
    BY DEF Tick, IInv, TypeOK
  <2> QED BY <1>1, <1>4, <2>1, <2>2 DEF IInv, TypeOK
<1>8. Seen'
  <2> SUFFICES ASSUME NEW a \in Activity, hbLast'[a] # Never, hbLast'[a] < Threshold
               PROVE  beat'[a] # Never /\ beat'[a] <= hbLast'[a]
    BY DEF Seen
  <2>1. /\ hbLast[a] \in 0 .. Threshold \cup {Never}
        /\ beat[a] \in 0 .. CacheTTL + 1 \cup {Never}
    BY DEF IInv, TypeOK
  <2>2. hbLast[a] # Never /\ hbLast[a] < Threshold /\ hbLast'[a] = hbLast[a] + 1
    BY <1>4, <2>1, OlderType
  <2>3. beat[a] # Never /\ beat[a] <= hbLast[a]
    BY <2>2 DEF IInv, Seen
  <2>4. CASE Reports(a)
    BY <1>3, <2>1, <2>2, <2>4
  <2>5. CASE ~ Reports(a)
    BY <1>3, <2>1, <2>2, <2>3, <2>5 DEF Older, AtMost
  <2> QED BY <2>4, <2>5
<1>9. Watched'
  <2> SUFFICES ASSUME NEW a \in Activity, steady'[a] >= 1
               PROVE  /\ a \in up /\ redis = "up" /\ beat'[a] = 0
                      /\ task \/ (hbLast'[a] = Never /\ monitored[a] # "redis")
    BY <1>1 DEF Watched
  <2>1. Reports(a) /\ (task \/ (hbLast[a] = Never /\ monitored[a] # "redis"))
    BY <1>6 DEF InView
  <2>2. hbLast[a] = Never => hbLast'[a] = Never
    BY <1>4 DEF Older
  <2> QED BY <1>3, <2>1, <2>2 DEF Reports
<1>10. Settled'
  <2> SUFFICES ASSUME NEW a \in Activity, steady'[a] >= 2
               PROVE  /\ hbLast'[a] # Never => hbLast'[a] <= 1
                      /\ hbLast'[a] = Never /\ monitored[a] = "redis" => added'[a] = 0
                      /\ hbLast'[a] = Never /\ task => monitored[a] # "blind"
    BY <1>1 DEF Settled
  <2>1. steady[a] >= 1
    BY <1>6
  <2>2. CASE task
    <3>1. hbLast[a] = 0
      BY <1>2, <2>1, <2>2 DEF IInv, Watched
    <3>2. hbLast'[a] = 1
      BY <1>4, <3>1, OlderType
    <3> QED BY <3>2
  <2>3. CASE ~ task
    <3>1. hbLast[a] = Never /\ monitored[a] # "redis"
      BY <2>1, <2>3 DEF IInv, Watched
    <3>2. hbLast'[a] = Never
      BY <1>4, <3>1 DEF Older
    <3> QED BY <2>3, <3>1, <3>2
  <2> QED BY <2>2, <2>3
<1>11. Pending'
  BY <1>1, <1>5 DEF IInv, Pending
<1> QED
  BY <1>7, <1>8, <1>9, <1>10, <1>11 DEF IInv

LEMMA InductiveNext == IInv /\ [Next]_vars => IInv'
<1>1. IInv /\ UNCHANGED vars => IInv'
  BY DEF vars, worldVars, listenVars, alertVars, historyVars, IInv, TypeOK,
         Seen, Pending, Watched, Settled
<1> QED
  BY <1>1, WorldPreserves, ReconcilePreserves, ScanPreserves, RefreshPreserves,
     CheckPreserves, RestartPreserves, TickPreserves DEF Next, Scan

LEMMA Inductive == Spec => []IInv
BY InductiveInit, InductiveNext, PTL DEF Spec

-----------------------------------------------------------------------------
(* Every variable always holds a value of its type; in particular every    *)
(* monitored activity has the time at which its grace began.               *)
THEOREM TypeCorrect == Spec => []TypeOK
<1>1. IInv => TypeOK
  BY DEF IInv
<1> QED
  BY Inductive, <1>1, PTL

(* Only checkOfflineActivities sends an alert. *)
LEMMA AlertsAreChecked ==
  ASSUME IInv, [Next]_vars, NEW a \in Activity, Alert(a)
  PROVE  checkOfflineActivities /\ (New(a) \/ Reminds(a))
<1>1. TypeOK /\ offline[a] \in State \cup {NotOffline}
  BY DEF IInv, TypeOK
<1>2. CASE checkOfflineActivities
  <2>1. CASE ~ New(a) /\ ~ Reminds(a) /\ ~ GivesUp(a) /\ ~ Recovered(a)
    <3>1. offline'[a] = offline[a]
      BY <1>1, <1>2, <2>1, CheckOutcome
    <3> QED BY <3>1 DEF Alert
  <2>2. CASE GivesUp(a) \/ Recovered(a)
    <3>1. offline'[a] = NotOffline
      BY <1>1, <1>2, <2>2, CheckOutcome
    <3> QED BY <3>1 DEF Alert
  <2> QED BY <1>2, <2>1, <2>2
<1>3. CASE Tick
  <2>1. offline[a] # NotOffline
    BY <1>3 DEF Tick, Alert
  <2>2. /\ offline[a].alert \in 0 .. AlertLimit
        /\ offline'[a].alert = AtMost(offline[a].alert + 1, AlertLimit)
    BY <1>1, <1>3, <2>1 DEF Tick, State
  <2> QED BY <2>2, AlertLimitNat DEF Alert, AtMost
<1>4. CASE offline'[a] \in {offline[a], NotOffline}
  BY <1>4 DEF Alert
<1> QED
  BY <1>2, <1>3, <1>4
  DEF Next, World, StartWorker, StopWorker, SetWanted, SetRedis, reconcile, Scan,
      scanHeartbeats, refreshMonitored, Restart, alertVars, vars

(* However slow or fast the loops run within their ticks, however often    *)
(* the manager restarts and whatever the timeouts, it sends no alert of an *)
(* activity that has been in view for two ticks.                           *)
THEOREM NoAlarmInView == Spec => NoFalseAlarm
<1> DEFINE Silence == \A a \in Activity : Alert(a) => steady[a] < 2
<1>1. IInv /\ [Next]_vars => [Silence]_vars
  <2> SUFFICES ASSUME IInv, [Next]_vars, NEW a \in Activity, Alert(a)
               PROVE  steady[a] < 2
    OBVIOUS
  <2>0. steady[a] \in 0 .. 2 /\ hbLast[a] \in 0 .. Threshold \cup {Never}
    BY DEF IInv, TypeOK
  <2>1. IsOffline(a)
    BY AlertsAreChecked DEF New, Reminds
  <2>2. CASE Overdue(a)
    BY <2>0, <2>2 DEF Overdue, IInv, Settled
  <2>3. CASE Unseen(a)
    BY <2>0, <2>3 DEF Unseen, IInv, Settled
  <2> QED BY <2>0, <2>1, <2>2, <2>3 DEF IsOffline
<1> QED
  BY Inductive, <1>1, PTL DEF Spec, NoFalseAlarm

(* A recovery is announced only after an alert, and only of an activity    *)
(* whose last report is younger than the threshold.                        *)
THEOREM RecoveriesAreTrue == Spec => NoFalseRecovery
<1> DEFINE True == \A a \in Activity : told[a] # "recovered" /\ told'[a] = "recovered" =>
             told[a] = "offline" /\ beat[a] # Never /\ beat[a] < Threshold
<1>1. IInv /\ [Next]_vars => [True]_vars
  <2> SUFFICES ASSUME IInv, [Next]_vars, NEW a \in Activity,
                      told[a] # "recovered", told'[a] = "recovered"
               PROVE  told[a] = "offline" /\ beat[a] # Never /\ beat[a] < Threshold
    OBVIOUS
  <2>1. checkOfflineActivities
    BY DEF Next, World, StartWorker, StopWorker, SetWanted, SetRedis, reconcile, Scan,
       scanHeartbeats, refreshMonitored, Restart, Tick, historyVars, vars
  <2>2. Recovered(a)
    BY <2>1, CheckOutcome DEF IInv
  <2>3. /\ beat[a] \in 0 .. CacheTTL + 1 \cup {Never}
        /\ hbLast[a] \in 0 .. Threshold \cup {Never}
    BY DEF IInv, TypeOK
  <2> QED BY <2>2, <2>3 DEF Recovered, IsBack, IInv, Seen, Pending
<1> QED
  BY Inductive, <1>1, PTL DEF Spec, NoFalseRecovery
=============================================================================
