---------------------------- MODULE OfflineAlert ----------------------------
(***************************************************************************)
(* The offline alert of ActivityCollector, for one environment: workers    *)
(* report heartbeats of their activities to the environment's Redis, a     *)
(* listener task of the manager scans them, and the alert loop compares    *)
(* what the scans have seen with the activities that are published.        *)
(*                                                                         *)
(* Time is counted in ticks.  In one tick a running worker reports at      *)
(* least once (every 10 s) and a running task scans at least once (every   *)
(* 5 s), so a tick is at least 15 s.  Ages are in ticks, and are not       *)
(* counted beyond the point where the code ceases to tell them apart.      *)
(*                                                                         *)
(* reconcile, scanHeartbeats and the alert loop run in goroutines of their *)
(* own.  Each touches the shared maps in one locked section, or in one     *)
(* that only the alert loop enters, and is one step here; the order of     *)
(* the steps is free.                                                      *)
(***************************************************************************)
EXTENDS Naturals, FiniteSets

CONSTANTS
  Activity,   \* activities of the environment's project
  Threshold,  \* activity_offline_alert_threshold_seconds
  CacheTTL,   \* heartbeatCacheTTL
  Grace,      \* offlineStartupGrace
  Remind,     \* activity_offline_alert_remind_minutes, 0 for one alert only
  GiveUp,     \* offlineGiveUp
  Never       \* no heartbeat, no time

ASSUME ThresholdAssumption == Threshold \in Nat /\ Threshold >= 2
ASSUME AgesAssumption ==
  CacheTTL \in Nat /\ Grace \in Nat \ {0} /\ Remind \in Nat /\ GiveUp \in Nat
ASSUME NeverAssumption == Never \notin Nat

VARIABLES
  up,        \* activities whose worker runs
  beat,      \* age of an activity's heartbeat in Redis
  wanted,    \* what refreshMonitored would find: published, alert enabled
  redis,     \* the environment's Redis: not configured, unreachable, reachable
  task,      \* does the manager have a listener task for it
  scanDue,   \* has this tick no scan yet
  hbLast,    \* age of the last heartbeat a scan has seen
  monitored, \* not, without hasRedis, with hasRedis
  added,     \* monAddedAt, as an age
  offline,   \* ages of offlineAt and lastAlertAt, or NotOffline
  told,      \* history: the last notice sent
  givenUp,   \* history: given up since the worker last reported
  steady     \* history: ticks an activity has been reporting in full view

worldVars  == <<up, beat, wanted, redis>>
listenVars == <<task, scanDue, hbLast>>
alertVars  == <<monitored, added, offline>>
historyVars == <<told, givenUp, steady>>
vars == <<worldVars, listenVars, alertVars, historyVars>>

NotOffline == [at |-> Never, alert |-> Never]

Init ==
  /\ up \in SUBSET Activity
  /\ beat = [a \in Activity |-> Never]
  /\ wanted \in SUBSET Activity
  /\ redis \in {"none", "down", "up"}
  /\ task = FALSE
  /\ scanDue = FALSE
  /\ hbLast = [a \in Activity |-> Never]
  /\ monitored = [a \in Activity |-> "no"]
  /\ added = [a \in Activity |-> Never]
  /\ offline = [a \in Activity |-> NotOffline]
  /\ told = [a \in Activity |-> "nothing"]
  /\ givenUp = {}
  /\ steady = [a \in Activity |-> 0]

-----------------------------------------------------------------------------
(* The world: workers, administrators, Redis. *)

Disturb(as) == steady' = [a \in Activity |-> IF a \in as THEN 0 ELSE steady[a]]

StartWorker(a) ==
  /\ a \notin up
  /\ up' = up \cup {a}
  /\ UNCHANGED <<beat, wanted, redis, listenVars, alertVars, historyVars>>

StopWorker(a) ==
  /\ a \in up
  /\ up' = up \ {a}
  /\ Disturb({a})
  /\ UNCHANGED <<beat, wanted, redis, listenVars, alertVars, told, givenUp>>

(* Publishing and unpublishing, the environment's alert switch, and a      *)
(* database that answers or does not: a failed query finds nothing.        *)
SetWanted(as) ==
  /\ as # wanted
  /\ wanted' = as
  /\ UNCHANGED <<up, beat, redis, listenVars, alertVars, historyVars>>

SetRedis(r) ==
  /\ r # redis
  /\ redis' = r
  /\ Disturb(Activity)
  /\ UNCHANGED <<up, beat, wanted, listenVars, alertVars, told, givenUp>>

-----------------------------------------------------------------------------
(* The listener task. *)

StartTask ==
  /\ task' = TRUE
  /\ scanDue' = (scanDue \/ ~ task)
  /\ Disturb(IF task THEN {} ELSE {a \in Activity : monitored[a] = "blind"})

CloseTask ==
  /\ task' = FALSE
  /\ UNCHANGED <<scanDue, steady>>

(* reconcile, with the configurations it has read.  A task of unchanged    *)
(* configuration is kept, whether or not its Redis answers; otherwise the  *)
(* new one is pinged first, and there is no task if that fails.            *)
reconcile ==
  /\ \/ redis = "none" /\ CloseTask
     \/ redis = "up" /\ StartTask
     \/ redis = "down" /\ CloseTask
     \/ redis = "down" /\ UNCHANGED <<task, scanDue, steady>>
  /\ UNCHANGED <<worldVars, hbLast, alertVars, told, givenUp>>

(* The heartbeats of those that report are there; the hash of the others   *)
(* may have expired.                                                       *)
Found(gone) ==
  {a \in Activity : beat[a] # Never /\ beat[a] <= CacheTTL} \ gone

Younger(x, y) == IF y = Never \/ (x # Never /\ x < y) THEN x ELSE y

AtMost(n, limit) == IF n < limit THEN n ELSE limit

(* Mutant: the time of the scan is taken for that of the heartbeat. *)
ScanIsBeat(gone) ==
  /\ scanDue /\ task
  /\ scanDue' = FALSE
  /\ hbLast' = [a \in Activity |->
       IF redis = "up" /\ a \in Found(gone) THEN 0 ELSE hbLast[a]]
  /\ UNCHANGED <<worldVars, task, alertVars, historyVars>>

(* Mutant: what is known of an activity is not brought up to date. *)
ScanOnce(gone) ==
  /\ scanDue /\ task
  /\ scanDue' = FALSE
  /\ hbLast' = [a \in Activity |->
       IF redis = "up" /\ a \in Found(gone) /\ hbLast[a] = Never
         THEN AtMost(beat[a], Threshold) ELSE hbLast[a]]
  /\ UNCHANGED <<worldVars, task, alertVars, historyVars>>

(* scanHeartbeats: an unreachable Redis leaves everything as it was. *)
scanHeartbeats(gone) ==
  /\ scanDue /\ task
  /\ scanDue' = FALSE
  /\ hbLast' = [a \in Activity |->
       IF redis = "up" /\ a \in Found(gone)
         THEN Younger(AtMost(beat[a], Threshold), hbLast[a]) ELSE hbLast[a]]
  /\ UNCHANGED <<worldVars, task, alertVars, historyVars>>

-----------------------------------------------------------------------------
(* The alert loop. *)

(* Mutant: a refresh starts the grace again. *)
AddedAnew(a) == IF a \in wanted THEN 0 ELSE Never

(* Mutant: new entries have no time. *)
AddedNever(a) == IF a \in wanted THEN added[a] ELSE Never

(* The grace is counted from the first refresh that has the activity. *)
AddedAt(a) ==
  IF a \notin wanted THEN Never ELSE IF added[a] = Never THEN 0 ELSE added[a]

(* refreshMonitored: what is no longer found loses its grace and its       *)
(* offline state, with no notice.                                          *)
refreshMonitored ==
  /\ monitored' = [a \in Activity |->
       IF a \notin wanted THEN "no" ELSE IF task THEN "redis" ELSE "blind"]
  /\ added' = [a \in Activity |-> AddedAt(a)]
  /\ offline' = [a \in Activity |-> IF a \in wanted THEN offline[a] ELSE NotOffline]
  /\ UNCHANGED <<worldVars, listenVars, historyVars>>

(* A heartbeat was seen, and not for as long as the threshold. *)
Overdue(a) == hbLast[a] # Never /\ hbLast[a] >= Threshold

(* Mutant: no grace. *)
UnseenAtOnce(a) == hbLast[a] = Never /\ monitored[a] = "redis"

(* No heartbeat was ever seen, though one would have been. *)
Unseen(a) ==
  /\ hbLast[a] = Never
  /\ monitored[a] = "redis"
  /\ added[a] # Never /\ added[a] >= Grace

IsOffline(a) == monitored[a] # "no" /\ (Overdue(a) \/ Unseen(a))

IsBack(a) == monitored[a] # "no" /\ hbLast[a] # Never /\ hbLast[a] < Threshold

New(a) == IsOffline(a) /\ offline[a] = NotOffline

GivesUp(a) == IsOffline(a) /\ offline[a] # NotOffline /\ offline[a].at > GiveUp

Reminds(a) ==
  /\ IsOffline(a) /\ offline[a] # NotOffline
  /\ ~ GivesUp(a)
  /\ Remind > 0 /\ offline[a].alert >= Remind

Recovered(a) == IsBack(a) /\ offline[a] # NotOffline

(* checkOfflineActivities. *)
checkOfflineActivities ==
  /\ offline' = [a \in Activity |->
       CASE New(a)                    -> [at |-> 0, alert |-> 0]
         [] Reminds(a)                -> [offline[a] EXCEPT !.alert = 0]
         [] GivesUp(a) \/ Recovered(a) -> NotOffline
         [] OTHER                     -> offline[a]]
  /\ told' = [a \in Activity |->
       CASE New(a) \/ Reminds(a) -> "offline"
         [] Recovered(a)         -> "recovered"
         [] OTHER                -> told[a]]
  /\ givenUp' = givenUp \cup {a \in Activity : GivesUp(a)}
  /\ UNCHANGED <<worldVars, listenVars, monitored, added, steady>>

-----------------------------------------------------------------------------
(* The manager stops and starts again: its maps are empty, no task runs.   *)
Restart ==
  /\ task' = FALSE
  /\ scanDue' = FALSE
  /\ hbLast' = [a \in Activity |-> Never]
  /\ monitored' = [a \in Activity |-> "no"]
  /\ added' = [a \in Activity |-> Never]
  /\ offline' = [a \in Activity |-> NotOffline]
  /\ UNCHANGED <<worldVars, historyVars>>

Older(age, limit) == IF age = Never THEN Never ELSE AtMost(age + 1, limit)

Reports(a) == a \in up /\ redis = "up"

(* An activity that reports is in view while the task is there, or while   *)
(* the manager holds nothing that tells it to expect a heartbeat.          *)
InView(a) ==
  /\ Reports(a)
  /\ task \/ (hbLast[a] = Never /\ monitored[a] # "redis")

AlertLimit == IF Remind > 0 THEN Remind ELSE 1

Tick ==
  /\ ~ (scanDue /\ task)
  /\ scanDue' = TRUE
  /\ beat' = [a \in Activity |->
       IF Reports(a) THEN 0 ELSE Older(beat[a], CacheTTL + 1)]
  /\ hbLast' = [a \in Activity |-> Older(hbLast[a], Threshold)]
  /\ added' = [a \in Activity |-> Older(added[a], Grace)]
  /\ offline' = [a \in Activity |->
       IF offline[a] = NotOffline THEN NotOffline
       ELSE [at |-> AtMost(offline[a].at + 1, GiveUp + 1),
             alert |-> AtMost(offline[a].alert + 1, AlertLimit)]]
  /\ steady' = [a \in Activity |-> IF InView(a) THEN AtMost(steady[a] + 1, 2) ELSE 0]
  /\ givenUp' = {a \in givenUp : ~ Reports(a)}
  /\ UNCHANGED <<up, wanted, redis, task, monitored, told>>

-----------------------------------------------------------------------------
(* The hash of an environment expires when nobody reports to it. *)
Silent == {a \in Activity : beat[a] # 0}

Scan == \E gone \in SUBSET Silent : scanHeartbeats(gone)

World ==
  \/ \E a \in Activity : StartWorker(a) \/ StopWorker(a)
  \/ \E as \in SUBSET Activity : SetWanted(as)
  \/ \E r \in {"none", "down", "up"} : SetRedis(r)

Next ==
  \/ World
  \/ reconcile
  \/ Scan
  \/ refreshMonitored \/ checkOfflineActivities
  \/ Restart
  \/ Tick

Spec == Init /\ [][Next]_vars

(***************************************************************************)
(* Every loop is driven by a ticker of its own and time goes on.  Nothing  *)
(* is assumed of workers, administrators or Redis.                         *)
(***************************************************************************)
Fairness ==
  /\ WF_vars(reconcile)
  /\ WF_vars(Scan)
  /\ WF_vars(refreshMonitored)
  /\ WF_vars(checkOfflineActivities)
  /\ WF_vars(Tick)

FairSpec == Spec /\ Fairness

-----------------------------------------------------------------------------
State == [at : 0 .. GiveUp + 1, alert : 0 .. AlertLimit]

(* Every variable holds a value of its type; what is monitored has a time. *)
TypeOK ==
  /\ up \subseteq Activity /\ wanted \subseteq Activity
  /\ beat \in [Activity -> 0 .. CacheTTL + 1 \cup {Never}]
  /\ redis \in {"none", "down", "up"}
  /\ task \in BOOLEAN /\ scanDue \in BOOLEAN
  /\ hbLast \in [Activity -> 0 .. Threshold \cup {Never}]
  /\ monitored \in [Activity -> {"no", "blind", "redis"}]
  /\ added \in [Activity -> 0 .. Grace \cup {Never}]
  /\ \A a \in Activity : monitored[a] = "no" <=> added[a] = Never
  /\ offline \in [Activity -> State \cup {NotOffline}]
  /\ told \in [Activity -> {"nothing", "offline", "recovered"}]
  /\ givenUp \subseteq Activity
  /\ steady \in [Activity -> 0 .. 2]

(* An alert of activity a goes out: a new one or a reminder. *)
Alert(a) ==
  /\ offline'[a] # NotOffline /\ offline'[a].alert = 0
  /\ offline[a] = NotOffline \/ offline[a].alert > 0

(* No alert is sent of an activity that has been reporting in view of the  *)
(* manager for two ticks: not while scans lag behind reports, and not      *)
(* after a restart of the manager, which forgets every heartbeat.          *)
NoFalseAlarm == [][\A a \in Activity : Alert(a) => steady[a] < 2]_vars

(* A recovery is only announced of an activity that has an alert pending,  *)
(* and that did report within the threshold.                               *)
NoFalseRecovery ==
  [][\A a \in Activity : told[a] # "recovered" /\ told'[a] = "recovered" =>
       told[a] = "offline" /\ beat[a] # Never /\ beat[a] < Threshold]_vars

(* An activity that is published and stays down is reported, also when it  *)
(* was down before the manager started.                                    *)
NeverMissed ==
  \A a \in Activity :
    <>[](a \notin up /\ a \in wanted /\ task) => <>[](told[a] = "offline")

(* An activity that reports for good in view of the manager does not stay  *)
(* offline in its books.                                                   *)
Recovers ==
  \A a \in Activity :
    <>[](Reports(a) /\ task) => <>[](offline[a] = NotOffline)

(* After the manager has given up on an activity it sends no more alerts   *)
(* of it before it reports again.                                          *)
QuietAfterGiveUp == [][\A a \in Activity : Alert(a) => a \notin givenUp]_vars
=============================================================================
