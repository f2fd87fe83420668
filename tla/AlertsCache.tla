------------------------------- MODULE AlertsCache -------------------------------
(***************************************************************************)
(* The alert caches of the legacy alert manager (legacy/alert-manager/     *)
(* cache/alerts_cache.py): the lists 'alerts' and 'country_alerts' and the *)
(* details "alert<id>", kept up with the database by two periodic tasks,   *)
(* update_cache_fast_1 and update_cache_fast_2.                            *)
(*                                                                         *)
(* Every key is read and written on its own, and a task works on the       *)
(* copies it has read.  A task takes less than its period, so it does not  *)
(* overlap with itself; the two tasks run beside each other, and a worker  *)
(* may be killed between two writes.                                       *)
(***************************************************************************)
EXTENDS Integers, Sequences, SequencesExt

CONSTANTS
  AlertId, Place, PlaceOf,  \* PlaceOf \in [AlertId -> Place], the country
  MaxKills                  \* bound of the runs that are killed

ASSUME CacheAssumption == PlaceOf \in [AlertId -> Place] /\ MaxKills \in Nat

VARIABLES
  db,         \* ids of the alert table
  gone,       \* ids that were deleted: they are never used again
  alerts,     \* the list of key 'alerts'
  alertset,   \* 'alertset', of update_cache_fast_1
  alertset2,  \* 'alertset2', of update_cache_fast_2
  ofCountry,  \* [Place -> list of key 'country_alerts' + iso3]
  detail,     \* ids with a key 'alert' + id
  fast,       \* the runs of the two tasks
  kills       \* history: runs killed

cacheVars == <<db, gone, alerts, alertset, alertset2, ofCountry, detail, fast, kills>>

Task == {"fast_1", "fast_2"}
Asleep == [step |-> "asleep", old |-> {}, new |-> {}, seen |-> {}, list |-> <<>>]

CacheTypeOK ==
  /\ db \cup gone \cup alertset \cup alertset2 \cup detail \subseteq AlertId
  /\ alerts \in Seq(AlertId)
  /\ \A p \in Place : ofCountry[p] \in Seq({a \in AlertId : PlaceOf[a] = p})
  /\ \A t \in Task : /\ fast[t].step \in {"asleep", "work", "set"}
                     /\ fast[t].old \cup fast[t].new \cup fast[t].seen \subseteq AlertId
                     /\ fast[t].list \in Seq(AlertId)
  /\ kills \in 0 .. MaxKills

CacheInit ==
  /\ db = {} /\ gone = {} /\ alertset = {} /\ alertset2 = {} /\ detail = {}
  /\ alerts = <<>> /\ ofCountry = [p \in Place |-> <<>>]
  /\ fast = [t \in Task |-> Asleep]
  /\ kills = 0

--------------------------------------------------------------------------------
\* The aggregator stores and deletes alerts.
AddAlert(a) ==
  /\ a \notin db \cup gone
  /\ db' = db \cup {a}
  /\ UNCHANGED <<gone, alerts, alertset, alertset2, ofCountry, detail, fast, kills>>

RemoveAlert(a) ==
  /\ a \in db
  /\ db' = db \ {a} /\ gone' = gone \cup {a}
  /\ UNCHANGED <<alerts, alertset, alertset2, ofCountry, detail, fast, kills>>

Goes(t, run) == fast' = [fast EXCEPT ![t] = run]

\* A task reads its list, its set of ids and the ids of the database.
BeginFast(t) ==
  LET known == IF t = "fast_1" THEN alertset ELSE alertset2 IN
  /\ fast[t] = Asleep
  /\ Goes(t, [step |-> "work", old |-> known \ db, new |-> db \ known, seen |-> db,
              list |-> IF t = "fast_1" THEN <<>> ELSE alerts])
  /\ UNCHANGED <<db, gone, alerts, alertset, alertset2, ofCountry, detail, kills>>

\* list.pop(index) while the list is enumerated: the element that moves to the
\* place of the one taken out is passed over.
PopOne(st, x, a) ==
  IF x = a /\ ~st.passing THEN [st EXCEPT !.passing = TRUE]
  ELSE [out |-> Append(st.out, x), passing |-> FALSE]

PopEach(list, a) ==
  LET st[n \in 0 .. Len(list)] ==
        IF n = 0 THEN [out |-> <<>>, passing |-> FALSE] ELSE PopOne(st[n - 1], list[n], a)
  IN st[Len(list)].out

\* An alert that left the database: its iso3 is looked up in 'alertiso3', which
\* nothing writes, so update_cache_fast_1 leaves it where it is.
DropOld1(a) ==
  /\ a \in fast["fast_1"].old
  /\ Goes("fast_1", [fast["fast_1"] EXCEPT !.old = @ \ {a}])
  /\ UNCHANGED <<db, gone, alerts, alertset, alertset2, ofCountry, detail, kills>>

DropOld2(a) ==
  /\ a \in fast["fast_2"].old
  /\ Goes("fast_2", [fast["fast_2"] EXCEPT !.old = @ \ {a}, !.list = PopEach(@, a)])
  /\ detail' = IF Contains(fast["fast_2"].list, a) THEN detail \ {a} ELSE detail
  /\ UNCHANGED <<db, gone, alerts, alertset, alertset2, ofCountry, kills>>

\* calculate_alert_data writes the keys of the alert.
WithDetail(a) == detail \cup {a}

\* The list that the alert's iso3 names.
ListOf(a) == PlaceOf[a]

\* An alert that came, unless it has gone again meanwhile.
TakeNew(t, a) ==
  /\ fast[t].step = "work" /\ fast[t].old = {} /\ a \in fast[t].new
  /\ Goes(t, [fast[t] EXCEPT !.new = @ \ {a},
                             !.list = IF a \in db /\ t = "fast_2" THEN Append(@, a) ELSE @])
  /\ detail' = IF a \in db THEN WithDetail(a) ELSE detail
  /\ ofCountry' = IF a \in db /\ t = "fast_1"
                  THEN [ofCountry EXCEPT ![ListOf(a)] = Append(@, a)] ELSE ofCountry
  /\ UNCHANGED <<db, gone, alerts, alertset, alertset2, kills>>

Worked(t) == fast[t].step = "work" /\ fast[t].old = {} /\ fast[t].new = {}

\* Sensitivity variant: a lazy queryset, evaluated again when it is stored.
TrackedLate(t) == db

\* The ids the run has worked with.
Tracked(t) == fast[t].seen

\* cache.set("alerts", ...), then cache.set('alertset2', ...).
SetAlerts ==
  /\ Worked("fast_2")
  /\ alerts' = fast["fast_2"].list
  /\ Goes("fast_2", [fast["fast_2"] EXCEPT !.step = "set"])
  /\ UNCHANGED <<db, gone, alertset, alertset2, ofCountry, detail, kills>>

SetAlertset2 ==
  /\ fast["fast_2"].step = "set"
  /\ alertset2' = Tracked("fast_2")
  /\ Goes("fast_2", Asleep)
  /\ UNCHANGED <<db, gone, alerts, alertset, ofCountry, detail, kills>>

SetAlertset ==
  /\ Worked("fast_1")
  /\ alertset' = Tracked("fast_1")
  /\ Goes("fast_1", Asleep)
  /\ UNCHANGED <<db, gone, alerts, alertset2, ofCountry, detail, kills>>

KillFast(t) ==
  /\ fast[t] # Asleep /\ kills < MaxKills
  /\ kills' = kills + 1
  /\ Goes(t, Asleep)
  /\ UNCHANGED <<db, gone, alerts, alertset, alertset2, ofCountry, detail>>

Fast1 == SetAlertset \/ \E a \in AlertId : DropOld1(a)
Fast2 == SetAlerts \/ SetAlertset2 \/ \E a \in AlertId : DropOld2(a)

FastStep(t) ==
  \/ BeginFast(t)
  \/ \E a \in AlertId : TakeNew(t, a)
  \/ t = "fast_1" /\ Fast1
  \/ t = "fast_2" /\ Fast2

CacheNext ==
  \/ \E a \in AlertId : AddAlert(a) \/ RemoveAlert(a)
  \/ \E t \in Task : FastStep(t) \/ KillFast(t)

CacheSpec == CacheInit /\ [][CacheNext]_cacheVars

\* The beat sends the tasks for ever, and their worker runs them.
FairCacheSpec == CacheSpec /\ \A t \in Task : WF_cacheVars(FastStep(t))

--------------------------------------------------------------------------------
InAlerts(a) == Contains(alerts, a)

\* An alert counted as known is listed as long as it is in the database, so that
\* a run that is killed is made up for by the next: the set is that of the ids
\* it was compared with, and is written last.
KnownIsListed == \A a \in alertset2 \cap db : InAlerts(a)

\* The list and the details go together: an alert that is listed and exists has
\* its page, whichever of the two tasks wrote it last.
ListedHasDetail == \A a \in db : InAlerts(a) => a \in detail

\* Every alert is listed as long as it stays in the database, kills or not.
NewIsListed == \A a \in AlertId : a \in db ~> (InAlerts(a) \/ a \notin db)

\* A removed alert leaves the list, unless a kill has listed it twice.
RemovedIsDropped == \A a \in AlertId : a \in gone ~> (~InAlerts(a) \/ kills > 0)

\* The cache follows the table: what it claims to know is listed, with its details,
\* kills or not, and what comes and goes does so in the list (update_alerts_cache,
\* calculate_country_alerts and calculate_alert_data).
CacheFollows ==
  /\ [](KnownIsListed /\ ListedHasDetail)
  /\ NewIsListed
  /\ RemovedIsDropped

================================================================================
