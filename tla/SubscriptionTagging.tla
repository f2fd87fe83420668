-------------------------- MODULE SubscriptionTagging --------------------------
(***************************************************************************)
(* The periodic task process_pending_subscription_alerts                   *)
(* (apps/subscription/tasks.py): one SQL statement that matches the alerts *)
(* not yet processed with the active subscriptions, inserts a              *)
(* SubscriptionAlert row for every match and flags the alerts.             *)
(*                                                                         *)
(* All parts of the statement read the snapshot taken when it starts; its  *)
(* inserts and its update become visible when its transaction commits.     *)
(* Between the two the other tasks go on: the run of a tagger is a read    *)
(* step and a commit step.  SubscriptionAlert has no unique constraint, so *)
(* ON CONFLICT DO NOTHING never has a conflict to find, and its rows are a *)
(* bag.                                                                    *)
(***************************************************************************)
EXTENDS AlertStore

CONSTANTS
  Tagger,         \* processes of the default queue that may run the task
  NoTagger,       \* model value
  Subscription,   \* rows of UserAlertSubscription
  Country,
  CountryOf,      \* [Feed -> Country], an alert has the country of its feed
  Field,          \* urgency, severity, certainty, category
  Value,          \* the values of these fields
  Filter,         \* the filters of each subscription
  LockOutlived,   \* whether a run may last longer than REDIS_LOCK_EXPIRE
  MaxTagFaults    \* bound of the runs that fail or are killed

ASSUME TaggingAssumption ==
  /\ NoTagger \notin Tagger
  /\ CountryOf \in [Feed -> Country]
  /\ Filter \in [Subscription -> [country: Country, admin1s: SUBSET Admin1,
                                  values: [Field -> SUBSET Value]]]
  /\ Tags = [Field -> Value]
  /\ LockOutlived \in BOOLEAN
  /\ MaxTagFaults \in Nat

VARIABLES
  active,      \* subscriptions with is_active
  subAlerts,   \* [Subscription \X Url -> Nat], number of SubscriptionAlert rows
  tagPc,       \* what each tagger does next
  snapshot,    \* what its statement has read
  tagLock,     \* redis lock SUBSCRIPTION_TAG_ALERTS: the tagger that took it
  tagFaults    \* history: runs that failed

taggerVars == <<subAlerts, tagPc, snapshot, tagLock, tagFaults>>
taggingVars == <<active, taggerVars>>

Pair == Subscription \X Url
Snapshot == [pending: SUBSET Url, rows: SUBSET Pair]
NoSnapshot == [pending |-> {}, rows |-> {}]

TaggingTypeOK ==
  /\ active \in SUBSET Subscription
  /\ subAlerts \in [Pair -> Nat]
  /\ tagPc \in [Tagger -> {"idle", "tagging"}]
  /\ snapshot \in [Tagger -> Snapshot]
  /\ \A t \in Tagger :
       /\ snapshot[t].rows \subseteq Subscription \X snapshot[t].pending
       /\ snapshot[t].pending \subseteq Alerts
       /\ tagPc[t] = "idle" => snapshot[t] = NoSnapshot
  /\ tagLock \in Tagger \cup {NoTagger}
  /\ tagFaults \in Nat

TaggingInit ==
  /\ active \in SUBSET Subscription
  /\ subAlerts = [p \in Pair |-> 0]
  /\ tagPc = [t \in Tagger |-> "idle"]
  /\ snapshot = [t \in Tagger |-> NoSnapshot]
  /\ tagLock = NoTagger
  /\ tagFaults = 0

--------------------------------------------------------------------------------
\* An empty filter lets every alert through, another one those that overlap it.
Allows(F, S) == F = {} \/ F \cap S # {}

\* The values a field takes in the infos of an alert (ARRAY_AGG over the join).
FieldValues(u, d) == {r.info.tags[d] : r \in infos[u]}

\* Sensitivity variant: OR between the filters of admin1s and fields.
MatchesAny(s, u) ==
  /\ Filter[s].country = CountryOf[source[u]]
  /\ \/ Allows(Filter[s].admin1s, admin1s[u])
     \/ \A d \in Field : Allows(Filter[s].values[d], FieldValues(u, d))

\* The WHERE clause of tagged_alerts.
Matches(s, u) ==
  /\ Filter[s].country = CountryOf[source[u]]
  /\ Allows(Filter[s].admin1s, admin1s[u])
  /\ \A d \in Field : Allows(Filter[s].values[d], FieldValues(u, d))

\* Sensitivity variant: a task that takes no lock.
TagLockIgnored == tagLock \in Tagger \cup {NoTagger}

\* redis_lock(SUBSCRIPTION_TAG_ALERTS) is acquired.
TagLockFree == tagLock = NoTagger

Pending == Alerts \ processed

\* Sensitivity variant: a cross join with the alert table itself.
AllCandidates == active \X Alerts

\* The cross join of alert_data and the active subscriptions.
Candidates == active \X Pending

\* The task takes the lock and its statement takes its snapshot.
ReadPending(t) ==
  /\ tagPc[t] = "idle"
  /\ TagLockFree
  /\ tagLock' = t
  /\ tagPc' = [tagPc EXCEPT ![t] = "tagging"]
  /\ snapshot' = [snapshot EXCEPT ![t] =
       [pending |-> Pending,
        rows |-> {p \in Candidates : Matches(p[1], p[2])}]]
  /\ UNCHANGED <<storeVars, active, subAlerts, tagFaults>>

\* redis_lock deletes the key, if it has not expired under the task.
ReleaseTagLock(t) == tagLock' = IF tagLock = t THEN NoTagger ELSE tagLock

\* Sensitivity variant: an update of the alerts that match a subscription.
FlaggedMatched(t) == {p[2] : p \in snapshot[t].rows}

\* Sensitivity variant: an update that flags every alert of the table.
FlaggedAll(t) == Alerts

\* The alerts that a commit of t flags.
Flagged(t) == snapshot[t].pending

\* The transaction commits: rows inserted, alerts flagged, at once.
CommitTags(t) ==
  /\ tagPc[t] = "tagging"
  /\ subAlerts' = [p \in Pair |-> IF p \in snapshot[t].rows
                                  THEN subAlerts[p] + 1 ELSE subAlerts[p]]
  /\ processed' = processed \cup Flagged(t)
  /\ tagPc' = [tagPc EXCEPT ![t] = "idle"]
  /\ snapshot' = [snapshot EXCEPT ![t] = NoSnapshot]
  /\ ReleaseTagLock(t)
  /\ UNCHANGED <<pk, lastPk, source, expired, infos, admin1s, records, now,
                 active, tagFaults>>

\* The statement fails, and the lock is released, or the process is killed, and
\* the lock stays until it expires: the transaction is rolled back.
FailTagging(t) ==
  /\ tagPc[t] = "tagging"
  /\ tagFaults < MaxTagFaults
  /\ tagFaults' = tagFaults + 1
  /\ tagPc' = [tagPc EXCEPT ![t] = "idle"]
  /\ snapshot' = [snapshot EXCEPT ![t] = NoSnapshot]
  /\ ReleaseTagLock(t) \/ UNCHANGED tagLock
  /\ UNCHANGED <<storeVars, active, subAlerts>>

\* The key expires: under a dead run, or under one that outlives it.
TagLockExpires ==
  /\ tagLock # NoTagger
  /\ tagPc[tagLock] = "idle" \/ LockOutlived
  /\ tagLock' = NoTagger
  /\ UNCHANGED <<storeVars, active, subAlerts, tagPc, snapshot, tagFaults>>

\* A user switches a subscription on or off (update_user_alert_subscription).
SwitchSubscription(s) ==
  /\ active' = IF s \in active THEN active \ {s} ELSE active \cup {s}
  /\ UNCHANGED <<storeVars, taggerVars>>

TaggerNext ==
  \/ \E t \in Tagger : ReadPending(t) \/ CommitTags(t) \/ FailTagging(t)
  \/ TagLockExpires

TaggingNext == TaggerNext \/ \E s \in Subscription : SwitchSubscription(s)

--------------------------------------------------------------------------------
\* What a subscription asks for: its country, and in every filter that is not
\* empty one of the divisions, or a value of one of the infos, of the alert.
Wants(s, u) ==
  /\ CountryOf[source[u]] = Filter[s].country
  /\ Filter[s].admin1s # {} => \E a \in admin1s[u] : a \in Filter[s].admin1s
  /\ \A d \in Field : Filter[s].values[d] # {} =>
       \E r \in infos[u] : r.info.tags[d] \in Filter[s].values[d]

\* The pair has been served: the alert is dealt with only if the subscription has
\* its row or does not ask for it.
Served(p) == p[2] \in processed /\ Wants(p[1], p[2]) => subAlerts[p] > 0

\* While the lock outlives the run, one tagger tags at a time, and what it has
\* read is not flagged yet: nobody else flags alerts.
OneTagger == \A t \in Tagger : tagPc[t] = "tagging" => tagLock = t
PendingUnflagged == \A t \in Tagger : snapshot[t].pending \cap processed = {}

\* To the runs of the task its redis lock is what TaskLock promises, as long as
\* none outlives it.
TagLock == INSTANCE TaskLock
             WITH Run <- Tagger, NoRun <- NoTagger, holder <- tagLock,
                  inside <- {t \in Tagger : tagPc[t] = "tagging"}
TagsAreLocked == TagLock!Spec

================================================================================
