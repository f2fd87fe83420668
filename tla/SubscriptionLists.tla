---------------------------- MODULE SubscriptionLists ----------------------------
(***************************************************************************)
(* What users read of their subscriptions (apps/subscription/queries.py,   *)
(* types.py and dataloaders.py): a request takes a page of subscriptions,  *)
(* and then resolves the fields of all of them concurrently, one database  *)
(* query for each loader, one for the list of alerts of each subscription, *)
(* and one for subscripted_alerts, in any order and with no transaction    *)
(* around them.  Tagging, other requests of the user and the admin site    *)
(* change the tables between them.                                         *)
(***************************************************************************)
EXTENDS Integers, Sequences, FiniteSets

LOCAL INSTANCE FiniteSetsExt

CONSTANTS
  OwnerOf,      \* [subscription -> its user]
  CountryOf,    \* [subscription -> its country, an alert -> its country, a
                \*  division -> its country]
  StoredIds,    \* [subscription -> filter_alert_admin1s, a sequence of ids]
  TaggedAlert,  \* alerts
  AdminDivision, \* rows of Admin1
  FieldSets,    \* the sets of fields that clients select
  PageLimit,    \* of the request, at most STRAWBERRY_MAX_PAGINATION_LIMIT
  MaxCopies     \* [subscription -> bound of its rows for an alert]

Followed == DOMAIN OwnerOf
Reader == {OwnerOf[s] : s \in Followed}
HomeCountry == {CountryOf[s] : s \in Followed}

FieldName == {"country", "counts", "divisions", "alerts", "all"}

ASSUME ListsAssumption ==
  /\ StoredIds \in [Followed -> Seq(AdminDivision)]
  /\ Followed \cup TaggedAlert \cup AdminDivision \subseteq DOMAIN CountryOf
  /\ FieldSets \subseteq SUBSET FieldName /\ Followed \cap FieldName = {}
  /\ PageLimit \in Nat \ {0} /\ MaxCopies \in [Followed -> Nat]

VARIABLES
  subRows,     \* UserAlertSubscription
  countryRows, \* Country
  divisionRows,\* Admin1
  alertRows,   \* Alert
  taggedRows,  \* SubscriptionAlert, a bag: [Followed \X TaggedAlert -> Nat]
  reading,     \* the request
  changed,     \* history: pairs whose rows changed since the request began
  before       \* history: rows of Admin1 when it began

listsTables == <<subRows, countryRows, divisionRows, alertRows, taggedRows>>
listsVars == <<listsTables, reading, changed, before>>

Pair == Followed \X TaggedAlert
NotReading == [step |-> "idle", user |-> CHOOSE u \in Reader : TRUE, page |-> {},
               fields |-> {}, pending |-> {}, counts |-> <<>>,
               lists |-> [s \in Followed |-> <<>>], shown |-> <<>>, all |-> <<>>]

ListsTypeOK ==
  /\ subRows \subseteq Followed /\ countryRows \subseteq HomeCountry
  /\ divisionRows \subseteq AdminDivision /\ alertRows \subseteq TaggedAlert
  /\ taggedRows \in [Pair -> Nat]
  /\ \A p \in Pair : taggedRows[p] > 0 =>
       taggedRows[p] <= MaxCopies[p[1]] /\ p[1] \in subRows /\ p[2] \in alertRows
  /\ reading.step \in {"idle", "fields", "failed", "done"}
  /\ reading.page \subseteq {s \in Followed : OwnerOf[s] = reading.user}
  /\ reading.pending \subseteq {"country", "counts", "divisions", "all"} \cup reading.page
  /\ changed \subseteq Pair /\ before \subseteq AdminDivision

ListsInit ==
  /\ subRows = Followed /\ countryRows = HomeCountry
  /\ divisionRows = AdminDivision /\ alertRows = TaggedAlert
  /\ taggedRows = [p \in Pair |-> 0]
  /\ reading = NotReading
  /\ changed = {} /\ before = {}

--------------------------------------------------------------------------------
(***************************************************************************)
(* The tables change.                                                      *)
(***************************************************************************)
\* Rows go, and the rows of SubscriptionAlert that refer to them.
KeepTagged(S, A) ==
  /\ taggedRows' = [p \in Pair |-> IF p[1] \in S /\ p[2] \in A THEN taggedRows[p] ELSE 0]
  /\ changed' = changed \cup {p \in Pair : taggedRows'[p] # taggedRows[p]}

\* The tagging task inserts a row, another one if the alert is tagged again.
TagAgain(s, a) ==
  /\ s \in subRows /\ a \in alertRows /\ CountryOf[a] = CountryOf[s]
  /\ taggedRows[<<s, a>>] < MaxCopies[s]
  /\ taggedRows' = [taggedRows EXCEPT ![<<s, a>>] = @ + 1]
  /\ changed' = changed \cup {<<s, a>>}
  /\ UNCHANGED <<subRows, countryRows, divisionRows, alertRows, reading, before>>

\* The admin site deletes an alert.
DropAlert(a) ==
  /\ a \in alertRows
  /\ alertRows' = alertRows \ {a}
  /\ KeepTagged(subRows, alertRows')
  /\ UNCHANGED <<subRows, countryRows, divisionRows, reading, before>>

\* Another request of the user deletes a subscription.
DropSubscription(s) ==
  /\ s \in subRows
  /\ subRows' = subRows \ {s}
  /\ KeepTagged(subRows', alertRows)
  /\ UNCHANGED <<countryRows, divisionRows, alertRows, reading, before>>

\* The admin site deletes a division: ids of it stay in filter_alert_admin1s.
DropDivision(d) ==
  /\ d \in divisionRows
  /\ divisionRows' = divisionRows \ {d}
  /\ UNCHANGED <<subRows, countryRows, alertRows, taggedRows, reading, changed, before>>

\* Sensitivity variant: on_delete=DO_NOTHING.
NeverProtected(c) == c \notin HomeCountry

\* on_delete=PROTECT of filter_alert_country.
IsProtected(c) == \E s \in subRows : CountryOf[s] = c

\* The admin site deletes a country, with its divisions and alerts.
DropCountry(c) ==
  /\ c \in countryRows /\ ~IsProtected(c)
  /\ countryRows' = countryRows \ {c}
  /\ divisionRows' = {d \in divisionRows : CountryOf[d] # c}
  /\ alertRows' = {a \in alertRows : CountryOf[a] # c}
  /\ KeepTagged(subRows, alertRows')
  /\ UNCHANGED <<subRows, reading, before>>

--------------------------------------------------------------------------------
(***************************************************************************)
(* A request of user u.                                                    *)
(***************************************************************************)
OwnRows(u) == {s \in subRows : OwnerOf[s] = u}

\* A page of user_alert_subscriptions, in an order that the client chooses.
Pages(u) ==
  {P \in SUBSET OwnRows(u) :
     \/ Cardinality(P) = PageLimit
     \/ Cardinality(P) < PageLimit /\ P = OwnRows(u)}

AskSubscriptions(u) ==
  /\ reading.step = "idle"
  /\ \E page \in Pages(u), fields \in FieldSets :
       reading' = [NotReading EXCEPT !.step = "fields", !.user = u, !.page = page,
         !.fields = fields,
         !.pending = (fields \cap {"all"}) \cup (IF "alerts" \in fields THEN page ELSE {})
           \cup (IF page = {} THEN {} ELSE fields \cap {"country", "counts", "divisions"})]
  /\ changed' = {} /\ before' = divisionRows
  /\ UNCHANGED listsTables

Resolved(field, answer) ==
  /\ reading.step = "fields" /\ field \in reading.pending
  /\ reading' = [answer EXCEPT !.pending = @ \ {field}]
  /\ UNCHANGED <<listsTables, changed, before>>

\* load_country: a KeyError when a row is missing, and no answer at all.
LoadCountries ==
  Resolved("country", [reading EXCEPT !.step =
    IF \A s \in reading.page : CountryOf[s] \in countryRows THEN @ ELSE "failed"])

\* The SubscriptionAlert rows of a subscription.
RowsPerAlert(s) == [a \in TaggedAlert |-> taggedRows[<<s, a>>]]

RowSum(rows) == MapThenSumSet(LAMBDA a : rows[a], TaggedAlert)

\* Sensitivity variant: Count('alert', distinct=True).
CountOfAlerts(s) == Cardinality({a \in TaggedAlert : taggedRows[<<s, a>>] > 0})

\* Count('alert') counts the rows, alerts or not.
CountOfRows(s) == RowSum(RowsPerAlert(s))

\* load_alert_count_by_subscription: a subscription without rows has 0.
LoadCounts ==
  Resolved("counts", [reading EXCEPT !.counts = [s \in reading.page |-> CountOfRows(s)]])

\* alerts of a subscription: a join, an alert comes once for each of its rows.
ReadAlertsOf(s) == Resolved(s, [reading EXCEPT !.lists[s] = RowsPerAlert(s)])

Among(ids, D) == SelectSeq(ids, LAMBDA d : d \in D)

\* The ids that are rows, in the order in which they are stored.
KnownOf(ids) == Among(ids, divisionRows)

\* load_admin1_by_admin1s: one query for all subscriptions that store ids.
LoadDivisions ==
  Resolved("divisions", [reading EXCEPT !.shown = [s \in reading.page |-> KnownOf(StoredIds[s])]])

\* The join of an alert with the subscriptions of a user: a row for each time it is tagged.
JoinRows(u, a) == UNION {{s} \X (1 .. taggedRows[<<s, a>>]) : s \in OwnRows(u)}

\* AlertFilter.DISTINCT.
Distinct(rows) == IF rows = {} THEN 0 ELSE 1

\* subscripted_alerts: of all the subscriptions of the user.
ReadAll ==
  Resolved("all", [reading EXCEPT !.all = [a \in TaggedAlert |->
                                             Distinct(JoinRows(reading.user, a))]])

Complete ==
  /\ reading.step = "fields" /\ reading.pending = {}
  /\ reading' = [reading EXCEPT !.step = "done"]
  /\ UNCHANGED <<listsTables, changed, before>>

\* The client has the answer, or the error.
TakeAnswer ==
  /\ reading.step \in {"done", "failed"}
  /\ reading' = NotReading
  /\ changed' = {} /\ before' = {}
  /\ UNCHANGED listsTables

ListsNext ==
  \/ \E s \in Followed, a \in TaggedAlert : TagAgain(s, a)
  \/ \E a \in TaggedAlert : DropAlert(a)
  \/ \E s \in Followed : DropSubscription(s) \/ ReadAlertsOf(s)
  \/ \E d \in AdminDivision : DropDivision(d)
  \/ \E c \in HomeCountry : DropCountry(c)
  \/ \E u \in Reader : AskSubscriptions(u)
  \/ LoadCountries \/ LoadCounts \/ LoadDivisions \/ ReadAll \/ Complete \/ TakeAnswer

--------------------------------------------------------------------------------
(***************************************************************************)
(* Correctness.                                                            *)
(***************************************************************************)
ListsSpec == ListsInit /\ [][ListsNext]_listsVars

\* One answer agrees with itself: totalAlertsCount of a subscription is the length
\* of its list of alerts, duplicates included, unless its rows changed meanwhile
\* (load_alert_count_by_subscription and the join of the alerts field).
CountsMatchLists ==
  reading.step = "done" /\ {"counts", "alerts"} \subseteq reading.fields =>
    \A s \in reading.page :
      ({s} \X TaggedAlert) \cap changed = {} => reading.counts[s] = RowSum(reading.lists[s])

\* However often an alert was tagged, and for however many of the subscriptions of
\* a user, subscriptedAlerts has it once; it leaves out none that was tagged all
\* along (subscripted_alerts, which adds DISTINCT).
EveryAlertOnce ==
  reading.step = "done" /\ "all" \in reading.fields =>
    \A a \in TaggedAlert :
      (\A s \in Followed : OwnerOf[s] = reading.user => <<s, a>> \notin changed) =>
        reading.all[a] = IF \E s \in OwnRows(reading.user) : taggedRows[<<s, a>>] > 0
                         THEN 1 ELSE 0

\* The displays of all subscriptions of a page are those of one state of the
\* divisions during the request: the stored ids, in their order, without those
\* that had been deleted (load_admin1_by_admin1s).
DisplaysAgree ==
  reading.step = "done" /\ "divisions" \in reading.fields /\ reading.page # {} =>
    \E D \in SUBSET before :
      /\ divisionRows \subseteq D
      /\ \A s \in reading.page : reading.shown[s] = Among(StoredIds[s], D)

\* A request has no answer only when one of its subscriptions was deleted while it
\* ran: until then its country cannot go (PROTECT of filter_alert_country, against
\* the KeyError of load_country).
FailsOnlyForDeleted == reading.step = "failed" => ~(reading.page \subseteq subRows)

\* One answer about subscriptions agrees with itself: its counts with its lists, the
\* list of all alerts with those of the subscriptions, the displays with each other.
ListsAgree == CountsMatchLists /\ EveryAlertOnce /\ DisplaysAgree

================================================================================
