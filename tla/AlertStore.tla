------------------------------ MODULE AlertStore ------------------------------
(***************************************************************************)
(* The tables of apps/cap_feed that the background tasks share: Alert,     *)
(* AlertInfo, AlertAdmin1 and ProcessedAlert, and the clock they compare   *)
(* expiry times with.  Every statement of the code runs in autocommit      *)
(* (main/settings.py sets no ATOMIC_REQUESTS and the tasks open no         *)
(* transaction around ingestion), so each write is visible to the other    *)
(* tasks at once: this module only declares the rows, the modules that     *)
(* extend it say who changes them and in which steps.                      *)
(*                                                                         *)
(* An alert is identified with its url (unique in the table); its contents *)
(* are those of the CAP document found there.                              *)
(***************************************************************************)
EXTENDS Integers

CONSTANTS
  Feed,         \* rows of the Feed table
  Url,          \* urls the feeds list; also the CAP identifiers of the alerts
  Admin1,       \* the first-level divisions of the feeds' country
  UnknownAdmin1,\* the division named 'Unknown', a set with at most one element
  Doc,          \* the CAP document at each url
  NoFeed,       \* model value
  InfoLife,     \* alert_info_default_expire: life of an info with no expiry
  RecordLife,   \* processed_alert_default_expire
  MaxTime       \* bound of the clock

VARIABLES
  pk,         \* [Url -> Nat], the key of the Alert row, 0 when there is none
  lastPk,     \* the sequence behind Alert.id
  source,     \* [Url -> Feed \cup {NoFeed}], Alert.feed
  expired,    \* alerts with is_expired
  processed,  \* alerts with is_processed_by_subscription
  infos,      \* [Url -> SUBSET InfoRow], the AlertInfo rows of an alert
  admin1s,    \* [Url -> SUBSET Admin1], the AlertAdmin1 rows of an alert
  records,    \* [Url -> Nat], ProcessedAlert.expires, 0 when there is no row
  now         \* timezone.now()

storeVars == <<pk, lastPk, source, expired, processed, infos, admin1s, records, now>>

(***************************************************************************)
(* A cap:info element: when it expires (0 when the element is missing),    *)
(* the divisions its polygons, circles and geocodes fall in, and the       *)
(* values of urgency, severity, certainty and category.                    *)
(***************************************************************************)
CONSTANT Tags
InfoElement == [expires: Nat, polygon: SUBSET Admin1, circle: SUBSET Admin1,
                geocode: SUBSET Admin1, tags: Tags]

Document == [actual: BOOLEAN,          \* cap:status is 'Actual'
             cancel: BOOLEAN,          \* cap:msgType is 'Cancel'
             refs: SUBSET Url,         \* the identifiers in cap:references
             infos: SUBSET InfoElement]

InfoRow == [info: InfoElement, expires: Nat]

ASSUME StoreAssumption ==
  /\ NoFeed \notin Feed
  /\ UnknownAdmin1 \in SUBSET Admin1
  /\ Doc \in [Url -> Document]
  /\ InfoLife \in Nat \ {0}
  /\ RecordLife \in Nat \ {0}
  /\ MaxTime \in Nat \ {0}

Alerts == {u \in Url : pk[u] # 0}

StoreTypeOK ==
  /\ pk \in [Url -> Nat]
  /\ lastPk \in Nat
  /\ source \in [Url -> Feed \cup {NoFeed}]
  /\ expired \in SUBSET Url
  /\ processed \in SUBSET Url
  /\ infos \in [Url -> SUBSET InfoRow]
  /\ admin1s \in [Url -> SUBSET Admin1]
  /\ records \in [Url -> Nat]
  /\ now \in Nat \ {0}

StoreInit ==
  /\ pk = [u \in Url |-> 0]
  /\ lastPk = 0
  /\ source = [u \in Url |-> NoFeed]
  /\ expired = {}
  /\ processed = {}
  /\ infos = [u \in Url |-> {}]
  /\ admin1s = [u \in Url |-> {}]
  /\ records = [u \in Url |-> 0]
  /\ now = 1

\* Filter infos__expires__gt=now of tag_expired_alerts, negated.
StaleRow(r) == r.expires <= now

\* No AlertInfo row of the alert is still active.
Stale(u) == \A r \in infos[u] : StaleRow(r)

Tick == /\ now < MaxTime
        /\ now' = now + 1
        /\ UNCHANGED <<pk, lastPk, source, expired, processed, infos, admin1s,
                       records>>

================================================================================
