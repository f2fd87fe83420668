----------------------------- MODULE AlertLifecycle -----------------------------
(***************************************************************************)
(* Ingestion and expiry together: what the workers of the 'feeds' queue    *)
(* and the two periodic tasks of apps/cap_feed do to the shared tables, in *)
(* every interleaving, with entries that fail and workers that die.        *)
(***************************************************************************)
EXTENDS AlertIngest, AlertExpiry

vars == <<storeVars, ingestVars>>

Init == StoreInit /\ IngestInit

Next ==
  \/ IngestNext
  \/ ExpiryNext /\ UNCHANGED ingestVars
  \/ Tick /\ UNCHANGED ingestVars

Spec == Init /\ [][Next]_vars

(***************************************************************************)
(* Fairness.  A worker that is running goes on (celery runs a task to its  *)
(* end, an exception or the time limit, and every request of httpx ends by *)
(* its timeout), beat sends tag_expired_alerts every minute, redis expires *)
(* keys and time passes.  Nothing obliges a publisher to list an entry, a  *)
(* document to be served, or the beat to send poll_feed.                   *)
(***************************************************************************)
Fairness ==
  /\ \A w \in Worker : WF_vars(WorkerStep(w))
  /\ \A f \in Feed : WF_vars(LockExpires(f))
  /\ WF_vars(TagExpiredAlerts /\ UNCHANGED ingestVars)
  /\ WF_vars(Tick /\ UNCHANGED ingestVars)

FairSpec == Spec /\ Fairness

--------------------------------------------------------------------------------
(***************************************************************************)
(* Safety.                                                                 *)
(***************************************************************************)

\* Every variable keeps to the values the tables and the workers can hold.
TypeOK == StoreTypeOK /\ IngestTypeOK

\* At most one worker fills the rows of an alert, even when two feeds list the
\* same url at the same time and both readers found it unknown: the existence
\* test of the readers (atom.py:60) is no lock, the unique url is.
OneIngester ==
  \A w, v \in Worker :
    pc[w] \in OwnerSteps /\ pc[v] \in OwnerSteps /\ entry[w] = entry[v] => w = v

\* No Cancel in the table names the alert.
Cancelled(u) == \E c \in Alerts : Doc[c].cancel /\ u \in Doc[c].refs

\* An ingested alert that is still active is shown: tag_expired_alerts may have
\* run on the row before its infos were there and flagged it, and only the save
\* at the end of process_alert (cap_xml.py:351) undoes that.
ActiveAlertIsShown ==
  \A u \in ingested :
    ~Stale(u) /\ ~Doc[u].cancel /\ ~Cancelled(u) => u \notin expired

\* A Cancel that has been ingested has expired itself and every older alert of
\* its feed that it references (cap_xml.py:208-259), and they stay expired: a
\* late save of process_alert never brings one back, because the lock of the
\* feed lets one poll at a time write the alerts of a feed.
CancelDone(c) ==
  /\ c \in expired
  /\ \A u \in Alerts \cap Doc[c].refs :
       source[u] = source[c] /\ pk[u] < pk[c] => u \in expired
CancelIsFinal == \A c \in ingested : Doc[c].cancel => CancelDone(c)

\* The divisions of an ingested alert are exactly those its stored infos are
\* located in, by the order of preference of process_alert: no row is lost in a
\* queue of the BulkCreateManager, and no fallback is added to a polygon.
Stored(u) == {r.info : r \in infos[u]}
LocatedIn(u) ==
  LET I == Stored(u)
      first == <<Polygons(I), Circles(I), Geocodes(I), UnknownAdmin1>>
      usable == {k \in DOMAIN first : first[k] # {}}
  IN IF I = {} \/ usable = {} THEN {}
     ELSE first[CHOOSE k \in usable : \A j \in usable : k <= j]
IngestedIsLocated == \A u \in ingested : admin1s[u] = LocatedIn(u)

\* Once an alert has been ingested its flag is never cleared again: clients do
\* not see an expired or cancelled alert come back.
NeverUnexpired == [][\A u \in ingested \cap expired : u \in expired']_vars

\* To the polls of a feed its redis lock is what TaskLock promises: a poll starts
\* only without a key, which stays until the poll is over, killed ones included.
PollsOf(f) == {w \in Worker : pc[w] # "idle" /\ feedOf[w] = f}
PollLock(f) == INSTANCE TaskLock
                 WITH Run <- Worker, NoRun <- NoWorker, holder <- feedLock[f],
                      inside <- PollsOf(f)
PollsAreLocked ==
  /\ \A f \in Feed : PollLock(f)!Init
  /\ [][\A f \in Feed : [PollLock(f)!Next]_(PollLock(f)!vars)]_vars

(***************************************************************************)
(* The strengthening that makes these properties inductive.                *)
(***************************************************************************)

\* A poll that runs holds the lock of its feed.
LockHeld == \A w \in Worker : pc[w] # "idle" => feedLock[feedOf[w]] = w

\* Keys come from the sequence, and a url without a row has no other rows.
KeysFromSequence ==
  \A u \in Url : /\ pk[u] <= lastPk
                 /\ pk[u] = 0 => infos[u] = {} /\ u \notin ingested

\* The row a worker fills is of its feed, not finished, has infos only if the
\* worker accepted some, and is the newest of the feed.
OwnsRow(w) ==
  LET u == entry[w] IN
  /\ pk[u] # 0 /\ source[u] = feedOf[w] /\ u \notin ingested
  /\ accepted[w] = {} => infos[u] = {}
  /\ \A v \in Url : source[v] = feedOf[w] => pk[v] <= pk[u]
RowsOwned == \A w \in Worker : pc[w] \in OwnerSteps => OwnsRow(w)

\* What ActiveAlertIsShown and CancelIsFinal say of ingested alerts holds of an
\* alert from the step of process_alert on that establishes it.
Shown(u) == ~Stale(u) /\ ~Doc[u].cancel /\ ~Cancelled(u) => u \notin expired
ShownAfterSave ==
  \A w \in Worker :
    pc[w] \in {"flush", "related", "references", "record"} => Shown(entry[w])
CancelInSteps ==
  \A w \in Worker :
    /\ pc[w] = "references" => Doc[entry[w]].cancel /\ entry[w] \in expired
    /\ pc[w] = "record" /\ Doc[entry[w]].cancel => CancelDone(entry[w])

LifecycleInv ==
  /\ LockHeld /\ KeysFromSequence /\ RowsOwned /\ OneIngester
  /\ ShownAfterSave /\ ActiveAlertIsShown
  /\ CancelInSteps /\ CancelIsFinal

\* The divisions of the row a worker fills are in the table or still in the queue
\* of its BulkCreateManager, and it remembers the infos it has stored.
Filling(w) ==
  LET u == entry[w] IN
  /\ Stored(u) = accepted[w]
  /\ pc[w] = "infos" => admin1s[u] \cup queue[w] = Polygons(accepted[w])
  /\ pc[w] \in {"save", "flush"} => admin1s[u] \cup queue[w] = LocatedIn(u)
  /\ pc[w] \in {"related", "references", "record"} => admin1s[u] = LocatedIn(u)
LocatedInv ==
  /\ \A u \in Url : pk[u] = 0 => admin1s[u] = {}
  /\ \A w \in Worker : pc[w] \in OwnerSteps => Filling(w)
  /\ IngestedIsLocated

--------------------------------------------------------------------------------
(***************************************************************************)
(* Liveness.                                                               *)
(***************************************************************************)

\* An alert whose infos have all expired ends up flagged for good, a partial
\* one, left by a failed entry or a killed worker, included.
StaleIsExpired ==
  \A u \in Url : <>[](u \in Alerts /\ Stale(u)) => <>[](u \in expired)

================================================================================
