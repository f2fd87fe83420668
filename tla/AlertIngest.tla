------------------------------ MODULE AlertIngest ------------------------------
(***************************************************************************)
(* Ingestion of alerts: the celery task poll_feed (apps/cap_feed/tasks.py) *)
(* with the feed readers and process_alert (apps/cap_feed/formats).  Each  *)
(* database write of process_alert is a step of its own, because no        *)
(* transaction encloses them and the periodic tasks run between them.      *)
(*                                                                         *)
(* A worker is a process of the 'feeds' queue.  It may fail on an entry at *)
(* any step (a missing element, a database error, the soft time limit: the *)
(* handlers of get_alert and of the reader's loop drop the entry and go on *)
(* with the next one), or be killed (the hard time limit, a lost pod).     *)
(*                                                                         *)
(* The order in which a feed lists its entries, and a document its infos,  *)
(* is the publisher's: the model takes them in any order.                  *)
(***************************************************************************)
EXTENDS AlertStore, FiniteSets

CONSTANTS
  Worker,     \* worker processes of the 'feeds' queue
  NoWorker,   \* model value
  NoUrl,      \* model value
  FeedUrls,   \* [Feed -> SUBSET Url], what each feed may list
  ChunkSize,  \* BaseBulkManager.chunk_size
  MaxFaults   \* bound of the entries that fail and workers that are killed

ASSUME IngestAssumption ==
  /\ NoWorker \notin Worker
  /\ NoUrl \notin Url
  /\ FeedUrls \in [Feed -> SUBSET Url]
  /\ ChunkSize \in Nat \ {0}
  /\ MaxFaults \in Nat

VARIABLES
  pc,         \* what each worker does next
  feedOf,     \* the feed it polls
  listing,    \* entries of the feed it has not come to yet
  entry,      \* the url it processes
  infosLeft,  \* infos of the document it has not come to yet
  accepted,   \* infos it has stored: alert_has_valid_info is accepted # {}
  queue,      \* AlertAdmin1 objects waiting in the BulkCreateManager
  feedLock,   \* redis lock of each feed: the worker that took it
  ingested,   \* history: alerts whose process_alert returned
  faults      \* history: entries failed and workers killed

workerVars == <<pc, feedOf, listing, entry, infosLeft, accepted, queue>>
ingestVars == <<workerVars, feedLock, ingested, faults>>

\* Where a worker stands while it owns the row of its entry.
OwnerSteps == {"infos", "save", "flush", "related", "references", "record"}
Steps == {"idle", "entry", "fetch"} \cup OwnerSteps

IngestTypeOK ==
  /\ pc \in [Worker -> Steps]
  /\ feedOf \in [Worker -> Feed \cup {NoFeed}]
  /\ listing \in [Worker -> SUBSET Url]
  /\ entry \in [Worker -> Url \cup {NoUrl}]
  /\ infosLeft \in [Worker -> SUBSET InfoElement]
  /\ accepted \in [Worker -> SUBSET InfoElement]
  /\ queue \in [Worker -> SUBSET Admin1]
  /\ feedLock \in [Feed -> Worker \cup {NoWorker}]
  /\ ingested \in SUBSET Url
  /\ faults \in Nat
  /\ \A w \in Worker : /\ pc[w] # "idle" => feedOf[w] \in Feed
                       /\ pc[w] \in OwnerSteps \cup {"fetch"} => entry[w] \in Url

IngestInit ==
  /\ pc = [w \in Worker |-> "idle"]
  /\ feedOf = [w \in Worker |-> NoFeed]
  /\ listing = [w \in Worker |-> {}]
  /\ entry = [w \in Worker |-> NoUrl]
  /\ infosLeft = [w \in Worker |-> {}]
  /\ accepted = [w \in Worker |-> {}]
  /\ queue = [w \in Worker |-> {}]
  /\ feedLock = [f \in Feed |-> NoWorker]
  /\ ingested = {}
  /\ faults = 0

--------------------------------------------------------------------------------
(***************************************************************************)
(* The divisions an alert is located in: those its polygons intersect, or  *)
(* if there are none those near its circles, or those its geocodes name,   *)
(* or the division 'Unknown'.                                              *)
(***************************************************************************)
Polygons(I) == UNION {i.polygon : i \in I}
Circles(I) == UNION {i.circle : i \in I}
Geocodes(I) == UNION {i.geocode : i \in I}

Fallback(I) ==
  IF Polygons(I) # {} THEN {}
  ELSE IF Circles(I) # {} THEN Circles(I)
  ELSE IF Geocodes(I) # {} THEN Geocodes(I)
  ELSE UnknownAdmin1

\* BaseBulkManager.add commits the queue whenever it reaches chunk_size: of the
\* objects in Q, what may have been written when the last one has been added.
Flushes(Q) == {C \in SUBSET Q : C = {} \/ Cardinality(C) >= ChunkSize}

\* Sensitivity variant: alert.admin1s.set(...) in place of an insertion.
ReplaceAdmin1s(u, Q) == admin1s' = [admin1s EXCEPT ![u] = Q]

\* bulk_create of AlertAdmin1 rows.
InsertAdmin1s(u, Q) == admin1s' = [admin1s EXCEPT ![u] = @ \cup Q]

\* The process_alert_info test that drops an info whose expiry has passed.
Outdated(i) == i.expires # 0 /\ i.expires < now

InfoExpiry(i) == IF i.expires = 0 THEN now + InfoLife ELSE i.expires

\* process_alert is left: its local variables are gone.
LeaveEntry(w) ==
  /\ entry' = [entry EXCEPT ![w] = NoUrl]
  /\ infosLeft' = [infosLeft EXCEPT ![w] = {}]
  /\ accepted' = [accepted EXCEPT ![w] = {}]
  /\ queue' = [queue EXCEPT ![w] = {}]

--------------------------------------------------------------------------------
\* Sensitivity variant: a poll that takes no lock.
LockIgnored(f) == f \in Feed

\* redis_lock(POLL_FEED): cache.add fails while another worker has the key.
LockFree(f) == feedLock[f] = NoWorker

\* poll_feed takes the lock and the reader fetches the feed: what it lists now,
\* nothing at all when the request fails.
StartPoll(w, f) ==
  /\ pc[w] = "idle"
  /\ LockFree(f)
  /\ feedLock' = [feedLock EXCEPT ![f] = w]
  /\ feedOf' = [feedOf EXCEPT ![w] = f]
  /\ \E L \in SUBSET FeedUrls[f] : listing' = [listing EXCEPT ![w] = L]
  /\ pc' = [pc EXCEPT ![w] = "entry"]
  /\ UNCHANGED <<storeVars, entry, infosLeft, accepted, queue, ingested, faults>>

\* A reader skips an entry that has a ProcessedAlert or an Alert row.
Known(u) == records[u] # 0 \/ u \in Alerts

CheckEntry(w) ==
  /\ pc[w] = "entry"
  /\ \E u \in listing[w] :
       /\ listing' = [listing EXCEPT ![w] = @ \ {u}]
       /\ IF Known(u)
          THEN UNCHANGED <<pc, entry>>
          ELSE /\ pc' = [pc EXCEPT ![w] = "fetch"]
               /\ entry' = [entry EXCEPT ![w] = u]
  /\ UNCHANGED <<storeVars, feedOf, infosLeft, accepted, queue, feedLock,
                 ingested, faults>>

\* The document cannot be fetched or parsed, its status is not 'Actual', or the
\* insert of create_alert violates the unique url: nothing is written.
RejectEntry(w) ==
  /\ pc[w] = "fetch"
  /\ pc' = [pc EXCEPT ![w] = "entry"]
  /\ LeaveEntry(w)
  /\ UNCHANGED <<storeVars, feedOf, listing, feedLock, ingested, faults>>

\* Sensitivity variant: a table without the constraint.
UrlIsNotUnique(u) == u \in Url

\* The unique constraint of Alert.url.
UrlIsNew(u) == pk[u] = 0

CreateAlert(w) ==
  LET u == entry[w] IN
  /\ pc[w] = "fetch"
  /\ Doc[u].actual
  /\ UrlIsNew(u)
  /\ lastPk' = lastPk + 1
  /\ pk' = [pk EXCEPT ![u] = lastPk']
  /\ source' = [source EXCEPT ![u] = feedOf[w]]
  /\ expired' = expired \ {u}
  /\ processed' = processed \ {u}
  /\ pc' = [pc EXCEPT ![w] = "infos"]
  /\ infosLeft' = [infosLeft EXCEPT ![w] = Doc[u].infos]
  /\ accepted' = [accepted EXCEPT ![w] = {}]
  /\ queue' = [queue EXCEPT ![w] = {}]
  /\ UNCHANGED <<infos, admin1s, records, now, feedOf, listing, entry, feedLock,
                 ingested, faults>>

\* process_alert_info: the AlertInfo row is inserted at once, the AlertAdmin1
\* rows of its polygons are queued, and flushed if a chunk is full.
AddInfo(w) ==
  LET u == entry[w] IN
  /\ pc[w] = "infos"
  /\ \E i \in infosLeft[w] :
       /\ infosLeft' = [infosLeft EXCEPT ![w] = @ \ {i}]
       /\ IF Outdated(i)
          THEN UNCHANGED <<infos, admin1s, accepted, queue>>
          ELSE LET waiting == queue[w] \cup (i.polygon \ Polygons(accepted[w])) IN
               /\ infos' = [infos EXCEPT ![u] =
                              @ \cup {[info |-> i, expires |-> InfoExpiry(i)]}]
               /\ accepted' = [accepted EXCEPT ![w] = @ \cup {i}]
               /\ \E C \in Flushes(waiting) :
                    /\ InsertAdmin1s(u, C)
                    /\ queue' = [queue EXCEPT ![w] = waiting \ C]
  /\ UNCHANGED <<pk, lastPk, source, expired, processed, records, now, pc,
                 feedOf, listing, entry, feedLock, ingested, faults>>

\* The first mgr.done() writes what is queued; the fallback rows, when there is
\* an info and no polygon matched, are queued next (and flushed by full chunks).
FinishInfos(w) ==
  LET u == entry[w]
      located == IF accepted[w] = {} THEN {} ELSE Fallback(accepted[w])
  IN
  /\ pc[w] = "infos"
  /\ infosLeft[w] = {}
  /\ \E C \in Flushes(located) :
       /\ InsertAdmin1s(u, queue[w] \cup C)
       /\ queue' = [queue EXCEPT ![w] = located \ C]
  /\ pc' = [pc EXCEPT ![w] = IF accepted[w] = {} THEN "flush" ELSE "save"]
  /\ UNCHANGED <<pk, lastPk, source, expired, processed, infos, records, now,
                 feedOf, listing, entry, infosLeft, accepted, feedLock, ingested,
                 faults>>

\* Sensitivity variant: a save with update_fields that leaves the flags alone.
UnsavedFlag(S, u) == S

\* The alerts that have a flag, when the flag of u is saved as False.
SavedFlag(S, u) == S \ {u}

\* alert.save() writes every column of the instance create_alert returned: the
\* two flags go back to False, whatever the other tasks have written meanwhile.
SaveAlert(w) ==
  LET u == entry[w] IN
  /\ pc[w] = "save"
  /\ expired' = SavedFlag(expired, u)
  /\ processed' = SavedFlag(processed, u)
  /\ pc' = [pc EXCEPT ![w] = "flush"]
  /\ UNCHANGED <<pk, lastPk, source, infos, admin1s, records, now, feedOf,
                 listing, entry, infosLeft, accepted, queue, feedLock, ingested,
                 faults>>

\* The second mgr.done() writes the fallback rows.
FlushFallback(w) ==
  LET u == entry[w] IN
  /\ pc[w] = "flush"
  /\ InsertAdmin1s(u, queue[w])
  /\ queue' = [queue EXCEPT ![w] = {}]
  /\ pc' = [pc EXCEPT ![w] = "related"]
  /\ UNCHANGED <<pk, lastPk, source, expired, processed, infos, records, now,
                 feedOf, listing, entry, infosLeft, accepted, feedLock, ingested,
                 faults>>

\* process_related_alerts: a 'Cancel' expires itself...
ExpireSelf(w) ==
  LET u == entry[w] IN
  /\ pc[w] = "related"
  /\ IF Doc[u].cancel
     THEN /\ expired' = expired \cup {u}
          /\ pc' = [pc EXCEPT ![w] = "references"]
     ELSE /\ pc' = [pc EXCEPT ![w] = "record"]
          /\ UNCHANGED expired
  /\ UNCHANGED <<pk, lastPk, source, processed, infos, admin1s, records, now,
                 feedOf, listing, entry, infosLeft, accepted, queue, feedLock,
                 ingested, faults>>

\* The alerts a 'Cancel' of feed f with references R finds in the table.
Referenced(f, R) == {v \in Alerts \cap R : source[v] = f}

\* ... and then the alerts of its feed that its references name.
ExpireReferences(w) ==
  /\ pc[w] = "references"
  /\ expired' = expired \cup Referenced(feedOf[w], Doc[entry[w]].refs)
  /\ pc' = [pc EXCEPT ![w] = "record"]
  /\ UNCHANGED <<pk, lastPk, source, processed, infos, admin1s, records, now,
                 feedOf, listing, entry, infosLeft, accepted, queue, feedLock,
                 ingested, faults>>

\* The finally clause of get_alert; a duplicate url is refused by the table.
RecordProcessed(w) ==
  LET u == entry[w] IN
  /\ pc[w] = "record"
  /\ records' = [records EXCEPT ![u] = IF @ = 0 THEN now + RecordLife ELSE @]
  /\ ingested' = ingested \cup {u}
  /\ pc' = [pc EXCEPT ![w] = "entry"]
  /\ LeaveEntry(w)
  /\ UNCHANGED <<pk, lastPk, source, expired, processed, infos, admin1s, now,
                 feedOf, listing, feedLock, faults>>

\* The poll ends and redis_lock deletes the key.
EndPoll(w) ==
  /\ pc[w] = "entry"
  /\ listing[w] = {}
  /\ feedLock' = [feedLock EXCEPT ![feedOf[w]] = NoWorker]
  /\ feedOf' = [feedOf EXCEPT ![w] = NoFeed]
  /\ pc' = [pc EXCEPT ![w] = "idle"]
  /\ UNCHANGED <<storeVars, listing, entry, infosLeft, accepted, queue, ingested,
                 faults>>

--------------------------------------------------------------------------------
\* An exception while the row is being filled: what is queued is lost, what is
\* written stays, no ProcessedAlert is written, and the reader goes on.
FailEntry(w) ==
  /\ pc[w] \in OwnerSteps
  /\ faults < MaxFaults
  /\ faults' = faults + 1
  /\ pc' = [pc EXCEPT ![w] = "entry"]
  /\ LeaveEntry(w)
  /\ UNCHANGED <<storeVars, feedOf, listing, feedLock, ingested>>

\* The process dies; celery replaces it, and the lock stays in redis.
KillWorker(w) ==
  /\ pc[w] # "idle"
  /\ faults < MaxFaults
  /\ faults' = faults + 1
  /\ pc' = [pc EXCEPT ![w] = "idle"]
  /\ feedOf' = [feedOf EXCEPT ![w] = NoFeed]
  /\ LeaveEntry(w)
  /\ listing' = [listing EXCEPT ![w] = {}]
  /\ UNCHANGED <<storeVars, feedLock, ingested>>

\* The poll that took the lock is over without having released it.
Orphaned(f) == feedLock[f] # NoWorker /\ feedOf[feedLock[f]] # f

\* The key expires.  It never does so under a running poll: the hard time limit
\* of the feeds workers is shorter than REDIS_LOCK_EXPIRE (see RedisLock).
LockExpires(f) ==
  /\ Orphaned(f)
  /\ feedLock' = [feedLock EXCEPT ![f] = NoWorker]
  /\ UNCHANGED <<storeVars, workerVars, ingested, faults>>

--------------------------------------------------------------------------------
WorkerStep(w) ==
  \/ CheckEntry(w) \/ RejectEntry(w) \/ CreateAlert(w) \/ AddInfo(w)
  \/ FinishInfos(w) \/ SaveAlert(w) \/ FlushFallback(w) \/ ExpireSelf(w)
  \/ ExpireReferences(w) \/ RecordProcessed(w) \/ EndPoll(w)

IngestNext ==
  \/ \E w \in Worker, f \in Feed : StartPoll(w, f)
  \/ \E w \in Worker : WorkerStep(w) \/ FailEntry(w) \/ KillWorker(w)
  \/ \E f \in Feed : LockExpires(f)

================================================================================
