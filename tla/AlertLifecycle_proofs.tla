-------------------------- MODULE AlertLifecycle_proofs --------------------------
(***************************************************************************)
(* Proofs about AlertLifecycle, for every set of feeds, workers, urls and  *)
(* documents, and any number of failures.                                  *)
(***************************************************************************)
EXTENDS AlertLifecycle, TLAPS

\* The tables and the workers' variables keep their types in every behaviour of
\* ingestion and expiry.
LEMMA TypeInitial == Init => TypeOK
BY StoreAssumption, IngestAssumption
DEF Init, StoreInit, IngestInit, TypeOK, StoreTypeOK, IngestTypeOK, Steps, OwnerSteps

\* Every document has the fields of a document, and its infos those of an info.
LEMMA DocTyped ==
  \A u \in Url : /\ Doc[u].actual \in BOOLEAN /\ Doc[u].cancel \in BOOLEAN
                 /\ Doc[u].refs \in SUBSET Url /\ Doc[u].infos \in SUBSET InfoElement
BY StoreAssumption DEF Document

\* The divisions of any set of infos are divisions.
LEMMA DivisionsTyped ==
  ASSUME NEW I \in SUBSET InfoElement
  PROVE  /\ Polygons(I) \in SUBSET Admin1
         /\ Fallback(I) \in SUBSET Admin1
<1>1. \A i \in I : /\ i.polygon \in SUBSET Admin1 /\ i.circle \in SUBSET Admin1
                  /\ i.geocode \in SUBSET Admin1
  BY DEF InfoElement
<1>2. /\ Polygons(I) \in SUBSET Admin1 /\ Circles(I) \in SUBSET Admin1
      /\ Geocodes(I) \in SUBSET Admin1
  BY <1>1 DEF Polygons, Circles, Geocodes
<1> QED BY <1>2, StoreAssumption DEF Fallback

\* A stored info is a row.
LEMMA RowTyped ==
  ASSUME StoreTypeOK, NEW i \in InfoElement
  PROVE  [info |-> i, expires |-> InfoExpiry(i)] \in InfoRow
<1>1. i.expires \in Nat
  BY DEF InfoElement
<1>2. InfoExpiry(i) \in Nat
  BY <1>1, StoreAssumption DEF InfoExpiry, StoreTypeOK
<1> QED BY <1>2 DEF InfoRow

\* What a bulk_create writes are divisions.
LEMMA InsertTyped ==
  ASSUME StoreTypeOK, NEW u \in Url, NEW Q \in SUBSET Admin1, InsertAdmin1s(u, Q)
  PROVE  admin1s' \in [Url -> SUBSET Admin1]
BY DEF StoreTypeOK, InsertAdmin1s

LEMMA TypeStep == TypeOK /\ [Next]_vars => TypeOK'
<1> SUFFICES ASSUME TypeOK, [Next]_vars PROVE TypeOK'
  OBVIOUS
<1> USE StoreAssumption, IngestAssumption
    DEF TypeOK, StoreTypeOK, IngestTypeOK, Steps, OwnerSteps
<1>1. ASSUME NEW w \in Worker, NEW f \in Feed, StartPoll(w, f) PROVE TypeOK'
  BY <1>1 DEF StartPoll, storeVars
<1>2. ASSUME NEW w \in Worker, WorkerStep(w) PROVE TypeOK'
  <2>1. CASE CheckEntry(w)
    BY <2>1 DEF CheckEntry, storeVars
  <2>2. CASE RejectEntry(w)
    BY <2>2 DEF RejectEntry, LeaveEntry, storeVars
  <2>3. CASE CreateAlert(w)
    BY <2>3, DocTyped DEF CreateAlert
  <2>4. CASE AddInfo(w)
    <3>1. PICK i \in infosLeft[w] :
            /\ infosLeft' = [infosLeft EXCEPT ![w] = @ \ {i}]
            /\ IF Outdated(i)
               THEN UNCHANGED <<infos, admin1s, accepted, queue>>
               ELSE LET waiting == queue[w] \cup (i.polygon \ Polygons(accepted[w])) IN
                    /\ infos' = [infos EXCEPT ![entry[w]] =
                                   @ \cup {[info |-> i, expires |-> InfoExpiry(i)]}]
                    /\ accepted' = [accepted EXCEPT ![w] = @ \cup {i}]
                    /\ \E C \in Flushes(waiting) :
                         /\ InsertAdmin1s(entry[w], C)
                         /\ queue' = [queue EXCEPT ![w] = waiting \ C]
      BY <2>4 DEF AddInfo
    <3>2. i \in InfoElement /\ entry[w] \in Url
      BY <2>4, <3>1 DEF AddInfo
    <3>3. infosLeft' \in [Worker -> SUBSET InfoElement]
      BY <3>1
    <3>4. CASE Outdated(i)
      BY <2>4, <3>1, <3>3, <3>4 DEF AddInfo
    <3>5. CASE ~Outdated(i)
      <4> DEFINE waiting == queue[w] \cup (i.polygon \ Polygons(accepted[w]))
      <4>1. waiting \in SUBSET Admin1
        BY <3>2 DEF InfoElement
      <4>2. PICK C \in Flushes(waiting) :
              /\ InsertAdmin1s(entry[w], C)
              /\ queue' = [queue EXCEPT ![w] = waiting \ C]
        BY <3>1, <3>5
      <4>3. C \in SUBSET Admin1 /\ waiting \ C \in SUBSET Admin1
        BY <4>1 DEF Flushes
      <4>4. admin1s' \in [Url -> SUBSET Admin1]
        BY <4>2, <4>3, <3>2, InsertTyped
      <4>5. queue' \in [Worker -> SUBSET Admin1]
        BY <4>2, <4>3
      <4>6. infos' \in [Url -> SUBSET InfoRow] /\ accepted' \in [Worker -> SUBSET InfoElement]
        BY <3>1, <3>2, <3>5, RowTyped
      <4> QED BY <2>4, <3>3, <4>4, <4>5, <4>6 DEF AddInfo
    <3> QED BY <3>4, <3>5
  <2>5. CASE FinishInfos(w)
    <3> DEFINE located == IF accepted[w] = {} THEN {} ELSE Fallback(accepted[w])
    <3>1. located \in SUBSET Admin1
      BY DivisionsTyped
    <3>2. PICK C \in Flushes(located) :
            /\ InsertAdmin1s(entry[w], queue[w] \cup C)
            /\ queue' = [queue EXCEPT ![w] = located \ C]
      BY <2>5 DEF FinishInfos
    <3>3. queue[w] \cup C \in SUBSET Admin1 /\ located \ C \in SUBSET Admin1
      BY <3>1 DEF Flushes
    <3>4. admin1s' \in [Url -> SUBSET Admin1]
      BY <2>5, <3>2, <3>3, InsertTyped DEF FinishInfos
    <3>5. queue' \in [Worker -> SUBSET Admin1]
      BY <3>2, <3>3
    <3> QED BY <2>5, <3>4, <3>5 DEF FinishInfos
  <2>6. CASE SaveAlert(w)
    BY <2>6 DEF SaveAlert, SavedFlag
  <2>7. CASE FlushFallback(w)
    BY <2>7 DEF FlushFallback, InsertAdmin1s
  <2>8. CASE ExpireSelf(w)
    BY <2>8 DEF ExpireSelf
  <2>9. CASE ExpireReferences(w)
    BY <2>9 DEF ExpireReferences, Referenced, Alerts
  <2>10. CASE RecordProcessed(w)
    BY <2>10 DEF RecordProcessed, LeaveEntry
  <2>11. CASE EndPoll(w)
    BY <2>11 DEF EndPoll, storeVars
  <2> QED BY <1>2, <2>1, <2>2, <2>3, <2>4, <2>5, <2>6, <2>7, <2>8, <2>9, <2>10,
             <2>11 DEF WorkerStep
<1>3. ASSUME NEW w \in Worker, FailEntry(w) PROVE TypeOK'
  BY <1>3 DEF FailEntry, LeaveEntry, storeVars
<1>4. ASSUME NEW w \in Worker, KillWorker(w) PROVE TypeOK'
  BY <1>4 DEF KillWorker, LeaveEntry, storeVars
<1>5. ASSUME NEW f \in Feed, LockExpires(f) PROVE TypeOK'
  BY <1>5 DEF LockExpires, storeVars, workerVars
<1>6. ASSUME ExpiryNext, UNCHANGED ingestVars PROVE TypeOK'
  BY <1>6 DEF ExpiryNext, TagExpiredAlerts, ExpiredAlerts, Alerts,
              RemoveExpiredAlertRecords, ingestVars, workerVars
<1>7. ASSUME Tick, UNCHANGED ingestVars PROVE TypeOK'
  BY <1>7 DEF Tick, ingestVars, workerVars
<1>8. CASE UNCHANGED vars
  BY <1>8 DEF vars, storeVars, ingestVars, workerVars
<1> QED BY <1>1, <1>2, <1>3, <1>4, <1>5, <1>6, <1>7, <1>8 DEF Next, IngestNext

THEOREM TypeCorrect == Spec => []TypeOK
BY TypeInitial, TypeStep, PTL DEF Spec

--------------------------------------------------------------------------------
(***************************************************************************)
(* The inductive invariant.  LockHeld stands on its own; OneIngester       *)
(* follows from it and RowsOwned: two workers that fill one row poll its   *)
(* feed, whose lock has one owner.  The other conjuncts speak of rows, and *)
(* most steps leave rows and their owners alone (Quiet).                   *)
(***************************************************************************)
RowsInv ==
  /\ KeysFromSequence /\ RowsOwned
  /\ ShownAfterSave /\ ActiveAlertIsShown
  /\ CancelInSteps /\ CancelIsFinal

\* What the step of one worker leaves alone in the others.
OthersUnchanged(w) ==
  \A v \in Worker \ {w} : /\ pc'[v] = pc[v] /\ entry'[v] = entry[v]
                          /\ feedOf'[v] = feedOf[v] /\ accepted'[v] = accepted[v]
                          /\ queue'[v] = queue[v]

\* Two workers that poll the same feed are one.
LEMMA OnePoll ==
  ASSUME LockHeld, NEW w \in Worker, NEW v \in Worker,
         pc[w] # "idle", pc[v] # "idle", feedOf[w] = feedOf[v]
  PROVE  w = v
BY DEF LockHeld

LEMMA OneIngesterFollows == LockHeld /\ RowsOwned => OneIngester
<1> SUFFICES ASSUME LockHeld, RowsOwned, NEW w \in Worker, NEW v \in Worker,
                    pc[w] \in OwnerSteps, pc[v] \in OwnerSteps, entry[w] = entry[v]
             PROVE  w = v
  BY DEF OneIngester
<1>1. feedOf[w] = feedOf[v]
  BY DEF RowsOwned, OwnsRow
<1>2. pc[w] # "idle" /\ pc[v] # "idle"
  BY DEF OwnerSteps
<1> QED BY <1>1, <1>2, OnePoll

LEMMA OthersFrame ==
  ASSUME TypeOK, NEW w \in Worker, WorkerStep(w)
  PROVE  OthersUnchanged(w)
<1> USE DEF TypeOK, IngestTypeOK, OthersUnchanged
<1>1. CASE CheckEntry(w)
  BY <1>1 DEF CheckEntry
<1>2. CASE RejectEntry(w)
  BY <1>2 DEF RejectEntry, LeaveEntry
<1>3. CASE CreateAlert(w)
  BY <1>3 DEF CreateAlert
<1>4. CASE AddInfo(w)
  BY <1>4 DEF AddInfo
<1>5. CASE FinishInfos(w)
  BY <1>5 DEF FinishInfos
<1>6. CASE SaveAlert(w)
  BY <1>6 DEF SaveAlert
<1>7. CASE FlushFallback(w)
  BY <1>7 DEF FlushFallback
<1>8. CASE ExpireSelf(w)
  BY <1>8 DEF ExpireSelf
<1>9. CASE ExpireReferences(w)
  BY <1>9 DEF ExpireReferences
<1>10. CASE RecordProcessed(w)
  BY <1>10 DEF RecordProcessed, LeaveEntry
<1>11. CASE EndPoll(w)
  BY <1>11 DEF EndPoll
<1> QED BY <1>1, <1>2, <1>3, <1>4, <1>5, <1>6, <1>7, <1>8, <1>9, <1>10, <1>11
        DEF WorkerStep

\* A worker's step that does not end the poll keeps its feed and the locks.
LEMMA PollKept ==
  ASSUME TypeOK, NEW w \in Worker, WorkerStep(w)
  PROVE  EndPoll(w) \/ (feedOf' = feedOf /\ feedLock' = feedLock /\ pc[w] # "idle")
BY DEF WorkerStep, CheckEntry, RejectEntry, CreateAlert, AddInfo, FinishInfos,
       SaveAlert, FlushFallback, ExpireSelf, ExpireReferences, RecordProcessed

--------------------------------------------------------------------------------
LEMMA LockStep ==
  ASSUME TypeOK, LockHeld, [Next]_vars
  PROVE  LockHeld'
<1> USE IngestAssumption DEF TypeOK, IngestTypeOK
<1>1. ASSUME NEW w \in Worker, NEW f \in Feed, StartPoll(w, f) PROVE LockHeld'
  <2>1. ASSUME NEW v \in Worker, pc'[v] # "idle", v # w PROVE feedLock'[feedOf'[v]] = v
    <3>1. feedLock[feedOf[v]] = v /\ feedOf'[v] = feedOf[v]
      BY <1>1, <2>1 DEF StartPoll, LockHeld
    <3>2. feedOf[v] # f
      BY <1>1, <3>1 DEF StartPoll, LockFree
    <3> QED BY <1>1, <3>1, <3>2 DEF StartPoll
  <2>2. feedLock'[feedOf'[w]] = w
    BY <1>1 DEF StartPoll
  <2> QED BY <2>1, <2>2 DEF LockHeld
<1>2. ASSUME NEW w \in Worker, WorkerStep(w) PROVE LockHeld'
  <2>1. CASE EndPoll(w)
    <3>1. ASSUME NEW v \in Worker, pc'[v] # "idle" PROVE feedLock'[feedOf'[v]] = v
      <4>1. v # w /\ pc[v] # "idle" /\ feedOf'[v] = feedOf[v] /\ pc[w] # "idle"
        BY <2>1, <3>1 DEF EndPoll
      <4>2. feedOf[v] # feedOf[w] /\ feedLock[feedOf[v]] = v
        BY <4>1, OnePoll DEF LockHeld
      <4> QED BY <2>1, <4>1, <4>2 DEF EndPoll
    <3> QED BY <3>1 DEF LockHeld
  <2>2. CASE feedOf' = feedOf /\ feedLock' = feedLock /\ pc[w] # "idle"
    BY <1>2, <2>2, OthersFrame DEF LockHeld, OthersUnchanged
  <2> QED BY <1>2, <2>1, <2>2, PollKept
<1>3. ASSUME NEW w \in Worker, FailEntry(w) PROVE LockHeld'
  BY <1>3 DEF FailEntry, LockHeld, OwnerSteps
<1>4. ASSUME NEW w \in Worker, KillWorker(w) PROVE LockHeld'
  BY <1>4 DEF KillWorker, LockHeld
<1>5. ASSUME NEW f \in Feed, LockExpires(f) PROVE LockHeld'
  BY <1>5 DEF LockExpires, Orphaned, workerVars, LockHeld
<1>6. ASSUME UNCHANGED ingestVars PROVE LockHeld'
  BY <1>6 DEF ingestVars, workerVars, LockHeld
<1>7. CASE UNCHANGED vars
  BY <1>6, <1>7 DEF vars
<1> QED BY <1>1, <1>2, <1>3, <1>4, <1>5, <1>6, <1>7 DEF Next, IngestNext

--------------------------------------------------------------------------------
\* A step that leaves the rows and the clock alone, and puts no worker on a row
\* or further on one, keeps what is said of rows.
LEMMA Quiet ==
  ASSUME RowsInv,
         UNCHANGED <<pk, lastPk, source, expired, infos, now, ingested>>,
         \A v \in Worker : pc'[v] \in OwnerSteps =>
           /\ pc[v] = pc'[v] /\ entry'[v] = entry[v]
           /\ feedOf'[v] = feedOf[v] /\ accepted'[v] = accepted[v]
  PROVE  RowsInv'
<1>1. /\ \A u : Stale(u)' = Stale(u)
      /\ \A u : Cancelled(u)' = Cancelled(u)
      /\ \A c : CancelDone(c)' = CancelDone(c)
  BY DEF Stale, StaleRow, Cancelled, CancelDone, Alerts
<1>2. KeysFromSequence'
  BY DEF RowsInv, KeysFromSequence
<1>3. RowsOwned'
  BY DEF RowsInv, RowsOwned, OwnsRow
<1>4. ShownAfterSave' /\ ActiveAlertIsShown'
  BY <1>1 DEF RowsInv, ShownAfterSave, ActiveAlertIsShown, Shown, OwnerSteps
<1>5. CancelInSteps' /\ CancelIsFinal'
  BY <1>1 DEF RowsInv, CancelInSteps, CancelIsFinal, OwnerSteps
<1> QED BY <1>2, <1>3, <1>4, <1>5 DEF RowsInv

\* A step that only flags alerts, all stale or cancelled, and leaves the workers
\* where they are, keeps what is said of rows.
LEMMA Flags ==
  ASSUME RowsInv,
         UNCHANGED <<pk, lastPk, source, infos, now, ingestVars>>,
         expired \subseteq expired',
         \A u \in expired' : u \in expired \/ Stale(u) \/ Doc[u].cancel \/ Cancelled(u)
  PROVE  RowsInv'
<1>1. /\ \A u : Stale(u)' = Stale(u)
      /\ \A u : Cancelled(u)' = Cancelled(u)
      /\ \A c : CancelDone(c) => CancelDone(c)'
  BY DEF Stale, StaleRow, Cancelled, CancelDone, Alerts
<1>2. KeysFromSequence'
  BY DEF RowsInv, KeysFromSequence, ingestVars
<1>3. RowsOwned'
  BY DEF RowsInv, RowsOwned, OwnsRow, ingestVars, workerVars
<1>4. ShownAfterSave' /\ ActiveAlertIsShown'
  BY <1>1 DEF RowsInv, ShownAfterSave, ActiveAlertIsShown, Shown, ingestVars, workerVars
<1>5. CancelInSteps' /\ CancelIsFinal'
  BY <1>1 DEF RowsInv, CancelInSteps, CancelIsFinal, ingestVars, workerVars
<1> QED BY <1>2, <1>3, <1>4, <1>5 DEF RowsInv

\* Nothing becomes active as time passes.
LEMMA StaleStays ==
  ASSUME StoreTypeOK, Tick, NEW u \in Url, Stale(u)
  PROVE  Stale(u)'
<1>1. \A r \in infos[u] : r.expires \in Nat
  BY DEF StoreTypeOK, InfoRow
<1> QED BY <1>1 DEF Tick, Stale, StaleRow, StoreTypeOK

LEMMA TickRows ==
  ASSUME TypeOK, RowsInv, Tick, UNCHANGED ingestVars
  PROVE  RowsInv'
<1>1. /\ \A u \in Url : Stale(u) => Stale(u)'
      /\ \A u : Cancelled(u)' = Cancelled(u)
      /\ \A c : CancelDone(c)' = CancelDone(c)
  BY StaleStays DEF TypeOK, Tick, Cancelled, CancelDone, Alerts
<1>2. KeysFromSequence'
  BY DEF RowsInv, KeysFromSequence, Tick, ingestVars
<1>3. RowsOwned'
  BY DEF RowsInv, RowsOwned, OwnsRow, Tick, ingestVars, workerVars
<1>4. ShownAfterSave' /\ ActiveAlertIsShown'
  BY <1>1 DEF RowsInv, ShownAfterSave, ActiveAlertIsShown, Shown, Tick, ingestVars,
              workerVars, TypeOK, IngestTypeOK, OwnerSteps
<1>5. CancelInSteps' /\ CancelIsFinal'
  BY <1>1 DEF RowsInv, CancelInSteps, CancelIsFinal, Tick, ingestVars, workerVars
<1> QED BY <1>2, <1>3, <1>4, <1>5 DEF RowsInv

\* The row a worker fills, and what tells it from the other rows.
LEMMA Owned ==
  ASSUME TypeOK, LockHeld, RowsInv, NEW w \in Worker, pc[w] \in OwnerSteps
  PROVE  /\ entry[w] \in Alerts /\ entry[w] \notin ingested
         /\ source[entry[w]] = feedOf[w]
         /\ \A v \in Url : source[v] = source[entry[w]] => pk[v] <= pk[entry[w]]
         /\ \A v \in Worker \ {w} : pc[v] \in OwnerSteps => entry[v] # entry[w]
<1>1. OwnsRow(w) /\ OneIngester
  BY OneIngesterFollows DEF RowsInv, RowsOwned
<1>2. entry[w] \in Url
  BY DEF TypeOK, IngestTypeOK
<1> QED BY <1>1, <1>2 DEF OwnsRow, OneIngester, Alerts

--------------------------------------------------------------------------------
(***************************************************************************)
(* The steps of process_alert, one lemma each.                             *)
(***************************************************************************)

\* The new row has the highest key, so no finished Cancel is obliged to it.
LEMMA CreateRows ==
  ASSUME TypeOK, LockHeld, RowsInv, NEW w \in Worker, CreateAlert(w)
  PROVE  RowsInv'
<1> DEFINE u == entry[w]
<1> USE DEF TypeOK, StoreTypeOK, IngestTypeOK
<1>1. /\ u \in Url /\ pk[u] = 0 /\ pk' = [pk EXCEPT ![u] = lastPk + 1]
      /\ lastPk' = lastPk + 1 /\ source' = [source EXCEPT ![u] = feedOf[w]]
      /\ expired' = expired \ {u} /\ infos' = infos /\ now' = now
      /\ ingested' = ingested /\ feedOf' = feedOf /\ entry' = entry
      /\ pc' = [pc EXCEPT ![w] = "infos"]
      /\ accepted' = [accepted EXCEPT ![w] = {}] /\ pc[w] = "fetch"
  BY DEF CreateAlert, UrlIsNew
<1>2. /\ u \notin ingested /\ infos[u] = {}
      /\ \A v \in Url : pk[v] <= lastPk
      /\ \A v \in ingested : pk[v] # 0
  BY <1>1 DEF RowsInv, KeysFromSequence
<1>3. \A v \in Worker \ {w} : pc[v] \in OwnerSteps =>
        /\ entry[v] \in Alerts /\ entry[v] # u /\ feedOf[v] # feedOf[w]
  <2> TAKE v \in Worker \ {w}
  <2> HAVE pc[v] \in OwnerSteps
  <2>1. entry[v] \in Alerts
    BY Owned
  <2>2. feedOf[v] # feedOf[w]
    BY <1>1, OnePoll DEF OwnerSteps
  <2> QED BY <1>1, <2>1, <2>2 DEF Alerts
<1>4. /\ \A v : Stale(v)' = Stale(v)
      /\ \A v : Cancelled(v) => Cancelled(v)'
  BY <1>1 DEF Stale, StaleRow, Cancelled, Alerts
<1>5. ASSUME NEW c \in Alerts, CancelDone(c) PROVE CancelDone(c)'
  <2>1. c # u /\ c \in expired' /\ pk'[c] = pk[c] /\ source'[c] = source[c]
    BY <1>1, <1>5 DEF Alerts, CancelDone
  <2>2. ASSUME NEW v \in Alerts' \cap Doc[c].refs, source'[v] = source'[c], pk'[v] < pk'[c]
        PROVE v \in expired'
    <3>1. v # u
      BY <1>1, <1>2, <2>1, <2>2 DEF Alerts
    <3>2. v \in Alerts /\ pk'[v] = pk[v] /\ source'[v] = source[v]
      BY <1>1, <2>2, <3>1 DEF Alerts
    <3> QED BY <1>1, <1>5, <2>1, <2>2, <3>1, <3>2 DEF CancelDone
  <2> QED BY <2>1, <2>2 DEF CancelDone
<1>6. KeysFromSequence'
  BY <1>1, <1>2 DEF RowsInv, KeysFromSequence
<1>7. RowsOwned'
  <2>1. OwnsRow(w)'
    BY <1>1, <1>2 DEF OwnsRow
  <2>2. ASSUME NEW v \in Worker \ {w}, pc[v] \in OwnerSteps PROVE OwnsRow(v)'
    <3>1. OwnsRow(v) /\ entry[v] # u /\ feedOf[v] # feedOf[w] /\ entry[v] \in Url
      BY <2>2, <1>3 DEF RowsInv, RowsOwned, Alerts
    <3> QED BY <1>1, <3>1 DEF OwnsRow
  <2> QED BY <1>1, <2>1, <2>2 DEF RowsOwned
<1>8. ShownAfterSave' /\ ActiveAlertIsShown'
  BY <1>1, <1>4 DEF RowsInv, ShownAfterSave, ActiveAlertIsShown, Shown
<1>9. CancelInSteps' /\ CancelIsFinal'
  <2>1. \A v \in Worker : pc'[v] \in {"references", "record"} =>
          v # w /\ pc'[v] = pc[v] /\ entry[v] # u /\ entry[v] \in Alerts
    BY <1>1, <1>3 DEF OwnerSteps
  <2>2. ingested \subseteq Alerts
    BY <1>2 DEF Alerts
  <2> QED BY <1>1, <1>5, <2>1, <2>2 DEF RowsInv, CancelInSteps, CancelIsFinal
<1> QED BY <1>6, <1>7, <1>8, <1>9 DEF RowsInv

\* A new info can make its alert active, but not an alert that is ingested or
\* has reached the save.
LEMMA InfoRows ==
  ASSUME TypeOK, LockHeld, RowsInv, NEW w \in Worker, AddInfo(w)
  PROVE  RowsInv'
<1> DEFINE u == entry[w]
<1> USE DEF TypeOK, StoreTypeOK, IngestTypeOK
<1>1. /\ pc[w] = "infos" /\ pc' = pc /\ entry' = entry /\ feedOf' = feedOf
      /\ UNCHANGED <<pk, lastPk, source, expired, now, ingested>>
  BY DEF AddInfo
<1>2. /\ \A v \in Url \ {u} : infos'[v] = infos[v]
      /\ \A v \in Worker \ {w} : accepted'[v] = accepted[v]
      /\ accepted'[w] = {} => infos'[u] = infos[u] /\ accepted[w] = {}
  BY <1>1 DEF AddInfo
<1>3. /\ u \in Alerts /\ u \notin ingested
      /\ \A v \in Worker \ {w} : pc[v] \in OwnerSteps => entry[v] # u
  BY <1>1, Owned DEF OwnerSteps
<1>4. /\ \A v \in Url \ {u} : Stale(v)' = Stale(v)
      /\ \A v : Cancelled(v)' = Cancelled(v)
      /\ \A c : CancelDone(c)' = CancelDone(c)
  BY <1>1, <1>2 DEF Stale, StaleRow, Cancelled, CancelDone, Alerts
<1>5. KeysFromSequence'
  BY <1>1, <1>2, <1>3 DEF RowsInv, KeysFromSequence, Alerts
<1>6. RowsOwned'
  <2>1. ASSUME NEW v \in Worker, pc'[v] \in OwnerSteps PROVE OwnsRow(v)'
    <3>1. OwnsRow(v) /\ entry[v] \in Url /\ (v # w => entry[v] # u)
      BY <1>1, <1>3, <2>1 DEF RowsInv, RowsOwned
    <3> QED BY <1>1, <1>2, <3>1 DEF OwnsRow
  <2> QED BY <2>1 DEF RowsOwned
<1>7. ShownAfterSave' /\ ActiveAlertIsShown'
  BY <1>1, <1>3, <1>4 DEF RowsInv, ShownAfterSave, ActiveAlertIsShown, Shown, OwnerSteps
<1>8. CancelInSteps' /\ CancelIsFinal'
  BY <1>1, <1>4 DEF RowsInv, CancelInSteps, CancelIsFinal
<1> QED BY <1>5, <1>6, <1>7, <1>8 DEF RowsInv

\* An alert that goes straight to the second mgr.done() has no infos.
LEMMA FinishRows ==
  ASSUME TypeOK, LockHeld, RowsInv, NEW w \in Worker, FinishInfos(w)
  PROVE  RowsInv'
<1> USE DEF TypeOK, StoreTypeOK, IngestTypeOK
<1>1. /\ pc[w] = "infos" /\ entry' = entry /\ feedOf' = feedOf /\ accepted' = accepted
      /\ pc' = [pc EXCEPT ![w] = IF accepted[w] = {} THEN "flush" ELSE "save"]
      /\ UNCHANGED <<pk, lastPk, source, expired, infos, now, ingested>>
  BY DEF FinishInfos
<1>2. /\ \A v : Stale(v)' = Stale(v)
      /\ \A v : Cancelled(v)' = Cancelled(v)
      /\ \A c : CancelDone(c)' = CancelDone(c)
  BY <1>1 DEF Stale, StaleRow, Cancelled, CancelDone, Alerts
<1>3. accepted[w] = {} => Stale(entry[w])
  BY <1>1 DEF RowsInv, RowsOwned, OwnsRow, OwnerSteps, Stale
<1>4. KeysFromSequence'
  BY <1>1 DEF RowsInv, KeysFromSequence
<1>5. RowsOwned'
  BY <1>1 DEF RowsInv, RowsOwned, OwnsRow, OwnerSteps
<1>6. ShownAfterSave' /\ ActiveAlertIsShown'
  BY <1>1, <1>2, <1>3 DEF RowsInv, ShownAfterSave, ActiveAlertIsShown, Shown
<1>7. CancelInSteps' /\ CancelIsFinal'
  BY <1>1, <1>2 DEF RowsInv, CancelInSteps, CancelIsFinal
<1> QED BY <1>4, <1>5, <1>6, <1>7 DEF RowsInv

\* The save clears the flag of the newest row of the feed: no Cancel that is done
\* is older than a row it refers to.
LEMMA SaveRows ==
  ASSUME TypeOK, LockHeld, RowsInv, NEW w \in Worker, SaveAlert(w)
  PROVE  RowsInv'
<1> DEFINE u == entry[w]
<1> USE DEF TypeOK, StoreTypeOK, IngestTypeOK
<1>1. /\ pc[w] = "save" /\ entry' = entry /\ feedOf' = feedOf /\ accepted' = accepted
      /\ pc' = [pc EXCEPT ![w] = "flush"] /\ expired' = expired \ {u}
      /\ UNCHANGED <<pk, lastPk, source, infos, now, ingested>>
  BY DEF SaveAlert, SavedFlag
<1>2. /\ u \in Alerts /\ u \notin ingested
      /\ \A v \in Url : source[v] = source[u] => pk[v] <= pk[u]
      /\ \A v \in Worker \ {w} : pc[v] \in OwnerSteps => entry[v] # u
  BY <1>1, Owned DEF OwnerSteps
<1>3. /\ \A v : Stale(v)' = Stale(v)
      /\ \A v : Cancelled(v)' = Cancelled(v)
  BY <1>1 DEF Stale, StaleRow, Cancelled, Alerts
<1>4. ASSUME NEW c \in Url \ {u}, CancelDone(c) PROVE CancelDone(c)'
  <2>1. ASSUME NEW v \in Alerts \cap Doc[c].refs, source[v] = source[c], pk[v] < pk[c]
        PROVE  v # u
    <3>1. pk[v] \in Nat /\ pk[c] \in Nat
      BY DEF Alerts
    <3>2. v = u => pk[c] <= pk[v]
      BY <1>2, <2>1
    <3> QED BY <2>1, <3>1, <3>2
  <2> QED BY <1>1, <1>4, <2>1 DEF CancelDone, Alerts
<1>5. KeysFromSequence'
  BY <1>1 DEF RowsInv, KeysFromSequence
<1>6. RowsOwned'
  BY <1>1 DEF RowsInv, RowsOwned, OwnsRow, OwnerSteps
<1>7. ShownAfterSave' /\ ActiveAlertIsShown'
  BY <1>1, <1>3 DEF RowsInv, ShownAfterSave, ActiveAlertIsShown, Shown
<1>8. CancelInSteps' /\ CancelIsFinal'
  BY <1>1, <1>2, <1>4 DEF RowsInv, CancelInSteps, CancelIsFinal, OwnerSteps
<1> QED BY <1>5, <1>6, <1>7, <1>8 DEF RowsInv

LEMMA FlushRows ==
  ASSUME TypeOK, RowsInv, NEW w \in Worker, FlushFallback(w)
  PROVE  RowsInv'
<1> USE DEF TypeOK, StoreTypeOK, IngestTypeOK
<1>1. /\ pc[w] = "flush" /\ entry' = entry /\ feedOf' = feedOf /\ accepted' = accepted
      /\ pc' = [pc EXCEPT ![w] = "related"]
      /\ UNCHANGED <<pk, lastPk, source, expired, infos, now, ingested>>
  BY DEF FlushFallback
<1>2. /\ \A v : Stale(v)' = Stale(v)
      /\ \A v : Cancelled(v)' = Cancelled(v)
      /\ \A c : CancelDone(c)' = CancelDone(c)
  BY <1>1 DEF Stale, StaleRow, Cancelled, CancelDone, Alerts
<1>3. KeysFromSequence'
  BY <1>1 DEF RowsInv, KeysFromSequence
<1>4. RowsOwned'
  BY <1>1 DEF RowsInv, RowsOwned, OwnsRow, OwnerSteps
<1>5. ShownAfterSave' /\ ActiveAlertIsShown'
  BY <1>1, <1>2 DEF RowsInv, ShownAfterSave, ActiveAlertIsShown, Shown
<1>6. CancelInSteps' /\ CancelIsFinal'
  BY <1>1, <1>2 DEF RowsInv, CancelInSteps, CancelIsFinal
<1> QED BY <1>3, <1>4, <1>5, <1>6 DEF RowsInv

\* The two writes of a Cancel flag only a Cancel, then what it cancels.
LEMMA CancelRows ==
  ASSUME TypeOK, LockHeld, RowsInv, NEW w \in Worker, ExpireSelf(w) \/ ExpireReferences(w)
  PROVE  RowsInv'
<1> DEFINE u == entry[w]
<1> USE DEF TypeOK, StoreTypeOK, IngestTypeOK
<1>1. /\ pc[w] \in {"related", "references"} /\ expired \subseteq expired'
      /\ entry' = entry /\ feedOf' = feedOf /\ accepted' = accepted
      /\ \A v \in Worker \ {w} : pc'[v] = pc[v]
      /\ pc'[w] \in {"references", "record"}
      /\ UNCHANGED <<pk, lastPk, source, infos, now, ingested>>
  BY DEF ExpireSelf, ExpireReferences
<1>2. u \in Alerts /\ source[u] = feedOf[w]
  BY <1>1, Owned DEF OwnerSteps
<1>3. \A v \in expired' : v \in expired \/ Doc[v].cancel \/ Cancelled(v)
  <2>1. CASE ExpireSelf(w)
    BY <2>1 DEF ExpireSelf
  <2>2. CASE ExpireReferences(w)
    <3>1. Doc[u].cancel
      BY <2>2 DEF RowsInv, CancelInSteps, ExpireReferences
    <3> QED BY <1>2, <2>2, <3>1 DEF ExpireReferences, Referenced, Cancelled
  <2> QED BY <2>1, <2>2
<1>4. /\ \A v : Stale(v)' = Stale(v)
      /\ \A v : Cancelled(v)' = Cancelled(v)
      /\ \A c : CancelDone(c) => CancelDone(c)'
  BY <1>1 DEF Stale, StaleRow, Cancelled, CancelDone, Alerts
<1>5. KeysFromSequence'
  BY <1>1 DEF RowsInv, KeysFromSequence
<1>6. RowsOwned'
  BY <1>1 DEF RowsInv, RowsOwned, OwnsRow, OwnerSteps
<1>7. ShownAfterSave' /\ ActiveAlertIsShown'
  <2>1. \A v \in Worker : pc'[v] \in {"flush", "related", "references", "record"} =>
          pc[v] \in {"flush", "related", "references", "record"}
    BY <1>1
  <2> QED BY <1>1, <1>3, <1>4, <2>1 DEF RowsInv, ShownAfterSave, ActiveAlertIsShown, Shown
<1>8. CancelIsFinal'
  BY <1>1, <1>4 DEF RowsInv, CancelIsFinal
<1>9. CancelInSteps'
  <2>1. CASE ExpireSelf(w)
    BY <1>1, <1>4, <2>1 DEF ExpireSelf, RowsInv, CancelInSteps
  <2>2. CASE ExpireReferences(w)
    <3>1. CancelDone(u)'
      <4>1. u \in expired /\ expired' = expired \cup Referenced(feedOf[w], Doc[u].refs)
        BY <2>2 DEF RowsInv, CancelInSteps, ExpireReferences
      <4> QED BY <1>1, <1>2, <4>1 DEF CancelDone, Referenced, Alerts
    <3> QED BY <1>1, <1>4, <2>2, <3>1 DEF ExpireReferences, RowsInv, CancelInSteps
  <2> QED BY <2>1, <2>2
<1> QED BY <1>5, <1>6, <1>7, <1>8, <1>9 DEF RowsInv

\* process_alert has done all there is to do for the alert that becomes ingested.
LEMMA RecordRows ==
  ASSUME TypeOK, LockHeld, RowsInv, NEW w \in Worker, RecordProcessed(w)
  PROVE  RowsInv'
<1> DEFINE u == entry[w]
<1> USE DEF TypeOK, StoreTypeOK, IngestTypeOK
<1>1. /\ pc[w] = "record" /\ pc' = [pc EXCEPT ![w] = "entry"] /\ feedOf' = feedOf
      /\ ingested' = ingested \cup {u}
      /\ UNCHANGED <<pk, lastPk, source, expired, infos, now>>
  BY DEF RecordProcessed
<1>2. \A v \in Worker : pc'[v] \in OwnerSteps =>
        v # w /\ pc'[v] = pc[v] /\ entry'[v] = entry[v] /\ accepted'[v] = accepted[v]
  BY <1>1 DEF RecordProcessed, LeaveEntry, OwnerSteps
<1>3. /\ u \in Alerts
      /\ \A v \in Worker \ {w} : pc[v] \in OwnerSteps => entry[v] # u
  BY <1>1, Owned DEF OwnerSteps
<1>4. /\ \A v : Stale(v)' = Stale(v)
      /\ \A v : Cancelled(v)' = Cancelled(v)
      /\ \A c : CancelDone(c)' = CancelDone(c)
  BY <1>1 DEF Stale, StaleRow, Cancelled, CancelDone, Alerts
<1>5. KeysFromSequence'
  BY <1>1, <1>3 DEF RowsInv, KeysFromSequence, Alerts
<1>6. RowsOwned'
  BY <1>1, <1>2, <1>3 DEF RowsInv, RowsOwned, OwnsRow
<1>7. ShownAfterSave'
  BY <1>1, <1>2, <1>4 DEF RowsInv, ShownAfterSave, Shown, OwnerSteps
<1>8. ActiveAlertIsShown'
  BY <1>1, <1>4 DEF RowsInv, ShownAfterSave, ActiveAlertIsShown, Shown
<1>9. CancelInSteps' /\ CancelIsFinal'
  BY <1>1, <1>2, <1>4 DEF RowsInv, CancelInSteps, CancelIsFinal, OwnerSteps
<1> QED BY <1>5, <1>6, <1>7, <1>8, <1>9 DEF RowsInv

--------------------------------------------------------------------------------
LEMMA RowsStep ==
  ASSUME TypeOK, LockHeld, RowsInv, [Next]_vars
  PROVE  RowsInv'
<1> USE DEF TypeOK, StoreTypeOK, IngestTypeOK
<1>1. ASSUME NEW w \in Worker, NEW f \in Feed, StartPoll(w, f) PROVE RowsInv'
  <2>1. \A v \in Worker : pc'[v] \in OwnerSteps => v # w /\ feedOf'[v] = feedOf[v]
    BY <1>1 DEF StartPoll, OwnerSteps
  <2> QED BY <1>1, <2>1, Quiet DEF StartPoll, storeVars
<1>2. ASSUME NEW w \in Worker, WorkerStep(w) PROVE RowsInv'
  <2>1. CASE CheckEntry(w)
    <3>1. pc'[w] \notin OwnerSteps /\ OthersUnchanged(w)
      BY <1>2, <2>1, OthersFrame DEF CheckEntry, OwnerSteps
    <3> QED BY <2>1, <3>1, Quiet DEF CheckEntry, OthersUnchanged, storeVars
  <2>2. CASE RejectEntry(w)
    <3>1. pc'[w] \notin OwnerSteps /\ OthersUnchanged(w)
      BY <1>2, <2>2, OthersFrame DEF RejectEntry, OwnerSteps
    <3> QED BY <2>2, <3>1, Quiet DEF RejectEntry, OthersUnchanged, storeVars
  <2>3. CASE EndPoll(w)
    <3>1. pc'[w] \notin OwnerSteps /\ OthersUnchanged(w)
      BY <1>2, <2>3, OthersFrame DEF EndPoll, OwnerSteps
    <3> QED BY <2>3, <3>1, Quiet DEF EndPoll, OthersUnchanged, storeVars
  <2> QED BY <1>2, <2>1, <2>2, <2>3, CreateRows, InfoRows, FinishRows, SaveRows,
             FlushRows, CancelRows, RecordRows DEF WorkerStep
<1>3. ASSUME NEW w \in Worker, FailEntry(w) PROVE RowsInv'
  <2>1. \A v \in Worker : pc'[v] \in OwnerSteps =>
          v # w /\ entry'[v] = entry[v] /\ accepted'[v] = accepted[v]
    BY <1>3 DEF FailEntry, LeaveEntry, OwnerSteps
  <2> QED BY <1>3, <2>1, Quiet DEF FailEntry, storeVars
<1>4. ASSUME NEW w \in Worker, KillWorker(w) PROVE RowsInv'
  <2>1. \A v \in Worker : pc'[v] \in OwnerSteps =>
          v # w /\ entry'[v] = entry[v] /\ accepted'[v] = accepted[v] /\ feedOf'[v] = feedOf[v]
    BY <1>4 DEF KillWorker, LeaveEntry, OwnerSteps
  <2> QED BY <1>4, <2>1, Quiet DEF KillWorker, storeVars
<1>5. ASSUME NEW f \in Feed, LockExpires(f) PROVE RowsInv'
  BY <1>5, Quiet DEF LockExpires, storeVars, workerVars
<1>6. ASSUME ExpiryNext, UNCHANGED ingestVars PROVE RowsInv'
  <2>1. CASE TagExpiredAlerts
    BY <1>6, <2>1, Flags DEF TagExpiredAlerts, ExpiredAlerts
  <2>2. CASE RemoveExpiredAlertRecords
    BY <1>6, <2>2, Quiet DEF RemoveExpiredAlertRecords, ingestVars, workerVars
  <2> QED BY <1>6, <2>1, <2>2 DEF ExpiryNext
<1>7. ASSUME Tick, UNCHANGED ingestVars PROVE RowsInv'
  BY <1>7, TickRows
<1>8. CASE UNCHANGED vars
  BY <1>8, Quiet DEF vars, storeVars, ingestVars, workerVars
<1> QED BY <1>1, <1>2, <1>3, <1>4, <1>5, <1>6, <1>7, <1>8 DEF Next, IngestNext

LEMMA LifecycleInitial == Init => LifecycleInv
BY DEF Init, StoreInit, IngestInit, LifecycleInv, LockHeld, KeysFromSequence, RowsOwned,
       OneIngester, ShownAfterSave, ActiveAlertIsShown, CancelInSteps, CancelIsFinal,
       OwnerSteps

LEMMA LifecycleStep == TypeOK /\ LifecycleInv /\ [Next]_vars => LifecycleInv'
<1> SUFFICES ASSUME TypeOK, LifecycleInv, [Next]_vars PROVE LifecycleInv'
  OBVIOUS
<1>1. LockHeld'
  BY LockStep DEF LifecycleInv
<1>2. RowsInv'
  BY RowsStep DEF LifecycleInv, RowsInv
<1>3. (LockHeld /\ RowsOwned => OneIngester)'
  BY OneIngesterFollows, PTL
<1> QED BY <1>1, <1>2, <1>3 DEF LifecycleInv, RowsInv

\* The inductive invariant holds of every behaviour.
THEOREM Lifecycle == Spec => []LifecycleInv
BY LifecycleInitial, LifecycleStep, TypeCorrect, PTL DEF Spec

--------------------------------------------------------------------------------
\* However many feeds list a url and however many workers poll them, one worker
\* at a time fills its row (the unique url of Alert, the existence test of the
\* readers and the lock of poll_feed).
THEOREM OneWorkerPerAlert == Spec => []OneIngester
<1>1. LifecycleInv => OneIngester
  BY DEF LifecycleInv
<1> QED BY <1>1, Lifecycle, PTL

\* tag_expired_alerts never leaves an active alert flagged once process_alert
\* has returned, whenever it ran meanwhile.
THEOREM NoActiveAlertHidden == Spec => []ActiveAlertIsShown
<1>1. LifecycleInv => ActiveAlertIsShown
  BY DEF LifecycleInv
<1> QED BY <1>1, Lifecycle, PTL

\* What process_related_alerts has expired stays expired.
THEOREM CancelsAreFinal == Spec => []CancelIsFinal
<1>1. LifecycleInv => CancelIsFinal
  BY DEF LifecycleInv
<1> QED BY <1>1, Lifecycle, PTL

\* The only writes that clear the flag are those of an alert's own ingestion.
LEMMA UnexpiredByOwner ==
  ASSUME TypeOK, LockHeld, RowsInv, [Next]_vars, NEW u \in ingested, u \in expired
  PROVE  u \in expired'
<1> USE DEF TypeOK, StoreTypeOK, IngestTypeOK
<1>1. ASSUME NEW w \in Worker, WorkerStep(w) PROVE u \in expired'
  <2>1. CASE CreateAlert(w)
    BY <2>1 DEF CreateAlert, UrlIsNew, RowsInv, KeysFromSequence
  <2>2. CASE SaveAlert(w)
    <3>1. pc[w] \in OwnerSteps
      BY <2>2 DEF SaveAlert, OwnerSteps
    <3>2. entry[w] # u
      BY <3>1, Owned
    <3> QED BY <2>2, <3>2 DEF SaveAlert, SavedFlag
  <2> QED BY <1>1, <2>1, <2>2 DEF WorkerStep, CheckEntry, RejectEntry, AddInfo,
             FinishInfos, FlushFallback, ExpireSelf, ExpireReferences,
             RecordProcessed, EndPoll, storeVars
<1>2. CASE ExpiryNext
  BY <1>2 DEF ExpiryNext, TagExpiredAlerts, RemoveExpiredAlertRecords
<1>3. CASE Tick
  BY <1>3 DEF Tick
<1> QED BY <1>1, <1>2, <1>3 DEF Next, IngestNext, StartPoll, FailEntry, KillWorker,
           LockExpires, vars, storeVars

\* Clients never see an ingested alert that has expired come back.
THEOREM ExpiryIsFinal == Spec => NeverUnexpired
<1>1. TypeOK /\ LifecycleInv /\ [Next]_vars =>
        [\A u \in ingested \cap expired : u \in expired']_vars
  BY UnexpiredByOwner DEF LifecycleInv, RowsInv
<1> QED BY <1>1, Lifecycle, TypeCorrect, PTL DEF Spec, NeverUnexpired

--------------------------------------------------------------------------------
\* A poll that ends, in order or by a crash, leaves the body of its feed's lock
\* and no other.
LEMMA PollLeaves ==
  ASSUME TypeOK, LockHeld, NEW w \in Worker, NEW f \in Feed,
         pc[w] # "idle", pc' = [pc EXCEPT ![w] = "idle"],
         feedOf' = [feedOf EXCEPT ![w] = NoFeed],
         feedLock'[feedOf[w]] \in {feedLock[feedOf[w]], NoWorker},
         \A g \in Feed \ {feedOf[w]} : feedLock'[g] = feedLock[g]
  PROVE  [PollLock(f)!Next]_(PollLock(f)!vars)
<1> USE DEF TypeOK, IngestTypeOK
<1>1. PollsOf(f)' = PollsOf(f) \ {w}
  BY IngestAssumption, StoreAssumption DEF PollsOf
<1>2. CASE feedOf[w] = f
  <2>1. w \in PollsOf(f)
    BY <1>2 DEF PollsOf
  <2> QED BY <1>1, <1>2, <2>1 DEF PollLock!Next, PollLock!Leave
<1>3. CASE feedOf[w] # f
  <2>1. PollsOf(f)' = PollsOf(f) /\ feedLock'[f] = feedLock[f]
    BY <1>1, <1>3 DEF PollsOf
  <2> QED BY <2>1 DEF PollLock!vars
<1> QED BY <1>2, <1>3

\* Every step is a step of the lock of each feed, or none.
LEMMA PollLockStep ==
  ASSUME TypeOK, LockHeld, [Next]_vars, NEW f \in Feed
  PROVE  [PollLock(f)!Next]_(PollLock(f)!vars)
<1> USE IngestAssumption DEF TypeOK, IngestTypeOK
<1> DEFINE Goal == [PollLock(f)!Next]_(PollLock(f)!vars)
<1>1. ASSUME PollsOf(f)' = PollsOf(f), feedLock'[f] = feedLock[f]
      PROVE  Goal
  BY <1>1 DEF PollLock!vars
<1>2. ASSUME NEW w \in Worker, NEW g \in Feed, StartPoll(w, g) PROVE Goal
  <2>1. CASE g = f
    <3>1. PollsOf(f)' = PollsOf(f) \cup {w}
      BY <1>2, <2>1 DEF StartPoll, PollsOf
    <3>2. PollLock(f)!Take(w)
      BY <1>2, <2>1, <3>1 DEF StartPoll, LockFree, PollLock!Take
    <3> QED BY <3>2 DEF PollLock!Next
  <2>2. CASE g # f
    <3>1. PollsOf(f)' = PollsOf(f) /\ feedLock'[f] = feedLock[f]
      BY <1>2, <2>2 DEF StartPoll, PollsOf
    <3> QED BY <1>1, <3>1
  <2> QED BY <2>1, <2>2
<1>3. ASSUME NEW w \in Worker, WorkerStep(w) PROVE Goal
  <2>1. CASE EndPoll(w)
    <3>1. pc[w] # "idle"
      BY <2>1 DEF EndPoll
    <3> QED BY <2>1, <3>1, PollLeaves DEF EndPoll
  <2>2. CASE feedOf' = feedOf /\ feedLock' = feedLock /\ pc[w] # "idle" /\ ~EndPoll(w)
    <3>1. pc'[w] # "idle"
      BY <1>3, <2>2 DEF WorkerStep, CheckEntry, RejectEntry, CreateAlert, AddInfo,
            FinishInfos, SaveAlert, FlushFallback, ExpireSelf, ExpireReferences,
            RecordProcessed
    <3>2. PollsOf(f)' = PollsOf(f)
      BY <1>3, <2>2, <3>1, OthersFrame DEF OthersUnchanged, PollsOf
    <3> QED BY <1>1, <2>2, <3>2
  <2> QED BY <1>3, <2>1, <2>2, PollKept
<1>4. ASSUME NEW w \in Worker, FailEntry(w) PROVE Goal
  <2>1. PollsOf(f)' = PollsOf(f)
    BY <1>4 DEF FailEntry, PollsOf, OwnerSteps
  <2> QED BY <1>1, <1>4, <2>1 DEF FailEntry
<1>5. ASSUME NEW w \in Worker, KillWorker(w) PROVE Goal
  BY <1>5, PollLeaves DEF KillWorker
<1>6. ASSUME NEW g \in Feed, LockExpires(g) PROVE Goal
  <2>1. PollsOf(f)' = PollsOf(f)
    BY <1>6 DEF LockExpires, workerVars, PollsOf
  <2>2. CASE g = f
    BY <1>6, <2>1, <2>2
       DEF LockExpires, Orphaned, PollsOf, PollLock!Next, PollLock!Expire
  <2>3. CASE g # f
    BY <1>1, <1>6, <2>1, <2>3 DEF LockExpires
  <2> QED BY <2>2, <2>3
<1>7. ASSUME UNCHANGED ingestVars PROVE Goal
  BY <1>1, <1>7 DEF ingestVars, workerVars, PollsOf
<1>8. CASE UNCHANGED vars
  BY <1>7, <1>8 DEF vars
<1> QED BY <1>2, <1>3, <1>4, <1>5, <1>6, <1>7, <1>8 DEF Next, IngestNext

\* The polls of every feed have the lock that TaskLock promises and redis_lock
\* gives them (apps/cap_feed/tasks.py:22), whatever entries fail and workers die.
THEOREM PollsLocked == Spec => PollsAreLocked
<1>1. Init => \A f \in Feed : PollLock(f)!Init
  BY DEF Init, IngestInit, PollLock!Init, PollsOf
<1>2. TypeOK /\ LifecycleInv /\ [Next]_vars =>
        [\A f \in Feed : [PollLock(f)!Next]_(PollLock(f)!vars)]_vars
  BY PollLockStep DEF LifecycleInv
<1> QED BY <1>1, <1>2, Lifecycle, TypeCorrect, PTL DEF Spec, PollsAreLocked

--------------------------------------------------------------------------------
(***************************************************************************)
(* Where the divisions of an alert are.  While process_alert fills the row *)
(* they are spread over the table and the queue of the worker's manager;   *)
(* nobody else writes them, so once the queue has been flushed for the     *)
(* second time the table holds them all.                                   *)
(***************************************************************************)

\* Fallback is the rest of the order of preference: with the polygons it gives
\* the divisions an alert with infos is located in.
LEMMA LocatedByFallback ==
  ASSUME NEW u, Stored(u) # {}
  PROVE  LocatedIn(u) = Polygons(Stored(u)) \cup Fallback(Stored(u))
<1> DEFINE I == Stored(u)
           first == <<Polygons(I), Circles(I), Geocodes(I), UnknownAdmin1>>
           usable == {k \in DOMAIN first : first[k] # {}}
<1>1. DOMAIN first = 1..4
  OBVIOUS
<1>2. LocatedIn(u) = IF usable = {} THEN {}
                     ELSE first[CHOOSE k \in usable : \A j \in usable : k <= j]
  BY DEF LocatedIn
<1>3. ASSUME NEW k \in 1..4, first[k] # {}, \A j \in 1..4 : j < k => first[j] = {}
      PROVE  LocatedIn(u) = first[k]
  <2>1. k \in usable /\ \A j \in usable : k <= j
    BY <1>1, <1>3
  <2>2. \A m \in usable : (\A j \in usable : m <= j) => m = k
    BY <1>1, <2>1
  <2> HIDE DEF usable
  <2>3. (CHOOSE m \in usable : \A j \in usable : m <= j) = k
    BY <2>1, <2>2
  <2>4. usable # {}
    BY <2>1
  <2> QED BY <1>2, <2>3, <2>4
<1>4. (\A k \in 1..4 : first[k] = {}) => LocatedIn(u) = {}
  BY <1>1, <1>2
<1>5. /\ first[1] = Polygons(I) /\ first[2] = Circles(I)
      /\ first[3] = Geocodes(I) /\ first[4] = UnknownAdmin1
  OBVIOUS
<1> HIDE DEF first
<1>6. CASE first[1] # {}
  BY <1>3, <1>5, <1>6 DEF Fallback
<1>7. CASE first[1] = {} /\ first[2] # {}
  BY <1>3, <1>5, <1>7 DEF Fallback
<1>8. CASE first[1] = {} /\ first[2] = {} /\ first[3] # {}
  BY <1>3, <1>5, <1>8 DEF Fallback
<1>9. CASE first[1] = {} /\ first[2] = {} /\ first[3] = {} /\ first[4] # {}
  BY <1>3, <1>5, <1>9 DEF Fallback
<1>10. CASE \A k \in 1..4 : first[k] = {}
  BY <1>4, <1>5, <1>10 DEF Fallback
<1> QED BY <1>6, <1>7, <1>8, <1>9, <1>10

\* Where an alert is located depends on its infos alone.
LEMMA LocatedFrame ==
  ASSUME NEW x, infos'[x] = infos[x]
  PROVE  Stored(x)' = Stored(x) /\ LocatedIn(x)' = LocatedIn(x)
<1>1. Stored(x)' = Stored(x)
  BY DEF Stored
<1> QED BY <1>1 DEF LocatedIn

LEMMA FillingKept ==
  ASSUME NEW v \in Worker, Filling(v),
         pc'[v] = pc[v], entry'[v] = entry[v], accepted'[v] = accepted[v],
         queue'[v] = queue[v],
         infos'[entry[v]] = infos[entry[v]], admin1s'[entry[v]] = admin1s[entry[v]]
  PROVE  Filling(v)'
<1>1. Stored(entry[v])' = Stored(entry[v]) /\ LocatedIn(entry[v])' = LocatedIn(entry[v])
  BY LocatedFrame
<1> QED BY <1>1 DEF Filling

\* A step that leaves the rows of alerts alone, and puts no worker on a row or
\* further on one, keeps what is said of divisions.
LEMMA LocatedQuiet ==
  ASSUME LocatedInv,
         UNCHANGED <<pk, infos, admin1s, ingested>>,
         \A v \in Worker : pc'[v] \in OwnerSteps =>
           /\ pc[v] = pc'[v] /\ entry'[v] = entry[v]
           /\ accepted'[v] = accepted[v] /\ queue'[v] = queue[v]
  PROVE  LocatedInv'
<1>1. \A v \in Worker : pc'[v] \in OwnerSteps => Filling(v)'
  BY FillingKept DEF LocatedInv
<1>2. IngestedIsLocated'
  BY LocatedFrame DEF LocatedInv, IngestedIsLocated
<1> QED BY <1>1, <1>2 DEF LocatedInv

\* A step of a worker that fills a row writes no other row's infos or divisions.
LEMMA OwnRowOnly ==
  ASSUME TypeOK, NEW w \in Worker, WorkerStep(w), NEW x \in Url,
         x # entry[w] \/ pc[w] \notin OwnerSteps
  PROVE  infos'[x] = infos[x] /\ admin1s'[x] = admin1s[x]
<1> USE DEF TypeOK, StoreTypeOK, IngestTypeOK
<1>1. CASE AddInfo(w)
  BY <1>1 DEF AddInfo, InsertAdmin1s, OwnerSteps
<1>2. CASE FinishInfos(w) \/ FlushFallback(w)
  BY <1>2 DEF FinishInfos, FlushFallback, InsertAdmin1s, OwnerSteps
<1> QED BY <1>1, <1>2 DEF WorkerStep, CheckEntry, RejectEntry, CreateAlert, SaveAlert,
           ExpireSelf, ExpireReferences, RecordProcessed, EndPoll, storeVars

LEMMA FillingStep ==
  ASSUME TypeOK, LockHeld, RowsInv, LocatedInv,
         NEW w \in Worker, WorkerStep(w), pc'[w] \in OwnerSteps
  PROVE  Filling(w)'
<1> DEFINE u == entry[w]
<1> USE DEF TypeOK, StoreTypeOK, IngestTypeOK
<1>1. CASE CreateAlert(w)
  <2>1. /\ u \in Url /\ infos'[u] = {} /\ admin1s'[u] = {} /\ queue'[w] = {}
        /\ accepted'[w] = {} /\ entry'[w] = u /\ pc'[w] = "infos"
    BY <1>1 DEF CreateAlert, UrlIsNew, LocatedInv, RowsInv, KeysFromSequence
  <2> QED BY <2>1 DEF Filling, Stored, Polygons
<1>2. CASE AddInfo(w)
  <2>1. /\ pc[w] = "infos" /\ pc' = pc /\ entry' = entry /\ u \in Url
        /\ Stored(u) = accepted[w] /\ admin1s[u] \cup queue[w] = Polygons(accepted[w])
    BY <1>2 DEF AddInfo, LocatedInv, Filling, OwnerSteps
  <2>2. PICK i \in infosLeft[w] :
          IF Outdated(i)
          THEN UNCHANGED <<infos, admin1s, accepted, queue>>
          ELSE LET waiting == queue[w] \cup (i.polygon \ Polygons(accepted[w])) IN
               /\ infos' = [infos EXCEPT ![u] =
                              @ \cup {[info |-> i, expires |-> InfoExpiry(i)]}]
               /\ accepted' = [accepted EXCEPT ![w] = @ \cup {i}]
               /\ \E C \in Flushes(waiting) :
                    /\ InsertAdmin1s(u, C)
                    /\ queue' = [queue EXCEPT ![w] = waiting \ C]
    BY <1>2 DEF AddInfo
  <2>3. CASE Outdated(i)
    BY <2>1, <2>2, <2>3, FillingKept DEF LocatedInv, OwnerSteps
  <2>4. CASE ~Outdated(i)
    <3> DEFINE waiting == queue[w] \cup (i.polygon \ Polygons(accepted[w]))
    <3>1. PICK C \in Flushes(waiting) :
            InsertAdmin1s(u, C) /\ queue' = [queue EXCEPT ![w] = waiting \ C]
      BY <2>2, <2>4
    <3>2. /\ infos'[u] = infos[u] \cup {[info |-> i, expires |-> InfoExpiry(i)]}
          /\ accepted'[w] = accepted[w] \cup {i}
      BY <2>1, <2>2, <2>4
    <3>3. Stored(u)' = Stored(u) \cup {i}
      <4> DEFINE row == [info |-> i, expires |-> InfoExpiry(i)]
      <4>1. Stored(u) = {r.info : r \in infos[u]} /\ Stored(u)' = {r.info : r \in infos'[u]}
        BY <2>1 DEF Stored
      <4>2. row.info = i /\ infos'[u] = infos[u] \cup {row}
        BY <3>2
      <4> HIDE DEF row
      <4>3. {r.info : r \in infos[u] \cup {row}} = {r.info : r \in infos[u]} \cup {row.info}
        OBVIOUS
      <4> QED BY <4>1, <4>2, <4>3
    <3>4. Polygons(accepted'[w]) = Polygons(accepted[w]) \cup i.polygon
      BY <3>2 DEF Polygons
    <3>5. admin1s'[u] \cup queue'[w] = admin1s[u] \cup waiting
      BY <2>1, <3>1 DEF InsertAdmin1s, Flushes
    <3>6. admin1s[u] \cup waiting = Polygons(accepted[w]) \cup i.polygon
      BY <2>1
    <3> QED BY <2>1, <3>2, <3>3, <3>4, <3>5, <3>6 DEF Filling, Stored
  <2> QED BY <2>3, <2>4
<1>3. CASE FinishInfos(w)
  <2> DEFINE located == IF accepted[w] = {} THEN {} ELSE Fallback(accepted[w])
  <2>1. /\ entry' = entry /\ infos' = infos /\ accepted' = accepted /\ u \in Url
        /\ pc'[w] \in {"save", "flush"}
        /\ Stored(u) = accepted[w] /\ admin1s[u] \cup queue[w] = Polygons(accepted[w])
    BY <1>3 DEF FinishInfos, LocatedInv, Filling, OwnerSteps
  <2>2. PICK C \in Flushes(located) :
          /\ InsertAdmin1s(u, queue[w] \cup C)
          /\ queue' = [queue EXCEPT ![w] = located \ C]
    BY <1>3 DEF FinishInfos
  <2>3. admin1s'[u] \cup queue'[w] = admin1s[u] \cup queue[w] \cup located
    BY <2>1, <2>2 DEF InsertAdmin1s, Flushes
  <2>4. LocatedIn(u) = Polygons(accepted[w]) \cup located
    <3>1. CASE accepted[w] = {}
      BY <2>1, <3>1 DEF LocatedIn, Polygons
    <3>2. CASE accepted[w] # {}
      BY <2>1, <3>2, LocatedByFallback
    <3> QED BY <3>1, <3>2
  <2>5. LocatedIn(u)' = LocatedIn(u) /\ Stored(u)' = Stored(u)
    BY <2>1, LocatedFrame
  <2> QED BY <2>1, <2>3, <2>4, <2>5 DEF Filling
<1>4. CASE FlushFallback(w)
  <2>1. /\ pc[w] = "flush" /\ pc'[w] = "related" /\ u \in Url
        /\ entry' = entry /\ infos' = infos /\ accepted' = accepted
        /\ Stored(u) = accepted[w] /\ admin1s[u] \cup queue[w] = LocatedIn(u)
        /\ admin1s'[u] = admin1s[u] \cup queue[w]
    BY <1>4 DEF FlushFallback, InsertAdmin1s, LocatedInv, Filling, OwnerSteps
  <2>2. LocatedIn(u)' = LocatedIn(u) /\ Stored(u)' = Stored(u)
    BY <2>1, LocatedFrame
  <2> QED BY <2>1, <2>2 DEF Filling
<1>5. CASE SaveAlert(w) \/ ExpireSelf(w) \/ ExpireReferences(w)
  <2>1. /\ entry' = entry /\ UNCHANGED <<infos, admin1s, accepted, queue>>
        /\ \/ pc[w] = "save" /\ pc'[w] = "flush"
           \/ pc[w] \in {"related", "references"} /\ pc'[w] \in {"references", "record"}
    BY <1>5 DEF SaveAlert, ExpireSelf, ExpireReferences
  <2>2. Filling(w)
    BY <2>1 DEF LocatedInv, OwnerSteps
  <2>3. LocatedIn(u)' = LocatedIn(u) /\ Stored(u)' = Stored(u)
    BY <2>1, LocatedFrame
  <2> QED BY <2>1, <2>2, <2>3 DEF Filling
<1> QED BY <1>1, <1>2, <1>3, <1>4, <1>5 DEF WorkerStep, CheckEntry, RejectEntry,
           RecordProcessed, EndPoll, OwnerSteps

LEMMA LocatedWorkerStep ==
  ASSUME TypeOK, LockHeld, RowsInv, LocatedInv, NEW w \in Worker, WorkerStep(w)
  PROVE  LocatedInv'
<1> USE DEF TypeOK, StoreTypeOK, IngestTypeOK
<1>1. ASSUME NEW x \in Url, pk'[x] = 0 PROVE admin1s'[x] = {}
  <2>1. pk[x] = 0
    BY <1>1 DEF WorkerStep, CheckEntry, RejectEntry, CreateAlert, AddInfo, FinishInfos,
                SaveAlert, FlushFallback, ExpireSelf, ExpireReferences, RecordProcessed,
                EndPoll, storeVars
  <2>2. x # entry[w] \/ pc[w] \notin OwnerSteps
    BY <2>1, Owned DEF Alerts
  <2> QED BY <2>1, <2>2, OwnRowOnly DEF LocatedInv
<1>2. ASSUME NEW v \in Worker, pc'[v] \in OwnerSteps PROVE Filling(v)'
  <2>1. CASE v = w
    BY <1>2, <2>1, FillingStep
  <2>2. CASE v # w
    <3>1. /\ pc'[v] = pc[v] /\ entry'[v] = entry[v] /\ accepted'[v] = accepted[v]
          /\ queue'[v] = queue[v] /\ entry[v] \in Url
      BY <1>2, <2>2, OthersFrame DEF OthersUnchanged
    <3>2. entry[v] # entry[w] \/ pc[w] \notin OwnerSteps
      BY <1>2, <2>2, <3>1, Owned
    <3>3. infos'[entry[v]] = infos[entry[v]] /\ admin1s'[entry[v]] = admin1s[entry[v]]
      BY <3>1, <3>2, OwnRowOnly
    <3> QED BY <1>2, <3>1, <3>3, FillingKept DEF LocatedInv
  <2> QED BY <2>1, <2>2
<1>3. IngestedIsLocated'
  <2> SUFFICES ASSUME NEW x \in ingested' PROVE admin1s'[x] = LocatedIn(x)'
    BY DEF IngestedIsLocated
  <2>1. CASE x \in ingested
    <3>1. x \in Url /\ (x # entry[w] \/ pc[w] \notin OwnerSteps)
      BY <2>1, Owned
    <3>2. infos'[x] = infos[x] /\ admin1s'[x] = admin1s[x]
      BY <3>1, OwnRowOnly
    <3> QED BY <2>1, <3>2, LocatedFrame DEF LocatedInv, IngestedIsLocated
  <2>2. CASE x \notin ingested
    <3>1. /\ pc[w] = "record" /\ x = entry[w] /\ infos' = infos /\ admin1s' = admin1s
      BY <2>2 DEF WorkerStep, CheckEntry, RejectEntry, CreateAlert, AddInfo, FinishInfos,
                  SaveAlert, FlushFallback, ExpireSelf, ExpireReferences,
                  RecordProcessed, EndPoll
    <3> QED BY <3>1, LocatedFrame DEF LocatedInv, Filling, OwnerSteps
  <2> QED BY <2>1, <2>2
<1> QED BY <1>1, <1>2, <1>3 DEF LocatedInv

LEMMA LocatedInitial == Init => LocatedInv
BY DEF Init, StoreInit, IngestInit, LocatedInv, IngestedIsLocated, OwnerSteps

LEMMA LocatedStep ==
  TypeOK /\ LifecycleInv /\ LocatedInv /\ [Next]_vars => LocatedInv'
<1> SUFFICES ASSUME TypeOK, LockHeld, RowsInv, LocatedInv, [Next]_vars
             PROVE  LocatedInv'
  BY DEF LifecycleInv, RowsInv
<1> USE DEF TypeOK, StoreTypeOK, IngestTypeOK
<1>1. ASSUME NEW w \in Worker, NEW f \in Feed, StartPoll(w, f) PROVE LocatedInv'
  <2>1. \A v \in Worker : pc'[v] \in OwnerSteps => pc[v] = pc'[v]
    BY <1>1 DEF StartPoll, OwnerSteps
  <2> QED BY <1>1, <2>1, LocatedQuiet DEF StartPoll, storeVars
<1>2. ASSUME NEW w \in Worker, WorkerStep(w) PROVE LocatedInv'
  BY <1>2, LocatedWorkerStep
<1>3. ASSUME NEW w \in Worker, FailEntry(w) \/ KillWorker(w) PROVE LocatedInv'
  <2>1. \A v \in Worker : pc'[v] \in OwnerSteps =>
          /\ v # w /\ pc[v] = pc'[v] /\ entry'[v] = entry[v]
          /\ accepted'[v] = accepted[v] /\ queue'[v] = queue[v]
    BY <1>3 DEF FailEntry, KillWorker, LeaveEntry, OwnerSteps
  <2> QED BY <1>3, <2>1, LocatedQuiet DEF FailEntry, KillWorker, storeVars
<1>4. ASSUME NEW f \in Feed, LockExpires(f) PROVE LocatedInv'
  BY <1>4, LocatedQuiet DEF LockExpires, storeVars, workerVars
<1>5. ASSUME ExpiryNext \/ Tick, UNCHANGED ingestVars PROVE LocatedInv'
  BY <1>5, LocatedQuiet DEF ExpiryNext, TagExpiredAlerts, RemoveExpiredAlertRecords, Tick,
                            ingestVars, workerVars
<1>6. CASE UNCHANGED vars
  BY <1>6, LocatedQuiet DEF vars, storeVars, ingestVars, workerVars
<1> QED BY <1>1, <1>2, <1>3, <1>4, <1>5, <1>6 DEF Next, IngestNext

\* The divisions of an ingested alert are those its stored infos are located in:
\* process_alert loses none in the queue of its manager and adds no fallback to
\* a polygon, whatever runs beside it, fails before it or died on the way.
THEOREM DivisionsComplete == Spec => []IngestedIsLocated
<1>1. LocatedInv => IngestedIsLocated
  BY DEF LocatedInv
<1> QED BY <1>1, LocatedInitial, LocatedStep, Lifecycle, TypeCorrect, PTL DEF Spec

================================================================================
