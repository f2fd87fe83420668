-------------------------- MODULE AlertPipeline_proofs --------------------------
(***************************************************************************)
(* Proofs about AlertPipeline: what AlertLifecycle_proofs shows of         *)
(* ingestion and expiry holds with tagging running beside them, no         *)
(* subscription ever gets a row for an alert it does not ask for, and how  *)
(* often it gets one is bounded.                                           *)
(***************************************************************************)
EXTENDS AlertPipeline, AlertLifecycle_proofs, SubscriptionTagging_proofs

LEMMA PipelineStep ==
  ASSUME [PipelineNext]_pipelineVars
  PROVE  \/ [Next]_vars /\ UNCHANGED taggingVars
         \/ TaggingNext /\ UNCHANGED ingestVars
BY DEF PipelineNext, pipelineVars, vars

--------------------------------------------------------------------------------
\* The rows of an alert only grow, and its feed is settled when it is created.
LEMMA RowsGrow ==
  ASSUME TypeOK, [Next]_vars, NEW u \in Alerts
  PROVE  /\ u \in Alerts' /\ source'[u] = source[u]
         /\ infos[u] \subseteq infos'[u] /\ admin1s[u] \subseteq admin1s'[u]
<1> USE DEF TypeOK, StoreTypeOK, IngestTypeOK, Alerts
<1>1. ASSUME NEW w \in Worker, CreateAlert(w)
      PROVE  pk'[u] = pk[u] /\ source'[u] = source[u] /\ infos' = infos /\ admin1s' = admin1s
  BY <1>1 DEF CreateAlert, UrlIsNew
<1>2. ASSUME NEW w \in Worker, AddInfo(w) PROVE
        pk' = pk /\ source' = source /\ infos[u] \subseteq infos'[u] /\ admin1s[u] \subseteq admin1s'[u]
  BY <1>2 DEF AddInfo, InsertAdmin1s
<1>3. ASSUME NEW w \in Worker, FinishInfos(w) \/ FlushFallback(w) PROVE
        pk' = pk /\ source' = source /\ infos' = infos /\ admin1s[u] \subseteq admin1s'[u]
  BY <1>3 DEF FinishInfos, FlushFallback, InsertAdmin1s
<1> QED BY <1>1, <1>2, <1>3 DEF Next, IngestNext, StartPoll, WorkerStep, CheckEntry,
           RejectEntry, SaveAlert, ExpireSelf, ExpireReferences, RecordProcessed, EndPoll,
           FailEntry, KillWorker, LockExpires, ExpiryNext, TagExpiredAlerts,
           RemoveExpiredAlertRecords, Tick, vars, storeVars

LEMMA PipelineTypeInitial == PipelineInit => PipelineTypeOK
<1> SUFFICES ASSUME PipelineInit PROVE TaggingTypeOK
  BY TypeInitial DEF PipelineInit, PipelineTypeOK
<1> QED BY DEF PipelineInit, TaggingInit, TaggingTypeOK, Snapshot, NoSnapshot

LEMMA PipelineTypeStep == PipelineTypeOK /\ [PipelineNext]_pipelineVars => PipelineTypeOK'
<1> SUFFICES ASSUME TypeOK, TaggingTypeOK, [PipelineNext]_pipelineVars
             PROVE  TypeOK' /\ TaggingTypeOK'
  BY DEF PipelineTypeOK
<1>1. CASE [Next]_vars /\ UNCHANGED taggingVars
  <2>1. TypeOK'
    BY <1>1, TypeStep
  <2>2. Alerts \subseteq Alerts'
    BY <1>1, RowsGrow
  <2> QED BY <1>1, <2>1, <2>2 DEF TaggingTypeOK, taggingVars, taggerVars
<1>2. CASE TaggingNext /\ UNCHANGED ingestVars
  <2>1. TaggingTypeOK' /\ StoreTypeOK'
    BY <1>2, TaggingTypeStep DEF TypeOK
  <2>2. TypeOK'
    BY <1>2, <2>1 DEF TypeOK, IngestTypeOK, ingestVars, workerVars
  <2> QED BY <2>1, <2>2
<1> QED BY <1>1, <1>2, PipelineStep

THEOREM PipelineTypeCorrect == PipelineSpec => []PipelineTypeOK
BY PipelineTypeInitial, PipelineTypeStep, PTL DEF PipelineSpec

--------------------------------------------------------------------------------
(***************************************************************************)
(* The properties of AlertLifecycle survive tagging, which reads and       *)
(* writes nothing they speak of.                                           *)
(***************************************************************************)
LEMMA LifecycleBesideTagging ==
  PipelineTypeOK /\ LifecycleInv /\ [PipelineNext]_pipelineVars => LifecycleInv'
<1> SUFFICES ASSUME TypeOK, LifecycleInv, [PipelineNext]_pipelineVars
             PROVE  LifecycleInv'
  BY DEF PipelineTypeOK
<1>1. CASE [Next]_vars
  BY <1>1, LifecycleStep
<1>2. CASE TaggingNext /\ UNCHANGED ingestVars
  <2>1. RowsInv'
    BY <1>2, Quiet, TaggingFrame DEF LifecycleInv, RowsInv, ingestVars, workerVars
  <2>2. LockHeld' /\ OneIngester'
    BY <1>2 DEF LifecycleInv, LockHeld, OneIngester, ingestVars, workerVars
  <2> QED BY <2>1, <2>2 DEF LifecycleInv, RowsInv
<1> QED BY <1>1, <1>2, PipelineStep

LEMMA LocatedBesideTagging ==
  PipelineTypeOK /\ LifecycleInv /\ LocatedInv /\ [PipelineNext]_pipelineVars => LocatedInv'
<1>1. TaggingNext /\ UNCHANGED ingestVars /\ LocatedInv => LocatedInv'
  BY LocatedQuiet, TaggingFrame DEF ingestVars, workerVars
<1> QED BY <1>1, PipelineStep, LocatedStep DEF PipelineTypeOK

\* Ingestion keeps its invariants in the whole pipeline: one worker per row, no
\* active alert hidden, cancelled alerts expired for good, no division lost.
THEOREM PipelineKeepsLifecycle ==
  PipelineSpec =>
    [](OneIngester /\ ActiveAlertIsShown /\ CancelIsFinal /\ IngestedIsLocated)
<1>1. PipelineInit => LifecycleInv /\ LocatedInv
  BY LifecycleInitial, LocatedInitial DEF PipelineInit
<1>2. LifecycleInv => OneIngester /\ ActiveAlertIsShown /\ CancelIsFinal
  BY DEF LifecycleInv
<1>3. LocatedInv => IngestedIsLocated
  BY DEF LocatedInv
<1> QED BY <1>1, <1>2, <1>3, LifecycleBesideTagging, LocatedBesideTagging,
           PipelineTypeCorrect, PTL DEF PipelineSpec

--------------------------------------------------------------------------------
LEMMA WantedInitial == PipelineInit => WantedInv
BY DEF PipelineInit, TaggingInit, WantedInv, TaggedOrRead, NoSnapshot

LEMMA WantedStep == PipelineTypeOK /\ WantedInv /\ [PipelineNext]_pipelineVars => WantedInv'
<1> SUFFICES ASSUME TypeOK, TaggingTypeOK, WantedInv, [PipelineNext]_pipelineVars
             PROVE  WantedInv'
  BY DEF PipelineTypeOK
<1>1. CASE [Next]_vars /\ UNCHANGED taggingVars
  <2> SUFFICES ASSUME NEW p \in Pair, TaggedOrRead(p)'
               PROVE  p[2] \in Alerts' /\ Wants(p[1], p[2])'
    BY DEF WantedInv
  <2>1. p[2] \in Alerts /\ Wants(p[1], p[2])
    BY <1>1 DEF WantedInv, TaggedOrRead, taggingVars, taggerVars
  <2> QED BY <1>1, <2>1, RowsGrow, WantsGrows
<1>2. CASE TaggingNext /\ UNCHANGED ingestVars
  BY <1>2, WantedByTagging
<1> QED BY <1>1, <1>2, PipelineStep

\* No subscription ever has a SubscriptionAlert row for an alert outside its
\* filters, although alerts are tagged while they are being written.
THEOREM OnlyWantedIsTagged == PipelineSpec => []TaggedIsWanted
<1>1. WantedInv => TaggedIsWanted
  BY DEF WantedInv, TaggedOrRead, TaggedIsWanted
<1> QED BY <1>1, WantedInitial, WantedStep, PipelineTypeCorrect, PTL DEF PipelineSpec

--------------------------------------------------------------------------------
(***************************************************************************)
(* How often an alert is tagged, when the key of the tagging lock outlives *)
(* every run.  A commit adds a row and sets the flag; the flag of an alert *)
(* is cleared when it is created, and once more by its save.               *)
(***************************************************************************)
LEMMA FlagOfUrl ==
  ASSUME TypeOK, LockHeld, RowsInv, [Next]_vars, NEW u \in Url
  PROVE  \/ (u \in processed' <=> u \in processed) /\ (Unsaved(u)' => Unsaved(u))
         \/ u \notin Alerts /\ u \notin processed'
         \/ Unsaved(u) /\ ~Unsaved(u)' /\ u \notin processed'
<1> USE DEF TypeOK, StoreTypeOK, IngestTypeOK
<1>1. ASSUME NEW w \in Worker, WorkerStep(w)
      PROVE  \/ (u \in processed' <=> u \in processed) /\ (Unsaved(u)' => Unsaved(u))
             \/ u \notin Alerts /\ u \notin processed'
             \/ Unsaved(u) /\ ~Unsaved(u)' /\ u \notin processed'
  <2>1. \A v \in Worker \ {w} : pc'[v] = pc[v] /\ entry'[v] = entry[v]
    BY <1>1, OthersFrame DEF OthersUnchanged
  <2>2. CASE CreateAlert(w)
    <3>1. /\ pk[entry[w]] = 0 /\ processed' = processed \ {entry[w]} /\ entry' = entry
      BY <2>2 DEF CreateAlert, UrlIsNew
    <3>2. CASE u = entry[w]
      BY <3>1, <3>2 DEF Alerts
    <3>3. CASE u # entry[w]
      BY <2>1, <3>1, <3>3 DEF Unsaved
    <3> QED BY <3>2, <3>3
  <2>3. CASE SaveAlert(w)
    <3>1. /\ pc[w] = "save" /\ pc'[w] = "flush" /\ processed' = processed \ {entry[w]}
          /\ entry' = entry
      BY <2>3 DEF SaveAlert, SavedFlag
    <3>2. \A v \in Worker \ {w} : pc[v] \in OwnerSteps => entry[v] # entry[w]
      BY <3>1, Owned DEF OwnerSteps
    <3>3. CASE u = entry[w]
      BY <2>1, <3>1, <3>2, <3>3 DEF Unsaved, OwnerSteps
    <3>4. CASE u # entry[w]
      BY <2>1, <3>1, <3>4 DEF Unsaved
    <3> QED BY <3>3, <3>4
  <2>4. CASE FinishInfos(w)
    BY <2>1, <2>4 DEF FinishInfos, Unsaved
  <2>5. CASE AddInfo(w)
    BY <2>5 DEF AddInfo, Unsaved
  <2>6. CASE CheckEntry(w) \/ RejectEntry(w) \/ EndPoll(w) \/ RecordProcessed(w)
    <3>1. processed' = processed /\ pc'[w] \notin {"infos", "save"}
      BY <2>6 DEF CheckEntry, RejectEntry, EndPoll, RecordProcessed, storeVars
    <3> QED BY <2>1, <3>1 DEF Unsaved
  <2>7. CASE FlushFallback(w) \/ ExpireSelf(w) \/ ExpireReferences(w)
    <3>1. processed' = processed /\ pc'[w] \notin {"infos", "save"}
      BY <2>7 DEF FlushFallback, ExpireSelf, ExpireReferences
    <3> QED BY <2>1, <3>1 DEF Unsaved
  <2> QED BY <1>1, <2>2, <2>3, <2>4, <2>5, <2>6, <2>7 DEF WorkerStep
<1>2. ASSUME NEW w \in Worker, NEW f \in Feed, StartPoll(w, f)
      PROVE  (u \in processed' <=> u \in processed) /\ (Unsaved(u)' => Unsaved(u))
  BY <1>2 DEF StartPoll, Unsaved, storeVars
<1>3. ASSUME NEW w \in Worker, FailEntry(w) \/ KillWorker(w)
      PROVE  (u \in processed' <=> u \in processed) /\ (Unsaved(u)' => Unsaved(u))
  BY <1>3 DEF FailEntry, KillWorker, LeaveEntry, Unsaved, storeVars
<1>4. ASSUME NEW f \in Feed, LockExpires(f)
      PROVE  (u \in processed' <=> u \in processed) /\ (Unsaved(u)' => Unsaved(u))
  BY <1>4 DEF LockExpires, Unsaved, storeVars, workerVars
<1>5. ASSUME ExpiryNext \/ Tick, UNCHANGED ingestVars
      PROVE  (u \in processed' <=> u \in processed) /\ (Unsaved(u)' => Unsaved(u))
  BY <1>5 DEF ExpiryNext, TagExpiredAlerts, RemoveExpiredAlertRecords, Tick, Unsaved,
              ingestVars, workerVars
<1>6. CASE UNCHANGED vars
  BY <1>6 DEF vars, Unsaved, storeVars, ingestVars, workerVars
<1> QED BY <1>1, <1>2, <1>3, <1>4, <1>5, <1>6 DEF Next, IngestNext

\* Ingestion only clears flags, and adds no rows.
LEMMA BoundBesideIngest ==
  ASSUME PipelineTypeOK, LifecycleInv, WantedInv, TaggedInv,
         [Next]_vars, UNCHANGED taggingVars
  PROVE  TaggedInv'
<1> USE DEF PipelineTypeOK, TaggingTypeOK, TypeOK, StoreTypeOK
<1>1. LockHeld /\ RowsInv
  BY DEF LifecycleInv, RowsInv
<1>2. OneTagger'
  BY DEF TaggedInv, OneTagger, taggingVars, taggerVars
<1>3. PendingUnflagged'
  <2>1. ASSUME NEW t \in Tagger, NEW u \in snapshot'[t].pending PROVE u \notin processed'
    <3>1. u \in snapshot[t].pending
      BY <2>1 DEF taggingVars, taggerVars
    <3>2. u \in Alerts /\ u \in Url /\ u \notin processed
      BY <3>1 DEF TaggedInv, PendingUnflagged, Alerts
    <3> QED BY <1>1, <3>2, FlagOfUrl
  <2> QED BY <2>1 DEF PendingUnflagged
<1>4. ASSUME NEW p \in Pair PROVE RowBound(p)'
  <2>1. /\ subAlerts'[p] = subAlerts[p] /\ subAlerts[p] \in Nat /\ p[2] \in Url
        /\ RowBound(p)
    BY DEF TaggedInv, taggingVars, taggerVars, Pair
  <2>2. CASE (p[2] \in processed' <=> p[2] \in processed) /\ (Unsaved(p[2])' => Unsaved(p[2]))
    BY <2>1, <2>2 DEF RowBound
  <2>3. CASE p[2] \notin Alerts /\ p[2] \notin processed'
    <3>1. subAlerts[p] = 0
      BY <2>1, <2>3 DEF WantedInv, TaggedOrRead
    <3> QED BY <2>1, <3>1 DEF RowBound
  <2>4. CASE Unsaved(p[2]) /\ ~Unsaved(p[2])' /\ p[2] \notin processed'
    BY <2>1, <2>4 DEF RowBound
  <2> QED BY <1>1, <2>1, <2>2, <2>3, <2>4, FlagOfUrl
<1> QED BY <1>2, <1>3, <1>4 DEF TaggedInv

\* Every row a commit adds comes with the flag, which was not set.
LEMMA BoundOfTagging ==
  ASSUME ~LockOutlived, PipelineTypeOK, TaggedInv, TaggingNext, UNCHANGED ingestVars
  PROVE  TaggedInv'
<1> USE DEF PipelineTypeOK, TaggingTypeOK, TypeOK, StoreTypeOK
<1>1. \A u : Unsaved(u)' = Unsaved(u)
  BY DEF Unsaved, ingestVars, workerVars
<1>2. OneTagger' /\ PendingUnflagged'
  BY OneTaggerStep DEF TaggedInv
<1>3. ASSUME NEW t \in Tagger, CommitTags(t), NEW p \in Pair PROVE RowBound(p)'
  <2>1. RowBound(p) /\ subAlerts[p] \in Nat
    BY DEF TaggedInv
  <2>2. CASE p \in snapshot[t].rows
    <3>1. p[2] \in snapshot[t].pending /\ p[2] \notin processed
      BY <2>2 DEF TaggedInv, PendingUnflagged
    <3>2. p[2] \in processed' /\ subAlerts'[p] = subAlerts[p] + 1
      BY <1>3, <2>2, <3>1 DEF CommitTags, Flagged
    <3> QED BY <1>1, <2>1, <3>1, <3>2 DEF RowBound
  <2>3. CASE p \notin snapshot[t].rows
    <3>1. (p[2] \in processed => p[2] \in processed') /\ subAlerts'[p] = subAlerts[p]
      BY <1>3, <2>3 DEF CommitTags
    <3> QED BY <1>1, <2>1, <3>1 DEF RowBound
  <2> QED BY <2>2, <2>3
<1>4. ASSUME UNCHANGED <<subAlerts, processed>>, NEW p \in Pair PROVE RowBound(p)'
  BY <1>1, <1>4 DEF TaggedInv, RowBound
<1>5. \A p \in Pair : RowBound(p)'
  BY <1>3, <1>4 DEF TaggingNext, TaggerNext, ReadPending, FailTagging, TagLockExpires,
     SwitchSubscription, taggerVars, storeVars
<1> QED BY <1>2, <1>5 DEF TaggedInv

LEMMA TaggedInitial == PipelineInit => TaggedInv
BY DEF PipelineInit, TaggingInit, Init, StoreInit, TaggedInv, OneTagger,
       PendingUnflagged, RowBound, NoSnapshot, Pair

LEMMA TaggedStep ==
  ASSUME ~LockOutlived
  PROVE  PipelineTypeOK /\ LifecycleInv /\ WantedInv /\ TaggedInv
           /\ [PipelineNext]_pipelineVars => TaggedInv'
BY BoundBesideIngest, BoundOfTagging, PipelineStep

LEMMA PipelineInvariants ==
  ASSUME ~LockOutlived
  PROVE  PipelineSpec => [](PipelineTypeOK /\ TaggedInv)
<1>1. PipelineInit => LifecycleInv
  BY LifecycleInitial DEF PipelineInit
<1> QED BY <1>1, LifecycleBesideTagging, WantedInitial, WantedStep, TaggedInitial,
           TaggedStep, PipelineTypeCorrect, PTL DEF PipelineSpec

\* While no run of the task outlives its lock, no subscription gets a third row
\* for an alert: one for what was read before the save of process_alert that
\* clears the flag, one for what was read after it.
THEOREM TwoRowsAtMost ==
  ASSUME ~LockOutlived
  PROVE  PipelineSpec => []TaggedAtMostTwice
<1>1. PipelineTypeOK /\ TaggedInv => TaggedAtMostTwice
  <2> SUFFICES ASSUME PipelineTypeOK, TaggedInv, NEW p \in Pair PROVE subAlerts[p] <= 2
    BY DEF TaggedAtMostTwice
  <2>1. subAlerts[p] \in Nat /\ RowBound(p)
    BY DEF PipelineTypeOK, TaggingTypeOK, TaggedInv
  <2> QED BY <2>1 DEF RowBound
<1> QED BY <1>1, PipelineInvariants, PTL

\* Under the same condition an ingested alert that the task has dealt with gets
\* no more rows.
THEOREM DealtWithForGood ==
  ASSUME ~LockOutlived
  PROVE  PipelineSpec => NoRetagAfterIngest
<1>1. ASSUME PipelineTypeOK, TaggedInv, [PipelineNext]_pipelineVars,
             NEW p \in Pair, p[2] \in processed
      PROVE  subAlerts'[p] = subAlerts[p]
  <2> USE DEF PipelineTypeOK, TaggingTypeOK
  <2>1. ASSUME NEW t \in Tagger, CommitTags(t) PROVE subAlerts'[p] = subAlerts[p]
    <3>1. p \notin snapshot[t].rows
      BY <1>1 DEF TaggedInv, PendingUnflagged
    <3> QED BY <2>1, <3>1 DEF CommitTags
  <2> QED BY <1>1, <2>1, PipelineStep DEF TaggingNext, TaggerNext, ReadPending, FailTagging,
             TagLockExpires, SwitchSubscription, taggingVars, taggerVars
<1>2. PipelineTypeOK /\ TaggedInv /\ [PipelineNext]_pipelineVars =>
        [\A p \in Pair : p[2] \in ingested \cap processed =>
           subAlerts'[p] = subAlerts[p]]_pipelineVars
  BY <1>1
<1> QED BY <1>2, PipelineInvariants, PTL DEF PipelineSpec, NoRetagAfterIngest

--------------------------------------------------------------------------------
(***************************************************************************)
(* An alert that has been ingested is written by nobody any more but for   *)
(* its expired flag, so it is only what was read before that can be        *)
(* tagged twice or missed.                                                 *)
(***************************************************************************)
LEMMA IngestedUntouched ==
  ASSUME TypeOK, LockHeld, RowsInv, [Next]_vars, NEW u \in ingested
  PROVE  /\ source'[u] = source[u] /\ infos'[u] = infos[u] /\ admin1s'[u] = admin1s[u]
         /\ u \in ingested' /\ (u \in processed' <=> u \in processed)
<1> USE DEF TypeOK, StoreTypeOK, IngestTypeOK
<1>1. u \in Url /\ pk[u] # 0
  BY DEF RowsInv, KeysFromSequence
<1>2. \A w \in Worker : pc[w] \in OwnerSteps => entry[w] # u
  BY Owned
<1>3. u \in processed' <=> u \in processed
  BY <1>1, <1>2, FlagOfUrl DEF Alerts, Unsaved, OwnerSteps
<1>4. ASSUME NEW w \in Worker, CreateAlert(w)
      PROVE  UNCHANGED <<source[u], infos[u], admin1s[u]>> /\ ingested' = ingested
  BY <1>1, <1>4 DEF CreateAlert, UrlIsNew
<1>5. ASSUME NEW w \in Worker, AddInfo(w) \/ FinishInfos(w) \/ FlushFallback(w)
      PROVE  UNCHANGED <<source[u], infos[u], admin1s[u]>> /\ ingested' = ingested
  <2>1. pc[w] \in OwnerSteps /\ entry[w] # u
    BY <1>2, <1>5 DEF AddInfo, FinishInfos, FlushFallback, OwnerSteps
  <2> QED BY <1>1, <1>5, <2>1 DEF AddInfo, FinishInfos, FlushFallback, InsertAdmin1s
<1>6. UNCHANGED <<source[u], infos[u], admin1s[u]>> /\ u \in ingested'
  BY <1>4, <1>5 DEF Next, IngestNext, StartPoll, WorkerStep, CheckEntry, RejectEntry,
     SaveAlert, ExpireSelf, ExpireReferences, RecordProcessed, EndPoll, FailEntry,
     KillWorker, LockExpires, ExpiryNext, TagExpiredAlerts, RemoveExpiredAlertRecords, Tick,
     vars, storeVars, ingestVars
<1> QED BY <1>3, <1>6

LEMMA TaggingAdds ==
  ASSUME TaggingNext
  PROVE  processed \subseteq processed'
BY DEF TaggingNext, TaggerNext, ReadPending, CommitTags, FailTagging, TagLockExpires,
       SwitchSubscription, storeVars

\* Once an ingested alert has been dealt with it stays so: the save that clears
\* the flag (cap_xml.py:351) comes before, and no row is created twice.
THEOREM ProcessedStays == PipelineSpec => ProcessedForGood
<1>1. PipelineInit => LifecycleInv
  BY LifecycleInitial DEF PipelineInit
<1>2. PipelineTypeOK /\ LifecycleInv /\ [PipelineNext]_pipelineVars =>
        [\A u \in ingested \cap processed : u \in processed']_pipelineVars
  BY PipelineStep, IngestedUntouched, TaggingAdds
     DEF PipelineTypeOK, LifecycleInv, RowsInv
<1> QED BY <1>1, <1>2, LifecycleBesideTagging, PipelineTypeCorrect, PTL
        DEF PipelineSpec, ProcessedForGood

\* An alert that is read whole is not flagged before it is ingested.
LEMMA FlaggedIsIngested ==
  ASSUME PipelineTypeOK, LifecycleInv, [PipelineNext]_pipelineVars, NEW u \in Url,
         ReadWhole(u), u \in processed => u \in ingested
  PROVE  u \in processed' => u \in ingested'
<1> USE DEF PipelineTypeOK
<1>1. CASE [Next]_vars
  <2>1. CASE u \in ingested
    BY <1>1, <2>1, IngestedUntouched DEF LifecycleInv, RowsInv
  <2>2. CASE u \notin ingested
    BY <1>1, <2>2, FlagOfUrl DEF LifecycleInv, RowsInv
  <2> QED BY <2>1, <2>2
<1>2. CASE TaggingNext /\ UNCHANGED ingestVars
  <2>1. u \in processed' => u \in processed \/ \E t \in Tagger : u \in snapshot[t].pending
    BY <1>2 DEF TaggingNext, TaggerNext, ReadPending, CommitTags, Flagged, FailTagging,
       TagLockExpires, SwitchSubscription, storeVars
  <2> QED BY <1>2, <2>1 DEF ReadWhole, ingestVars
<1> QED BY <1>1, <1>2, PipelineStep

\* The one cause of a duplicate: an alert that no statement of the task has read
\* while it was being ingested has at most one row per subscription, if no run
\* of the task outlives its lock.
THEOREM ReadWholeTaggedOnce ==
  ASSUME ~LockOutlived, NEW p \in Pair
  PROVE  PipelineSpec /\ []ReadWhole(p[2]) => [](subAlerts[p] <= 1)
<1> DEFINE Once == /\ p[2] \in processed => p[2] \in ingested
                   /\ subAlerts[p] <= (IF p[2] \in processed THEN 1 ELSE 0)
<1>1. PipelineInit => LifecycleInv /\ Once
  BY LifecycleInitial DEF PipelineInit, Init, StoreInit, TaggingInit
<1>2. ASSUME PipelineTypeOK, TaggedInv, LifecycleInv, Once, ReadWhole(p[2]),
             [PipelineNext]_pipelineVars
      PROVE  Once'
  <2> USE DEF PipelineTypeOK, TaggingTypeOK
  <2>1. p[2] \in processed' => p[2] \in ingested'
    BY <1>2, FlaggedIsIngested DEF Pair
  <2>2. CASE [Next]_vars /\ UNCHANGED taggingVars
    <3>1. subAlerts' = subAlerts
      BY <2>2 DEF taggingVars, taggerVars
    <3>2. p[2] \in processed => p[2] \in processed'
      BY <1>2, <2>2, IngestedUntouched DEF LifecycleInv, RowsInv
    <3> QED BY <1>2, <2>1, <3>1, <3>2
  <2>3. CASE TaggingNext
    <3>1. ASSUME NEW t \in Tagger, CommitTags(t), p \in snapshot[t].rows
          PROVE  p[2] \notin processed /\ p[2] \in processed' /\ subAlerts'[p] = subAlerts[p] + 1
      <4>1. p[2] \in snapshot[t].pending
        BY <1>2, <3>1
      <4> QED BY <1>2, <3>1, <4>1 DEF TaggedInv, PendingUnflagged, CommitTags, Flagged
    <3>2. \/ subAlerts'[p] = subAlerts[p]
          \/ \E t \in Tagger : CommitTags(t) /\ p \in snapshot[t].rows
      BY <2>3 DEF TaggingNext, TaggerNext, ReadPending, CommitTags, FailTagging,
         TagLockExpires, SwitchSubscription, taggerVars
    <3>3. subAlerts[p] \in Nat
      BY <1>2
    <3> QED BY <1>2, <2>1, <2>3, <3>1, <3>2, <3>3, TaggingAdds
  <2> QED BY <1>2, <2>2, <2>3, PipelineStep
<1>3. PipelineTypeOK /\ Once => subAlerts[p] <= 1
  BY DEF PipelineTypeOK, TaggingTypeOK
<1> HIDE DEF Once
<1> QED BY <1>1, <1>2, <1>3, LifecycleBesideTagging, PipelineInvariants, PTL
        DEF PipelineSpec

\* The one cause of a missed alert: an alert that no statement has read while it
\* was being ingested is dealt with only when every subscription that stays
\* active and asks for it has its row, even where runs overlap.
THEOREM ReadWholeServed ==
  ASSUME NEW p \in Pair
  PROVE  PipelineSpec /\ []ReadWhole(p[2]) /\ [](p[1] \in active) => []Served(p)
<1> DEFINE Inv == (p[2] \in processed => p[2] \in ingested) /\ Served(p) /\ ReadServes(p)
<1>1. PipelineInit => LifecycleInv /\ Inv
  BY LifecycleInitial
     DEF PipelineInit, Init, StoreInit, TaggingInit, Served, ReadServes, NoSnapshot
<1>2. ASSUME PipelineTypeOK, LifecycleInv, Inv, ReadWhole(p[2]), p[1] \in active,
             [PipelineNext]_pipelineVars
      PROVE  Inv'
  <2> USE DEF PipelineTypeOK
  <2>1. p[2] \in processed' => p[2] \in ingested'
    BY <1>2, FlaggedIsIngested DEF Pair
  <2>2. CASE [Next]_vars /\ UNCHANGED taggingVars
    <3>1. subAlerts' = subAlerts /\ snapshot' = snapshot
      BY <2>2 DEF taggingVars, taggerVars
    <3>2. CASE p[2] \in ingested
      <4>1. /\ Wants(p[1], p[2])' <=> Wants(p[1], p[2])
            /\ p[2] \in processed' <=> p[2] \in processed
        BY <1>2, <2>2, <3>2, IngestedUntouched DEF LifecycleInv, RowsInv, Wants
      <4> QED BY <1>2, <2>1, <3>1, <4>1 DEF Served, ReadServes
    <3>3. CASE p[2] \notin ingested
      <4>1. p[2] \notin processed /\ \A t \in Tagger : p[2] \notin snapshot[t].pending
        BY <1>2, <3>3 DEF ReadWhole
      <4>2. p[2] \notin processed'
        BY <1>2, <2>2, <4>1, FlagOfUrl DEF LifecycleInv, RowsInv, Pair
      <4> QED BY <2>1, <3>1, <4>1, <4>2 DEF Served, ReadServes
    <3> QED BY <3>2, <3>3
  <2>3. CASE TaggingNext
    BY <1>2, <2>1, <2>3, ServedByTagging
  <2> QED BY <1>2, <2>2, <2>3, PipelineStep
<1>3. Inv => Served(p)
  OBVIOUS
<1> HIDE DEF Inv
<1> QED BY <1>1, <1>2, <1>3, LifecycleBesideTagging, PipelineTypeCorrect, PTL
        DEF PipelineSpec

--------------------------------------------------------------------------------
\* In the whole pipeline the polls of every feed and, while none outlives it, the
\* runs of the tagging task have the lock that redis_lock gives to the runs that
\* are younger than its expiry (cap_feed/tasks.py:22, subscription/tasks.py:116).
THEOREM PipelineLocks ==
  /\ PipelineSpec => PollsAreLocked
  /\ ~LockOutlived => (PipelineSpec => TagsAreLocked)
<1>1. PipelineSpec => PollsAreLocked
  <2>1. PipelineInit => LifecycleInv /\ \A f \in Feed : PollLock(f)!Init
    BY LifecycleInitial
       DEF PipelineInit, Init, IngestInit, PollLock!Init, PollsOf
  <2>2. ASSUME PipelineTypeOK, LifecycleInv, [PipelineNext]_pipelineVars, NEW f \in Feed
        PROVE  [PollLock(f)!Next]_(PollLock(f)!vars)
    <3>1. TypeOK /\ LockHeld
      BY <2>2 DEF PipelineTypeOK, LifecycleInv
    <3>2. UNCHANGED ingestVars => UNCHANGED PollLock(f)!vars
      BY DEF ingestVars, workerVars, PollsOf, PollLock!vars
    <3> QED BY <2>2, <3>1, <3>2, PipelineStep, PollLockStep
  <2>3. PipelineTypeOK /\ LifecycleInv /\ [PipelineNext]_pipelineVars =>
          [\A f \in Feed : [PollLock(f)!Next]_(PollLock(f)!vars)]_vars
    BY <2>2
  <2> QED BY <2>1, <2>3, LifecycleBesideTagging, PipelineTypeCorrect, PTL
          DEF PipelineSpec, PollsAreLocked
<1>2. ASSUME ~LockOutlived PROVE PipelineSpec => TagsAreLocked
  <2>1. PipelineInit => TagLock!Init
    BY DEF PipelineInit, TaggingInit, TagLock!Init
  <2>2. PipelineTypeOK /\ TaggedInv /\ [PipelineNext]_pipelineVars =>
          [TagLock!Next]_(TagLock!vars)
    <3>1. UNCHANGED taggingVars => UNCHANGED TagLock!vars
      BY DEF taggingVars, taggerVars, TagLock!vars
    <3> QED BY <1>2, <3>1, PipelineStep, TagLockStep DEF PipelineTypeOK, TaggedInv
  <2>3. PipelineSpec => [](PipelineTypeOK /\ TaggedInv)
    BY <1>2, PipelineInvariants
  <2> QED BY <2>1, <2>2, <2>3, PTL DEF PipelineSpec, TagsAreLocked, TagLock!Spec
<1> QED BY <1>1, <1>2

================================================================================
