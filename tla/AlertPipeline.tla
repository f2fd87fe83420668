----------------------------- MODULE AlertPipeline -----------------------------
(***************************************************************************)
(* The whole path of an alert: AlertLifecycle and SubscriptionTagging on   *)
(* the same tables.  Ingestion writes an alert in several steps and ends   *)
(* with a save of every column, the is_processed_by_subscription flag of   *)
(* the tagging task included; tagging takes whatever is in the tables when *)
(* its statement starts.                                                   *)
(***************************************************************************)
EXTENDS AlertLifecycle, SubscriptionTagging

pipelineVars == <<storeVars, ingestVars, taggingVars>>

PipelineInit == Init /\ TaggingInit

PipelineNext ==
  \/ Next /\ UNCHANGED taggingVars
  \/ TaggingNext /\ UNCHANGED ingestVars

PipelineSpec == PipelineInit /\ [][PipelineNext]_pipelineVars

\* The fairness of AlertLifecycle, and the beat's for tagging.
PipelineFairness ==
  /\ \A w \in Worker : WF_pipelineVars(WorkerStep(w) /\ UNCHANGED taggingVars)
  /\ \A f \in Feed : WF_pipelineVars(LockExpires(f) /\ UNCHANGED taggingVars)
  /\ WF_pipelineVars(TagExpiredAlerts /\ UNCHANGED <<ingestVars, taggingVars>>)
  /\ WF_pipelineVars(Tick /\ UNCHANGED <<ingestVars, taggingVars>>)
  /\ \A t \in Tagger : WF_pipelineVars(CommitTags(t) /\ UNCHANGED ingestVars)
  /\ WF_pipelineVars((\E t \in Tagger : ReadPending(t)) /\ UNCHANGED ingestVars)
  /\ WF_pipelineVars(TagLockExpires /\ UNCHANGED ingestVars)

FairPipelineSpec == PipelineSpec /\ PipelineFairness

--------------------------------------------------------------------------------
\* Every variable keeps to the values its table or task can hold.
PipelineTypeOK == TypeOK /\ TaggingTypeOK

\* A row is never wrong: an alert tagged while it was half written still is one
\* the subscription asks for when it is complete, because ingestion only adds.
TaggedIsWanted == \A p \in Pair : subAlerts[p] > 0 => Wants(p[1], p[2])

\* An alert is tagged at most twice: process_alert clears the flag once, and a
\* commit of the task sets it, under its lock.
TaggedAtMostTwice == \A p \in Pair : subAlerts[p] <= 2

\* Once an alert has been ingested no subscription gets a second row for it.
\* (What was tagged before that may be tagged again: see NoDuplicateTags.)
NoRetagAfterIngest ==
  [][\A p \in Pair : p[2] \in ingested \cap processed => subAlerts'[p] = subAlerts[p]]_pipelineVars

\* Why: an alert has at most one row for every time its flag has been set, of
\* which process_alert undoes one at most, by its save.
Unsaved(u) == \E w \in Worker : pc[w] \in {"infos", "save"} /\ entry[w] = u
RowBound(p) == subAlerts[p] <= (IF Unsaved(p[2]) THEN 0 ELSE 1)
                              + (IF p[2] \in processed THEN 1 ELSE 0)
TaggedInv == OneTagger /\ PendingUnflagged /\ \A p \in Pair : RowBound(p)

\* No subscription gets two rows for an alert: re-running the task "doesn't
\* break anything", says test_subscription_alert_tagging.py:133, and the insert
\* is ON CONFLICT DO NOTHING (tasks.py:103).
NoDuplicateTags == \A p \in Pair : subAlerts[p] <= 1

\* A subscription that stays active gets its row for every ingested alert it
\* asks for (test_subscription_alert_tagging.py:145-154 compares the rows with
\* the matches of every subscription after a run).
WantedIsTagged ==
  \A p \in Pair :
    [](p[1] \in active) =>
      ((p[2] \in ingested /\ Wants(p[1], p[2])) ~> (subAlerts[p] > 0))

\* Every ingested alert is eventually dealt with by the task, for good: no
\* interleaving leaves it flagged by mistake and then unflagged, or pending.
IngestedIsProcessed == \A u \in Url : u \in ingested ~> [](u \in processed)

\* Its half that is no liveness: no step takes the flag of an ingested alert away.
ProcessedForGood == [][\A u \in ingested \cap processed : u \in processed']_pipelineVars

\* No statement of the task reads the alert while it is being ingested.  Where one
\* does, NoDuplicateTags and WantedIsTagged fail; it is the only cause.
ReadWhole(u) == \A t \in Tagger : u \in snapshot[t].pending => u \in ingested

================================================================================
