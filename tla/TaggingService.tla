----------------------------- MODULE TaggingService -----------------------------
(***************************************************************************)
(* Tagging on its own: alerts arrive complete, in one step, as they do in  *)
(* apps/subscription/tests/test_subscription_alert_tagging.py, which       *)
(* creates them with all their rows before it runs the task.  Under that   *)
(* condition, and with a lock that lasts as long as the run, the task      *)
(* keeps the promise of AlertDelivery.  AlertPipeline drops the condition. *)
(***************************************************************************)
EXTENDS SubscriptionTagging

CONSTANT Arrival  \* [Url -> [source: Feed, infos: SUBSET InfoRow, admin1s: SUBSET Admin1]]

ASSUME ArrivalAssumption ==
  Arrival \in [Url -> [source: Feed, infos: SUBSET InfoRow, admin1s: SUBSET Admin1]]

serviceVars == <<storeVars, taggingVars>>

\* An alert with its infos and divisions, all committed.
ArriveComplete(u) ==
  /\ pk[u] = 0
  /\ lastPk' = lastPk + 1
  /\ pk' = [pk EXCEPT ![u] = lastPk']
  /\ source' = [source EXCEPT ![u] = Arrival[u].source]
  /\ infos' = [infos EXCEPT ![u] = Arrival[u].infos]
  /\ admin1s' = [admin1s EXCEPT ![u] = Arrival[u].admin1s]
  /\ UNCHANGED <<expired, processed, records, now, taggingVars>>

ServiceInit == StoreInit /\ TaggingInit
ServiceNext == TaggingNext \/ \E u \in Url : ArriveComplete(u)
ServiceSpec == ServiceInit /\ [][ServiceNext]_serviceVars

\* The beat sends the task every ten minutes and default workers run it; a run
\* ends by its commit, or by one of its bounded failures.
ServiceFairness ==
  /\ \A t \in Tagger : WF_serviceVars(CommitTags(t))
  /\ WF_serviceVars(\E t \in Tagger : ReadPending(t))
  /\ WF_serviceVars(TagLockExpires)
FairServiceSpec == ServiceSpec /\ ServiceFairness

--------------------------------------------------------------------------------
\* The state of each alert in the promise.
DeliveryState == [u \in Url |-> CASE pk[u] = 0 -> "absent"
                                  [] u \in processed -> "done"
                                  [] OTHER -> "pending"]

\* The task implements AlertDelivery: the flag and the rows of an alert change
\* together, once (tasks.py:47-111 under the lock of tasks.py:116).
Delivery == INSTANCE AlertDelivery WITH state <- DeliveryState, rows <- subAlerts
DeliversOnce == Delivery!Spec

\* A subscription that stays active gets a row for every pending alert it
\* asks for, whatever runs fail or are killed meanwhile.
WantedIsTagged ==
  \A p \in Pair :
    [](p[1] \in active) =>
      ((p[2] \in Pending /\ Wants(p[1], p[2])) ~> (subAlerts[p] > 0))

================================================================================
