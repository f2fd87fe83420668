------------------------------ MODULE AlertExpiry ------------------------------
(***************************************************************************)
(* The periodic tasks of apps/cap_feed/tasks.py that age the tables:       *)
(* tag_expired_alerts (every minute) and remove_expired_alert_records      *)
(* (every day).  Each is one SQL statement; their redis locks only keep    *)
(* two runs of the same task apart, and running one twice changes nothing  *)
(* the second time.                                                        *)
(***************************************************************************)
EXTENDS AlertStore

\* Sensitivity variant: an inner join with AlertInfo, which has no row for an
\* alert without infos.
ExpiredByJoin == {u \in Alerts : infos[u] # {} /\ Stale(u)}

\* The alerts that tag_expired_alerts selects.
ExpiredAlerts == {u \in Alerts : Stale(u)}

TagExpiredAlerts ==
  /\ expired' = expired \cup ExpiredAlerts
  /\ UNCHANGED <<pk, lastPk, source, processed, infos, admin1s, records, now>>

RemoveExpiredAlertRecords ==
  /\ records' = [u \in Url |-> IF records[u] < now THEN 0 ELSE records[u]]
  /\ UNCHANGED <<pk, lastPk, source, expired, processed, infos, admin1s, now>>

ExpiryNext == TagExpiredAlerts \/ RemoveExpiredAlertRecords

================================================================================
