------------------------- MODULE TaggingService_proofs -------------------------
(***************************************************************************)
(* Proof that TaggingService implements AlertDelivery, for every set of    *)
(* taggers, subscriptions, filters and alerts, runs that fail or die       *)
(* included, as long as no run outlives its lock.                          *)
(***************************************************************************)
EXTENDS TaggingService, SubscriptionTagging_proofs

\* Only alerts are flagged; the rest is that one tagger tags at a time.
ServiceInv ==
  /\ StoreTypeOK /\ TaggingTypeOK
  /\ processed \subseteq Alerts
  /\ OneTagger /\ PendingUnflagged

LEMMA ServiceInitial == ServiceInit => ServiceInv
BY StoreAssumption
DEF ServiceInit, StoreInit, TaggingInit, ServiceInv, StoreTypeOK, TaggingTypeOK, Snapshot,
    NoSnapshot, OneTagger, PendingUnflagged, Alerts

\* A new alert is a new row, in no snapshot and without a flag.
LEMMA ArrivalTyped ==
  ASSUME StoreTypeOK, TaggingTypeOK, NEW u \in Url, ArriveComplete(u)
  PROVE  StoreTypeOK' /\ TaggingTypeOK' /\ Alerts' = Alerts \cup {u} /\ u \notin Alerts
<1> USE DEF StoreTypeOK, TaggingTypeOK
<1>1. Alerts' = Alerts \cup {u} /\ u \notin Alerts
  BY DEF ArriveComplete, Alerts
<1>2. StoreTypeOK'
  <2>1. /\ Arrival[u].source \in Feed /\ Arrival[u].infos \in SUBSET InfoRow
        /\ Arrival[u].admin1s \in SUBSET Admin1
    BY ArrivalAssumption
  <2> QED BY <2>1 DEF ArriveComplete
<1>3. TaggingTypeOK'
  BY <1>1 DEF ArriveComplete, taggingVars, taggerVars
<1> QED BY <1>1, <1>2, <1>3

LEMMA ArrivalKeeps ==
  ASSUME ServiceInv, NEW u \in Url, ArriveComplete(u)
  PROVE  ServiceInv' /\ Alerts' = Alerts \cup {u} /\ u \notin Alerts
<1>1. /\ StoreTypeOK' /\ TaggingTypeOK' /\ Alerts' = Alerts \cup {u} /\ u \notin Alerts
  BY ArrivalTyped DEF ServiceInv
<1>2. OneTagger' /\ PendingUnflagged' /\ processed' \subseteq Alerts'
  BY <1>1 DEF ServiceInv, ArriveComplete, taggingVars, taggerVars, OneTagger, PendingUnflagged
<1> QED BY <1>1, <1>2 DEF ServiceInv

LEMMA ServiceStep ==
  ASSUME ~LockOutlived
  PROVE  ServiceInv /\ [ServiceNext]_serviceVars => ServiceInv'
<1> SUFFICES ASSUME ServiceInv, [ServiceNext]_serviceVars PROVE ServiceInv'
  OBVIOUS
<1>1. CASE TaggingNext
  <2>1. Alerts' = Alerts
    BY <1>1, TaggingFrame DEF Alerts
  <2>2. processed' \subseteq Alerts
    BY <1>1 DEF ServiceInv, TaggingTypeOK, TaggingNext, TaggerNext, ReadPending, CommitTags,
       Flagged, FailTagging, TagLockExpires, SwitchSubscription, storeVars
  <2> QED BY <1>1, <2>1, <2>2, TaggingTypeStep, OneTaggerStep DEF ServiceInv
<1>2. CASE \E u \in Url : ArriveComplete(u)
  BY <1>2, ArrivalKeeps
<1>3. CASE UNCHANGED serviceVars
  BY <1>3 DEF serviceVars, storeVars, taggingVars, taggerVars, ServiceInv, StoreTypeOK,
     TaggingTypeOK, OneTagger, PendingUnflagged, Alerts
<1> QED BY <1>1, <1>2, <1>3 DEF ServiceNext

--------------------------------------------------------------------------------
(***************************************************************************)
(* The steps of the service are steps of the promise.                      *)
(***************************************************************************)
LEMMA DeliveryOf ==
  ASSUME ServiceInv, NEW u \in Url
  PROVE  /\ u \notin Alerts => DeliveryState[u] = "absent"
         /\ u \in Alerts /\ u \in processed => DeliveryState[u] = "done"
         /\ u \in Alerts /\ u \notin processed => DeliveryState[u] = "pending"
BY DEF ServiceInv, DeliveryState, Alerts

LEMMA ArrivalDelivers ==
  ASSUME ServiceInv, NEW u \in Url, ArriveComplete(u)
  PROVE  Delivery!Arrive(u)
<1>1. /\ Alerts' = Alerts \cup {u} /\ u \notin Alerts /\ u \notin processed
      /\ processed' = processed /\ subAlerts' = subAlerts
  BY ArrivalKeeps DEF ArriveComplete, taggingVars, taggerVars, ServiceInv
<1>2. DeliveryState[u] = "absent"
  BY <1>1, DeliveryOf
<1>3. \A v \in Url : DeliveryState'[v] = IF v = u THEN "pending" ELSE DeliveryState[v]
  BY <1>1 DEF DeliveryState, Alerts, ArriveComplete, ServiceInv, StoreTypeOK
<1>4. DeliveryState' = [DeliveryState EXCEPT ![u] = "pending"]
  BY <1>3 DEF DeliveryState
<1> QED BY <1>1, <1>2, <1>4 DEF Delivery!Arrive

LEMMA CommitDelivers ==
  ASSUME ServiceInv, NEW t \in Tagger, CommitTags(t)
  PROVE  Delivery!Deliver(snapshot[t].pending, snapshot[t].rows)
<1> DEFINE U == snapshot[t].pending
<1> USE DEF ServiceInv, TaggingTypeOK
<1>1. /\ U \subseteq Alerts /\ U \cap processed = {} /\ Alerts \subseteq Url
  BY DEF PendingUnflagged, Alerts
<1>2. processed' = processed \cup U /\ pk' = pk
  BY DEF CommitTags, Flagged
<1>3. \A u \in U : DeliveryState[u] = "pending"
  BY <1>1, DeliveryOf
<1>4. DeliveryState' = [u \in Url |-> IF u \in U THEN "done" ELSE DeliveryState[u]]
  BY <1>1, <1>2 DEF DeliveryState, Alerts
<1>5. subAlerts' = [p \in Subscription \X Url |-> IF p \in snapshot[t].rows
                                                  THEN subAlerts[p] + 1 ELSE subAlerts[p]]
  BY DEF CommitTags, Pair
<1> QED BY <1>3, <1>4, <1>5 DEF Delivery!Deliver

LEMMA ServiceSimulates ==
  ASSUME ServiceInv, [ServiceNext]_serviceVars
  PROVE  [Delivery!Next]_(Delivery!vars)
<1>1. ASSUME NEW u \in Url, ArriveComplete(u) PROVE Delivery!Next
  BY <1>1, ArrivalDelivers DEF Delivery!Next
<1>2. ASSUME NEW t \in Tagger, CommitTags(t) PROVE Delivery!Next
  <2>1. /\ snapshot[t].pending \in SUBSET Url
        /\ snapshot[t].rows \in SUBSET (Subscription \X snapshot[t].pending)
    BY DEF ServiceInv, TaggingTypeOK, Alerts
  <2> QED BY <1>2, <2>1, CommitDelivers DEF Delivery!Next
<1>3. ASSUME UNCHANGED <<pk, processed, subAlerts>> PROVE UNCHANGED Delivery!vars
  BY <1>3 DEF Delivery!vars, DeliveryState
<1> QED BY <1>1, <1>2, <1>3 DEF ServiceNext, TaggingNext, TaggerNext, ReadPending,
           FailTagging, TagLockExpires, SwitchSubscription, taggerVars, storeVars, serviceVars,
           taggingVars

LEMMA DeliveryInitial == ServiceInit => Delivery!Init
BY DEF ServiceInit, StoreInit, TaggingInit, Delivery!Init, DeliveryState, Pair

\* The task keeps the promise of AlertDelivery: every alert is dealt with once,
\* its flag and its rows in one step, whatever runs fail, die or wait for a lock
\* that a dead run has left.
THEOREM TaggingDeliversOnce ==
  ASSUME ~LockOutlived
  PROVE  ServiceSpec => DeliversOnce
<1>1. ServiceInv /\ [ServiceNext]_serviceVars => ServiceInv'
  BY ServiceStep
<1>2. ServiceInv /\ [ServiceNext]_serviceVars => [Delivery!Next]_(Delivery!vars)
  BY ServiceSimulates
<1> QED BY <1>1, <1>2, ServiceInitial, DeliveryInitial, PTL
        DEF ServiceSpec, DeliversOnce, Delivery!Spec

--------------------------------------------------------------------------------
\* An alert that has been dealt with has left out no subscription that stayed
\* active and asks for it: the flag never comes without the row, even where runs
\* overlap because one has outlived its lock (tasks.py:47-111).
THEOREM NoSubscriptionLeftOut ==
  ASSUME NEW p \in Pair
  PROVE  ServiceSpec /\ [](p[1] \in active) => []Served(p)
<1> DEFINE Inv == /\ StoreTypeOK /\ TaggingTypeOK /\ processed \subseteq Alerts
                  /\ Served(p) /\ ReadServes(p)
<1>1. ServiceInit => Inv
  BY ServiceInitial DEF ServiceInit, ServiceInv, StoreInit, TaggingInit, Served, ReadServes,
     NoSnapshot
<1>2. ASSUME Inv, p[1] \in active, [ServiceNext]_serviceVars
      PROVE  Inv'
  <2>1. CASE TaggingNext
    <3>1. Alerts' = Alerts
      BY <2>1, TaggingFrame DEF Alerts
    <3>2. processed' \subseteq Alerts
      BY <1>2, <2>1 DEF TaggingTypeOK, TaggingNext, TaggerNext, ReadPending, CommitTags,
         Flagged, FailTagging, TagLockExpires, SwitchSubscription, storeVars
    <3> QED BY <1>2, <2>1, <3>1, <3>2, TaggingTypeStep, ServedByTagging
  <2>2. ASSUME NEW u \in Url, ArriveComplete(u) PROVE Inv'
    <3>1. /\ StoreTypeOK' /\ TaggingTypeOK' /\ Alerts' = Alerts \cup {u} /\ u \notin Alerts
      BY <1>2, <2>2, ArrivalTyped
    <3>2. /\ processed' = processed /\ snapshot' = snapshot /\ subAlerts' = subAlerts
      BY <2>2 DEF ArriveComplete, taggingVars, taggerVars
    <3>3. CASE p[2] = u
      <4>1. p[2] \notin processed /\ \A t \in Tagger : p[2] \notin snapshot[t].pending
        BY <1>2, <3>1, <3>3 DEF TaggingTypeOK
      <4> QED BY <1>2, <3>1, <3>2, <4>1 DEF Served, ReadServes
    <3>4. CASE p[2] # u
      <4>1. UNCHANGED <<source[p[2]], infos[p[2]], admin1s[p[2]]>>
        BY <1>2, <2>2, <3>4 DEF ArriveComplete, StoreTypeOK, Pair
      <4>2. Wants(p[1], p[2])' <=> Wants(p[1], p[2])
        BY <4>1 DEF Wants
      <4> QED BY <1>2, <3>1, <3>2, <4>2 DEF Served, ReadServes
    <3> QED BY <3>3, <3>4
  <2>3. CASE UNCHANGED serviceVars
    BY <1>2, <2>3 DEF serviceVars, storeVars, taggingVars, taggerVars, StoreTypeOK,
       TaggingTypeOK, Alerts, Served, ReadServes, Wants
  <2> QED BY <1>2, <2>1, <2>2, <2>3 DEF ServiceNext
<1>3. Inv => Served(p)
  OBVIOUS
<1> HIDE DEF Inv
<1> QED BY <1>1, <1>2, <1>3, PTL DEF ServiceSpec

================================================================================
