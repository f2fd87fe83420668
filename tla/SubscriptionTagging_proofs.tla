----------------------- MODULE SubscriptionTagging_proofs -----------------------
(***************************************************************************)
(* What the steps of the tagging task keep, whatever else runs on the      *)
(* tables: the lemmas that the proofs about AlertPipeline and              *)
(* TaggingService share.                                                   *)
(***************************************************************************)
EXTENDS SubscriptionTagging, TLAPS

\* Tagging writes no column of an alert but its own flag.
LEMMA TaggingFrame ==
  ASSUME TaggingNext
  PROVE  UNCHANGED <<pk, lastPk, source, expired, infos, admin1s, records, now>>
BY DEF TaggingNext, TaggerNext, ReadPending, CommitTags, FailTagging, TagLockExpires,
       SwitchSubscription, storeVars

\* What the tagging task holds is of the table: a snapshot's pending alerts.
LEMMA TaggingTypeStep ==
  ASSUME StoreTypeOK, TaggingTypeOK, TaggingNext
  PROVE  StoreTypeOK' /\ TaggingTypeOK'
<1> USE TaggingAssumption DEF StoreTypeOK, TaggingTypeOK, Snapshot, NoSnapshot
<1>1. Alerts' = Alerts /\ Alerts \in SUBSET Url
  BY TaggingFrame DEF Alerts
<1>2. ASSUME NEW t \in Tagger, ReadPending(t) PROVE TaggingTypeOK' /\ processed' = processed
  <2> DEFINE new == [pending |-> Pending, rows |-> {p \in Candidates : Matches(p[1], p[2])}]
  <2>1. /\ Pending \in SUBSET Alerts
        /\ {p \in Candidates : Matches(p[1], p[2])} \in SUBSET (Subscription \X Pending)
    BY DEF Pending, Candidates
  <2>2. new \in Snapshot /\ new.rows \subseteq Subscription \X new.pending
        /\ new.pending \subseteq Alerts
    BY <1>1, <2>1 DEF Pair
  <2>3. snapshot' = [snapshot EXCEPT ![t] = new]
    BY <1>2 DEF ReadPending
  <2> HIDE DEF new
  <2> QED BY <1>1, <1>2, <2>2, <2>3 DEF ReadPending, storeVars
<1>3. ASSUME NEW t \in Tagger, CommitTags(t) PROVE TaggingTypeOK' /\ processed' \in SUBSET Url
  <2>1. NoSnapshot \in Snapshot
    OBVIOUS
  <2>2. subAlerts' \in [Pair -> Nat]
    BY <1>3 DEF CommitTags
  <2>3. processed' \in SUBSET Url
    BY <1>1, <1>3 DEF CommitTags, Flagged
  <2>4. tagLock' \in Tagger \cup {NoTagger}
    BY <1>3 DEF CommitTags, ReleaseTagLock
  <2> QED BY <1>1, <1>3, <2>1, <2>2, <2>3, <2>4 DEF CommitTags
<1>4. ASSUME NEW t \in Tagger, FailTagging(t) PROVE TaggingTypeOK' /\ processed' = processed
  <2>1. tagLock' \in Tagger \cup {NoTagger}
    BY <1>4 DEF FailTagging, ReleaseTagLock
  <2> QED BY <1>1, <1>4, <2>1 DEF FailTagging, storeVars
<1>5. ASSUME TagLockExpires PROVE TaggingTypeOK' /\ processed' = processed
  BY <1>1, <1>5 DEF TagLockExpires, storeVars
<1>6. ASSUME NEW s \in Subscription, SwitchSubscription(s)
      PROVE  TaggingTypeOK' /\ processed' = processed
  BY <1>1, <1>6 DEF SwitchSubscription, storeVars, taggerVars
<1>7. TaggingTypeOK' /\ processed' \in SUBSET Url
  BY <1>2, <1>3, <1>4, <1>5, <1>6 DEF TaggingNext, TaggerNext
<1> QED BY <1>7, TaggingFrame

--------------------------------------------------------------------------------
(***************************************************************************)
(* What the WHERE clause of the tagging query lets through is what the     *)
(* subscription asks for, and an alert that is asked for stays so while    *)
(* its rows grow: so do the pairs a statement has read and not committed.  *)
(***************************************************************************)
LEMMA MatchesWanted ==
  ASSUME NEW s, NEW u, Matches(s, u)
  PROVE  Wants(s, u)
<1>1. Filter[s].admin1s # {} => \E a \in admin1s[u] : a \in Filter[s].admin1s
  BY DEF Matches, Allows
<1>2. ASSUME NEW d \in Field, Filter[s].values[d] # {}
      PROVE  \E r \in infos[u] : r.info.tags[d] \in Filter[s].values[d]
  <2>1. Filter[s].values[d] \cap FieldValues(u, d) # {}
    BY <1>2 DEF Matches, Allows
  <2> QED BY <2>1 DEF FieldValues
<1> QED BY <1>1, <1>2 DEF Matches, Wants

LEMMA WantsGrows ==
  ASSUME NEW s, NEW u, Wants(s, u), source'[u] = source[u],
         infos[u] \subseteq infos'[u], admin1s[u] \subseteq admin1s'[u]
  PROVE  Wants(s, u)'
BY DEF Wants

TaggedOrRead(p) == subAlerts[p] > 0 \/ \E t \in Tagger : p \in snapshot[t].rows
WantedInv == \A p \in Pair : TaggedOrRead(p) => p[2] \in Alerts /\ Wants(p[1], p[2])

LEMMA WantedByTagging ==
  ASSUME TaggingTypeOK, WantedInv, TaggingNext
  PROVE  WantedInv'
<1> USE DEF TaggingTypeOK, TaggedOrRead, NoSnapshot
<1>1. /\ Alerts' = Alerts
      /\ \A p \in Pair : Wants(p[1], p[2])' <=> Wants(p[1], p[2])
  BY TaggingFrame DEF Alerts, Wants
<1>2. ASSUME NEW t \in Tagger, ReadPending(t), NEW p \in Pair, TaggedOrRead(p)'
      PROVE  TaggedOrRead(p) \/ (p[2] \in Alerts /\ Matches(p[1], p[2]))
  BY <1>2 DEF ReadPending, Candidates, Pending
<1>3. ASSUME NEW t \in Tagger, CommitTags(t), NEW p \in Pair, TaggedOrRead(p)'
      PROVE  TaggedOrRead(p)
  BY <1>3 DEF CommitTags
<1>4. ASSUME NEW t \in Tagger, FailTagging(t), NEW p \in Pair, TaggedOrRead(p)'
      PROVE  TaggedOrRead(p)
  BY <1>4 DEF FailTagging
<1>5. ASSUME TagLockExpires \/ \E s \in Subscription : SwitchSubscription(s)
      PROVE  UNCHANGED <<subAlerts, snapshot>>
  BY <1>5 DEF TagLockExpires, SwitchSubscription, taggerVars
<1>6. \A p \in Pair : TaggedOrRead(p)' =>
        TaggedOrRead(p) \/ (p[2] \in Alerts /\ Matches(p[1], p[2]))
  BY <1>2, <1>3, <1>4, <1>5 DEF TaggingNext, TaggerNext
<1> QED BY <1>1, <1>6, MatchesWanted DEF WantedInv

--------------------------------------------------------------------------------
(***************************************************************************)
(* Conversely, what an active subscription asks for is let through, so a   *)
(* statement that has read an alert has paired the two.                    *)
(***************************************************************************)
LEMMA WantedMatches ==
  ASSUME NEW s, NEW u, Wants(s, u)
  PROVE  Matches(s, u)
<1>1. Allows(Filter[s].admin1s, admin1s[u])
  BY DEF Wants, Allows
<1>2. ASSUME NEW d \in Field PROVE Allows(Filter[s].values[d], FieldValues(u, d))
  <2>1. CASE Filter[s].values[d] = {}
    BY <2>1 DEF Allows
  <2>2. CASE Filter[s].values[d] # {}
    <3>1. PICK r \in infos[u] : r.info.tags[d] \in Filter[s].values[d]
      BY <2>2 DEF Wants
    <3>2. r.info.tags[d] \in FieldValues(u, d)
      BY DEF FieldValues
    <3> QED BY <3>1, <3>2 DEF Allows
  <2> QED BY <2>1, <2>2
<1> QED BY <1>1, <1>2 DEF Wants, Matches

ReadServes(p) ==
  \A t \in Tagger :
    p[2] \in snapshot[t].pending /\ Wants(p[1], p[2]) => p \in snapshot[t].rows

LEMMA ServedByTagging ==
  ASSUME TaggingTypeOK, NEW p \in Pair, p[1] \in active, Served(p), ReadServes(p),
         TaggingNext
  PROVE  Served(p)' /\ ReadServes(p)'
<1> USE DEF TaggingTypeOK, NoSnapshot, Served, ReadServes
<1>1. Wants(p[1], p[2])' <=> Wants(p[1], p[2])
  BY TaggingFrame DEF Wants
<1>2. ASSUME NEW t \in Tagger, ReadPending(t) PROVE Served(p)' /\ ReadServes(p)'
  <2>1. p[2] \in Pending /\ Wants(p[1], p[2]) =>
          p \in {q \in Candidates : Matches(q[1], q[2])}
    BY WantedMatches DEF Pair, Candidates
  <2>2. ReadServes(p)'
    BY <1>1, <1>2, <2>1 DEF ReadPending
  <2>3. Served(p)'
    BY <1>1, <1>2 DEF ReadPending, storeVars
  <2> QED BY <2>2, <2>3
<1>3. ASSUME NEW t \in Tagger, CommitTags(t) PROVE Served(p)' /\ ReadServes(p)'
  <2>1. subAlerts'[p] = IF p \in snapshot[t].rows THEN subAlerts[p] + 1 ELSE subAlerts[p]
    BY <1>3 DEF CommitTags
  <2>2. subAlerts[p] \in Nat /\ (p[2] \in processed' =>
          p[2] \in processed \/ p[2] \in snapshot[t].pending)
    BY <1>3 DEF CommitTags, Flagged
  <2>3. Served(p)'
    BY <1>1, <2>1, <2>2
  <2>4. ReadServes(p)'
    BY <1>1, <1>3 DEF CommitTags
  <2> QED BY <2>3, <2>4
<1>4. ASSUME NEW t \in Tagger, FailTagging(t) PROVE Served(p)' /\ ReadServes(p)'
  BY <1>1, <1>4 DEF FailTagging, storeVars
<1>5. ASSUME TagLockExpires \/ \E s \in Subscription : SwitchSubscription(s)
      PROVE  Served(p)' /\ ReadServes(p)'
  BY <1>1, <1>5 DEF TagLockExpires, SwitchSubscription, taggerVars, storeVars
<1> QED BY <1>2, <1>3, <1>4, <1>5 DEF TaggingNext, TaggerNext

--------------------------------------------------------------------------------
(***************************************************************************)
(* While the key of the lock outlives every run, one tagger tags at a      *)
(* time, so what it has read no other one flags.                           *)
(***************************************************************************)
LEMMA OneTaggerStep ==
  ASSUME ~LockOutlived, TaggingTypeOK, OneTagger, PendingUnflagged, TaggingNext
  PROVE  OneTagger' /\ PendingUnflagged'
<1> USE TaggingAssumption DEF TaggingTypeOK, OneTagger, PendingUnflagged
<1>1. ASSUME NEW t \in Tagger, ReadPending(t) PROVE OneTagger' /\ PendingUnflagged'
  BY <1>1 DEF ReadPending, TagLockFree, Pending, storeVars
<1>2. ASSUME NEW t \in Tagger, CommitTags(t) PROVE OneTagger' /\ PendingUnflagged'
  <2>1. tagLock = t
    BY <1>2 DEF CommitTags
  <2>2. \A s \in Tagger : snapshot'[s] = NoSnapshot
    BY <1>2, <2>1 DEF CommitTags
  <2>3. OneTagger'
    BY <1>2, <2>1 DEF CommitTags, ReleaseTagLock
  <2>4. PendingUnflagged'
    BY <2>2 DEF NoSnapshot
  <2> QED BY <2>3, <2>4
<1>3. ASSUME NEW t \in Tagger, FailTagging(t) PROVE OneTagger' /\ PendingUnflagged'
  <2>1. tagLock = t
    BY <1>3 DEF FailTagging
  <2>2. OneTagger'
    BY <1>3, <2>1 DEF FailTagging, ReleaseTagLock
  <2>3. PendingUnflagged'
    BY <1>3 DEF FailTagging, NoSnapshot, storeVars
  <2> QED BY <2>2, <2>3
<1>4. ASSUME TagLockExpires \/ \E s \in Subscription : SwitchSubscription(s)
      PROVE  OneTagger' /\ PendingUnflagged'
  BY <1>4 DEF TagLockExpires, SwitchSubscription, taggerVars, storeVars
<1> QED BY <1>1, <1>2, <1>3, <1>4 DEF TaggingNext, TaggerNext

\* Then every step of the task is a step of the lock that TaskLock promises.
TagRuns == {t \in Tagger : tagPc[t] = "tagging"}

LEMMA TagLockStep ==
  ASSUME ~LockOutlived, TaggingTypeOK, OneTagger, TaggingNext
  PROVE  [TagLock!Next]_(TagLock!vars)
<1> USE TaggingAssumption DEF TaggingTypeOK, OneTagger
<1>1. ASSUME NEW t \in Tagger, ReadPending(t) PROVE TagLock!Next
  <2>1. TagRuns' = TagRuns \cup {t}
    BY <1>1 DEF ReadPending, TagRuns
  <2>2. TagLock!Take(t)
    BY <1>1, <2>1 DEF ReadPending, TagLockFree, TagRuns, TagLock!Take
  <2> QED BY <2>2 DEF TagLock!Next
<1>2. ASSUME NEW t \in Tagger, CommitTags(t) \/ FailTagging(t) PROVE TagLock!Next
  <2>1. TagRuns' = TagRuns \ {t} /\ t \in TagRuns
    BY <1>2 DEF CommitTags, FailTagging, TagRuns
  <2>2. tagLock' \in {tagLock, NoTagger}
    BY <1>2 DEF CommitTags, FailTagging, ReleaseTagLock
  <2> QED BY <2>1, <2>2 DEF TagRuns, TagLock!Leave, TagLock!Next
<1>3. ASSUME TagLockExpires PROVE TagLock!Next
  BY <1>3 DEF TagLockExpires, TagLock!Expire, TagLock!Next
<1>4. ASSUME NEW s \in Subscription, SwitchSubscription(s) PROVE UNCHANGED TagLock!vars
  BY <1>4 DEF SwitchSubscription, taggerVars, TagLock!vars
<1> QED BY <1>1, <1>2, <1>3, <1>4 DEF TaggingNext, TaggerNext

================================================================================
