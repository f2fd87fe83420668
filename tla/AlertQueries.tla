------------------------------ MODULE AlertQueries ------------------------------
(***************************************************************************)
(* The public lists of alerts (apps/cap_feed/queries.py, types.py,         *)
(* filters.py, dataloaders.py, utils/strawberry/paginations.py): a client  *)
(* goes through the pages of alerts or historicalAlerts while ingestion,   *)
(* expiry and the admin site change the tables.                            *)
(*                                                                         *)
(* A request is served by several queries with no transaction around them: *)
(* the page, then those of the data loaders, for all alerts of the page at *)
(* once.  An alert is its primary key; the order is the default one.  The  *)
(* client asks for the next page until one is not full.                    *)
(***************************************************************************)
EXTENDS Integers, Sequences, FiniteSets

CONSTANTS
  LastPk,                   \* primary keys 1 .. LastPk, of a sequence
  MatchingInfos,            \* [1 .. LastPk -> Nat], infos that the filter matches
  FeedOfAlert, PlacesOfAlert,
  SomeLimits,               \* the limits that clients ask for, -1 for none
  DEFAULT_PAGINATION_LIMIT, MAX_PAGINATION_LIMIT

Alerts == 1 .. LastPk
Feeds == {FeedOfAlert[n] : n \in Alerts}
Places == UNION {PlacesOfAlert[n] : n \in Alerts}

ASSUME QueriesAssumption ==
  /\ LastPk \in Nat /\ MatchingInfos \in [Alerts -> Nat]
  /\ SomeLimits \subseteq Nat \cup {-1}
  /\ DEFAULT_PAGINATION_LIMIT \in Nat \ {0} /\ MAX_PAGINATION_LIMIT \in Nat \ {0}

VARIABLES
  listing,   \* [Alerts -> "absent", "active", "expired" or "gone"]
  matched,   \* [Alerts -> its infos in the table that the filter matches]
  located,   \* AlertAdmin1: pairs of an alert and a division
  feedRows, placeRows,
  walk,      \* the client: its query, offset and limit, the page in hand
  left,      \* history: rows that left the list during the walk
  steady,    \* history: alerts that have been in the list all through it
  kept,      \* history: rows of located that were there when the page was read, and since
  removed    \* history: something was deleted since the page was read

queriesVars == <<listing, matched, located, feedRows, placeRows, walk, left, steady,
                 kept, removed>>

Query == [active: BOOLEAN, filtered: BOOLEAN, distinct: BOOLEAN]
NoWalk == [step |-> "idle", query |-> [active |-> TRUE, filtered |-> FALSE, distinct |-> FALSE],
           limit |-> 1, offset |-> 0, page |-> {}, full |-> FALSE, relation |-> {},
           seen |-> {}, answered |-> {}]

QueriesTypeOK ==
  /\ listing \in [Alerts -> {"absent", "active", "expired", "gone"}]
  /\ \A n \in Alerts : matched[n] \in 0 .. MatchingInfos[n]
  /\ located \subseteq {p \in Alerts \X placeRows : listing[p[1]] \in {"active", "expired"}}
  /\ feedRows \subseteq Feeds /\ placeRows \subseteq Places
  /\ walk.step \in {"idle", "items", "feeds", "relation", "places", "failed", "done"}
  /\ walk.query \in Query
  /\ walk.limit \in 0 .. MAX_PAGINATION_LIMIT /\ Cardinality(walk.page) <= walk.limit
  /\ walk.page \cup walk.seen \cup steady \subseteq Alerts
  /\ kept \subseteq located

QueriesInit ==
  /\ listing = [n \in Alerts |-> IF n = LastPk THEN "absent" ELSE "active"]
  /\ matched = [n \in Alerts |-> IF n = LastPk THEN 0 ELSE MatchingInfos[n]]
  /\ located = {p \in Alerts \X Places : p[1] # LastPk /\ p[2] \in PlacesOfAlert[p[1]]}
  /\ feedRows = Feeds /\ placeRows = Places
  /\ walk = NoWalk /\ left = 0 /\ steady = {}
  /\ kept = {} /\ removed = FALSE

--------------------------------------------------------------------------------
(***************************************************************************)
(* The list: get_alert_queryset, the filter on infos, the default order.   *)
(* A filter on infos is a join: an alert comes once for each of its infos  *)
(* that match, unless the client asks for DISTINCT.                        *)
(***************************************************************************)
Listed(q) == IF q.active THEN {"active"} ELSE {"active", "expired"}

Copies(q, n, status, infos) ==
  CASE status[n] \notin Listed(q) -> 0
    [] status[n] \in Listed(q) /\ q.filtered /\ ~q.distinct -> infos[n]
    [] status[n] \in Listed(q) /\ (q.filtered => q.distinct) ->
         IF q.filtered /\ infos[n] = 0 THEN 0 ELSE 1

\* Sensitivity variant: the order of the table, where an update moves a row.
HeapRows(q) ==
  LET copy(n) == [i \in 1 .. Copies(q, n, listing, matched) |-> n]
      upTo[n \in 0 .. LastPk, s \in {"active", "expired"}] ==
        IF n = 0 THEN <<>>
        ELSE upTo[n - 1, s] \o (IF listing[n] = s THEN copy(n) ELSE <<>>)
  IN upTo[LastPk, "active"] \o upTo[LastPk, "expired"]

\* order_by("-pk")
Rows(q) ==
  LET downFrom[n \in 0 .. LastPk] ==
        IF n = 0 THEN <<>>
        ELSE [i \in 1 .. Copies(q, n, listing, matched) |-> n] \o downFrom[n - 1]
  IN downFrom[LastPk]

\* process_pagination.
Limit(asked) ==
  LET limit == IF asked = -1 THEN DEFAULT_PAGINATION_LIMIT ELSE asked IN
  IF limit < MAX_PAGINATION_LIMIT THEN limit ELSE MAX_PAGINATION_LIMIT

\* queryset[start:stop]
Page(rows, offset, limit) ==
  SubSeq(rows, offset + 1, IF offset + limit < Len(rows) THEN offset + limit ELSE Len(rows))

--------------------------------------------------------------------------------
(***************************************************************************)
(* The tables change.                                                      *)
(***************************************************************************)
Total(f) ==
  LET upTo[n \in 0 .. LastPk] == IF n = 0 THEN 0 ELSE f[n] + upTo[n - 1] IN upTo[LastPk]

\* What a change does to the list that is being read.
Watch ==
  LET q == walk.query
      lost == [n \in Alerts |->
                 LET gone == Copies(q, n, listing, matched) - Copies(q, n, listing', matched')
                 IN IF gone > 0 THEN gone ELSE 0]
  IN /\ left' = IF walk.step = "idle" THEN 0 ELSE left + Total(lost)
     /\ steady' = {n \in steady : Copies(q, n, listing', matched') > 0}
     /\ kept' = kept \cap located'
     /\ UNCHANGED walk

\* Ingestion: the alert, later its infos and its divisions.
IngestAlert(n) ==
  /\ listing[n] = "absent" /\ FeedOfAlert[n] \in feedRows
  /\ listing' = [listing EXCEPT ![n] = "active"]
  /\ UNCHANGED <<matched, located, feedRows, placeRows, removed>>
  /\ Watch

IngestInfo(n) ==
  /\ listing[n] \in {"active", "expired"} /\ matched[n] < MatchingInfos[n]
  /\ matched' = [matched EXCEPT ![n] = @ + 1]
  /\ UNCHANGED <<listing, located, feedRows, placeRows, removed>>
  /\ Watch

IngestPlaces(n) ==
  /\ listing[n] \in {"active", "expired"}
  /\ located' = located \cup ({n} \X (PlacesOfAlert[n] \cap placeRows))
  /\ located' # located
  /\ UNCHANGED <<listing, matched, feedRows, placeRows, removed>>
  /\ Watch

\* tag_expired_alerts, or a Cancel.
ExpireAlert(n) ==
  /\ listing[n] = "active"
  /\ listing' = [listing EXCEPT ![n] = "expired"]
  /\ UNCHANGED <<matched, located, feedRows, placeRows, removed>>
  /\ Watch

\* The admin site deletes a feed, and with it its alerts, or a division.
RemoveFeed(f) ==
  /\ f \in feedRows
  /\ feedRows' = feedRows \ {f}
  /\ listing' = [n \in Alerts |-> IF FeedOfAlert[n] = f /\ listing[n] # "absent"
                                  THEN "gone" ELSE listing[n]]
  /\ matched' = [n \in Alerts |-> IF FeedOfAlert[n] = f THEN 0 ELSE matched[n]]
  /\ located' = {p \in located : FeedOfAlert[p[1]] # f}
  /\ removed' = TRUE
  /\ UNCHANGED placeRows
  /\ Watch

RemovePlace(d) ==
  /\ d \in placeRows
  /\ placeRows' = placeRows \ {d}
  /\ located' = {p \in located : p[2] # d}
  /\ removed' = TRUE
  /\ UNCHANGED <<listing, matched, feedRows>>
  /\ Watch

--------------------------------------------------------------------------------
(***************************************************************************)
(* A request.                                                              *)
(***************************************************************************)
Tables == <<listing, matched, located, feedRows, placeRows>>

Ask(q, asked) ==
  /\ walk.step = "idle"
  /\ walk' = [NoWalk EXCEPT !.step = "items", !.query = q, !.limit = Limit(asked)]
  /\ left' = 0
  /\ steady' = {n \in Alerts : Copies(q, n, listing, matched) > 0}
  /\ UNCHANGED <<Tables, kept, removed>>

ReadItems ==
  /\ walk.step = "items"
  /\ LET rows == Page(Rows(walk.query), walk.offset, walk.limit)
         page == {rows[i] : i \in DOMAIN rows} IN
     walk' = [walk EXCEPT !.step = "feeds", !.page = page, !.full = Len(rows) = walk.limit,
                          !.seen = @ \cup page]
  /\ kept' = {p \in located : p[1] \in walk'.page}
  /\ removed' = FALSE
  /\ UNCHANGED <<Tables, left, steady>>

\* load_feed: a row that has gone is a KeyError, and the request has no answer.
LoadFeed ==
  /\ walk.step = "feeds"
  /\ walk' = [walk EXCEPT !.step =
       IF \A n \in walk.page : FeedOfAlert[n] \in feedRows THEN "relation" ELSE "failed"]
  /\ UNCHANGED <<Tables, left, steady, kept, removed>>

\* AlertAdmin1 rows of the page, by division.
RelationMap == {p \in located : p[1] \in walk.page}

LoadRelation ==
  /\ walk.step = "relation"
  /\ walk' = [walk EXCEPT !.step = "places", !.relation = RelationMap]
  /\ UNCHANGED <<Tables, left, steady, kept, removed>>

\* The divisions, by a query that evaluates the relation again.
Admin1Map == {d \in placeRows : \E n \in walk.page : <<n, d>> \in located}

\* load_admin1s_by_alert, its second query.
LoadPlaces ==
  /\ walk.step = "places"
  /\ walk' = IF \A p \in walk.relation : p[2] \in Admin1Map
             THEN [walk EXCEPT !.step = IF walk.full THEN "items" ELSE "done",
                               !.offset = IF walk.full THEN @ + walk.limit ELSE @,
                               !.answered = walk.relation]
             ELSE [walk EXCEPT !.step = "failed"]
  /\ UNCHANGED <<Tables, left, steady, kept, removed>>

QueriesNext ==
  \/ \E n \in Alerts : IngestAlert(n) \/ IngestInfo(n) \/ IngestPlaces(n) \/ ExpireAlert(n)
  \/ \E f \in Feeds : RemoveFeed(f)
  \/ \E d \in Places : RemovePlace(d)
  \/ \E q \in Query, asked \in SomeLimits : Ask(q, asked)
  \/ ReadItems \/ LoadFeed \/ LoadRelation \/ LoadPlaces

QueriesSpec == QueriesInit /\ [][QueriesNext]_queriesVars

--------------------------------------------------------------------------------
\* A client that reads all pages misses an alert that was in the list all the
\* time only if others left it meanwhile, and no more rows than those that left:
\* alerts that arrive, get their infos or expire never push one past the reader.
WalkMissesForLeavers ==
  LET missed == [n \in Alerts |-> IF n \in steady \ walk.seen THEN 1 ELSE 0] IN
  walk.step = "done" => Total(missed) <= left

\* A request fails as a whole, for one alert or division that it does not find
\* again, only if something was deleted while it was served.
FailsOnlyOnRemoval == walk.step = "failed" => removed

\* A request that is answered gives each alert of its page the divisions it had
\* when the page was read, save those deleted since.
AnswersKeptPlaces == walk.step \in {"items", "done"} => kept \subseteq walk.answered

\* Who reads the pages of a list gets what was in it all the time, with its
\* divisions, whatever ingestion and expiry do between two pages or two queries of a
\* page; only deletions and rows that leave the list take something away
\* (apply_pagination, load_feed, load_admin1s_by_alert).
WalksAreWhole == WalkMissesForLeavers /\ FailsOnlyOnRemoval /\ AnswersKeptPlaces

--------------------------------------------------------------------------------
(***************************************************************************)
(* What makes these inductive (Data_proofs).                               *)
(***************************************************************************)
\* The place of the last row of n in a list that has c[k] rows of each alert k.
End(c, n) == Total([k \in Alerts |-> IF k >= n THEN c[k] ELSE 0])

\* The list that is being read has so many rows of each alert.
CopiesNow == [n \in Alerts |-> Copies(walk.query, n, listing, matched)]

Serving == {"feeds", "relation", "places"}

\* An alert that is shown has its feed; what is read of the tables has its type.
TablesHold ==
  /\ matched \in [Alerts -> Nat] /\ left \in Nat
  /\ \A n \in Alerts : listing[n] \in {"active", "expired"} => FeedOfAlert[n] \in feedRows
  /\ walk \in [step : {"idle", "items", "failed", "done"} \cup Serving, query : Query,
               limit : Nat, offset : Nat, page : SUBSET Alerts, full : BOOLEAN,
               relation : SUBSET (Alerts \X Places), seen : SUBSET Alerts,
               answered : SUBSET (Alerts \X Places)]

\* The steady alerts that pages up to a row should have had, and have not.
Unseen(stop) == {n \in steady \ walk.seen : End(CopiesNow, n) <= stop}

\* No more of them than rows that left, at every step of the walk.
UnseenForLeavers ==
  /\ walk.step = "idle" => steady = {}
  /\ \A n \in steady : CopiesNow[n] > 0
  /\ walk.step = "items" => Cardinality(Unseen(walk.offset)) <= left
  /\ walk.step \in Serving /\ walk.full => Cardinality(Unseen(walk.offset + walk.limit)) <= left
  /\ walk.step \in Serving /\ ~walk.full => Cardinality(steady \ walk.seen) <= left
  /\ walk.step = "done" => Cardinality(steady \ walk.seen) <= left

\* What the data loaders rely on between two of their queries.
PageHolds ==
  /\ walk.step = "idle" => kept = {}
  /\ walk.step \in Serving =>
       /\ \A p \in kept : p[1] \in walk.page
       /\ ~removed => \A n \in walk.page : FeedOfAlert[n] \in feedRows
  /\ walk.step = "places" =>
       /\ kept \subseteq walk.relation
       /\ \A p \in walk.relation : p[1] \in walk.page
       /\ ~removed => walk.relation \subseteq located

QueriesInv ==
  /\ QueriesTypeOK /\ TablesHold /\ UnseenForLeavers /\ PageHolds
  /\ FailsOnlyOnRemoval /\ AnswersKeptPlaces

================================================================================
