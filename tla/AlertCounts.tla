------------------------------ MODULE AlertCounts ------------------------------
(***************************************************************************)
(* The numbers of the map: allCountries and the divisions of a country,    *)
(* with the alerts that a filter leaves in each (apps/cap_feed/queries.py, *)
(* types.py) and all the active alerts of each (dataloaders.py), while the *)
(* tables change as in AlertQueries.                                       *)
(*                                                                         *)
(* A request is three queries: the filtered counts, the rows of the places *)
(* that have one, the total counts.  A place is a country or a division; a *)
(* country is taken for its only feed.  The order of the answer is left    *)
(* out.                                                                    *)
(***************************************************************************)
EXTENDS AlertQueries

VARIABLES
  tally,     \* the request and what it has read
  members,   \* history: pairs of an alert and a place, when the alerts were counted
  departed   \* history: those of them that have ceased to be since

countsVars == <<queriesVars, tally, members, departed>>

Kind == {"countries", "divisions"}
NoTally == [step |-> "idle", kind |-> "countries", filtered |-> FALSE, withEmpty |-> FALSE,
            count |-> <<>>, listed |-> {}, total |-> <<>>]

PlacesOf(kind) == IF kind = "countries" THEN Feeds ELSE Places
RowsOf(kind) == IF kind = "countries" THEN feedRows ELSE placeRows

CountsTypeOK ==
  /\ tally.step \in {"idle", "rows", "totals", "done"} /\ tally.kind \in Kind
  /\ DOMAIN tally.count \subseteq PlacesOf(tally.kind)
  /\ \A p \in DOMAIN tally.count : tally.count[p] \in 1 .. LastPk
  /\ tally.listed \subseteq DOMAIN tally.count
  /\ tally.step = "done" => DOMAIN tally.total = tally.listed
  /\ departed \subseteq members

CountsInit == QueriesInit /\ tally = NoTally /\ members = {} /\ departed = {}

--------------------------------------------------------------------------------
\* Alert.country and AlertAdmin1.
InPlace(kind, n, p) == IF kind = "countries" THEN FeedOfAlert[n] = p ELSE <<n, p>> \in located

Active == [active |-> TRUE, filtered |-> FALSE, distinct |-> FALSE]
Filter(filtered) == [active |-> TRUE, filtered |-> filtered, distinct |-> FALSE]

\* Sensitivity variant: the rows of the joined queryset are counted.
CountOfJoin(kind, filtered, p) ==
  Total([n \in Alerts |-> IF InPlace(kind, n, p)
                          THEN Copies(Filter(filtered), n, listing, matched) ELSE 0])

\* pk__in=alert_queryset.values('id'): an alert counts once.
CountIn(kind, filtered, p) ==
  Cardinality({n \in Alerts : InPlace(kind, n, p)
                              /\ Copies(Filter(filtered), n, listing, matched) > 0})

\* GROUP BY gives no row for a place without alerts.
FilteredCounts(kind, filtered) ==
  [p \in {r \in PlacesOf(kind) : CountIn(kind, filtered, r) > 0} |-> CountIn(kind, filtered, p)]

\* What the list of the same filter, free of duplicates, has in a place.
InList(kind, filtered) ==
  LET rows == Rows([Filter(filtered) EXCEPT !.distinct = TRUE])
  IN {m \in {rows[i] : i \in DOMAIN rows} \X PlacesOf(kind) : InPlace(kind, m[1], m[2])}

ReadCounts(kind, filtered, withEmpty) ==
  /\ tally.step = "idle"
  /\ tally' = [NoTally EXCEPT !.step = "rows", !.kind = kind, !.filtered = filtered,
                              !.withEmpty = withEmpty, !.count = FilteredCounts(kind, filtered)]
  /\ members' = InList(kind, filtered) /\ departed' = {}
  /\ UNCHANGED queriesVars

\* queryset.filter(pk__in=filtered_alert_count_map.keys()): a place without alerts
\* is not read, asked for or not.
ReadPlaces ==
  /\ tally.step = "rows"
  /\ tally' = [tally EXCEPT !.step = "totals",
       !.listed = {p \in DOMAIN tally.count \cap RowsOf(tally.kind) :
                     tally.withEmpty \/ tally.count[p] > 0}]
  /\ UNCHANGED <<queriesVars, members, departed>>

\* load_alert_count_by_country, load_alert_count_by_admin1.
Totals(kind, keys) == [p \in keys |-> CountIn(kind, FALSE, p)]

ReadTotals ==
  /\ tally.step = "totals"
  /\ tally' = [tally EXCEPT !.step = "done", !.total = Totals(tally.kind, tally.listed)]
  /\ UNCHANGED <<queriesVars, members, departed>>

TablesChange ==
  /\ tally.step # "done"
  /\ \/ \E n \in Alerts : IngestAlert(n) \/ IngestInfo(n) \/ IngestPlaces(n) \/ ExpireAlert(n)
     \/ \E f \in Feeds : RemoveFeed(f)
     \/ \E d \in Places : RemovePlace(d)
  /\ departed' = departed \cup {m \in members :
                   \/ listing'[m[1]] # "active"
                   \/ tally.kind = "divisions" /\ m \notin located'}
  /\ UNCHANGED <<tally, members>>

CountsNext ==
  \/ TablesChange
  \/ \E kind \in Kind, filtered, withEmpty \in BOOLEAN : ReadCounts(kind, filtered, withEmpty)
  \/ ReadPlaces \/ ReadTotals

CountsSpec == CountsInit /\ [][CountsNext]_countsVars

--------------------------------------------------------------------------------
\* The map and the list agree: a place is given the number of alerts that the
\* list with the same filter had in it, however many infos of an alert match, and
\* a place is left out only with all its alerts, or for its own deletion.
MapAgreesWithList ==
  tally.step = "done" =>
    \A p \in PlacesOf(tally.kind) :
      LET counted == {m \in members : m[2] = p} IN
      /\ p \in tally.listed => tally.count[p] = Cardinality(counted)
      /\ p \notin tally.listed => counted \subseteq departed

\* The alerts that match are never more than all those of the place, which are
\* counted later, save for alerts that left it between the two queries.
FilteredWithinTotal ==
  tally.step = "done" =>
    \A p \in tally.listed :
      tally.count[p] <= tally.total[p] + Cardinality({m \in departed : m[2] = p})

\* The numbers of the map agree with the list, and with each other (allCountries and
\* admin1s, against load_alert_count_by_country and load_alert_count_by_admin1).
NumbersAgree == MapAgreesWithList /\ FilteredWithinTotal

--------------------------------------------------------------------------------
(***************************************************************************)
(* What makes these inductive (Data_proofs).                               *)
(***************************************************************************)
\* The pairs of a place, of all those that were counted.
At(pairs, p) == {m \in pairs : m[2] = p}

\* The counts are of the members, and members are in their place until they depart.
MembersHold ==
  /\ members \subseteq Alerts \X PlacesOf(tally.kind)
  /\ tally.step # "idle" =>
       tally.count = [p \in {m[2] : m \in members} |-> Cardinality(At(members, p))]
  /\ tally.step \in {"rows", "totals"} =>
       \A m \in members \ departed : listing[m[1]] = "active" /\ InPlace(tally.kind, m[1], m[2])

\* A place that the second query did not find has lost its alerts.
PlacesHold ==
  tally.step \in {"totals", "done"} =>
    \A p \in PlacesOf(tally.kind) \ tally.listed : At(members, p) \subseteq departed

CountsInv ==
  /\ QueriesInv /\ CountsTypeOK
  /\ DOMAIN tally = DOMAIN NoTally /\ tally.filtered \in BOOLEAN /\ tally.withEmpty \in BOOLEAN
  /\ MembersHold /\ PlacesHold /\ FilteredWithinTotal

================================================================================
