------------------------------ MODULE FeedReaders ------------------------------
(***************************************************************************)
(* The three feed readers (get_alerts_rss, get_alerts_atom and             *)
(* get_alerts_nws_us), entry by entry, in the order of the feed: which     *)
(* entries a poll takes, which document it fetches for them, what it       *)
(* reports (alert_urls, polled_alerts_count, valid_poll) and what          *)
(* get_alerts keeps of it.  Feeds may list the same alerts, and their      *)
(* polls run at the same time.                                             *)
(*                                                                         *)
(* The steps inside process_alert are those of AlertIngest; here it        *)
(* inserts the row of the alert, and then succeeds or raises.              *)
(***************************************************************************)
EXTENDS Integers, Sequences, FiniteSets

CONSTANTS
  PolledOf,      \* [poller -> the format of its feed]
  ListingsOf,    \* [poller -> the listings that its feed may answer with]
  NoEntry,       \* model value
  MaxRemovals    \* bound of the alerts and records that are removed

Poller == DOMAIN PolledOf

(***************************************************************************)
(* An entry: the text that becomes Alert.url, that of <link> in an rss     *)
(* feed and that of <id> in the others, and its <atom:link> elements.      *)
(* "none" is an element or attribute that is missing, and a text that is   *)
(* no url begins with no scheme.                                           *)
(***************************************************************************)
Text == {"none", "text", "url1", "url2"}
IsUrl(t) == t \in {"url1", "url2"}
AtomLink == [type: {"cap", "common", "other"}, enclosure: BOOLEAN, href: Text, suffix: BOOLEAN]
FeedEntry == [key: Text, links: Seq(AtomLink)]

ASSUME ReadersAssumption ==
  /\ \A p \in Poller : /\ PolledOf[p] \in {"rss", "atom", "nws_us"}
                       /\ \A l \in ListingsOf[p] : l \in Seq(FeedEntry)
  /\ MaxRemovals \in Nat

VARIABLES
  polls,        \* [Poller -> its poll]
  allAlertUrls, \* [Poller -> all_alert_urls of its process: a default argument, made once]
  alertUrls,    \* Alert.url
  recordUrls,   \* ProcessedAlert.url
  brought,      \* history: [Poller -> texts whose alert its process ingested and recorded]
  reported,     \* history: [Poller -> what its polls that are over counted, all together]
  removals,     \* history: how many alerts and records were removed
  forgotten     \* history: how many records were removed

readersVars == <<polls, allAlertUrls, alertUrls, recordUrls, brought, reported,
                 removals, forgotten>>

NotPolling == [step |-> "idle", rest |-> <<>>, entry |-> NoEntry,
               urls |-> {}, count |-> 0, valid |-> FALSE]

ReadersTypeOK ==
  /\ \A p \in Poller :
       /\ polls[p].step \in {"idle", "entry", "fetch", "process", "record"}
       /\ polls[p].rest \in Seq(FeedEntry)
       /\ polls[p].step \in {"fetch", "process", "record"} => polls[p].entry \in FeedEntry
       /\ polls[p].urls \cup allAlertUrls[p] \cup brought[p] \subseteq Text \ {"none"}
       /\ polls[p].count \in Nat /\ polls[p].valid \in BOOLEAN /\ reported[p] \in Nat
  /\ alertUrls \cup recordUrls \subseteq Text \ {"none"}
  /\ removals \in 0 .. MaxRemovals /\ forgotten \in 0 .. removals

ReadersInit ==
  /\ polls = [p \in Poller |-> NotPolling]
  /\ allAlertUrls = [p \in Poller |-> {}]
  /\ alertUrls = {} /\ recordUrls = {}
  /\ brought = [p \in Poller |-> {}] /\ reported = [p \in Poller |-> 0]
  /\ removals = 0 /\ forgotten = 0

--------------------------------------------------------------------------------
(***************************************************************************)
(* find_cap_link.                                                          *)
(***************************************************************************)
IsEnclosure(l) == l.enclosure
LooksLikeCap(l) == l.href # "none" /\ l.suffix

Foremost(places) == CHOOSE i \in places : \A j \in places : i <= j

\* A loop over the links for each test, which returns at the first link that holds.
FindCapLink(links) ==
  LET OfType(t) == {i \in DOMAIN links : links[i].type = t}
      loops == <<OfType("cap"), OfType("common"), {i \in DOMAIN links : IsEnclosure(links[i])},
                 {i \in DOMAIN links : LooksLikeCap(links[i])}, DOMAIN links>>
      hit == Foremost({k \in 1 .. 5 : loops[k] # {}})
  IN IF links = <<>> THEN "none" ELSE links[Foremost(loops[hit])].href

--------------------------------------------------------------------------------
(***************************************************************************)
(* A poll.                                                                 *)
(***************************************************************************)
\* The feed answers with a listing; a request that fails ends the poll at once.
BeginPoll(p) ==
  /\ polls[p].step = "idle"
  /\ \E listing \in ListingsOf[p] :
       polls' = [polls EXCEPT ![p] = [NotPolling EXCEPT !.step = "entry", !.rest = listing]]
  /\ UNCHANGED <<allAlertUrls, alertUrls, recordUrls, brought, reported, removals, forgotten>>

\* The text that is looked up, and the place where the document is.
DocumentOf(p, e) == IF PolledOf[p] = "nws_us" THEN FindCapLink(e.links) ELSE e.key

\* The entry misses an element: an exception, that the loop drops.
EntryRaises(p, e) == e.key = "none" \/ DocumentOf(p, e) = "none"

\* The test of validators.url, of the key itself or of the link.
TakesEntry(p, e) == ~EntryRaises(p, e) /\ IsUrl(DocumentOf(p, e))

InTables(u) == u \in recordUrls \/ u \in alertUrls

\* alert_urls.add(url)
NotedUrls(p, e) == polls[p].urls \cup {e.key}

NextEntry(p) ==
  /\ polls[p].step = "entry" /\ polls[p].rest # <<>>
  /\ LET e == polls[p].rest[1]
         next == [polls[p] EXCEPT !.rest = Tail(@)]
     IN polls' = [polls EXCEPT ![p] =
          IF ~TakesEntry(p, e) THEN next
          ELSE IF InTables(e.key) THEN [next EXCEPT !.urls = NotedUrls(p, e)]
          ELSE [next EXCEPT !.urls = NotedUrls(p, e), !.step = "fetch", !.entry = e]]
  /\ UNCHANGED <<allAlertUrls, alertUrls, recordUrls, brought, reported, removals, forgotten>>

\* valid_poll, once set, stays.
StillValid(p, valid) == polls[p].valid \/ valid

\* The loop goes on with the next entry; valid, if this one raised nothing and
\* was not left by a 'continue'.
Leave(p, valid, counted) ==
  [polls[p] EXCEPT !.step = "entry", !.entry = NoEntry,
                   !.valid = StillValid(p, valid), !.count = @ + counted]

\* fetch_alert_using_url: the request raises, or there is no document in it.
FetchFails(p) ==
  /\ polls[p].step = "fetch"
  /\ polls' = [polls EXCEPT ![p] = Leave(p, FALSE, 0)]
  /\ UNCHANGED <<allAlertUrls, alertUrls, recordUrls, brought, reported, removals, forgotten>>

\* create_alert: another poll has inserted the url, the document is not an actual
\* alert, or it raises: get_alert logs that and returns False, if it is one of the
\* three exceptions that it catches.
NotCreated(p) ==
  /\ polls[p].step = "fetch"
  /\ \E caught \in BOOLEAN : polls' = [polls EXCEPT ![p] = Leave(p, caught, 0)]
  /\ UNCHANGED <<allAlertUrls, alertUrls, recordUrls, brought, reported, removals, forgotten>>

CreateRow(p) ==
  /\ polls[p].step = "fetch" /\ polls[p].entry.key \notin alertUrls
  /\ alertUrls' = alertUrls \cup {polls[p].entry.key}
  /\ polls' = [polls EXCEPT ![p].step = "process"]
  /\ UNCHANGED <<allAlertUrls, recordUrls, brought, reported, removals, forgotten>>

\* It raises after the insertion: the row stays, without a record.
ProcessRaises(p) ==
  /\ polls[p].step = "process"
  /\ \E caught \in BOOLEAN : polls' = [polls EXCEPT ![p] = Leave(p, caught, 0)]
  /\ UNCHANGED <<allAlertUrls, alertUrls, recordUrls, brought, reported, removals, forgotten>>

Processed(p) ==
  /\ polls[p].step = "process"
  /\ polls' = [polls EXCEPT ![p].step = "record"]
  /\ UNCHANGED <<allAlertUrls, alertUrls, recordUrls, brought, reported, removals, forgotten>>

\* Sensitivity variant: every alert that came to an end is counted.
CountedAnyway(u) == 1

\* The finally clause of get_alert: a record that exists is an IntegrityError of
\* its own, it leaves get_alert and the alert is not counted.
Counted(u) == IF u \in recordUrls THEN 0 ELSE 1

RecordAlert(p) ==
  LET u == polls[p].entry.key IN
  /\ polls[p].step = "record"
  /\ recordUrls' = recordUrls \cup {u}
  /\ polls' = [polls EXCEPT ![p] = Leave(p, u \notin recordUrls, Counted(u))]
  /\ brought' = [brought EXCEPT ![p] = IF u \in recordUrls THEN @ ELSE @ \cup {u}]
  /\ UNCHANGED <<allAlertUrls, alertUrls, reported, removals, forgotten>>

\* The reader returns, and get_alerts.
FinishPoll(p) ==
  /\ polls[p].step = "entry" /\ polls[p].rest = <<>>
  /\ allAlertUrls' = [allAlertUrls EXCEPT ![p] =
       IF polls[p].valid THEN @ \cup polls[p].urls ELSE @]
  /\ polls' = [polls EXCEPT ![p] = NotPolling]
  /\ reported' = [reported EXCEPT ![p] = @ + polls[p].count]
  /\ UNCHANGED <<alertUrls, recordUrls, brought, removals, forgotten>>

\* The admin site deletes an alert.
RemoveAlertRow(u) ==
  /\ u \in alertUrls /\ removals < MaxRemovals
  /\ alertUrls' = alertUrls \ {u}
  /\ removals' = removals + 1
  /\ UNCHANGED <<polls, allAlertUrls, recordUrls, brought, reported, forgotten>>

\* remove_expired_alert_records.
ForgetRecord(u) ==
  /\ u \in recordUrls /\ removals < MaxRemovals
  /\ recordUrls' = recordUrls \ {u}
  /\ removals' = removals + 1 /\ forgotten' = forgotten + 1
  /\ UNCHANGED <<polls, allAlertUrls, alertUrls, brought, reported>>

ReadersNext ==
  \/ \E p \in Poller :
       \/ BeginPoll(p) \/ NextEntry(p) \/ FetchFails(p) \/ NotCreated(p)
       \/ CreateRow(p) \/ ProcessRaises(p) \/ Processed(p) \/ RecordAlert(p) \/ FinishPoll(p)
  \/ \E u \in alertUrls : RemoveAlertRow(u)
  \/ \E u \in recordUrls : ForgetRecord(u)

--------------------------------------------------------------------------------
(***************************************************************************)
(* Correctness.                                                            *)
(***************************************************************************)
ReadersSpec == ReadersInit /\ [][ReadersNext]_readersVars

\* What find_cap_link says of its order: a CAP media type, the usual one first,
\* then an enclosure, then a suffix, then any link.
LinkRank(l) ==
  CASE l.type = "cap" -> 1
    [] l.type = "common" -> 2
    [] l.type = "other" /\ l.enclosure -> 3
    [] l.type = "other" /\ ~l.enclosure -> IF l.suffix /\ l.href # "none" THEN 4 ELSE 5

\* The document that is fetched for an entry of an nws_us feed is that of the
\* first of its best links (find_cap_link).
FetchesBestLink ==
  \A p \in Poller : polls[p].step = "fetch" /\ PolledOf[p] = "nws_us" =>
    LET links == polls[p].entry.links IN
    \E i \in DOMAIN links :
      /\ links[i].href = DocumentOf(p, polls[p].entry)
      /\ \A j \in DOMAIN links : \/ LinkRank(links[i]) < LinkRank(links[j])
                                 \/ LinkRank(links[i]) = LinkRank(links[j]) /\ i <= j

\* What polls have counted, those that are over and the others: one element each.
InReports == UNION {{p} \X (1 .. reported[p] + polls[p].count) : p \in Poller}

\* The numbers of alerts that polls report add up to the records of alerts, those
\* that have expired included: none is reported twice and none left out, whatever
\* polls overlap (the counter of the readers, against the record that get_alert
\* writes in its finally clause).
PollsAddUp == Cardinality(InReports) = Cardinality(recordUrls) + forgotten

\* Once a poll is over, the alerts it ingested are in all_alert_urls, whatever
\* failed after them in the same poll (valid_poll of the readers, get_alerts).
BroughtIsKept ==
  \A p \in Poller : polls[p].step = "idle" => brought[p] \subseteq allAlertUrls[p]

\* What a poll does and says is right: the document it fetches, the number it
\* reports and the urls it keeps (get_alerts_rss, get_alerts_atom,
\* get_alerts_nws_us and get_alerts).
PollsAreRight == FetchesBestLink /\ PollsAddUp /\ BroughtIsKept

================================================================================
