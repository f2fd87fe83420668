------------------------------ MODULE FeedChecker ------------------------------
(***************************************************************************)
(* The command check_feed_formats and the log it quotes, FeedLog: one run  *)
(* reads the feeds, fetches their indexes concurrently, reads the stored   *)
(* alerts and the logs, and reports.  The pollers, the expiry tasks and    *)
(* the log go on meanwhile.                                                *)
(*                                                                         *)
(* An index is reduced to what the verdicts and the feed readers look at,  *)
(* a report to its verdicts, its hints and what it says of the database;   *)
(* layout, timings and the progress line are left out.                     *)
(* A record of FeedLog is kept for its feed and its time only, under the   *)
(* pair (alert_url, description) that the unique constraint is about.      *)
(***************************************************************************)
EXTENDS Integers, Sequences, FiniteSets

CONSTANTS
  CheckedFeed, FormatOf,   \* FormatOf \in [CheckedFeed -> {"rss", "atom", "nws_us"}]
  PolledFeed,       \* feeds with enable_polling
  Options,          \* of the command line, sets of "skip_db", "strict" and "deep"
  Response,         \* [CheckedFeed -> the answers that the feed may give]
  LogKey,           \* pairs (alert_url, description)
  NoLog, NoAnswer,  \* model values
  concurrency,      \* of the command line, any integer
  Retention,        \* the two weeks of FeedLog.save
  LastTime          \* bound of the clock

\* parse_index_datetime: both notations of a date may leave out the time zone.
Date == {"none", "aware", "naive"}

Entry == [tag: {"item", "entry"}, placed: BOOLEAN, date: Date,
          id: {"none", "urn", "url"}, link: {"none", "urn", "url"}]

\* doc: what the first alert of the index answers with, and the date it was sent.
Index == [body: {"none", "empty", "broken", "xml"}, root: {"rss", "feed", "other"},
          updated: Date, entries: Seq(Entry),
          doc: [kind: {"none", "broken", "other", "alert"}, sent: Date]]

ASSUME CheckerAssumption ==
  /\ FormatOf \in [CheckedFeed -> {"rss", "atom", "nws_us"}]
  /\ \A f \in CheckedFeed : Response[f] \subseteq Index
  /\ PolledFeed \subseteq CheckedFeed /\ Options \subseteq SUBSET {"skip_db", "strict", "deep"}
  /\ concurrency \in Int /\ Retention \in Nat /\ LastTime \in Nat

VARIABLES
  clock,
  stored,   \* [CheckedFeed -> Stored], its rows of Alert and ProcessedAlert
  logs,     \* [LogKey -> record of FeedLog or NoLog]
  run,      \* the command: its step, options, the feeds it read and what it read of them
  answer,   \* [CheckedFeed -> what the feed answered, in this run]
  sawRows, sawNone, sawNothing  \* history: feeds seen, during the run, with Alert rows,
                                \* without, and without ProcessedAlert rows either

seen == <<sawRows, sawNone, sawNothing>>
checkerVars == <<clock, stored, logs, run, answer, seen>>

\* "processed": rows of ProcessedAlert only; "live": an alert that has not expired.
Stored == {"nothing", "processed", "live", "expired"}
WithRows == {"live", "expired"}

Log == [feed: CheckedFeed, at: 0 .. LastTime]
NotRun == [step |-> "off", options |-> {}, feeds |-> {},
           hasAlerts |-> {}, hasProcessed |-> {}, fetching |-> {}, live |-> {},
           logCount |-> [f \in CheckedFeed |-> 0], verdict |-> <<>>, hint |-> <<>>,
           failed |-> FALSE]

CheckerTypeOK ==
  /\ clock \in 0 .. LastTime
  /\ stored \in [CheckedFeed -> Stored]
  /\ logs \in [LogKey -> Log \cup {NoLog}]
  /\ run.step \in {"off", "fetch", "latest", "logs", "report", "done"}
  /\ run.feeds \subseteq CheckedFeed
  /\ run.hasAlerts \cup run.hasProcessed \cup run.live \subseteq run.feeds
  /\ run.fetching \subseteq run.feeds
  /\ run.step = "done" => DOMAIN run.verdict = run.feeds
  /\ \A f \in CheckedFeed : answer[f] \in Response[f] \cup {NoAnswer}
  /\ sawRows \cup sawNone \subseteq CheckedFeed /\ sawNothing \subseteq sawNone

CheckerInit ==
  /\ clock = 0
  /\ stored \in [CheckedFeed -> Stored]
  /\ logs = [k \in LogKey |-> NoLog]
  /\ run = NotRun
  /\ answer = [f \in CheckedFeed |-> NoAnswer]
  /\ sawRows = {} /\ sawNone = {} /\ sawNothing = {}

--------------------------------------------------------------------------------
(***************************************************************************)
(* What the configured reader finds in an index (apps/cap_feed/formats).   *)
(***************************************************************************)
TagOf(format) == IF format = "rss" THEN "item" ELSE "entry"

\* findall, of the root or its channel: the children with a tag.
FindAll(d, tag) == SelectSeq(d.entries, LAMBDA e : e.tag = tag /\ e.placed)

\* The entries it goes through.
Visited(format, d) == IF d.body # "xml" THEN <<>> ELSE FindAll(d, TagOf(format))

\* Those it takes a url from.
Readable(format, e) ==
  CASE format = "rss" -> e.link = "url"
    [] format = "atom" -> e.id = "url"
    [] format = "nws_us" -> e.id # "none" /\ e.link = "url"

(***************************************************************************)
(* What the command says of it.                                            *)
(***************************************************************************)
RootOf(format) == IF format = "rss" THEN "rss" ELSE "feed"

CountEntries(format, d) == Len(FindAll(d, TagOf(format)))

\* The first entry of an atom index decides for all of them.
RequiresCapLink(d) ==
  LET entries == FindAll(d, "entry") IN entries # <<>> /\ entries[1].id # "url"

\* read_index_meta: the dates of the index; './/item' finds items anywhere.
Dates(d) ==
  LET dated == {i \in DOMAIN d.entries :
                  IF d.root = "rss" THEN d.entries[i].tag = "item"
                  ELSE d.entries[i].tag = "entry" /\ d.entries[i].placed}
  IN {d.updated} \cup {d.entries[i].date : i \in dated}

\* max and format_age compare a date with others and with now: TypeError for one
\* without a time zone.
Uncomparable(dates) == "naive" \in dates

\* first_alert_link: the place where the reader of the format looks.
FirstAlertLink(format, d) ==
  LET entries == Visited(format, d) IN
  IF entries = <<>> THEN "none"
  ELSE IF format = "atom" THEN entries[1].id ELSE entries[1].link

\* describe_cap_alert: every missing field is left out of the summary, a date
\* without a time zone has no age.
DescribeRaises(doc) == Uncomparable({doc.sent})

\* deep_check: whatever else the document is becomes a line of the report.
DeepRaises(format, d) ==
  FirstAlertLink(format, d) = "url" /\ d.doc.kind = "alert" /\ DescribeRaises(d.doc)

\* STRUCTURE_TO_FORMATS; an atom reader needs ids that are urls.
Mismatch(format, d) ==
  \/ d.root # RootOf(format)
  \/ format = "atom" /\ RequiresCapLink(d)

\* check_feed and analyse_response; run_one reports an exception as UNREACHABLE.
CheckFeed(format, deep, d) ==
  CASE d.body = "none" -> "UNREACHABLE"
    [] d.body = "empty" -> "EMPTY"
    [] d.body = "broken" -> "INVALID_XML"
    [] d.body = "xml" /\ d.root = "other" -> "UNKNOWN_STRUCTURE"
    [] OTHER ->
         CASE Uncomparable(Dates(d)) -> "UNREACHABLE"
           [] ~Uncomparable(Dates(d)) /\ Mismatch(format, d) -> "MISMATCH"
           [] OTHER -> IF CountEntries(format, d) = 0 THEN "EMPTY"
                       ELSE IF deep /\ DeepRaises(format, d) THEN "UNREACHABLE" ELSE "OK"

--------------------------------------------------------------------------------
\* Alerts come and go while the command runs: an alert is stored before it is
\* processed, and both rows are deleted one day.
See(s) ==
  /\ sawRows' = sawRows \cup {f \in run.feeds : s[f] \in WithRows}
  /\ sawNone' = sawNone \cup {f \in run.feeds : s[f] \notin WithRows}
  /\ sawNothing' = sawNothing \cup {f \in run.feeds : s[f] = "nothing"}

AlertsChange(f, s) ==
  /\ run.step # "done" /\ stored[f] # s
  /\ s = "expired" => stored[f] = "live"
  /\ s = "processed" => stored[f] \in WithRows
  /\ stored' = [stored EXCEPT ![f] = s]
  /\ See(stored')
  /\ UNCHANGED <<clock, logs, run, answer>>

\* FeedLog.save prunes the old records of this feed.
Pruned(f, k) ==
  [j \in LogKey |-> IF logs[j] # NoLog /\ logs[j].feed = f /\ logs[j].at < clock - Retention
                    THEN NoLog ELSE logs[j]]

\* A record with the same key is left as it was, with its feed and its time
\* (IntegrityError is ignored).
SaveLog(f, k) ==
  LET kept == Pruned(f, k) IN
  /\ run.step # "done"
  /\ logs' = IF kept[k] # NoLog THEN kept ELSE [kept EXCEPT ![k] = [feed |-> f, at |-> clock]]
  /\ UNCHANGED <<clock, stored, run, answer, seen>>

CheckerTick ==
  /\ clock < LastTime /\ run.step # "done"
  /\ clock' = clock + 1
  /\ UNCHANGED <<stored, logs, run, answer, seen>>

--------------------------------------------------------------------------------
\* Sensitivity variant: the partial index on unexpired alerts.
HasLiveAlerts(f) == stored[f] = "live"

\* The annotation of get_queryset.
HasAlerts(f) == stored[f] \in WithRows

StartCommand(F, options) ==
  /\ run.step = "off" /\ F # {}
  /\ run' = [NotRun EXCEPT !.step = "fetch", !.options = options, !.feeds = F,
                           !.hasAlerts = {f \in F : HasAlerts(f)},
                           !.hasProcessed = {f \in F : stored[f] = "processed"}]
  /\ sawRows' = {f \in F : stored[f] \in WithRows}
  /\ sawNone' = F \ sawRows' /\ sawNothing' = {f \in F : stored[f] = "nothing"}
  /\ UNCHANGED <<clock, stored, logs, answer>>

\* Sensitivity variant: the option as it was given.
BareConcurrency == concurrency

Concurrency == IF concurrency > 1 THEN concurrency ELSE 1

\* run_one passes the semaphore.
BeginFetch(f) ==
  /\ run.step = "fetch" /\ f \in run.feeds \ run.fetching /\ answer[f] = NoAnswer
  /\ Cardinality(run.fetching) < Concurrency
  /\ run' = [run EXCEPT !.fetching = @ \cup {f}]
  /\ UNCHANGED <<clock, stored, logs, answer, seen>>

SkipsDb == "skip_db" \in run.options

Unanswered == {f \in run.feeds : answer[f] = NoAnswer}

\* The feed answers, is analysed and leaves the semaphore, whatever happened;
\* gather ends with the last one.
EndFetch(f, d) ==
  /\ run.step = "fetch" /\ f \in run.fetching
  /\ answer' = [answer EXCEPT ![f] = d]
  /\ run' = [run EXCEPT !.fetching = @ \ {f},
       !.step = IF Unanswered # {f} THEN "fetch" ELSE IF SkipsDb THEN "report" ELSE "latest"]
  /\ UNCHANGED <<clock, stored, logs, seen>>

\* get_latest_sent: the feeds with an alert that has not expired.
ReadLatest ==
  /\ run.step = "latest"
  /\ run' = [run EXCEPT !.step = "logs", !.live = {f \in run.feeds : stored[f] = "live"}]
  /\ UNCHANGED <<clock, stored, logs, answer, seen>>

\* get_feed_logs counts; it reads the latest log beside it, by a query of its own.
ReadLogs ==
  /\ run.step = "logs"
  /\ run' = [run EXCEPT !.step = "report",
       !.logCount = [f \in CheckedFeed |-> IF f \notin run.feeds THEN 0
                       ELSE Cardinality({k \in LogKey : logs[k] # NoLog /\ logs[k].feed = f})]]
  /\ UNCHANGED <<clock, stored, logs, answer, seen>>

\* build_reports: an OK feed without Alert rows becomes NOT_INGESTED.
FinalVerdict(f) ==
  LET verdict == CheckFeed(FormatOf[f], "deep" \in run.options, answer[f]) IN
  IF ~SkipsDb /\ verdict = "OK" /\ f \notin run.hasAlerts THEN "NOT_INGESTED" ELSE verdict

\* describe_hint, with what describe_stored_alerts says of the history.
Hint(f) ==
  CASE FinalVerdict(f) # "NOT_INGESTED" -> "none"
    [] FinalVerdict(f) = "NOT_INGESTED" /\ f \notin PolledFeed -> "polling is disabled"
    [] OTHER -> IF f \in run.hasProcessed THEN "discarded" ELSE "never ingested"

\* build_reports goes through the feeds, not through the answers.
Reported == run.feeds

Report ==
  /\ run.step = "report"
  /\ run' = [run EXCEPT !.step = "done", !.verdict = [f \in Reported |-> FinalVerdict(f)],
       !.hint = [f \in Reported |-> Hint(f)],
       !.failed = "strict" \in run.options /\ \E f \in Reported : FinalVerdict(f) # "OK"]
  /\ UNCHANGED <<clock, stored, logs, answer, seen>>

Command ==
  \/ \E f \in CheckedFeed : BeginFetch(f) \/ \E d \in Response[f] : EndFetch(f, d)
  \/ ReadLatest
  \/ ReadLogs
  \/ Report

CheckerNext ==
  \/ \E F \in SUBSET CheckedFeed, options \in Options : StartCommand(F, options)
  \/ Command
  \/ \E f \in CheckedFeed : \/ \E s \in Stored : AlertsChange(f, s)
                     \/ \E k \in LogKey : SaveLog(f, k)
  \/ CheckerTick

CheckerSpec == CheckerInit /\ [][CheckerNext]_checkerVars

\* The client has a timeout, and the process runs.
FairCheckerSpec == CheckerSpec /\ WF_checkerVars(Command)

--------------------------------------------------------------------------------
\* A feed is reported OK only if the reader of its format goes through entries
\* of the index it served: count_entries counts those "the *configured* parser
\* would discover" (check_feed_formats.py:209), and nothing else.  Of an atom
\* index the reader takes the first entry at least.
OKIsVisited ==
  run.step = "done" =>
    \A f \in run.feeds : run.verdict[f] \in {"OK", "NOT_INGESTED"} =>
      LET entries == Visited(FormatOf[f], answer[f]) IN
      entries # <<>> /\ (FormatOf[f] = "atom" => Readable("atom", entries[1]))

\* What a report says of the database was true at some time of its run, whatever
\* the pollers and the expiry tasks did beside it: that alerts are stored or not,
\* and that nothing has ever been ingested, a hint that the rows of two tables
\* decide.  A report that denies stored alerts and names the latest one in the
\* next line saw it arrive.
VerdictOfItsTime ==
  run.step = "done" /\ ~SkipsDb =>
    \A f \in run.feeds :
      /\ run.verdict[f] = "OK" => f \in sawRows
      /\ run.verdict[f] = "NOT_INGESTED" => f \in sawNone /\ (f \in run.live => f \in sawRows)
      /\ run.hint[f] = "never ingested" => f \in sawNothing

\* Every run comes to its report, of all its feeds: no answer, exception or
\* option of the command line makes the others wait for ever.
CommandReports == run.step = "fetch" ~> run.step = "done"

\* The records of a feed never span more than the retention: "log counts are
\* always over this window" (check_feed_formats.py:42) is true of a window that
\* ends with the last record of the feed, not with the run of the command.
LogsSpanWindow ==
  \A j, k \in LogKey : logs[j] # NoLog /\ logs[k] # NoLog /\ logs[j].feed = logs[k].feed
                        => logs[j].at - logs[k].at <= Retention

\* A report is right: an OK feed is one that its reader reads, what is said of the
\* tables was so, and the logs that are counted are those of the retention
\* (analyse_response, build_reports and get_feed_logs of the command).
ReportIsTrue == OKIsVisited /\ VerdictOfItsTime /\ LogsSpanWindow

================================================================================
