----------------------------- MODULE Tasks_proofs ------------------------------
(***************************************************************************)
(* Proofs about what runs on the workers, the components of the run of     *)
(* MCTasks: RedisLock, for every number of runs and every setting of the   *)
(* times; FeedChecker, for every set of feeds, answers and threads;        *)
(* FeedReaders, for every listing; AlertsCache, for any alerts and         *)
(* countries.                                                              *)
(***************************************************************************)
EXTENDS MCTasks, BoundedInduction

(* RedisLock. *)

\* A run that is younger than the expiry owns the key, and the key has at least
\* the rest of the run's time left: the key was set after the run began.
OwnsKey(r) == InBody(r) /\ age[r] < TTL => owner = r /\ ttl + age[r] >= TTL

\* A delete was decided before timeout_at.
DecidedInTime(r) == pc[r] = "deleting" => age[r] < TTL - Margin + delay[r]

LockInv == TypeOK /\ \A r \in Run : OwnsKey(r) /\ DecidedInTime(r)

\* The variables keep their types: no countdown runs below zero, no run past its
\* hard limit, no delete past its time (utils/common.py:65-80).
THEOREM TypeCorrect == Spec => []TypeOK
<1>1. Init => TypeOK
  BY LockAssumption DEF Init, TypeOK, Steps
<1>2. TypeOK /\ [Next]_vars => TypeOK'
  <2> SUFFICES ASSUME TypeOK, [Next]_vars PROVE TypeOK'
    OBVIOUS
  <2> USE LockAssumption DEF TypeOK, Steps
  <2>1. CASE PassTime
    BY <2>1 DEF PassTime, TtlAfterTick, Running
  <2>2. ASSUME NEW r \in Run, RunStep(r) PROVE TypeOK'
    BY <2>2 DEF RunStep, Begin, Acquire, Refused, DecideDelete, LeaveLock, Delete,
                Kill, End
  <2>3. CASE UNCHANGED vars
    BY <2>3 DEF vars
  <2> QED BY <2>1, <2>2, <2>3 DEF Next
<1> QED BY <1>1, <1>2, PTL DEF Spec

\* Every step keeps the relation between the ages of the runs and the key.
LEMMA LockInvInductive ==
  ASSUME DeleteTime <= Margin \/ HardLimit < TTL
  PROVE  LockInv /\ TypeOK' /\ [Next]_vars => LockInv'
<1> SUFFICES ASSUME LockInv, TypeOK', [Next]_vars
             PROVE  \A q \in Run : (OwnsKey(q) /\ DecidedInTime(q))'
  BY DEF LockInv
<1> USE LockAssumption DEF LockInv, OwnsKey, DecidedInTime, InBody, TypeOK, Steps
<1>1. CASE PassTime
  BY <1>1 DEF PassTime, TtlAfterTick, Running
<1>2. ASSUME NEW r \in Run, RunStep(r)
      PROVE  \A q \in Run : (OwnsKey(q) /\ DecidedInTime(q))'
  <2>1. CASE Begin(r)
    BY <2>1 DEF Begin
  <2>2. CASE Acquire(r)
    <3>1. \A q \in Run \ {r} : ~(InBody(q) /\ age[q] < TTL)
      BY <2>2 DEF Acquire, KeyAbsent
    <3> QED BY <2>2, <3>1 DEF Acquire
  <2>3. CASE Refused(r)
    BY <2>3 DEF Refused, End
  <2>4. CASE DecideDelete(r)
    BY <2>4 DEF DecideDelete, BeforeTimeout
  <2>5. CASE LeaveLock(r)
    BY <2>5 DEF LeaveLock, End
  <2>6. CASE Delete(r)
    <3>1. age[r] < TTL
      BY <2>6 DEF Delete
    <3>2. owner = r
      BY <2>6, <3>1 DEF Delete
    <3>3. \A q \in Run \ {r} : ~(InBody(q) /\ age[q] < TTL)
      BY <3>2
    <3> QED BY <2>6, <3>3 DEF Delete, End
  <2>7. CASE Kill(r)
    BY <2>7 DEF Kill, End
  <2> QED BY <1>2, <2>1, <2>2, <2>3, <2>4, <2>5, <2>6, <2>7 DEF RunStep
<1>3. CASE UNCHANGED vars
  BY <1>3 DEF vars
<1> QED BY <1>1, <1>2, <1>3 DEF Next

LEMMA LockInvInitial == Init => LockInv
BY LockAssumption DEF Init, LockInv, TypeOK, Steps, OwnsKey, DecidedInTime, InBody

\* The runs in the body of the lock that TaskLock promises.
FreshRuns == {r \in Run : Fresh(r)}

\* A step of a run is a step of TaskLock, or none.
LEMMA RunStepOfLock ==
  ASSUME DeleteTime <= Margin \/ HardLimit < TTL, LockInv, NEW r \in Run, RunStep(r)
  PROVE  [Lock!Next]_Lock!vars
<1> USE LockAssumption DEF TypeOK, Steps, LockInv
<1> DEFINE others == FreshRuns \ {r}
<1>1. ASSUME End(r)
      PROVE  FreshRuns' = others
  BY <1>1 DEF End, FreshRuns, Fresh, InBody
<1>2. CASE Begin(r)
  <2>1. FreshRuns' = FreshRuns
    BY <1>2 DEF Begin, FreshRuns, Fresh, InBody
  <2> QED BY <1>2, <2>1 DEF Begin, FreshRuns, Lock!vars
<1>3. CASE Acquire(r)
  <2>1. FreshRuns' \in {FreshRuns, FreshRuns \cup {r}}
    BY <1>3 DEF Acquire, FreshRuns, Fresh, InBody
  <2>2. Lock!Take(r)
    BY <1>3, <2>1 DEF Acquire, KeyAbsent, Lock!Take, FreshRuns
  <2> QED BY <2>2 DEF Lock!Next
<1>4. CASE DecideDelete(r)
  <2>1. FreshRuns' = FreshRuns
    BY <1>4 DEF DecideDelete, FreshRuns, Fresh, InBody
  <2> QED BY <1>4, <2>1 DEF DecideDelete, FreshRuns, Lock!vars
<1>5. CASE (Refused(r) \/ LeaveLock(r) \/ Kill(r))
  <2>1. FreshRuns' = others /\ owner' = owner
    BY <1>1, <1>5 DEF Refused, LeaveLock, Kill
  <2> QED BY <2>1 DEF FreshRuns, Lock!Next, Lock!Leave, Lock!vars
<1>6. CASE Delete(r)
  <2>1. FreshRuns' = others /\ owner' = NoRun
    BY <1>1, <1>6 DEF Delete
  <2>2. r \in FreshRuns
    BY <1>6 DEF FreshRuns, Fresh, DecidedInTime, Delete, InBody
  <2> QED BY <2>1, <2>2 DEF FreshRuns, Lock!Next, Lock!Leave
<1> QED BY <1>2, <1>3, <1>4, <1>5, <1>6 DEF RunStep

\* One tick: a run may become too old, and then its key may expire.
LEMMA TickOfLock ==
  ASSUME LockInv, PassTime
  PROVE  [Lock!Next]_Lock!vars
<1> USE LockAssumption DEF TypeOK, Steps, LockInv
<1>1. owner' \in {owner, NoRun} /\ (ttl > 1 => owner' = owner)
  BY DEF PassTime, TtlAfterTick
<1>2. FreshRuns' \subseteq FreshRuns
  BY DEF PassTime, Running, FreshRuns, Fresh, InBody
<1>3. FreshRuns \subseteq {owner} \ {NoRun}
  BY DEF FreshRuns, Fresh, OwnsKey
<1>4. CASE FreshRuns' = FreshRuns
  <2>1. CASE FreshRuns = {}
    BY <1>1, <1>4, <2>1 DEF FreshRuns, Lock!Next, Lock!Expire, Lock!vars
  <2>2. CASE FreshRuns # {}
    <3>1. PICK r \in Run : Fresh(r) /\ Fresh(r)'
      BY <1>4, <2>2 DEF FreshRuns
    <3>2. ttl + age[r] >= TTL /\ age[r] + 1 < TTL
      BY <3>1 DEF Fresh, OwnsKey, PassTime, Running, InBody
    <3>3. ttl > 1
      BY <3>2
    <3> QED BY <1>1, <1>4, <3>3 DEF FreshRuns, Lock!vars
  <2> QED BY <2>1, <2>2
<1>5. CASE FreshRuns' # FreshRuns
  <2>1. owner \in FreshRuns /\ FreshRuns' = FreshRuns \ {owner}
    BY <1>2, <1>3, <1>5
  <2>2. owner \in Run
    BY <2>1 DEF FreshRuns
  <2>3. Lock!Leave(owner)
    BY <1>1, <2>1 DEF Lock!Leave, FreshRuns
  <2> QED BY <2>2, <2>3 DEF Lock!Next
<1> QED BY <1>4, <1>5

\* To the runs that are younger than the expiry redis_lock is the lock that
\* TaskLock promises, if a delete reaches redis within the margin, whatever the
\* hard time limit; or if no run outlives the expiry, as on the 'feeds' workers,
\* whatever the time of a delete (utils/common.py:65-80).
THEOREM FreshRunsAreLocked ==
  ASSUME DeleteTime <= Margin \/ HardLimit < TTL
  PROVE  Spec => TaskLockKept
<1>1. Init => Lock!Init
  BY DEF Init, Lock!Init, InBody, Fresh
<1>2. LockInv /\ TypeOK' /\ [Next]_vars => LockInv'
  BY LockInvInductive
<1>3. LockInv /\ [Next]_vars => [Lock!Next]_Lock!vars
  <2> SUFFICES ASSUME LockInv, [Next]_vars
               PROVE  [Lock!Next]_Lock!vars
    OBVIOUS
  <2>1. CASE UNCHANGED vars
    BY <2>1 DEF vars, Lock!vars, Fresh, InBody
  <2> QED BY <2>1, RunStepOfLock, TickOfLock DEF Next
<1> QED BY <1>1, <1>2, <1>3, LockInvInitial, TypeCorrect, PTL
        DEF Spec, TaskLockKept, Lock!Spec

\* So one of them at most is in its body, and it is his key that is in redis.
THEOREM FreshRunsExclude ==
  ASSUME DeleteTime <= Margin \/ HardLimit < TTL
  PROVE  Spec => []Lock!OnlyHolderInside
<1>1. Lock!Init => Lock!OnlyHolderInside
  BY DEF Lock!Init, Lock!OnlyHolderInside
<1>2. ASSUME Lock!OnlyHolderInside, [Lock!Next]_Lock!vars
      PROVE  Lock!OnlyHolderInside'
  <2> USE LockAssumption DEF Lock!OnlyHolderInside
  <2>1. CASE Lock!Expire
    BY <1>2, <2>1 DEF Lock!Expire
  <2>2. ASSUME NEW r \in Run, Lock!Take(r)
        PROVE  Lock!OnlyHolderInside'
    BY <1>2, <2>2 DEF Lock!Take
  <2>3. ASSUME NEW r \in Run, Lock!Leave(r)
        PROVE  Lock!OnlyHolderInside'
    BY <1>2, <2>3 DEF Lock!Leave
  <2>4. CASE UNCHANGED Lock!vars
    BY <1>2, <2>4 DEF Lock!vars
  <2> QED BY <1>2, <2>1, <2>2, <2>3, <2>4 DEF Lock!Next
<1> QED BY <1>1, <1>2, FreshRunsAreLocked, PTL DEF TaskLockKept, Lock!Spec

\* Where the hard time limit is below the expiry (the workers of the 'feeds'
\* queue: 500 seconds against 600), no two runs are in their bodies at once.
THEOREM Exclusion ==
  ASSUME HardLimit < TTL
  PROVE  Spec => []MutualExclusion
<1>1. TypeOK /\ Lock!OnlyHolderInside => MutualExclusion
  BY LockAssumption DEF TypeOK, Lock!OnlyHolderInside, Fresh, InBody, MutualExclusion
<1> QED BY <1>1, TypeCorrect, FreshRunsExclude, PTL

\* Where a delete reaches redis within the margin of three seconds, it never
\* removes the key of another run, however long the run was.
THEOREM OwnDelete ==
  ASSUME DeleteTime <= Margin
  PROVE  Spec => DeletesOwnLock
<1>1. LockInv /\ TypeOK' /\ [Next]_vars => LockInv'
  BY LockInvInductive
<1>2. ASSUME LockInv, NEW r \in Run, Delete(r)
      PROVE  owner \in {r, NoRun}
  <2>1. age[r] < TTL
    BY <1>2, LockAssumption DEF LockInv, TypeOK, DecidedInTime, Delete
  <2> QED BY <1>2, <2>1 DEF LockInv, OwnsKey, InBody, Delete
<1>3. LockInv => [\A r \in Run : Delete(r) => owner \in {r, NoRun}]_vars
  BY <1>2
<1> QED BY <1>1, <1>3, LockInvInitial, TypeCorrect, PTL DEF Spec, DeletesOwnLock

--------------------------------------------------------------------------------

(* FeedChecker. *)

RunFields == {"step", "options", "feeds", "hasAlerts", "hasProcessed", "fetching", "live",
              "logCount", "verdict", "hint", "failed"}

\* The command and the answers it got have their fields; the log is not ahead of
\* its clock.
CheckerShape ==
  /\ CheckerTypeOK
  /\ RunFields \subseteq DOMAIN run
  /\ DOMAIN answer = CheckedFeed
  /\ \A k \in LogKey : logs[k] # NoLog => logs[k].at <= clock

\* After the fetches every feed of the run has answered.
AllAnswered ==
  run.step \in {"latest", "logs", "report", "done"} => \A f \in run.feeds : answer[f] \in Response[f]

\* What the command has read was in the tables during its run.
Witnessed ==
  run.step # "off" =>
    /\ run.hasAlerts \cup run.live \subseteq sawRows
    /\ run.feeds \ run.hasAlerts \subseteq sawNone
    /\ run.feeds \ (run.hasAlerts \cup run.hasProcessed) \subseteq sawNothing
    /\ \A f \in run.feeds : stored[f] \in WithRows => f \in sawRows

\* The report says what it was made of.
Made ==
  run.step = "done" =>
    \A f \in run.feeds : run.verdict[f] = FinalVerdict(f) /\ run.hint[f] = Hint(f)

CheckerInv == CheckerShape /\ AllAnswered /\ Witnessed /\ Made /\ LogsSpanWindow

\* The steps of the command, by what they do to the run.
LEMMA FieldsKept ==
  ASSUME RunFields \subseteq DOMAIN run, NEW x \in RunFields, NEW v
  PROVE  /\ RunFields \subseteq DOMAIN [run EXCEPT ![x] = v]
         /\ [run EXCEPT ![x] = v][x] = v
         /\ \A y \in RunFields \ {x} : [run EXCEPT ![x] = v][y] = run[y]
OBVIOUS

LEMMA CheckerInitial == CheckerInit => CheckerInv
BY CheckerAssumption DEF CheckerInit, CheckerInv, CheckerShape, CheckerTypeOK, RunFields, NotRun,
   AllAnswered, Witnessed, Made, LogsSpanWindow

\* The log of a feed is pruned to the retention whenever it grows.
LEMMA SaveLogKeeps ==
  ASSUME CheckerInv, NEW f \in CheckedFeed, NEW k \in LogKey, SaveLog(f, k)
  PROVE  CheckerInv'
<1> DEFINE kept == Pruned(f, k)
<1>1. /\ logs' = IF kept[k] # NoLog THEN kept ELSE [kept EXCEPT ![k] = [feed |-> f, at |-> clock]]
      /\ UNCHANGED <<clock, stored, run, answer, seen>>
  BY DEF SaveLog
<1>2. /\ clock \in Int /\ clock \in 0 .. LastTime /\ Retention \in Int
      /\ logs \in [LogKey -> Log \cup {NoLog}]
      /\ \A j \in LogKey : logs[j] # NoLog =>
           logs[j] \in Log /\ logs[j].at \in Int /\ logs[j].feed \in CheckedFeed /\ logs[j].at <= clock
  BY CheckerAssumption DEF CheckerInv, CheckerShape, CheckerTypeOK, Log
<1>3. /\ kept \in [LogKey -> Log \cup {NoLog}]
      /\ \A j \in LogKey : kept[j] # NoLog =>
           kept[j] = logs[j] /\ (logs[j].feed = f => logs[j].at >= clock - Retention)
  BY <1>2 DEF Pruned
<1>4. [feed |-> f, at |-> clock] \in Log
  BY <1>2 DEF Log
<1>5. /\ logs' \in [LogKey -> Log \cup {NoLog}]
      /\ \A j \in LogKey : logs'[j] # NoLog =>
           \/ logs'[j] = logs[j] /\ logs[j] # NoLog /\ (logs[j].feed = f => logs[j].at >= clock - Retention)
           \/ logs'[j] = [feed |-> f, at |-> clock]
  BY <1>1, <1>3, <1>4
<1>6. CheckerShape'
  BY <1>1, <1>2, <1>5 DEF CheckerInv, CheckerShape, CheckerTypeOK, seen
<1>7. LogsSpanWindow'
  <2> SUFFICES ASSUME NEW i \in LogKey, NEW j \in LogKey, logs'[i] # NoLog, logs'[j] # NoLog,
                      logs'[i].feed = logs'[j].feed
               PROVE  logs'[i].at - logs'[j].at <= Retention
    BY DEF LogsSpanWindow
  <2> QED BY <1>2, <1>5, CheckerAssumption DEF CheckerInv, LogsSpanWindow
<1> QED
  BY <1>1, <1>6, <1>7
  DEF CheckerInv, AllAnswered, Witnessed, Made, FinalVerdict, Hint, SkipsDb, seen

\* Rows come and go, and what the command has seen of them grows.
LEMMA AlertsChangeKeeps ==
  ASSUME CheckerInv, NEW f \in CheckedFeed, NEW s \in Stored, AlertsChange(f, s)
  PROVE  CheckerInv'
<1>1. /\ UNCHANGED <<clock, logs, run, answer>> /\ stored' = [stored EXCEPT ![f] = s]
      /\ sawRows' = sawRows \cup {g \in run.feeds : stored'[g] \in WithRows}
      /\ sawNone' = sawNone \cup {g \in run.feeds : stored'[g] \notin WithRows}
      /\ sawNothing' = sawNothing \cup {g \in run.feeds : stored'[g] = "nothing"}
  BY DEF AlertsChange, See
<1>2. CheckerTypeOK
  BY DEF CheckerInv, CheckerShape
<1>3. \A g \in run.feeds : stored'[g] = "nothing" => stored'[g] \notin WithRows
  BY DEF WithRows
<1>4. CheckerTypeOK'
  BY <1>1, <1>2, <1>3 DEF CheckerTypeOK
<1> QED
  BY <1>1, <1>4
  DEF CheckerInv, CheckerShape, AllAnswered, Witnessed, Made, LogsSpanWindow, FinalVerdict, Hint,
      SkipsDb

LEMMA StartKeeps ==
  ASSUME CheckerInv, NEW F \in SUBSET CheckedFeed, NEW options \in Options, StartCommand(F, options)
  PROVE  CheckerInv'
<1>1. /\ run'.step = "fetch" /\ run'.feeds = F /\ run'.live = {} /\ run'.fetching = {}
      /\ run'.hasAlerts = {f \in F : stored[f] \in WithRows}
      /\ run'.hasProcessed = {f \in F : stored[f] = "processed"}
      /\ RunFields \subseteq DOMAIN run'
  BY DEF StartCommand, NotRun, RunFields, HasAlerts
<1>2. /\ sawRows' = {f \in F : stored[f] \in WithRows}
      /\ sawNone' = F \ sawRows' /\ sawNothing' = {f \in F : stored[f] = "nothing"}
      /\ UNCHANGED <<clock, stored, logs, answer>>
  BY DEF StartCommand
<1>3. \A f \in F : /\ stored[f] \in WithRows \cup {"processed", "nothing"}
                   /\ stored[f] = "nothing" => stored[f] \notin WithRows
  BY DEF CheckerInv, CheckerShape, CheckerTypeOK, Stored, WithRows
<1>4. CheckerShape'
  BY <1>1, <1>2, <1>3 DEF CheckerInv, CheckerShape, CheckerTypeOK
<1> QED
  BY <1>1, <1>2, <1>3, <1>4 DEF CheckerInv, AllAnswered, Witnessed, Made, LogsSpanWindow

\* A step of the command that goes on to "fetch", "latest", "logs" or "report".
LEMMA CommandKeeps ==
  ASSUME CheckerInv, run.step # "off", run'.step \in {"fetch", "latest", "logs", "report"},
         RunFields \subseteq DOMAIN run', run'.fetching \subseteq run.feeds, run'.live \subseteq run.feeds,
         run'.feeds = run.feeds, run'.hasAlerts = run.hasAlerts, run'.hasProcessed = run.hasProcessed,
         \A f \in run'.live : f \in run.live \/ stored[f] \in WithRows,
         UNCHANGED <<clock, stored, logs, seen>>,
         DOMAIN answer' = CheckedFeed, \A f \in CheckedFeed : answer'[f] \in Response[f] \cup {NoAnswer},
         AllAnswered'
  PROVE  CheckerInv'
<1>1. CheckerShape'
  BY DEF CheckerInv, CheckerShape, CheckerTypeOK, seen
<1>2. Witnessed'
  BY DEF CheckerInv, Witnessed, seen
<1> QED BY <1>1, <1>2 DEF CheckerInv, Made, LogsSpanWindow

LEMMA FetchKeeps ==
  ASSUME CheckerInv, NEW f \in CheckedFeed,
         BeginFetch(f) \/ \E d \in Response[f] : EndFetch(f, d)
  PROVE  CheckerInv'
<1>1. CASE BeginFetch(f)
  <2>1. /\ run' = [run EXCEPT !.fetching = @ \cup {f}] /\ run.step = "fetch" /\ f \in run.feeds
        /\ UNCHANGED <<clock, stored, logs, answer, seen>>
    BY <1>1 DEF BeginFetch
  <2>2. /\ run'.fetching = run.fetching \cup {f}
        /\ RunFields \subseteq DOMAIN run'
        /\ \A y \in RunFields \ {"fetching"} : run'[y] = run[y]
    BY <2>1 DEF CheckerInv, CheckerShape, RunFields
  <2> QED BY <2>1, <2>2, CommandKeeps DEF RunFields, CheckerInv, CheckerShape, CheckerTypeOK, AllAnswered
<1>2. ASSUME NEW d \in Response[f], EndFetch(f, d) PROVE CheckerInv'
  <2>1. /\ run.step = "fetch" /\ f \in run.fetching
        /\ answer' = [answer EXCEPT ![f] = d]
        /\ run' = [run EXCEPT !.fetching = @ \ {f},
             !.step = IF Unanswered # {f} THEN "fetch" ELSE IF SkipsDb THEN "report" ELSE "latest"]
        /\ UNCHANGED <<clock, stored, logs, seen>>
    BY <1>2 DEF EndFetch
  <2>2. /\ run'.fetching = run.fetching \ {f}
        /\ run'.step = IF Unanswered # {f} THEN "fetch" ELSE IF SkipsDb THEN "report" ELSE "latest"
        /\ RunFields \subseteq DOMAIN run'
        /\ \A y \in RunFields \ {"fetching", "step"} : run'[y] = run[y]
    BY <2>1 DEF CheckerInv, CheckerShape, RunFields
  <2>3. /\ DOMAIN answer' = CheckedFeed /\ answer'[f] = d
        /\ \A g \in CheckedFeed : answer'[g] \in Response[g] \cup {NoAnswer}
        /\ \A g \in CheckedFeed \ {f} : answer'[g] = answer[g]
    BY <2>1 DEF CheckerInv, CheckerShape, CheckerTypeOK
  <2>4. AllAnswered'
    <3> SUFFICES ASSUME run'.step # "fetch", NEW g \in run.feeds PROVE answer'[g] \in Response[g]
      BY <2>2 DEF AllAnswered, RunFields
    <3>1. Unanswered = {f} /\ g \in CheckedFeed
      BY <2>2 DEF CheckerInv, CheckerShape, CheckerTypeOK
    <3>2. g = f \/ answer[g] # NoAnswer
      BY <3>1 DEF Unanswered
    <3> QED BY <3>1, <3>2, <2>3
  <2> QED BY <2>1, <2>2, <2>3, <2>4, CommandKeeps DEF RunFields, CheckerInv, CheckerShape, CheckerTypeOK
<1> QED BY <1>1, <1>2

LEMMA ReadsKeep ==
  ASSUME CheckerInv, ReadLatest \/ ReadLogs
  PROVE  CheckerInv'
<1>1. CASE ReadLatest
  <2>1. /\ run' = [run EXCEPT !.step = "logs", !.live = {f \in run.feeds : stored[f] = "live"}]
        /\ run.step = "latest"
        /\ UNCHANGED <<clock, stored, logs, answer, seen>>
    BY <1>1 DEF ReadLatest
  <2>2. /\ run'.live = {f \in run.feeds : stored[f] = "live"} /\ run'.step = "logs"
        /\ RunFields \subseteq DOMAIN run'
        /\ \A y \in RunFields \ {"live", "step"} : run'[y] = run[y]
    BY <2>1 DEF CheckerInv, CheckerShape, RunFields
  <2> QED
    BY <2>1, <2>2, CommandKeeps DEF RunFields, CheckerInv, CheckerShape, CheckerTypeOK, AllAnswered, WithRows
<1>2. CASE ReadLogs
  <2> DEFINE counts == [f \in CheckedFeed |-> IF f \notin run.feeds THEN 0
                          ELSE Cardinality({k \in LogKey : logs[k] # NoLog /\ logs[k].feed = f})]
  <2>1. /\ run' = [run EXCEPT !.step = "report", !.logCount = counts] /\ run.step = "logs"
        /\ UNCHANGED <<clock, stored, logs, answer, seen>>
    BY <1>2 DEF ReadLogs
  <2> HIDE DEF counts
  <2>2. /\ run'.step = "report"
        /\ RunFields \subseteq DOMAIN run'
        /\ \A y \in RunFields \ {"logCount", "step"} : run'[y] = run[y]
    BY <2>1 DEF CheckerInv, CheckerShape, RunFields
  <2> QED
    BY <2>1, <2>2, CommandKeeps DEF RunFields, CheckerInv, CheckerShape, CheckerTypeOK, AllAnswered
<1> QED BY <1>1, <1>2

LEMMA ReportKeeps ==
  ASSUME CheckerInv, Report
  PROVE  CheckerInv'
<1> DEFINE verdicts == [f \in Reported |-> FinalVerdict(f)]
           hints == [f \in Reported |-> Hint(f)]
           fails == "strict" \in run.options /\ \E f \in Reported : FinalVerdict(f) # "OK"
<1>1. /\ run' = [run EXCEPT !.step = "done", !.verdict = verdicts, !.hint = hints, !.failed = fails]
      /\ run.step = "report"
      /\ UNCHANGED <<clock, stored, logs, answer, seen>>
  BY DEF Report
<1>2. /\ DOMAIN verdicts = run.feeds
      /\ \A f \in run.feeds : verdicts[f] = FinalVerdict(f) /\ hints[f] = Hint(f)
  BY DEF Reported
<1> HIDE DEF verdicts, hints, fails
<1>3. /\ run'.step = "done" /\ run'.verdict = verdicts /\ run'.hint = hints
      /\ RunFields \subseteq DOMAIN run'
      /\ \A y \in RunFields \ {"step", "verdict", "hint", "failed"} : run'[y] = run[y]
  BY <1>1 DEF CheckerInv, CheckerShape, RunFields
<1>4. /\ run'.feeds = run.feeds /\ run'.options = run.options /\ run'.hasAlerts = run.hasAlerts
      /\ run'.hasProcessed = run.hasProcessed /\ run'.live = run.live /\ run'.fetching = run.fetching
  BY <1>3 DEF RunFields
<1>5. CheckerShape'
  BY <1>1, <1>2, <1>3, <1>4 DEF CheckerInv, CheckerShape, CheckerTypeOK, seen
<1>6. Made'
  <2>1. \A f \in run.feeds : FinalVerdict(f)' = FinalVerdict(f) /\ Hint(f)' = Hint(f)
    BY <1>1, <1>4 DEF FinalVerdict, Hint, SkipsDb
  <2> QED BY <2>1, <1>2, <1>3, <1>4 DEF Made
<1> QED
  BY <1>1, <1>3, <1>4, <1>5, <1>6 DEF CheckerInv, AllAnswered, Witnessed, LogsSpanWindow, seen

LEMMA CheckerInductive == CheckerInv /\ [CheckerNext]_checkerVars => CheckerInv'
<1> SUFFICES ASSUME CheckerInv, [CheckerNext]_checkerVars PROVE CheckerInv'
  OBVIOUS
<1>1. CASE UNCHANGED checkerVars
  BY <1>1 DEF checkerVars, seen, CheckerInv, CheckerShape, CheckerTypeOK, AllAnswered, Witnessed, Made,
     LogsSpanWindow, FinalVerdict, Hint, SkipsDb
<1>2. CASE CheckerTick
  <2>1. /\ clock' = clock + 1 /\ clock < LastTime /\ run.step # "done"
        /\ UNCHANGED <<stored, logs, run, answer, seen>>
    BY <1>2 DEF CheckerTick
  <2>2. /\ clock \in 0 .. LastTime /\ LastTime \in Nat
        /\ \A k \in LogKey : logs[k] # NoLog => logs[k].at \in Int
    BY CheckerAssumption DEF CheckerInv, CheckerShape, CheckerTypeOK, Log
  <2>3. CheckerShape'
    BY <2>1, <2>2 DEF CheckerInv, CheckerShape, CheckerTypeOK, seen
  <2> QED
    BY <2>1, <2>3 DEF CheckerInv, AllAnswered, Witnessed, Made, LogsSpanWindow, FinalVerdict, Hint,
       SkipsDb, seen
<1>3. CASE Command
  BY <1>3, FetchKeeps, ReadsKeep, ReportKeeps DEF Command
<1> QED
  BY <1>1, <1>2, <1>3, StartKeeps, AlertsChangeKeeps, SaveLogKeeps DEF CheckerNext

\* A format is OK only if the entries that its reader goes through are there, and
\* the first one of an atom index has an url (analyse_response).
LEMMA OKHasEntries ==
  ASSUME NEW format \in {"rss", "atom", "nws_us"}, NEW deep, NEW d \in Index,
         CheckFeed(format, deep, d) = "OK"
  PROVE  LET entries == Visited(format, d) IN
         entries # <<>> /\ (format = "atom" => Readable("atom", entries[1]))
<1>1. d.body = "xml" /\ CountEntries(format, d) # 0 /\ ~Mismatch(format, d)
  BY DEF CheckFeed, Index
<1>2. Visited(format, d) = FindAll(d, TagOf(format)) /\ FindAll(d, TagOf(format)) # <<>>
  BY <1>1 DEF Visited, CountEntries
<1>3. CASE format = "atom"
  <2>1. Visited(format, d) = FindAll(d, "entry")
    BY <1>2, <1>3 DEF TagOf
  <2>2. FindAll(d, "entry")[1].id = "url"
    BY <1>1, <1>2, <1>3, <2>1 DEF Mismatch, RequiresCapLink
  <2> QED BY <1>2, <1>3, <2>1, <2>2 DEF Readable
<1> QED BY <1>2, <1>3

LEMMA VerdictOfCheck ==
  ASSUME NEW format, NEW deep, NEW d \in Index
  PROVE  CheckFeed(format, deep, d) \in
           {"UNREACHABLE", "EMPTY", "INVALID_XML", "UNKNOWN_STRUCTURE", "MISMATCH", "OK"}
BY DEF CheckFeed, Index

\* Tables, log and command of the format checker keep their types.
THEOREM CheckerTyped == CheckerSpec => []CheckerTypeOK
<1>1. CheckerInv => CheckerTypeOK
  BY DEF CheckerInv, CheckerShape
<1> QED BY <1>1, CheckerInitial, CheckerInductive, PTL DEF CheckerSpec

\* A report is right, for any feeds, indexes, options and retention: an OK feed
\* has entries for its reader, what is said of the tables was so at some time of
\* the run, and the logs of a feed span the retention (check_feed_formats.py,
\* analyse_response and build_reports; FeedLog.save).
THEOREM ReportsAreTrue == CheckerSpec => []ReportIsTrue
<1>1. ASSUME CheckerInv PROVE ReportIsTrue
  <2>1. ASSUME run.step = "done", NEW f \in run.feeds
        PROVE  /\ f \in CheckedFeed /\ answer[f] \in Index /\ FormatOf[f] \in {"rss", "atom", "nws_us"}
               /\ run.verdict[f] = FinalVerdict(f) /\ run.hint[f] = Hint(f)
    BY <1>1, <2>1, CheckerAssumption
    DEF CheckerInv, CheckerShape, CheckerTypeOK, AllAnswered, Made
  <2>2. OKIsVisited
    <3> SUFFICES ASSUME run.step = "done", NEW f \in run.feeds,
                        run.verdict[f] \in {"OK", "NOT_INGESTED"}
                 PROVE  LET entries == Visited(FormatOf[f], answer[f]) IN
                        entries # <<>> /\ (FormatOf[f] = "atom" => Readable("atom", entries[1]))
      BY DEF OKIsVisited
    <3>1. CheckFeed(FormatOf[f], "deep" \in run.options, answer[f]) = "OK"
      BY <2>1, VerdictOfCheck DEF FinalVerdict
    <3> QED BY <3>1, <2>1, OKHasEntries
  <2>3. VerdictOfItsTime
    <3> SUFFICES ASSUME run.step = "done", ~SkipsDb, NEW f \in run.feeds
                 PROVE  /\ run.verdict[f] = "OK" => f \in sawRows
                        /\ run.verdict[f] = "NOT_INGESTED" =>
                             f \in sawNone /\ (f \in run.live => f \in sawRows)
                        /\ run.hint[f] = "never ingested" => f \in sawNothing
      BY DEF VerdictOfItsTime
    <3>1. /\ FinalVerdict(f) = "OK" => f \in run.hasAlerts
          /\ FinalVerdict(f) = "NOT_INGESTED" => f \notin run.hasAlerts
      BY <2>1, VerdictOfCheck DEF FinalVerdict
    <3>2. Hint(f) = "never ingested" => FinalVerdict(f) = "NOT_INGESTED" /\ f \notin run.hasProcessed
      BY DEF Hint
    <3> QED BY <1>1, <2>1, <3>1, <3>2 DEF CheckerInv, Witnessed
  <2> QED BY <1>1, <2>2, <2>3 DEF ReportIsTrue, CheckerInv
<1> QED BY <1>1, CheckerInitial, CheckerInductive, PTL DEF CheckerSpec

--------------------------------------------------------------------------------

(* FeedReaders. *)

\* Polls and histories are functions of the pollers, and a poll is a record of
\* six fields.
PollShape ==
  /\ DOMAIN polls = Poller /\ DOMAIN brought = Poller /\ DOMAIN allAlertUrls = Poller
  /\ \A p \in Poller :
       {"step", "rest", "entry", "urls", "count", "valid"} \subseteq DOMAIN polls[p]

\* What a poll has ingested is already kept by its process, or it is among the
\* texts that a valid poll is going to hand over; the entry in hand is one of them.
Kept(p) ==
  brought[p] \subseteq allAlertUrls[p]
    \cup (IF polls[p].valid THEN polls[p].urls ELSE {})

InHand(p) ==
  polls[p].step \in {"fetch", "process", "record"} => polls[p].entry.key \in polls[p].urls

IdleIsInvalid(p) == polls[p].step = "idle" => polls[p].valid = FALSE

ReadersInv ==
  PollShape /\ \A p \in Poller : Kept(p) /\ InHand(p) /\ IdleIsInvalid(p)

\* A step of one poll leaves the others as they are.
LEMMA OneAtATime ==
  ASSUME ReadersInv, NEW p \in Poller,
         PollShape',
         \A q \in Poller \ {p} : /\ polls'[q] = polls[q]
                                 /\ brought'[q] = brought[q]
                                 /\ allAlertUrls'[q] = allAlertUrls[q],
         Kept(p)', InHand(p)', IdleIsInvalid(p)'
  PROVE  ReadersInv'
BY DEF ReadersInv, Kept, InHand, IdleIsInvalid

\* What is left of a poll when it goes on with the next entry.
LEMMA LeaveKeeps ==
  ASSUME PollShape, NEW p \in Poller, NEW valid \in BOOLEAN, NEW counted
  PROVE  /\ DOMAIN Leave(p, valid, counted) = DOMAIN polls[p]
         /\ Leave(p, valid, counted).step = "entry"
         /\ Leave(p, valid, counted).urls = polls[p].urls
         /\ Leave(p, valid, counted).valid = (polls[p].valid \/ valid)
BY DEF Leave, StillValid, PollShape

LEMMA ReadersInductive == ReadersInv /\ [ReadersNext]_readersVars => ReadersInv'
<1> SUFFICES ASSUME ReadersInv, [ReadersNext]_readersVars PROVE ReadersInv'
  OBVIOUS
<1> USE DEF ReadersInv
<1>1. ASSUME NEW p \in Poller, BeginPoll(p) PROVE ReadersInv'
  <2>1. PollShape'
    BY <1>1 DEF BeginPoll, PollShape, NotPolling
  <2>2. polls'[p].step = "entry" /\ polls'[p].valid = FALSE /\ polls[p].valid = FALSE
    BY <1>1 DEF BeginPoll, PollShape, NotPolling, IdleIsInvalid
  <2> QED BY <1>1, <2>1, <2>2, OneAtATime DEF BeginPoll, PollShape, Kept, InHand, IdleIsInvalid
<1>2. ASSUME NEW p \in Poller, NextEntry(p) PROVE ReadersInv'
  <2> DEFINE e == polls[p].rest[1]
  <2>1. PollShape'
    BY <1>2 DEF NextEntry, PollShape
  <2>2. /\ polls'[p].valid = polls[p].valid
        /\ polls[p].urls \subseteq polls'[p].urls
        /\ polls'[p].step \in {"entry", "fetch"}
        /\ polls'[p].step = "fetch" => polls'[p].entry = e /\ e.key \in polls'[p].urls
    BY <1>2 DEF NextEntry, PollShape, NotedUrls
  <2> QED BY <1>2, <2>1, <2>2, OneAtATime DEF NextEntry, PollShape, Kept, InHand, IdleIsInvalid
<1>3. ASSUME NEW p \in Poller, FetchFails(p) \/ NotCreated(p) \/ ProcessRaises(p)
      PROVE  ReadersInv'
  <2>1. PICK valid \in BOOLEAN : polls' = [polls EXCEPT ![p] = Leave(p, valid, 0)]
    BY <1>3 DEF FetchFails, NotCreated, ProcessRaises
  <2>2. UNCHANGED <<brought, allAlertUrls>>
    BY <1>3 DEF FetchFails, NotCreated, ProcessRaises
  <2>3. PollShape'
    BY <2>1, <2>2, LeaveKeeps DEF PollShape
  <2>4. Kept(p)' /\ InHand(p)' /\ IdleIsInvalid(p)'
    BY <2>1, <2>2, LeaveKeeps DEF PollShape, Kept, InHand, IdleIsInvalid
  <2> QED BY <2>1, <2>2, <2>3, <2>4, OneAtATime DEF PollShape
<1>4. ASSUME NEW p \in Poller, CreateRow(p) \/ Processed(p) PROVE ReadersInv'
  <2>1. PICK step \in {"process", "record"} : polls' = [polls EXCEPT ![p].step = step]
    BY <1>4 DEF CreateRow, Processed
  <2>2. UNCHANGED <<brought, allAlertUrls>> /\ polls[p].step \in {"fetch", "process"}
    BY <1>4 DEF CreateRow, Processed
  <2>3. PollShape'
    BY <2>1, <2>2 DEF PollShape
  <2> QED BY <2>1, <2>2, <2>3, OneAtATime DEF PollShape, Kept, InHand, IdleIsInvalid
<1>5. ASSUME NEW p \in Poller, RecordAlert(p) PROVE ReadersInv'
  <2> DEFINE u == polls[p].entry.key
  <2>1. polls' = [polls EXCEPT ![p] = Leave(p, u \notin recordUrls, Counted(u))]
    BY <1>5 DEF RecordAlert
  <2>2. brought' = [brought EXCEPT ![p] = IF u \in recordUrls THEN @ ELSE @ \cup {u}]
    BY <1>5 DEF RecordAlert
  <2>3. UNCHANGED allAlertUrls /\ u \in polls[p].urls
    BY <1>5 DEF RecordAlert, InHand
  <2>4. PollShape'
    BY <2>1, <2>2, <2>3, LeaveKeeps DEF PollShape
  <2>5. Kept(p)' /\ InHand(p)' /\ IdleIsInvalid(p)'
    BY <2>1, <2>2, <2>3, LeaveKeeps DEF PollShape, Kept, InHand, IdleIsInvalid
  <2> QED BY <2>1, <2>2, <2>3, <2>4, <2>5, OneAtATime DEF PollShape
<1>6. ASSUME NEW p \in Poller, FinishPoll(p) PROVE ReadersInv'
  <2>1. PollShape'
    BY <1>6 DEF FinishPoll, PollShape, NotPolling
  <2>2. polls'[p].step = "idle" /\ polls'[p].valid = FALSE
    BY <1>6 DEF FinishPoll, PollShape, NotPolling
  <2>3. brought[p] \subseteq allAlertUrls'[p]
    BY <1>6 DEF FinishPoll, PollShape, Kept
  <2> QED BY <1>6, <2>1, <2>2, <2>3, OneAtATime
          DEF FinishPoll, PollShape, Kept, InHand, IdleIsInvalid
<1>7. ASSUME UNCHANGED <<polls, brought, allAlertUrls>> PROVE ReadersInv'
  BY <1>7 DEF PollShape, Kept, InHand, IdleIsInvalid
<1>8. CASE \/ \E u \in alertUrls : RemoveAlertRow(u)
           \/ \E u \in recordUrls : ForgetRecord(u)
  BY <1>7, <1>8 DEF RemoveAlertRow, ForgetRecord
<1>9. CASE UNCHANGED readersVars
  BY <1>7, <1>9 DEF readersVars
<1> QED BY <1>1, <1>2, <1>3, <1>4, <1>5, <1>6, <1>8, <1>9 DEF ReadersNext

--------------------------------------------------------------------------------
\* The first of the places of a sequence that a test holds of.
LEMMA ForemostIs ==
  ASSUME NEW n \in Nat, NEW S \in SUBSET (0 .. n), S # {}
  PROVE  Foremost(S) \in S /\ \A j \in S : Foremost(S) <= j
<1>1. \E i \in S : \A j \in S : i <= j
  BY LeastNat
<1> QED BY <1>1 DEF Foremost

\* The rank of a link, as the loops of find_cap_link test it.
LEMMA RankOf ==
  ASSUME NEW l \in AtomLink
  PROVE  LinkRank(l) = IF l.type = "cap" THEN 1
                       ELSE IF l.type = "common" THEN 2
                       ELSE IF l.enclosure THEN 3
                       ELSE IF l.suffix /\ l.href # "none" THEN 4 ELSE 5
BY DEF LinkRank, AtomLink

\* The loops of find_cap_link are in the order of the ranks, and each of them is in
\* that of the links.
LEMMA BestLink ==
  ASSUME NEW links \in Seq(AtomLink), links # <<>>
  PROVE  \E i \in DOMAIN links :
           /\ links[i].href = FindCapLink(links)
           /\ \A j \in DOMAIN links : \/ LinkRank(links[i]) < LinkRank(links[j])
                                      \/ LinkRank(links[i]) = LinkRank(links[j]) /\ i <= j
<1> DEFINE D == DOMAIN links
           L1 == {i \in D : links[i].type = "cap"}
           L2 == {i \in D : links[i].type = "common"}
           L3 == {i \in D : IsEnclosure(links[i])}
           L4 == {i \in D : LooksLikeCap(links[i])}
           loops == <<L1, L2, L3, L4, D>>
           K == {k \in 1 .. 5 : loops[k] # {}}
           hit == Foremost(K)
           i == Foremost(loops[hit])
<1>1. /\ Len(links) \in Nat /\ D = 1 .. Len(links) /\ D # {}
      /\ \A j \in D : links[j] \in AtomLink
  <2>1. Len(links) \in Nat /\ D = 1 .. Len(links) /\ \A j \in D : links[j] \in AtomLink
    OBVIOUS
  <2>2. Len(links) # 0
    OBVIOUS
  <2> HIDE DEF D
  <2> QED BY <2>1, <2>2
<1>2. loops[1] = L1 /\ loops[2] = L2 /\ loops[3] = L3 /\ loops[4] = L4 /\ loops[5] = D
  OBVIOUS
<1>3. FindCapLink(links) = links[i].href
  BY DEF FindCapLink
<1> HIDE DEF i, hit, loops, D
<1>4. K \in SUBSET (0 .. 5) /\ K # {}
  <2>1. 5 \in K
    BY <1>1, <1>2
  <2>2. \A k \in 1 .. 5 : k \in 0 .. 5
    OBVIOUS
  <2> QED BY <2>1, <2>2
<1> HIDE DEF K
<1>5. hit \in K /\ \A k \in K : hit <= k
  BY <1>4, ForemostIs DEF hit
<1>6. hit \in 1 .. 5 /\ loops[hit] # {} /\ \A k \in 1 .. 5 : k < hit => loops[k] = {}
  BY <1>5 DEF K
<1>7. loops[hit] \in SUBSET (0 .. Len(links)) /\ loops[hit] \subseteq D
  BY <1>1, <1>2, <1>6
<1>8. i \in loops[hit] /\ \A j \in loops[hit] : i <= j
  BY <1>1, <1>6, <1>7, ForemostIs DEF i
<1>9. i \in D /\ links[i] \in AtomLink /\ links[i].enclosure \in BOOLEAN
      /\ links[i].type \in {"cap", "common", "other"}
  BY <1>1, <1>7, <1>8 DEF AtomLink
<1>10. ASSUME NEW j \in D
       PROVE  \/ LinkRank(links[i]) < LinkRank(links[j])
              \/ LinkRank(links[i]) = LinkRank(links[j]) /\ i <= j
  <2>1. links[j] \in AtomLink /\ links[j].type \in {"cap", "common", "other"}
    BY <1>1 DEF AtomLink
  <2>2. CASE hit = 1
    BY <1>2, <1>8, <1>9, <2>1, <2>2, RankOf
  <2>3. CASE hit = 2
    BY <1>2, <1>6, <1>8, <1>9, <2>1, <2>3, RankOf
  <2>4. CASE hit = 3
    BY <1>2, <1>6, <1>8, <1>9, <2>1, <2>4, RankOf DEF IsEnclosure
  <2>5. CASE hit = 4
    BY <1>2, <1>6, <1>8, <1>9, <2>1, <2>5, RankOf DEF IsEnclosure, LooksLikeCap
  <2>6. CASE hit = 5
    BY <1>2, <1>6, <1>8, <1>9, <2>1, <2>6, RankOf DEF IsEnclosure, LooksLikeCap
  <2> QED BY <1>6, <2>2, <2>3, <2>4, <2>5, <2>6
<1> QED BY <1>3, <1>9, <1>10 DEF D

--------------------------------------------------------------------------------
\* A poll has its types.
PollTyped(p) ==
  /\ polls[p].step \in {"idle", "entry", "fetch", "process", "record"}
  /\ polls[p].rest \in Seq(FeedEntry)
  /\ polls[p].step \in {"fetch", "process", "record"} => polls[p].entry \in FeedEntry
  /\ polls[p].urls \subseteq Text \ {"none"}
  /\ polls[p].count \in Nat /\ polls[p].valid \in BOOLEAN

\* An entry that is fetched has been taken, and a poll begins with nothing counted.
Taken(p) ==
  /\ polls[p].step = "fetch" => TakesEntry(p, polls[p].entry)
  /\ polls[p].step = "idle" => polls[p].count = 0

\* What polls have counted is as much as there were records.
RecordsCounted ==
  /\ IsFiniteSet(recordUrls) /\ IsFiniteSet(InReports) /\ PollsAddUp
  /\ DOMAIN reported = Poller

PollsInv ==
  /\ ReadersInv /\ ReadersTypeOK /\ RecordsCounted
  /\ \A p \in Poller : Taken(p)

\* What steps of a poll do that report nothing new.
LEMMA SameReports ==
  ASSUME \A p \in Poller : reported'[p] + polls'[p].count = reported[p] + polls[p].count
  PROVE  InReports' = InReports
BY DEF InReports

\* A step of one poll keeps the types if it keeps its own.
LEMMA TypedPoll ==
  ASSUME ReadersTypeOK, NEW p \in Poller,
         \A q \in Poller \ {p} : polls'[q] = polls[q] /\ allAlertUrls'[q] = allAlertUrls[q]
                                 /\ brought'[q] = brought[q] /\ reported'[q] = reported[q],
         PollTyped(p)', allAlertUrls'[p] \cup brought'[p] \subseteq Text \ {"none"},
         reported'[p] \in Nat,
         alertUrls' \cup recordUrls' \subseteq Text \ {"none"}, UNCHANGED <<removals, forgotten>>
  PROVE  ReadersTypeOK'
<1>1. \A q \in Poller :
        /\ polls'[q].step \in {"idle", "entry", "fetch", "process", "record"}
        /\ polls'[q].rest \in Seq(FeedEntry)
        /\ polls'[q].step \in {"fetch", "process", "record"} => polls'[q].entry \in FeedEntry
        /\ polls'[q].urls \cup allAlertUrls'[q] \cup brought'[q] \subseteq Text \ {"none"}
        /\ polls'[q].count \in Nat /\ polls'[q].valid \in BOOLEAN /\ reported'[q] \in Nat
  <2> SUFFICES ASSUME NEW q \in Poller PROVE
        /\ polls'[q].step \in {"idle", "entry", "fetch", "process", "record"}
        /\ polls'[q].rest \in Seq(FeedEntry)
        /\ polls'[q].step \in {"fetch", "process", "record"} => polls'[q].entry \in FeedEntry
        /\ polls'[q].urls \cup allAlertUrls'[q] \cup brought'[q] \subseteq Text \ {"none"}
        /\ polls'[q].count \in Nat /\ polls'[q].valid \in BOOLEAN /\ reported'[q] \in Nat
    OBVIOUS
  <2>1. CASE q = p
    BY <2>1 DEF PollTyped
  <2>2. CASE q # p
    BY <2>2 DEF ReadersTypeOK
  <2> QED BY <2>1, <2>2
<1> QED BY <1>1 DEF ReadersTypeOK

\* A poll that goes on with its next entry, or begins or ends.
LEMMA PollHolds ==
  ASSUME PollsInv, ReadersInv', NEW p \in Poller,
         \A q \in Poller \ {p} : polls'[q] = polls[q] /\ reported'[q] = reported[q],
         UNCHANGED <<brought, recordUrls, removals, forgotten>>,
         allAlertUrls' = allAlertUrls \/ \E U \in SUBSET (Text \ {"none"}) :
           allAlertUrls' = [allAlertUrls EXCEPT ![p] = @ \cup U],
         alertUrls' \subseteq Text \ {"none"}, DOMAIN reported' = Poller, reported'[p] \in Nat,
         reported'[p] + polls'[p].count = reported[p] + polls[p].count,
         PollTyped(p)', Taken(p)'
  PROVE  PollsInv'
<1> USE DEF PollsInv
<1>1. \A q \in Poller : allAlertUrls[q] \cup brought[q] \subseteq Text \ {"none"}
  BY DEF ReadersTypeOK
<1>2. /\ \A q \in Poller \ {p} : allAlertUrls'[q] = allAlertUrls[q]
      /\ allAlertUrls'[p] \subseteq Text \ {"none"}
  BY <1>1 DEF ReadersInv, PollShape
<1>3. ReadersTypeOK'
  <2>1. recordUrls \subseteq Text \ {"none"}
    BY DEF ReadersTypeOK
  <2> QED BY <1>1, <1>2, <2>1, TypedPoll
<1>4. InReports' = InReports
  BY SameReports
<1>5. RecordsCounted'
  BY <1>4 DEF RecordsCounted, PollsAddUp
<1>6. \A q \in Poller : Taken(q)'
  BY DEF Taken, TakesEntry, EntryRaises, DocumentOf
<1> QED BY <1>3, <1>5, <1>6

\* The entry that comes next, of which a poll takes the url if it has one.
LEMMA NextIsEntry ==
  ASSUME PollsInv, NEW p \in Poller, polls[p].rest # <<>>
  PROVE  /\ polls[p].rest[1] \in FeedEntry /\ Tail(polls[p].rest) \in Seq(FeedEntry)
         /\ TakesEntry(p, polls[p].rest[1]) => polls[p].rest[1].key \in Text \ {"none"}
<1>1. polls[p].rest \in Seq(FeedEntry)
  BY DEF PollsInv, ReadersTypeOK
<1>2. polls[p].rest[1] \in FeedEntry /\ Tail(polls[p].rest) \in Seq(FeedEntry)
  BY <1>1
<1> QED BY <1>2 DEF FeedEntry, TakesEntry, EntryRaises

\* The steps of an iteration that end it, counting nothing.
LEMMA LeaveHolds ==
  ASSUME PollsInv, ReadersInv', NEW p \in Poller, NEW valid \in BOOLEAN,
         polls' = [polls EXCEPT ![p] = Leave(p, valid, 0)],
         UNCHANGED <<allAlertUrls, alertUrls, recordUrls, brought, reported, removals, forgotten>>
  PROVE  PollsInv'
<1> USE DEF PollsInv
<1>1. polls'[p] = Leave(p, valid, 0) /\ \A q \in Poller \ {p} : polls'[q] = polls[q]
  BY DEF ReadersInv, PollShape
<1>2. /\ PollTyped(p)' /\ Taken(p)'
      /\ reported'[p] + polls'[p].count = reported[p] + polls[p].count
  BY <1>1 DEF ReadersInv, PollShape, ReadersTypeOK, Leave, StillValid, PollTyped, Taken
<1>3. alertUrls' \subseteq Text \ {"none"} /\ reported'[p] \in Nat /\ DOMAIN reported' = Poller
  BY DEF ReadersTypeOK, RecordsCounted
<1> QED BY <1>1, <1>2, <1>3, PollHolds

\* An alert is counted when its record is written, and not if it had one.
LEMMA RecordHolds ==
  ASSUME PollsInv, ReadersInv', NEW p \in Poller, RecordAlert(p)
  PROVE  PollsInv'
<1> DEFINE u == polls[p].entry.key
           counted == Counted(u)
           n == reported[p] + polls[p].count
<1> USE DEF PollsInv
<1>1. /\ polls[p].step = "record"
      /\ polls' = [polls EXCEPT ![p] = Leave(p, u \notin recordUrls, counted)]
      /\ recordUrls' = recordUrls \cup {u}
      /\ brought' = [brought EXCEPT ![p] = IF u \in recordUrls THEN @ ELSE @ \cup {u}]
      /\ UNCHANGED <<allAlertUrls, alertUrls, reported, removals, forgotten>>
  BY DEF RecordAlert
<1>2. /\ polls'[p] = Leave(p, u \notin recordUrls, counted)
      /\ \A q \in Poller \ {p} : polls'[q] = polls[q] /\ brought'[q] = brought[q]
      /\ brought'[p] \subseteq brought[p] \cup {u}
  BY <1>1 DEF ReadersInv, PollShape
<1>3. u \in Text \ {"none"} /\ counted \in {0, 1}
  BY <1>1 DEF ReadersInv, InHand, ReadersTypeOK, Counted
<1>4. PollTyped(p)' /\ polls'[p].step = "entry" /\ polls'[p].count = polls[p].count + counted
  BY <1>2, <1>3 DEF ReadersInv, PollShape, ReadersTypeOK, Leave, StillValid, PollTyped
<1>5. ReadersTypeOK'
  <2>1. alertUrls' \cup recordUrls' \subseteq Text \ {"none"}
    BY <1>1, <1>3 DEF ReadersTypeOK
  <2>2. allAlertUrls'[p] \cup brought'[p] \subseteq Text \ {"none"} /\ reported'[p] \in Nat
    BY <1>1, <1>2, <1>3 DEF ReadersTypeOK
  <2> QED BY <1>1, <1>2, <1>4, <2>1, <2>2, TypedPoll
<1>6. RecordsCounted'
  <2>1. n \in Nat /\ \A q \in Poller : reported[q] + polls[q].count \in Nat
    BY DEF ReadersTypeOK
  <2>2. /\ reported'[p] + polls'[p].count = n + counted
        /\ \A q \in Poller \ {p} : reported'[q] + polls'[q].count = reported[q] + polls[q].count
    BY <1>1, <1>2, <1>3, <1>4, <2>1 DEF ReadersTypeOK
  <2>3. CASE u \in recordUrls
    <3>1. counted = 0 /\ recordUrls' = recordUrls
      BY <1>1, <2>3 DEF Counted
    <3>2. InReports' = InReports
      BY <2>1, <2>2, <3>1, SameReports
    <3> QED BY <1>1, <3>1, <3>2 DEF RecordsCounted, PollsAddUp
  <2>4. CASE u \notin recordUrls
    <3>1. counted = 1
      BY <2>4 DEF Counted
    <3> HIDE DEF counted, u, n
    <3>2. InReports' = InReports \cup {<<p, n + 1>>} /\ <<p, n + 1>> \notin InReports
      <4>1. \A q \in Poller : \A x : <<q, x>> \in InReports <=> x \in 1 .. reported[q] + polls[q].count
        BY DEF InReports
      <4>2. \A q \in Poller : \A x : <<q, x>> \in InReports' <=> x \in 1 .. (reported'[q] + polls'[q].count)
        BY DEF InReports
      <4>3. 1 .. n + 1 = (1 .. n) \cup {n + 1} /\ n + 1 \notin 1 .. n
        BY <2>1
      <4>4. \A q \in Poller : \A x : <<q, x>> \in InReports' <=>
                                   <<q, x>> \in InReports \/ <<q, x>> = <<p, n + 1>>
        BY <2>2, <3>1, <4>1, <4>2, <4>3 DEF n
      <4>5. /\ \A z \in InReports : \E q \in Poller : \E x : z = <<q, x>>
            /\ \A z \in InReports' : \E q \in Poller : \E x : z = <<q, x>>
        BY DEF InReports
      <4>6. InReports' = InReports \cup {<<p, n + 1>>}
        BY <4>4, <4>5
      <4> QED BY <4>1, <4>3, <4>6 DEF n
    <3>3. /\ IsFiniteSet(InReports') /\ IsFiniteSet(recordUrls')
          /\ Cardinality(InReports') = Cardinality(InReports) + 1
          /\ Cardinality(recordUrls') = Cardinality(recordUrls) + 1
      BY <1>1, <2>4, <3>2, FS_AddElement DEF RecordsCounted
    <3>4. Cardinality(InReports) \in Nat /\ Cardinality(recordUrls) \in Nat /\ forgotten \in Int
      BY FS_CardinalityType DEF RecordsCounted, ReadersTypeOK
    <3> QED BY <1>1, <3>3, <3>4 DEF RecordsCounted, PollsAddUp
  <2> QED BY <2>3, <2>4
<1>7. \A q \in Poller : Taken(q)'
  BY <1>2, <1>4 DEF Taken, TakesEntry, EntryRaises, DocumentOf
<1> QED BY <1>5, <1>6, <1>7

\* The admin site and remove_expired_alert_records.
LEMMA RemovalHolds ==
  ASSUME PollsInv, ReadersInv',
         \/ \E u \in alertUrls : RemoveAlertRow(u)
         \/ \E u \in recordUrls : ForgetRecord(u)
  PROVE  PollsInv'
<1> USE DEF PollsInv
<1>1. UNCHANGED <<polls, allAlertUrls, brought, reported>>
  BY DEF RemoveAlertRow, ForgetRecord
<1>2. removals \in Int /\ forgotten \in Int /\ forgotten \in 0 .. removals /\ MaxRemovals \in Int
  BY ReadersAssumption DEF ReadersTypeOK
<1>3. ReadersTypeOK'
  <2>1. /\ alertUrls' \subseteq alertUrls /\ recordUrls' \subseteq recordUrls
        /\ removals' \in 0 .. MaxRemovals /\ forgotten' \in 0 .. removals'
    BY <1>2 DEF RemoveAlertRow, ForgetRecord, ReadersTypeOK
  <2> QED BY <1>1, <2>1 DEF ReadersTypeOK
<1>4. InReports' = InReports
  BY <1>1, SameReports
<1>5. RecordsCounted'
  <2>1. CASE UNCHANGED <<recordUrls, forgotten>>
    BY <1>1, <1>4, <2>1 DEF RecordsCounted, PollsAddUp
  <2>2. ASSUME NEW u \in recordUrls, ForgetRecord(u) PROVE RecordsCounted'
    <3>1. recordUrls' = recordUrls \ {u} /\ forgotten' = forgotten + 1
      BY <2>2 DEF ForgetRecord
    <3>2. /\ IsFiniteSet(recordUrls')
          /\ Cardinality(recordUrls') = Cardinality(recordUrls) - 1
          /\ Cardinality(recordUrls) \in Nat
      BY <3>1, FS_RemoveElement, FS_CardinalityType DEF RecordsCounted
    <3>3. Cardinality(recordUrls') + forgotten' = Cardinality(recordUrls) + forgotten
      BY <1>2, <3>1, <3>2
    <3> QED BY <1>1, <1>4, <3>2, <3>3 DEF RecordsCounted, PollsAddUp
  <2> QED BY <2>1, <2>2 DEF RemoveAlertRow
<1>6. \A q \in Poller : Taken(q)'
  BY <1>1 DEF Taken, TakesEntry, EntryRaises, DocumentOf
<1> QED BY <1>3, <1>5, <1>6

\* Each step of a reader.
LEMMA PollsInductive == PollsInv /\ [ReadersNext]_readersVars => PollsInv'
<1> SUFFICES ASSUME PollsInv, [ReadersNext]_readersVars PROVE PollsInv'
  OBVIOUS
<1> USE DEF PollsInv
<1>0. ReadersInv'
  BY ReadersInductive
<1>a. /\ \A p \in Poller : reported[p] \in Nat /\ polls[p].count \in Nat
      /\ alertUrls \subseteq Text \ {"none"} /\ DOMAIN reported = Poller /\ DOMAIN polls = Poller
  BY DEF ReadersTypeOK, RecordsCounted, ReadersInv, PollShape
<1>1. ASSUME NEW p \in Poller, BeginPoll(p) PROVE PollsInv'
  <2>1. PICK answered \in ListingsOf[p] :
          polls' = [polls EXCEPT ![p] = [NotPolling EXCEPT !.step = "entry", !.rest = answered]]
    BY <1>1 DEF BeginPoll
  <2>2. polls'[p] = [NotPolling EXCEPT !.step = "entry", !.rest = answered]
        /\ \A q \in Poller \ {p} : polls'[q] = polls[q]
    BY <1>a, <2>1
  <2>3. answered \in Seq(FeedEntry)
    BY ReadersAssumption
  <2>4. PollTyped(p)' /\ Taken(p)' /\ polls'[p].count = 0
    BY <2>2, <2>3 DEF NotPolling, PollTyped, Taken
  <2>5. polls[p].count = 0
    BY <1>1 DEF BeginPoll, Taken
  <2> QED BY <1>0, <1>a, <1>1, <2>2, <2>4, <2>5, PollHolds DEF BeginPoll
<1>2. ASSUME NEW p \in Poller, NextEntry(p) PROVE PollsInv'
  <2> DEFINE e == polls[p].rest[1]
  <2>1. \A q \in Poller \ {p} : polls'[q] = polls[q]
    BY <1>2 DEF NextEntry, ReadersInv, PollShape
  <2>2. /\ polls[p].rest # <<>> /\ polls[p].step = "entry"
        /\ polls'[p] = IF ~TakesEntry(p, e) THEN [polls[p] EXCEPT !.rest = Tail(@)]
                       ELSE IF InTables(e.key)
                            THEN [polls[p] EXCEPT !.rest = Tail(@), !.urls = NotedUrls(p, e)]
                            ELSE [polls[p] EXCEPT !.rest = Tail(@), !.urls = NotedUrls(p, e),
                                                  !.step = "fetch", !.entry = e]
    BY <1>2 DEF NextEntry, ReadersInv, PollShape
  <2>3. /\ e \in FeedEntry /\ Tail(polls[p].rest) \in Seq(FeedEntry)
        /\ TakesEntry(p, e) => e.key \in Text \ {"none"}
    BY <2>2, NextIsEntry
  <2>4. PollTyped(p)' /\ polls'[p].count = polls[p].count
    BY <2>2, <2>3 DEF ReadersInv, PollShape, ReadersTypeOK, PollTyped, NotedUrls
  <2>5. /\ polls'[p].step \in {"entry", "fetch"}
        /\ polls'[p].step = "fetch" => polls'[p].entry = e /\ TakesEntry(p, e)
    BY <2>2 DEF ReadersInv, PollShape
  <2>6. Taken(p)'
    BY <2>5 DEF Taken, TakesEntry, EntryRaises, DocumentOf
  <2> QED BY <1>0, <1>a, <1>2, <2>1, <2>4, <2>6, PollHolds DEF NextEntry
<1>3. ASSUME NEW p \in Poller, FetchFails(p) \/ NotCreated(p) \/ ProcessRaises(p)
      PROVE  PollsInv'
  <2>1. PICK valid \in BOOLEAN : polls' = [polls EXCEPT ![p] = Leave(p, valid, 0)]
    BY <1>3 DEF FetchFails, NotCreated, ProcessRaises
  <2> QED BY <1>0, <1>3, <2>1, LeaveHolds DEF FetchFails, NotCreated, ProcessRaises
<1>4. ASSUME NEW p \in Poller, CreateRow(p) \/ Processed(p) PROVE PollsInv'
  <2>1. PICK step \in {"process", "record"} : polls' = [polls EXCEPT ![p].step = step]
    BY <1>4 DEF CreateRow, Processed
  <2>2. polls'[p] = [polls[p] EXCEPT !.step = step] /\ \A q \in Poller \ {p} : polls'[q] = polls[q]
    BY <1>a, <2>1
  <2>3. polls[p].step \in {"fetch", "process"}
    BY <1>4 DEF CreateRow, Processed
  <2>4. PollTyped(p)' /\ Taken(p)' /\ polls'[p].count = polls[p].count
    BY <2>2, <2>3 DEF ReadersInv, PollShape, ReadersTypeOK, PollTyped, Taken
  <2>5. alertUrls' \subseteq Text \ {"none"}
    BY <1>a, <1>4, <2>3 DEF CreateRow, Processed, ReadersInv, InHand, ReadersTypeOK
  <2> QED BY <1>0, <1>a, <1>4, <2>2, <2>4, <2>5, PollHolds DEF CreateRow, Processed
<1>5. ASSUME NEW p \in Poller, RecordAlert(p) PROVE PollsInv'
  BY <1>0, <1>5, RecordHolds
<1>6. ASSUME NEW p \in Poller, FinishPoll(p) PROVE PollsInv'
  <2>1. /\ polls'[p] = NotPolling /\ \A q \in Poller \ {p} : polls'[q] = polls[q]
        /\ reported'[p] = reported[p] + polls[p].count
        /\ \A q \in Poller \ {p} : reported'[q] = reported[q]
        /\ DOMAIN reported' = Poller
    BY <1>a, <1>6 DEF FinishPoll
  <2>2. PollTyped(p)' /\ Taken(p)' /\ polls'[p].count = 0
    BY <2>1 DEF NotPolling, PollTyped, Taken
  <2>3. \E U \in SUBSET (Text \ {"none"}) : allAlertUrls' = [allAlertUrls EXCEPT ![p] = @ \cup U]
    <3>1. polls[p].urls \subseteq Text \ {"none"}
      BY DEF ReadersTypeOK
    <3>2. CASE polls[p].valid
      BY <1>6, <3>1, <3>2 DEF FinishPoll
    <3>3. CASE ~polls[p].valid
      <4>1. allAlertUrls' = [allAlertUrls EXCEPT ![p] = @ \cup {}]
        BY <1>6, <3>3 DEF FinishPoll
      <4> QED BY <4>1
    <3> QED BY <3>2, <3>3
  <2>4. /\ reported'[p] + polls'[p].count = reported[p] + polls[p].count /\ reported'[p] \in Nat
        /\ UNCHANGED <<alertUrls, recordUrls, brought, removals, forgotten>>
    BY <1>a, <1>6, <2>1, <2>2 DEF FinishPoll
  <2> QED BY <1>0, <1>a, <2>1, <2>2, <2>3, <2>4, PollHolds
<1>7. CASE \/ \E u \in alertUrls : RemoveAlertRow(u)
           \/ \E u \in recordUrls : ForgetRecord(u)
  BY <1>0, <1>7, RemovalHolds
<1>8. CASE UNCHANGED readersVars
  <2>1. InReports' = InReports
    BY <1>8 DEF readersVars, InReports
  <2> QED BY <1>0, <1>8, <2>1 DEF readersVars, ReadersTypeOK, RecordsCounted, PollsAddUp, Taken,
             TakesEntry, EntryRaises, DocumentOf
<1> QED BY <1>1, <1>2, <1>3, <1>4, <1>5, <1>6, <1>7, <1>8 DEF ReadersNext

LEMMA PollsStart == ReadersInit => PollsInv
<1> SUFFICES ASSUME ReadersInit PROVE PollsInv
  OBVIOUS
<1>1. ReadersInv
  BY DEF ReadersInit, ReadersInv, PollShape, NotPolling, Kept, InHand, IdleIsInvalid
<1>2. ReadersTypeOK
  <2>1. <<>> \in Seq(FeedEntry)
    OBVIOUS
  <2>2. \A p \in Poller : /\ polls[p] = NotPolling /\ allAlertUrls[p] = {}
                          /\ brought[p] = {} /\ reported[p] = 0
    BY DEF ReadersInit
  <2>3. \A p \in Poller :
          /\ polls[p].step = "idle" /\ polls[p].rest = <<>> /\ polls[p].urls = {}
          /\ polls[p].count = 0 /\ polls[p].valid = FALSE
    BY <2>2 DEF NotPolling
  <2>4. 0 \in 0 .. MaxRemovals
    BY ReadersAssumption
  <2>5. \A p \in Poller :
          polls[p].urls \cup allAlertUrls[p] \cup brought[p] \subseteq Text \ {"none"}
    BY <2>2, <2>3, Zenon
  <2>8. \A p \in Poller : polls[p].count \in Nat /\ polls[p].valid \in BOOLEAN /\ reported[p] \in Nat
    <3>1. 0 \in Nat
      OBVIOUS
    <3> QED BY <2>2, <2>3, <3>1, Zenon
  <2>7. \A p \in Poller : polls[p].rest \in Seq(FeedEntry)
    BY <2>1, <2>3, Zenon
  <2>6. removals = 0 /\ forgotten = 0 /\ alertUrls = {} /\ recordUrls = {} /\ 0 \in 0 .. 0
    BY DEF ReadersInit
  <2> QED BY <2>3, <2>4, <2>5, <2>6, <2>7, <2>8 DEF ReadersTypeOK
<1>3. InReports = {}
  BY DEF ReadersInit, InReports, NotPolling
<1>4. RecordsCounted
  BY <1>3, FS_EmptySet DEF ReadersInit, RecordsCounted, PollsAddUp
<1> QED BY <1>1, <1>2, <1>4 DEF PollsInv, Taken, ReadersInit, NotPolling

LEMMA PollsInvHolds == ReadersSpec => []PollsInv
BY PollsStart, PollsInductive, PTL DEF ReadersSpec

\* Polls, tables and what processes keep have their types (get_alerts).
THEOREM ReadersTyped == ReadersSpec => []ReadersTypeOK
<1>1. PollsInv => ReadersTypeOK
  BY DEF PollsInv
<1> QED BY <1>1, PollsInvHolds, PTL

\* Whatever polls overlap, fail or are refused a record: the document fetched is that of
\* the best link, the numbers reported are those of the records, and what was ingested
\* is kept (find_cap_link, get_alert, get_alerts).
THEOREM PollsStayRight == ReadersSpec => []PollsAreRight
<1>1. PollsInv => FetchesBestLink
  <2> SUFFICES ASSUME PollsInv, NEW p \in Poller, polls[p].step = "fetch", PolledOf[p] = "nws_us"
               PROVE  LET links == polls[p].entry.links IN
                      \E i \in DOMAIN links :
                        /\ links[i].href = DocumentOf(p, polls[p].entry)
                        /\ \A j \in DOMAIN links : \/ LinkRank(links[i]) < LinkRank(links[j])
                                                   \/ LinkRank(links[i]) = LinkRank(links[j]) /\ i <= j
    BY DEF FetchesBestLink
  <2>1. polls[p].entry.links \in Seq(AtomLink) /\ TakesEntry(p, polls[p].entry)
    BY DEF PollsInv, ReadersTypeOK, FeedEntry, Taken
  <2>2. DocumentOf(p, polls[p].entry) = FindCapLink(polls[p].entry.links)
    BY DEF DocumentOf
  <2>3. polls[p].entry.links # <<>>
    BY <2>1, <2>2 DEF TakesEntry, EntryRaises, FindCapLink
  <2> QED BY <2>1, <2>2, <2>3, BestLink
<1>2. PollsInv => PollsAddUp /\ BroughtIsKept
  BY DEF PollsInv, RecordsCounted, ReadersInv, Kept, IdleIsInvalid, BroughtIsKept
<1> QED BY <1>1, <1>2, PollsInvHolds, PTL DEF PollsAreRight

--------------------------------------------------------------------------------

(* AlertsCache. *)

\* The states of PopEach along a list.
PopStates(list, a, N, r) ==
  /\ r = [j \in 0 .. N |-> r[j]]
  /\ r[0] = [out |-> <<>>, passing |-> FALSE]
  /\ \A j \in 1 .. N : r[j] = PopOne(r[j - 1], list[j], a)

LEMMA PopStatesExist ==
  ASSUME NEW list, NEW a, NEW N \in Nat
  PROVE  \E r : PopStates(list, a, N, r)
<1> DEFINE G == {n \in 0 .. N : \E r : PopStates(list, a, n, r)}
           start == [out |-> <<>>, passing |-> FALSE]
<1>1. 0 \in G
  <2>1. PopStates(list, a, 0, [j \in 0 .. 0 |-> start])
    BY DEF PopStates
  <2> QED BY <2>1
<1>2. ASSUME NEW n \in 1 .. N, n - 1 \in G PROVE n \in G
  <2>1. PICK r : PopStates(list, a, n - 1, r)
    BY <1>2
  <2> DEFINE last == PopOne(r[n - 1], list[n], a)
             t == [j \in 0 .. n |-> IF j = n THEN last ELSE r[j]]
  <2> HIDE DEF last
  <2>2. n \in Nat /\ t[n] = last /\ \A j \in 0 .. n - 1 : t[j] = r[j]
    OBVIOUS
  <2>3. t = [j \in 0 .. n |-> t[j]]
    OBVIOUS
  <2> HIDE DEF t
  <2>4. ASSUME NEW j \in 1 .. n PROVE t[j] = PopOne(t[j - 1], list[j], a)
    <3>1. t[j - 1] = r[j - 1]
      BY <2>2
    <3>2. CASE j = n
      BY <2>2, <3>1, <3>2 DEF last
    <3>3. CASE j # n
      <4>1. j \in 1 .. n - 1 /\ t[j] = r[j]
        BY <2>2, <3>3
      <4> QED BY <2>1, <3>1, <4>1 DEF PopStates
    <3> QED BY <3>2, <3>3
  <2>5. PopStates(list, a, n, t)
    <3>1. t[0] = [out |-> <<>>, passing |-> FALSE]
      <4>1. 0 \in 0 .. n - 1
        OBVIOUS
      <4> QED BY <2>1, <2>2, <4>1 DEF PopStates
    <3> QED BY <2>3, <2>4, <3>1 DEF PopStates
  <2> QED BY <2>5
<1> HIDE DEF G
<1>3. 0 .. N \subseteq G
  BY <1>1, <1>2, UpTo
<1>4. N \in G
  BY <1>3
<1> QED BY <1>4 DEF G

LEMMA PopEachIs ==
  ASSUME NEW list, Len(list) \in Nat, NEW a
  PROVE  \E r : PopStates(list, a, Len(list), r) /\ PopEach(list, a) = r[Len(list)].out
<1> DEFINE N == Len(list)
           start == [out |-> <<>>, passing |-> FALSE]
           Is(r) == r = [n \in 0 .. N |-> IF n = 0 THEN start ELSE PopOne(r[n - 1], list[n], a)]
           st == CHOOSE r : Is(r)
<1>1. PICK r : PopStates(list, a, N, r)
  BY PopStatesExist
<1>2. Is(r)
  <2>1. ASSUME NEW n \in 0 .. N
        PROVE  r[n] = IF n = 0 THEN start ELSE PopOne(r[n - 1], list[n], a)
    <3>1. CASE n = 0
      BY <1>1, <3>1 DEF PopStates
    <3>2. CASE n # 0
      <4>1. n \in 1 .. N
        BY <3>2
      <4> QED BY <1>1, <3>2, <4>1 DEF PopStates
    <3> QED BY <3>1, <3>2
  <2>2. r = [n \in 0 .. N |-> r[n]]
    BY <1>1 DEF PopStates
  <2> QED BY <2>1, <2>2, Zenon
<1>3. PopEach(list, a) = st[N].out
  BY DEF PopEach
<1> HIDE DEF Is
<1>4. Is(st)
  BY <1>2, Zenon
<1> HIDE DEF st
<1>5. st = [n \in 0 .. N |-> IF n = 0 THEN start ELSE PopOne(st[n - 1], list[n], a)]
  BY <1>4 DEF Is
<1>6. \A n \in 0 .. N : st[n] = IF n = 0 THEN start ELSE PopOne(st[n - 1], list[n], a)
  BY <1>5, Zenon
<1>7. st = [n \in 0 .. N |-> st[n]]
  <2>1. DOMAIN st = 0 .. N
    BY <1>5, Zenon
  <2>2. st = [n \in DOMAIN st |-> st[n]]
    BY <1>5
  <2> QED BY <2>1, <2>2
<1>8. \A j \in 1 .. N : st[j] = PopOne(st[j - 1], list[j], a)
  BY <1>6
<1>9. st[0] = start
  <2>1. 0 \in 0 .. N
    OBVIOUS
  <2> HIDE DEF start
  <2>2. st[0] = IF 0 = 0 THEN start ELSE PopOne(st[0 - 1], list[0], a)
    BY <1>6, <2>1
  <2> QED BY <2>2
<1>10. PopStates(list, a, N, st)
  BY <1>7, <1>8, <1>9 DEF PopStates
<1> QED BY <1>3, <1>10

LEMMA ContainsAppended ==
  ASSUME NEW S, NEW list \in Seq(S), NEW x \in S
  PROVE  /\ Append(list, x) \in Seq(S)
         /\ Contains(Append(list, x), x)
         /\ \A y : Contains(list, y) => Contains(Append(list, x), y)
         /\ \A y : Contains(Append(list, x), y) => Contains(list, y) \/ y = x
BY DEF Contains

\* What is popped is the alert that is gone: every other one stays.
LEMMA PopsOnlyThat ==
  ASSUME NEW S, NEW list \in Seq(S), NEW a
  PROVE  /\ PopEach(list, a) \in Seq(S)
         /\ \A x : Contains(PopEach(list, a), x) => Contains(list, x)
         /\ \A x : x # a /\ Contains(list, x) => Contains(PopEach(list, a), x)
<1> DEFINE N == Len(list)
           Holds(st, n) ==
             /\ st = [out |-> st.out, passing |-> st.passing] /\ st.out \in Seq(S)
             /\ \A x : Contains(st.out, x) => \E i \in 1 .. n : list[i] = x
             /\ \A i \in 1 .. n : list[i] # a => Contains(st.out, list[i])
<1>1. PICK r : PopStates(list, a, N, r) /\ PopEach(list, a) = r[N].out
  BY PopEachIs
<1> DEFINE G == {n \in 0 .. N : Holds(r[n], n)}
<1>2. 0 \in G
  <2>1. Holds([out |-> <<>>, passing |-> FALSE], 0)
    BY DEF Contains
  <2>2. r[0] = [out |-> <<>>, passing |-> FALSE]
    BY <1>1 DEF PopStates
  <2>3. Holds(r[0], 0)
    <3> HIDE DEF Holds
    <3> QED BY <2>1, <2>2
  <2> QED BY <2>3
<1>3. ASSUME NEW n \in 1 .. N, n - 1 \in G PROVE n \in G
  <2> DEFINE st == r[n - 1]
  <2>1. r[n] = PopOne(st, list[n], a) /\ list[n] \in S
    BY <1>1 DEF PopStates
  <2>5. Holds(st, n - 1)
    BY <1>3
  <2> HIDE DEF st
  <2>2. \A i \in 1 .. n : i \in 1 .. n - 1 \/ i = n
    OBVIOUS
  <2>3. CASE list[n] = a /\ ~st.passing
    <3>1. r[n].out = st.out /\ r[n] = [out |-> r[n].out, passing |-> r[n].passing]
      BY <2>1, <2>3, <2>5 DEF PopOne
    <3> QED BY <2>5, <2>2, <2>3, <3>1
  <2>4. CASE ~(list[n] = a /\ ~st.passing)
    <3>1. r[n] = [out |-> Append(st.out, list[n]), passing |-> FALSE]
      BY <2>1, <2>4 DEF PopOne
    <3>3. st.out \in Seq(S)
      BY <2>5
    <3>2. /\ Append(st.out, list[n]) \in Seq(S)
          /\ Contains(Append(st.out, list[n]), list[n])
          /\ \A y : Contains(st.out, y) => Contains(Append(st.out, list[n]), y)
          /\ \A y : Contains(Append(st.out, list[n]), y) => Contains(st.out, y) \/ y = list[n]
      BY <2>1, <3>3, ContainsAppended
    <3>4. r[n] = [out |-> r[n].out, passing |-> r[n].passing] /\ r[n].out \in Seq(S)
      BY <3>1, <3>2
    <3>5. ASSUME NEW x, Contains(r[n].out, x) PROVE \E i \in 1 .. n : list[i] = x
      BY <2>5, <3>1, <3>2, <3>5
    <3>6. ASSUME NEW i \in 1 .. n, list[i] # a PROVE Contains(r[n].out, list[i])
      <4>1. r[n].out = Append(st.out, list[n])
        BY <3>1
      <4>2. CASE i = n
        BY <3>2, <4>1, <4>2
      <4>3. CASE i \in 1 .. n - 1
        BY <2>5, <3>2, <3>6, <4>1, <4>3
      <4> QED BY <2>2, <4>2, <4>3
    <3>7. Holds(r[n], n)
      BY <3>4, <3>5, <3>6
    <3> QED BY <3>7
  <2> QED BY <2>3, <2>4
<1> HIDE DEF G
<1>5. N \in Nat
  OBVIOUS
<1>4. N \in G
  <2>1. 0 .. N \subseteq G
    BY <1>2, <1>3, <1>5, UpTo
  <2> QED BY <1>5, <2>1
<1> QED BY <1>1, <1>4 DEF G, Contains
\* The runs of the tasks and the lists of the countries.
CacheShape ==
  /\ fast \in [Task -> [step: {"asleep", "work", "set"}, old: SUBSET AlertId,
                        new: SUBSET AlertId, seen: SUBSET AlertId, list: Seq(AlertId)]]
  /\ DOMAIN ofCountry = Place

\* What is held of alerts is of those that came, and what a run drops is gone.
HeldCame ==
  /\ db \cap gone = {} /\ alertset \cup alertset2 \subseteq db \cup gone
  /\ \A a : InAlerts(a) => a \in db \cup gone
  /\ \A t \in Task : /\ fast[t].old \subseteq gone /\ fast[t].seen \subseteq db \cup gone
                     /\ \A a : Contains(fast[t].list, a) => a \in db \cup gone

\* The list a run of update_cache_fast_2 works on: its alerts have their details, what was
\* known is in it, and what the run saw is in it or about to be.
ListInWork ==
  LET round == fast["fast_2"] IN
  /\ round.step # "asleep" =>
       /\ \A a \in db : Contains(round.list, a) => a \in detail
       /\ \A a \in alertset2 \cap db : Contains(round.list, a)
       /\ \A a \in round.seen \cap db : a \in round.new \/ Contains(round.list, a)
  /\ round.step = "set" => round.old = {} /\ round.new = {} /\ alerts = round.list

CacheInv == CacheTypeOK /\ CacheShape /\ HeldCame /\ KnownIsListed /\ ListedHasDetail /\ ListInWork

LEMMA CacheStart == CacheInit => CacheInv
<1> SUFFICES ASSUME CacheInit PROVE CacheInv
  OBVIOUS
<1>1. CacheShape
  BY DEF CacheInit, CacheShape, Asleep, Task
<1>2. CacheTypeOK
  <2>1. \A t \in Task : fast[t] = Asleep
    BY DEF CacheInit
  <2>2. \A t \in Task : /\ fast[t].step \in {"asleep", "work", "set"}
                        /\ fast[t].old \cup fast[t].new \cup fast[t].seen \subseteq AlertId
                        /\ fast[t].list \in Seq(AlertId)
    <3>1. /\ Asleep.step = "asleep" /\ Asleep.old \cup Asleep.new \cup Asleep.seen = {}
          /\ Asleep.list = <<>> /\ <<>> \in Seq(AlertId)
      BY DEF Asleep
    <3> QED BY <2>1, <3>1
  <2>3. \A p \in Place : ofCountry[p] \in Seq({a \in AlertId : PlaceOf[a] = p})
    BY DEF CacheInit
  <2>4. db \cup gone \cup alertset \cup alertset2 \cup detail \subseteq AlertId /\ alerts \in Seq(AlertId)
    BY DEF CacheInit
  <2>5. kills \in 0 .. MaxKills
    BY CacheAssumption DEF CacheInit
  <2> QED BY <2>2, <2>3, <2>4, <2>5 DEF CacheTypeOK
<1> QED BY <1>1, <1>2 DEF CacheInv, CacheInit, HeldCame, KnownIsListed, ListedHasDetail, ListInWork,
           InAlerts, Contains, Asleep, Task

\* The alert table.
LEMMA TableKeeps ==
  ASSUME CacheInv, NEW a \in AlertId, AddAlert(a) \/ RemoveAlert(a)
  PROVE  CacheInv'
<1>1. /\ UNCHANGED <<alerts, alertset, alertset2, ofCountry, detail, fast, kills>>
      /\ \A x : x \in db' => (x = a /\ a \notin db \cup gone) \/ x \in db
      /\ \A x : x \in db \cup gone => x \in db' \cup gone'
      /\ gone \subseteq gone' /\ db' \cap gone' = {} /\ db' \cup gone' \subseteq AlertId
  BY DEF AddAlert, RemoveAlert, CacheInv, HeldCame, CacheTypeOK
<1>2. CacheTypeOK' /\ CacheShape'
  BY <1>1 DEF CacheInv, CacheTypeOK, CacheShape
<1>3. HeldCame'
  BY <1>1 DEF CacheInv, HeldCame, InAlerts
<1>4. KnownIsListed' /\ ListedHasDetail'
  BY <1>1 DEF CacheInv, HeldCame, KnownIsListed, ListedHasDetail, InAlerts
<1>5. ListInWork'
  BY <1>1 DEF CacheInv, HeldCame, ListInWork, Task
<1> QED BY <1>2, <1>3, <1>4, <1>5 DEF CacheInv

\* A run of a task gets a record of its own, and that of the other task stays.
LEMMA RunGoes ==
  ASSUME CacheInv, NEW t \in Task, NEW round, Goes(t, round)
  PROVE  /\ fast' = [fast EXCEPT ![t] = round]
         /\ fast'[t] = round /\ \A o \in Task \ {t} : fast'[o] = fast[o]
BY DEF Goes, CacheInv, CacheShape

\* A step that changes the run of one task only.
LEMMA RunKeepsType ==
  ASSUME CacheInv, NEW t \in Task,
         NEW round \in [step: {"asleep", "work", "set"}, old: SUBSET AlertId,
                      new: SUBSET AlertId, seen: SUBSET AlertId, list: Seq(AlertId)],
         Goes(t, round), UNCHANGED <<db, gone>>,
         alertset' \cup alertset2' \cup detail' \subseteq AlertId, alerts' \in Seq(AlertId),
         kills' \in 0 .. MaxKills, DOMAIN ofCountry' = Place,
         \A p \in Place : ofCountry'[p] \in Seq({a \in AlertId : PlaceOf[a] = p})
  PROVE  CacheTypeOK' /\ CacheShape'
<1>1. CacheShape'
  <2>1. fast' = [fast EXCEPT ![t] = round]
    BY DEF Goes
  <2> QED BY <2>1 DEF CacheInv, CacheShape
<1>2. CacheTypeOK'
  <2>1. \A o \in Task : /\ fast'[o].step \in {"asleep", "work", "set"}
                        /\ fast'[o].old \cup fast'[o].new \cup fast'[o].seen \subseteq AlertId
                        /\ fast'[o].list \in Seq(AlertId)
    BY <1>1 DEF CacheShape
  <2> QED BY <2>1 DEF CacheInv, CacheTypeOK
<1> QED BY <1>1, <1>2

LEMMA BeginKeeps ==
  ASSUME CacheInv, NEW t \in Task, BeginFast(t)
  PROVE  CacheInv'
<1> DEFINE known == IF t = "fast_1" THEN alertset ELSE alertset2
           round == [step |-> "work", old |-> known \ db, new |-> db \ known, seen |-> db,
                   list |-> IF t = "fast_1" THEN <<>> ELSE alerts]
<1>1. Goes(t, round) /\ UNCHANGED <<db, gone, alerts, alertset, alertset2, ofCountry, detail, kills>>
  BY DEF BeginFast
<1>2. known \subseteq db \cup gone /\ known \subseteq AlertId /\ db \subseteq AlertId /\ alerts \in Seq(AlertId)
  BY DEF CacheInv, HeldCame, CacheTypeOK
<1>3. fast'[t] = round /\ \A o \in Task \ {t} : fast'[o] = fast[o]
  BY <1>1, RunGoes
<1>4. CacheTypeOK' /\ CacheShape'
  <2>1. round \in [step: {"asleep", "work", "set"}, old: SUBSET AlertId,
                 new: SUBSET AlertId, seen: SUBSET AlertId, list: Seq(AlertId)]
    BY <1>2
  <2> HIDE DEF round
  <2> QED BY <1>1, <2>1, RunKeepsType DEF CacheInv, CacheTypeOK, CacheShape
<1>5. HeldCame'
  <2>1. \A a : ~Contains(<<>>, a)
    BY DEF Contains
  <2>2. round.old \subseteq gone /\ round.seen \subseteq db \cup gone
    BY <1>2
  <2>3. \A a : Contains(round.list, a) => a \in db \cup gone
    BY <2>1 DEF CacheInv, HeldCame, InAlerts
  <2> HIDE DEF round
  <2> QED BY <1>1, <1>3, <2>2, <2>3 DEF CacheInv, HeldCame, InAlerts
<1>6. KnownIsListed' /\ ListedHasDetail'
  BY <1>1 DEF CacheInv, KnownIsListed, ListedHasDetail, InAlerts
<1>7. ListInWork'
  <2>1. CASE t = "fast_1"
    <3>1. fast'["fast_2"] = fast["fast_2"]
      BY <1>3, <2>1 DEF Task
    <3> QED BY <1>1, <3>1 DEF CacheInv, ListInWork
  <2>2. CASE t = "fast_2"
    <3>1. fast'["fast_2"] = [step |-> "work", old |-> alertset2 \ db, new |-> db \ alertset2,
                             seen |-> db, list |-> alerts]
      BY <1>3, <2>2
    <3> QED BY <1>1, <3>1 DEF CacheInv, ListInWork, KnownIsListed, ListedHasDetail, InAlerts
  <2> QED BY <2>1, <2>2 DEF Task
<1> QED BY <1>4, <1>5, <1>6, <1>7 DEF CacheInv

LEMMA DropKeeps ==
  ASSUME CacheInv, NEW a \in AlertId, DropOld1(a) \/ DropOld2(a)
  PROVE  CacheInv'
<1>1. CASE DropOld1(a)
  <2> DEFINE round == [fast["fast_1"] EXCEPT !.old = @ \ {a}]
  <2>1. /\ Goes("fast_1", round) /\ "fast_1" \in Task
        /\ UNCHANGED <<db, gone, alerts, alertset, alertset2, ofCountry, detail, kills>>
    BY <1>1 DEF DropOld1, Task
  <2>2. /\ round \in [step: {"asleep", "work", "set"}, old: SUBSET AlertId,
                    new: SUBSET AlertId, seen: SUBSET AlertId, list: Seq(AlertId)]
        /\ round.old \subseteq fast["fast_1"].old /\ round.seen = fast["fast_1"].seen
        /\ round.list = fast["fast_1"].list
    BY <2>1 DEF CacheInv, CacheShape
  <2> HIDE DEF round
  <2>3. fast'["fast_1"] = round /\ \A o \in Task \ {"fast_1"} : fast'[o] = fast[o]
    BY <2>1, RunGoes
  <2>4. CacheTypeOK' /\ CacheShape'
    <3>1. /\ alertset' \cup alertset2' \cup detail' \subseteq AlertId /\ alerts' \in Seq(AlertId)
          /\ kills' \in 0 .. MaxKills /\ DOMAIN ofCountry' = Place
          /\ \A p \in Place : ofCountry'[p] \in Seq({x \in AlertId : PlaceOf[x] = p})
      BY <2>1 DEF CacheInv, CacheTypeOK, CacheShape
    <3> QED BY <2>1, <2>2, <3>1, RunKeepsType
  <2>5. HeldCame'
    BY <2>1, <2>2, <2>3 DEF CacheInv, HeldCame, InAlerts
  <2>6. fast'["fast_2"] = fast["fast_2"]
    BY <2>3 DEF Task
  <2> QED BY <2>1, <2>4, <2>5, <2>6 DEF CacheInv, KnownIsListed, ListedHasDetail, ListInWork, InAlerts
<1>2. CASE DropOld2(a)
  <2> DEFINE was == fast["fast_2"]
             round == [was EXCEPT !.old = @ \ {a}, !.list = PopEach(@, a)]
  <2>1. /\ Goes("fast_2", round) /\ "fast_2" \in Task
        /\ UNCHANGED <<db, gone, alerts, alertset, alertset2, ofCountry, kills>>
        /\ detail \ {a} \subseteq detail' /\ detail' \subseteq detail /\ a \in was.old
    BY <1>2 DEF DropOld2, Task
  <2>2. was \in [step: {"asleep", "work", "set"}, old: SUBSET AlertId,
                 new: SUBSET AlertId, seen: SUBSET AlertId, list: Seq(AlertId)]
    BY <2>1 DEF CacheInv, CacheShape
  <2>3. /\ PopEach(was.list, a) \in Seq(AlertId)
        /\ \A x : Contains(PopEach(was.list, a), x) => Contains(was.list, x)
        /\ \A x : x # a /\ Contains(was.list, x) => Contains(PopEach(was.list, a), x)
    BY <2>2, PopsOnlyThat
  <2>4. /\ round \in [step: {"asleep", "work", "set"}, old: SUBSET AlertId,
                    new: SUBSET AlertId, seen: SUBSET AlertId, list: Seq(AlertId)]
        /\ round.step = was.step /\ round.old \subseteq was.old /\ round.seen = was.seen
        /\ round.new = was.new /\ round.list = PopEach(was.list, a)
    BY <2>2, <2>3
  <2>5. a \notin db /\ was.step # "set"
    BY <2>1 DEF CacheInv, HeldCame, ListInWork, Task
  <2>6. fast'["fast_2"] = round /\ \A o \in Task \ {"fast_2"} : fast'[o] = fast[o]
    BY <2>1, RunGoes
  <2> HIDE DEF round
  <2>7. CacheTypeOK' /\ CacheShape'
    BY <2>1, <2>4, RunKeepsType DEF CacheInv, CacheTypeOK, CacheShape
  <2>8. HeldCame'
    <3>1. \A o \in Task : /\ fast'[o].old \subseteq fast[o].old /\ fast'[o].seen = fast[o].seen
                          /\ \A x : Contains(fast'[o].list, x) => Contains(fast[o].list, x)
      BY <2>3, <2>4, <2>6
    <3> QED BY <2>1, <3>1 DEF CacheInv, HeldCame, InAlerts
  <2>9. KnownIsListed' /\ ListedHasDetail'
    BY <2>1, <2>5 DEF CacheInv, KnownIsListed, ListedHasDetail, InAlerts
  <2>10. ListInWork'
    BY <2>1, <2>3, <2>4, <2>5, <2>6 DEF CacheInv, ListInWork
  <2> QED BY <2>7, <2>8, <2>9, <2>10 DEF CacheInv
<1> QED BY <1>1, <1>2

LEMMA TakeKeeps ==
  ASSUME CacheInv, NEW t \in Task, NEW a \in AlertId, TakeNew(t, a)
  PROVE  CacheInv'
<1> DEFINE was == fast[t]
           listed == a \in db /\ t = "fast_2"
           round == [was EXCEPT !.new = @ \ {a}, !.list = IF listed THEN Append(@, a) ELSE @]
<1>1. /\ Goes(t, round) /\ was.step = "work" /\ a \in was.new
      /\ UNCHANGED <<db, gone, alerts, alertset, alertset2, kills>>
      /\ detail' = IF a \in db THEN detail \cup {a} ELSE detail
      /\ ofCountry' = IF a \in db /\ t = "fast_1"
                      THEN [ofCountry EXCEPT ![PlaceOf[a]] = Append(@, a)] ELSE ofCountry
  BY DEF TakeNew, WithDetail, ListOf
<1>2. was \in [step: {"asleep", "work", "set"}, old: SUBSET AlertId,
               new: SUBSET AlertId, seen: SUBSET AlertId, list: Seq(AlertId)]
  BY DEF CacheInv, CacheShape
<1>3. was.list \in Seq(AlertId)
  BY <1>2
<1>4. /\ Append(was.list, a) \in Seq(AlertId) /\ Contains(Append(was.list, a), a)
      /\ \A y : Contains(was.list, y) => Contains(Append(was.list, a), y)
      /\ \A y : Contains(Append(was.list, a), y) => Contains(was.list, y) \/ y = a
  BY <1>3, ContainsAppended
<1>5. /\ round \in [step: {"asleep", "work", "set"}, old: SUBSET AlertId,
                  new: SUBSET AlertId, seen: SUBSET AlertId, list: Seq(AlertId)]
      /\ round.step = "work" /\ round.old = was.old /\ round.seen = was.seen /\ round.new = was.new \ {a}
      /\ round.list = IF listed THEN Append(was.list, a) ELSE was.list
  BY <1>1, <1>2, <1>4
<1>6. fast'[t] = round /\ \A o \in Task \ {t} : fast'[o] = fast[o]
  BY <1>1, RunGoes
<1> HIDE DEF round
<1>7. CacheTypeOK' /\ CacheShape'
  <2>1. DOMAIN ofCountry' = Place
    BY <1>1 DEF CacheInv, CacheShape
  <2>2. ASSUME NEW p \in Place PROVE ofCountry'[p] \in Seq({x \in AlertId : PlaceOf[x] = p})
    <3> DEFINE Those == {x \in AlertId : PlaceOf[x] = p}
    <3>1. ofCountry[p] \in Seq(Those) /\ DOMAIN ofCountry = Place
      BY DEF CacheInv, CacheTypeOK, CacheShape
    <3>2. CASE PlaceOf[a] = p
      <4>1. a \in Those
        BY <3>2
      <4> HIDE DEF Those
      <4>2. Append(ofCountry[p], a) \in Seq(Those)
        BY <3>1, <4>1
      <4> QED BY <1>1, <3>1, <3>2, <4>2 DEF Those
    <3>3. CASE PlaceOf[a] # p
      <4>1. ofCountry'[p] = ofCountry[p]
        BY <1>1, <3>1, <3>3
      <4> QED BY <3>1, <4>1
    <3> QED BY <3>2, <3>3
  <2> QED BY <1>1, <1>5, <2>1, <2>2, RunKeepsType DEF CacheInv, CacheTypeOK
<1>8. HeldCame'
  <2>1. \A o \in Task : /\ fast'[o].old = fast[o].old /\ fast'[o].seen = fast[o].seen
                        /\ \A x : Contains(fast'[o].list, x) => Contains(fast[o].list, x) \/ x \in db
    <3>1. \A x : Contains(round.list, x) => Contains(was.list, x) \/ x \in db
      <4>1. CASE listed
        BY <1>4, <1>5, <4>1
      <4>2. CASE ~listed
        BY <1>5, <4>2
      <4> QED BY <4>1, <4>2
    <3> QED BY <1>5, <1>6, <3>1
  <2> QED BY <1>1, <2>1 DEF CacheInv, HeldCame, InAlerts
<1>9. KnownIsListed' /\ ListedHasDetail'
  BY <1>1 DEF CacheInv, KnownIsListed, ListedHasDetail, InAlerts
<1>10. ListInWork'
  <2>1. CASE t = "fast_1"
    <3>1. fast'["fast_2"] = fast["fast_2"]
      BY <1>6, <2>1 DEF Task
    <3> QED BY <1>1, <3>1 DEF CacheInv, ListInWork
  <2>2. CASE t = "fast_2"
    <3>1. /\ fast'["fast_2"] = round /\ was = fast["fast_2"] /\ UNCHANGED <<db, alerts, alertset2>>
          /\ \A x \in db : x \in detail \/ x = a => x \in detail'
      BY <1>1, <1>6, <2>2
    <3>2. /\ \A x \in db : Contains(was.list, x) => x \in detail
          /\ \A x \in alertset2 \cap db : Contains(was.list, x)
          /\ \A x \in was.seen \cap db : x \in was.new \/ Contains(was.list, x)
      BY <1>1, <3>1 DEF CacheInv, ListInWork
    <3>3. /\ \A x : Contains(was.list, x) => Contains(round.list, x)
          /\ \A x : Contains(round.list, x) => Contains(was.list, x) \/ x = a
          /\ a \in db => Contains(round.list, a)
      <4>1. CASE listed
        BY <1>4, <1>5, <4>1
      <4>2. CASE ~listed
        BY <1>5, <2>2, <4>2
      <4> QED BY <4>1, <4>2
    <3>4. /\ \A x \in db : Contains(round.list, x) => x \in detail'
          /\ \A x \in alertset2 \cap db : Contains(round.list, x)
          /\ \A x \in round.seen \cap db : x \in round.new \/ Contains(round.list, x)
      <4> HIDE DEF was
      <4> QED BY <1>5, <3>1, <3>2, <3>3
    <3>5. round.step # "set"
      BY <1>5
    <3> QED BY <3>1, <3>4, <3>5 DEF ListInWork
  <2> QED BY <2>1, <2>2 DEF Task
<1> QED BY <1>7, <1>8, <1>9, <1>10 DEF CacheInv

\* A run that ends, or is killed.
LEMMA AsleepKeeps ==
  ASSUME CacheInv, NEW t \in Task, Goes(t, Asleep), UNCHANGED <<db, gone, alerts, ofCountry, detail>>,
         kills' \in 0 .. MaxKills, alertset' \subseteq AlertId, alertset2' \subseteq AlertId,
         alertset' \cup alertset2' \subseteq db \cup gone, \A a \in alertset2' \cap db : InAlerts(a),
         t = "fast_1" => alertset2' = alertset2
  PROVE  CacheInv'
<1>1. fast'[t] = Asleep /\ \A o \in Task \ {t} : fast'[o] = fast[o]
  BY RunGoes
<1>2. Asleep \in [step: {"asleep", "work", "set"}, old: SUBSET AlertId,
                  new: SUBSET AlertId, seen: SUBSET AlertId, list: Seq(AlertId)]
  BY DEF Asleep
<1>3. CacheTypeOK' /\ CacheShape'
  BY <1>2, RunKeepsType DEF CacheInv, CacheTypeOK, CacheShape
<1>4. \A a : ~Contains(Asleep.list, a)
  BY DEF Asleep, Contains
<1>5. HeldCame'
  <2>1. \A o \in Task : fast'[o] = Asleep \/ fast'[o] = fast[o]
    BY <1>1
  <2>2. Asleep.old = {} /\ Asleep.seen = {}
    BY DEF Asleep
  <2> QED BY <1>4, <2>1, <2>2 DEF CacheInv, HeldCame, InAlerts
<1>6. KnownIsListed' /\ ListedHasDetail'
  BY DEF CacheInv, KnownIsListed, ListedHasDetail, InAlerts
<1>7. ListInWork'
  <2>1. CASE t = "fast_1"
    <3>1. fast'["fast_2"] = fast["fast_2"] /\ alertset2' = alertset2
      BY <1>1, <2>1 DEF Task
    <3> QED BY <3>1 DEF CacheInv, ListInWork
  <2>2. CASE t = "fast_2"
    <3>1. fast'["fast_2"].step = "asleep"
      BY <1>1, <2>2 DEF Asleep
    <3> QED BY <3>1 DEF ListInWork
  <2> QED BY <2>1, <2>2 DEF Task
<1> QED BY <1>3, <1>5, <1>6, <1>7 DEF CacheInv

\* The list first, then the set of what it holds.
LEMMA StoresKeep ==
  ASSUME CacheInv, SetAlerts \/ SetAlertset2 \/ SetAlertset
  PROVE  CacheInv'
<1> "fast_1" \in Task /\ "fast_2" \in Task
  BY DEF Task
<1>1. CASE SetAlerts
  <2> DEFINE was == fast["fast_2"]
             round == [was EXCEPT !.step = "set"]
  <2>1. /\ Goes("fast_2", round) /\ alerts' = was.list /\ Worked("fast_2")
        /\ UNCHANGED <<db, gone, alertset, alertset2, ofCountry, detail, kills>>
    BY <1>1 DEF SetAlerts
  <2>2. was \in [step: {"asleep", "work", "set"}, old: SUBSET AlertId,
                 new: SUBSET AlertId, seen: SUBSET AlertId, list: Seq(AlertId)]
    BY DEF CacheInv, CacheShape
  <2>3. was.step = "work" /\ was.old = {} /\ was.new = {}
    BY <2>1 DEF Worked
  <2>4. /\ round \in [step: {"asleep", "work", "set"}, old: SUBSET AlertId,
                    new: SUBSET AlertId, seen: SUBSET AlertId, list: Seq(AlertId)]
        /\ round.step = "set" /\ round.old = {} /\ round.new = {} /\ round.seen = was.seen
        /\ round.list = was.list /\ was.list \in Seq(AlertId)
    BY <2>2, <2>3
  <2>5. fast'["fast_2"] = round /\ \A o \in Task \ {"fast_2"} : fast'[o] = fast[o]
    BY <2>1, RunGoes
  <2> HIDE DEF round
  <2>6. CacheTypeOK' /\ CacheShape'
    BY <2>1, <2>4, RunKeepsType DEF CacheInv, CacheTypeOK, CacheShape
  <2>7. HeldCame'
    <3>1. \A o \in Task : /\ fast'[o].old = fast[o].old /\ fast'[o].seen = fast[o].seen
                          /\ fast'[o].list = fast[o].list
      BY <2>3, <2>4, <2>5
    <3> QED BY <2>1, <3>1 DEF CacheInv, HeldCame, InAlerts
  <2>8. KnownIsListed' /\ ListedHasDetail'
    BY <2>1, <2>3 DEF CacheInv, KnownIsListed, ListedHasDetail, ListInWork, InAlerts
  <2>9. ListInWork'
    BY <2>1, <2>3, <2>4, <2>5 DEF CacheInv, ListInWork
  <2> QED BY <2>6, <2>7, <2>8, <2>9 DEF CacheInv
<1>2. CASE SetAlertset2
  <2>1. /\ fast["fast_2"].step = "set" /\ alertset2' = fast["fast_2"].seen /\ Goes("fast_2", Asleep)
        /\ UNCHANGED <<db, gone, alerts, alertset, ofCountry, detail, kills>>
    BY <1>2 DEF SetAlertset2, Tracked
  <2>2. alertset2' \subseteq db \cup gone /\ \A a \in alertset2' \cap db : InAlerts(a)
    BY <2>1 DEF CacheInv, HeldCame, ListInWork, InAlerts
  <2>3. alertset' \subseteq AlertId /\ alertset2' \subseteq AlertId /\ kills' \in 0 .. MaxKills
        /\ alertset' \subseteq db \cup gone
    BY <2>1 DEF CacheInv, CacheTypeOK, HeldCame
  <2> QED BY <2>1, <2>2, <2>3, AsleepKeeps
<1>3. CASE SetAlertset
  <2>1. /\ alertset' = fast["fast_1"].seen /\ Goes("fast_1", Asleep)
        /\ UNCHANGED <<db, gone, alerts, alertset2, ofCountry, detail, kills>>
    BY <1>3 DEF SetAlertset, Tracked
  <2>2. alertset' \subseteq db \cup gone /\ \A a \in alertset2' \cap db : InAlerts(a)
    BY <2>1 DEF CacheInv, HeldCame, KnownIsListed
  <2>3. alertset' \subseteq AlertId /\ alertset2' \subseteq AlertId /\ kills' \in 0 .. MaxKills
        /\ alertset2' \subseteq db \cup gone
    BY <2>1 DEF CacheInv, CacheTypeOK, HeldCame
  <2> QED BY <2>1, <2>2, <2>3, AsleepKeeps
<1> QED BY <1>1, <1>2, <1>3

LEMMA KillKeeps ==
  ASSUME CacheInv, NEW t \in Task, KillFast(t)
  PROVE  CacheInv'
<1>1. /\ Goes(t, Asleep) /\ kills < MaxKills /\ kills' = kills + 1
      /\ UNCHANGED <<db, gone, alerts, alertset, alertset2, ofCountry, detail>>
  BY DEF KillFast
<1>2. kills' \in 0 .. MaxKills
  BY <1>1, CacheAssumption DEF CacheInv, CacheTypeOK
<1>3. /\ alertset' \subseteq AlertId /\ alertset2' \subseteq AlertId
      /\ alertset' \cup alertset2' \subseteq db \cup gone /\ \A a \in alertset2' \cap db : InAlerts(a)
  BY <1>1 DEF CacheInv, CacheTypeOK, HeldCame, KnownIsListed
<1> QED BY <1>1, <1>2, <1>3, AsleepKeeps

LEMMA CacheInductive == CacheInv /\ [CacheNext]_cacheVars => CacheInv'
<1> SUFFICES ASSUME CacheInv, [CacheNext]_cacheVars PROVE CacheInv'
  OBVIOUS
<1>1. ASSUME NEW a \in AlertId, AddAlert(a) \/ RemoveAlert(a) PROVE CacheInv'
  BY <1>1, TableKeeps
<1>2. ASSUME NEW t \in Task, FastStep(t) PROVE CacheInv'
  BY <1>2, BeginKeeps, TakeKeeps, DropKeeps, StoresKeep DEF FastStep, Fast1, Fast2
<1>3. ASSUME NEW t \in Task, KillFast(t) PROVE CacheInv'
  BY <1>3, KillKeeps
<1>4. CASE UNCHANGED cacheVars
  BY <1>4 DEF cacheVars, CacheInv, CacheTypeOK, CacheShape, HeldCame, KnownIsListed,
              ListedHasDetail, ListInWork, InAlerts
<1> QED BY <1>1, <1>2, <1>3, <1>4 DEF CacheNext

LEMMA CacheInvHolds == CacheSpec => []CacheInv
BY CacheStart, CacheInductive, PTL DEF CacheSpec

\* The table, the keys of the cache and the runs of the tasks have their types
\* (update_alerts_cache, calculate_country_alerts).
THEOREM CacheTyped == CacheSpec => []CacheTypeOK
<1>1. CacheInv => CacheTypeOK
  BY DEF CacheInv
<1> QED BY <1>1, CacheInvHolds, PTL

\* The safety of CacheFollows: whatever the two tasks write in turn and wherever they
\* are killed, an alert that counts as known is listed and one that is listed has its
\* details, as long as it exists (update_alerts_cache).
THEOREM CacheIsSound == CacheSpec => [](KnownIsListed /\ ListedHasDetail)
<1>1. CacheInv => KnownIsListed /\ ListedHasDetail
  BY DEF CacheInv
<1> QED BY <1>1, CacheInvHolds, PTL

--------------------------------------------------------------------------------

(* MCTasks. *)

\* A behaviour of the run is a behaviour of each component, so that what is proved
\* of one holds in the run.
THEOREM TasksRunIsEach == TasksSpec => Spec /\ CheckerSpec /\ ReadersSpec /\ CacheSpec
<1>1. TasksInit => Init /\ CheckerInit /\ ReadersInit /\ CacheInit
  BY DEF TasksInit
<1>2. [TasksNext]_tasksVars
        => /\ [Next]_vars /\ [CheckerNext]_checkerVars
           /\ [ReadersNext]_readersVars /\ [CacheNext]_cacheVars
  BY DEF TasksNext, LockPart, CachePart, ReadersPart, CheckerPart, tasksVars, lockVars
<1> QED BY <1>1, <1>2, PTL DEF TasksSpec, Spec, CheckerSpec, ReadersSpec, CacheSpec

\* Locks, caches, reports and polls keep their types side by side.
THEOREM TasksTyped == TasksSpec => []TasksTypeOK
<1>1. TypeOK /\ CacheTypeOK /\ CheckerTypeOK /\ ReadersTypeOK => TasksTypeOK
  BY DEF TasksTypeOK
<1> QED BY <1>1, TasksRunIsEach, TypeCorrect, CacheTyped, CheckerTyped, ReadersTyped, PTL

================================================================================
