-------------------------------- MODULE MCTasks --------------------------------
(***************************************************************************)
(* Components that share no table or key in what is checked of them:       *)
(* redis_lock, the legacy caches, the feed checker and the feed readers,   *)
(* checked side by side.  A behaviour is one of the component named by     *)
(* part, while the others rest.                                            *)
(***************************************************************************)
EXTENDS MCRedisLock, AlertsCache, MCFeedChecker, MCFeedReaders

CONSTANTS a1, a2, p1, p2

\* The cache holds two alerts of two countries.
MCPlaceOf == [a \in AlertId |-> IF a = a1 THEN p1 ELSE p2]

VARIABLE part

lockVars == vars
tasksVars == <<part, lockVars, cacheVars, checkerVars, readersVars>>

TasksInit ==
  /\ part \in {"lock", "cache", "checker", "log", "readers"}
  /\ Init /\ CacheInit /\ CheckerInit /\ ReadersInit
  /\ part # "checker" => stored = [f \in CheckedFeed |-> "nothing"]

LockPart ==
  /\ part = "lock" /\ Next
  /\ UNCHANGED <<part, cacheVars, checkerVars, readersVars>>
CachePart ==
  /\ part = "cache" /\ CacheNext
  /\ UNCHANGED <<part, lockVars, checkerVars, readersVars>>
ReadersPart ==
  /\ part = "readers" /\ ReadersNext
  /\ UNCHANGED <<part, lockVars, cacheVars, checkerVars>>

\* The command reads the log and only prints what it read: the log and its clock
\* have a part of their own.  The verdict of a feed depends on its own rows only:
\* those of one feed change during the run, those of the other before it.
CheckerPart ==
  /\ part \in {"checker", "log"}
  /\ CheckerNext
  /\ IF part = "checker" THEN logs' = logs /\ clock' = clock /\ stored'[g2] = stored[g2] ELSE run' = run
  /\ UNCHANGED <<part, lockVars, cacheVars, readersVars>>

TasksNext == LockPart \/ CachePart \/ CheckerPart \/ ReadersPart

\* The fairness of each component, for the one that runs.
TasksFairness ==
  /\ WF_vars(part = "lock" /\ PassTime)
  /\ \A r \in Run : /\ WF_vars(part = "lock" /\ (Acquire(r) \/ Refused(r)))
                    /\ WF_vars(part = "lock" /\ Delete(r))
                    /\ WF_vars(part = "lock" /\ (DecideDelete(r) \/ LeaveLock(r) \/ Kill(r)))
  /\ \A t \in Task : WF_cacheVars(part = "cache" /\ FastStep(t))
  /\ WF_checkerVars(part = "checker" /\ Command)

TasksSpec == TasksInit /\ [][TasksNext]_tasksVars /\ TasksFairness

\* Every variable of the four components has its type.
TasksTypeOK == TypeOK /\ CacheTypeOK /\ CheckerTypeOK /\ ReadersTypeOK
================================================================================
