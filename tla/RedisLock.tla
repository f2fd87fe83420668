------------------------------- MODULE RedisLock -------------------------------
(***************************************************************************)
(* redis_lock of utils/common.py, the context manager that keeps two runs  *)
(* of a celery task apart: cache.add of a key with a time to live, the     *)
(* body, and cache.delete unless the body has run for too long.  The key   *)
(* holds no owner, so a delete removes whatever key is there.              *)
(*                                                                         *)
(* Time is measured in ticks.  Ages count from the start of a run and the  *)
(* key counts down, so that no clock has to be bounded.  A run is killed   *)
(* when it reaches the hard time limit of its queue.                       *)
(***************************************************************************)
EXTENDS Integers

CONSTANTS
  Run,        \* runs of the task that may overlap: processes of its queue
  NoRun,      \* model value
  TTL,        \* settings.REDIS_LOCK_EXPIRE
  Margin,     \* the 3 seconds by which timeout_at precedes the expiry
  HardLimit,  \* the time limit of the queue's workers
  DeleteTime  \* how long a delete that was decided may take to reach redis

ASSUME LockAssumption ==
  /\ NoRun \notin Run
  /\ TTL \in Nat /\ Margin \in Nat /\ HardLimit \in Nat \ {0} /\ DeleteTime \in Nat
  /\ Margin < TTL

VARIABLES
  owner,   \* the run whose cache.add set the key, NoRun when there is no key
  ttl,     \* ticks before the key expires
  pc,      \* where each run stands
  age,     \* ticks since timeout_at was computed
  delay    \* ticks since a delete was decided

vars == <<owner, ttl, pc, age, delay>>

\* "begun": timeout_at is computed, cache.add not done; "body": the lock was
\* acquired; "deleting": the delete is decided.
Steps == {"idle", "begun", "body", "deleting"}

TypeOK ==
  /\ owner \in Run \cup {NoRun}
  /\ ttl \in 0..TTL
  /\ pc \in [Run -> Steps]
  /\ age \in [Run -> 0..HardLimit]
  /\ delay \in [Run -> 0..DeleteTime]

Init ==
  /\ owner = NoRun
  /\ ttl = 0
  /\ pc = [r \in Run |-> "idle"]
  /\ age = [r \in Run |-> 0]
  /\ delay = [r \in Run |-> 0]

--------------------------------------------------------------------------------
End(r) ==
  /\ pc' = [pc EXCEPT ![r] = "idle"]
  /\ age' = [age EXCEPT ![r] = 0]
  /\ delay' = [delay EXCEPT ![r] = 0]

\* The task starts: timeout_at is computed before cache.add.
Begin(r) ==
  /\ pc[r] = "idle"
  /\ pc' = [pc EXCEPT ![r] = "begun"]
  /\ UNCHANGED <<owner, ttl, age, delay>>

\* Sensitivity variant: get and set in place of add.
KeyIgnored == owner \in Run \cup {NoRun}

\* cache.add finds no key.
KeyAbsent == owner = NoRun

\* cache.add sets the key with its time to live, and status is True.
Acquire(r) ==
  /\ pc[r] = "begun"
  /\ KeyAbsent
  /\ owner' = r
  /\ ttl' = TTL
  /\ pc' = [pc EXCEPT ![r] = "body"]
  /\ UNCHANGED <<age, delay>>

\* status is False: every task returns at once.
Refused(r) ==
  /\ pc[r] = "begun"
  /\ owner # NoRun
  /\ End(r)
  /\ UNCHANGED <<owner, ttl>>

\* Sensitivity variant: a release that does not look at the time.
AnyTime(r) == age[r] \in Nat

\* time.monotonic() < timeout_at
BeforeTimeout(r) == age[r] < TTL - Margin

\* The body ends, by its end or an exception: the lock is released in time...
DecideDelete(r) ==
  /\ pc[r] = "body"
  /\ BeforeTimeout(r)
  /\ pc' = [pc EXCEPT ![r] = "deleting"]
  /\ UNCHANGED <<owner, ttl, age, delay>>

\* ... or left to expire.
LeaveLock(r) ==
  /\ pc[r] = "body"
  /\ ~BeforeTimeout(r)
  /\ End(r)
  /\ UNCHANGED <<owner, ttl>>

\* cache.delete: the key goes, whoever set it.
Delete(r) ==
  /\ pc[r] = "deleting"
  /\ owner' = NoRun
  /\ ttl' = 0
  /\ End(r)

\* The process dies, at any time or by the hard time limit.
Kill(r) ==
  /\ pc[r] # "idle"
  /\ End(r)
  /\ UNCHANGED <<owner, ttl>>

Running(r) == pc[r] # "idle"

\* Sensitivity variant: a key without time to live.
TtlKept == ttl

\* Sensitivity variant: a countdown that does not stop.
TtlUnfloored == ttl - 1

\* The time to live of the key one tick later.
TtlAfterTick == IF ttl > 0 THEN ttl - 1 ELSE 0

\* Time passes, for runs within their hard limit and deletes under way.
PassTime ==
  /\ \A r \in Run : Running(r) => age[r] < HardLimit
  /\ \A r \in Run : pc[r] = "deleting" => delay[r] < DeleteTime
  /\ ttl' = TtlAfterTick
  /\ owner' = IF ttl' = 0 THEN NoRun ELSE owner
  /\ age' = [r \in Run |-> IF Running(r) THEN age[r] + 1 ELSE age[r]]
  /\ delay' = [r \in Run |-> IF pc[r] = "deleting" THEN delay[r] + 1 ELSE delay[r]]
  /\ UNCHANGED pc

RunStep(r) ==
  \/ Begin(r) \/ Acquire(r) \/ Refused(r) \/ DecideDelete(r) \/ LeaveLock(r)
  \/ Delete(r) \/ Kill(r)

Next == PassTime \/ \E r \in Run : RunStep(r)

Spec == Init /\ [][Next]_vars

\* Time passes; a run that has begun gets its answer from redis; the beat sends
\* the task again and again.
Fairness ==
  /\ WF_vars(PassTime)
  /\ \A r \in Run : WF_vars(Acquire(r) \/ Refused(r)) /\ WF_vars(Delete(r))
  /\ \A r \in Run : WF_vars(DecideDelete(r) \/ LeaveLock(r) \/ Kill(r))
FairSpec == Spec /\ Fairness

--------------------------------------------------------------------------------
InBody(r) == pc[r] \in {"body", "deleting"}

\* Two runs never hold the lock at once: what "is already running" says in every
\* task.  It needs a hard time limit below the expiry of the key.
MutualExclusion == \A r, q \in Run : InBody(r) /\ InBody(q) => r = q

\* The runs that are younger than the expiry see the lock that TaskLock promises,
\* though older ones may still be in their bodies and release it: one of them at
\* most is in its body, the key stays while it is, and a next one enters only when
\* there is no key.  It is all that add and a delete without an owner have to give
\* (utils/common.py:67-80), and what the other modules take from it.
Fresh(r) == InBody(r) /\ age[r] < TTL
Lock == INSTANCE TaskLock WITH holder <- owner, inside <- {r \in Run : Fresh(r)}
TaskLockKept == Lock!Spec

\* A delete never removes a key another run has set: the reason for timeout_at.
\* It holds even for runs that outlive the lock, if the delete takes no longer
\* than the margin.
DeletesOwnLock == [][\A r \in Run : Delete(r) => owner \in {r, NoRun}]_vars

\* The key does not stay for ever, even if the run that set it was killed.
LockIsFreed == []<>(owner = NoRun)

================================================================================
