-------------------------------- MODULE TaskLock --------------------------------
(***************************************************************************)
(* What redis_lock promises to the tasks that use it, without its times: a *)
(* run enters its body only when there is no key; the key is taken away by *)
(* the run that set it as it leaves, or expires once that run is not       *)
(* inside; a run that is killed leaves it behind.                          *)
(***************************************************************************)
CONSTANTS
  Run,    \* runs of the task
  NoRun   \* no run

VARIABLES
  holder,  \* the run that set the key, NoRun when there is none
  inside   \* the runs in the body of the lock

vars == <<holder, inside>>

Init == /\ holder = NoRun
        /\ inside = {}

\* The key is set; the run may be dead before it learns so.
Take(r) ==
  /\ holder = NoRun
  /\ holder' = r
  /\ inside' \in {inside, inside \cup {r}}

\* The body ends and the key is deleted, or left behind.
Leave(r) ==
  /\ r \in inside
  /\ inside' = inside \ {r}
  /\ holder' \in {holder, NoRun}

\* A key that was left behind expires.
Expire ==
  /\ holder \notin inside
  /\ holder' = NoRun
  /\ UNCHANGED inside

Next == Expire \/ \E r \in Run : Take(r) \/ Leave(r)

Spec == Init /\ [][Next]_vars

\* Whoever is inside is alone, and it is his key.
OnlyHolderInside == inside \subseteq {holder}

================================================================================
