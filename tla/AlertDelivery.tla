----------------------------- MODULE AlertDelivery -----------------------------
(***************************************************************************)
(* What tagging promises to subscribers: every alert that arrives is dealt *)
(* with once, in one step that adds at most one row per subscription to    *)
(* those it matches; nothing is added for it before or after.              *)
(***************************************************************************)
EXTENDS Integers

CONSTANTS Subscription, Url

VARIABLES
  state,  \* [Url -> {"absent", "pending", "done"}]
  rows    \* [Subscription \X Url -> Nat], what subscribers see

Arrive(u) == /\ state[u] = "absent"
             /\ state' = [state EXCEPT ![u] = "pending"]
             /\ UNCHANGED rows

\* The alerts of U are handed to the subscriptions that R pairs them with.
Deliver(U, R) ==
  /\ \A u \in U : state[u] = "pending"
  /\ state' = [u \in Url |-> IF u \in U THEN "done" ELSE state[u]]
  /\ rows' = [p \in Subscription \X Url |-> IF p \in R THEN rows[p] + 1 ELSE rows[p]]

Init == /\ state = [u \in Url |-> "absent"]
        /\ rows = [p \in Subscription \X Url |-> 0]

Next == \/ \E u \in Url : Arrive(u)
        \/ \E U \in SUBSET Url : \E R \in SUBSET (Subscription \X U) : Deliver(U, R)

vars == <<state, rows>>
Spec == Init /\ [][Next]_vars

\* Dealt with once.
AtMostOnce == \A p \in Subscription \X Url : rows[p] <= 1

================================================================================
