------------------------- MODULE MCSubscriptionEmails --------------------------
(***************************************************************************)
(* An instance of SubscriptionEmails: two users with a subscription each,  *)
(* the first of which asks for both alerts and the other for one.          *)
(***************************************************************************)
EXTENDS SubscriptionEmails

CONSTANTS m1, m2, v1, v2, a1, a2

MCOwner == [s \in {m1, m2} |-> IF s = m1 THEN v1 ELSE v2]
MCAsked == {<<m1, a1>>, <<m1, a2>>, <<m2, a2>>}
================================================================================
