-------------------------- MODULE MCSubscriptionLists --------------------------
(***************************************************************************)
(* An instance of SubscriptionLists: a user with two subscriptions in a    *)
(* country with two divisions and an alert, and one in another country.    *)
(***************************************************************************)
EXTENDS SubscriptionLists

CONSTANTS t1, t2, t3, w1, y1, y2, v1, v2, z1

MCOwnerOf == [s \in {t1, t2, t3} |-> w1]

MCCountryOf ==
  [x \in {t1, t2, t3, v1, v2, z1} |-> IF x = t3 THEN y2 ELSE y1]

MCStoredIds == [s \in {t1, t2, t3} |-> CASE s = t1 -> <<v2, v1>> [] s = t2 -> <<v1>> [] s = t3 -> <<>>]

MCMaxCopies == [s \in {t1, t2, t3} |-> CASE s = t1 -> 2 [] s = t2 -> 1 [] s = t3 -> 0]

MCFieldSets == {{"counts", "alerts"}, {"divisions", "country"}, {"all"}}
================================================================================
