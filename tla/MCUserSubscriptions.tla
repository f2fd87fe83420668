-------------------------- MODULE MCUserSubscriptions --------------------------
(***************************************************************************)
(* Instances of UserSubscriptions: two users, primary keys for a full      *)
(* table and one deletion, two requests at once.                           *)
(***************************************************************************)
EXTENDS UserSubscriptions, TLC

CONSTANTS u1, u2, s1, s2, s3, q1, q2, q3

RequestSymmetry == Permutations({q1, q2, q3} \cap Request)
UserSymmetry == Permutations(Users)
SubscriptionSymmetry == Permutations(Subscription)
Symmetry == RequestSymmetry \cup UserSymmetry \cup SubscriptionSymmetry
================================================================================
