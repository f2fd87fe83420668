------------------------------ MODULE MCFeedTasks ------------------------------
(***************************************************************************)
(* Instances of FeedTasks.  The tasks of two feeds are independent but for *)
(* the command that regenerates all of them, which goes through them one   *)
(* by one, so one feed and its overlapping requests are enough.            *)
(***************************************************************************)
EXTENDS FeedTasks, TLC

CONSTANTS f1, a1, a2

Symmetry == Permutations(Admin)
================================================================================
