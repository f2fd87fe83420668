------------------------------ MODULE MCRedisLock ------------------------------
(***************************************************************************)
(* Instances of RedisLock with three runs.  A tick stands for about two    *)
(* minutes of the expiry of ten.                                           *)
(***************************************************************************)
EXTENDS RedisLock

CONSTANTS r1, r2, r3
================================================================================
