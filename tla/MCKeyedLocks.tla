---------------------------- MODULE MCKeyedLocks ----------------------------
(* Constant values for the runs of KeyedLocks. *)
EXTENDS KeyedLocks

CONSTANTS t1, t2, t3, k1, k2, r1, r2, r3
=============================================================================
