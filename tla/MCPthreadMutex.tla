---------------------------- MODULE MCPthreadMutex ----------------------------
(* Three threads on one pthread mutex. *)
EXTENDS PthreadMutex, TLC

CONSTANTS t1, t2, t3

ThreadSymmetry == Permutations({t1, t2, t3})
===============================================================================
