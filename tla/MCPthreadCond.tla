---------------------------- MODULE MCPthreadCond -----------------------------
(* Three threads on one pthread mutex and one condition variable. *)
EXTENDS PthreadCond, TLC

CONSTANTS t1, t2, t3

(* Everybody waits and signals, from anywhere; or the mutex is used alone. *)
AllClients ==
  {[waits |-> {t1, t2, t3}, from |-> {"idle", "cs"}, types |-> {"strict", "recursive"}],
   [waits |-> {}, from |-> {}, types |-> Types]}

ThreadSymmetry == Permutations({t1, t2, t3})
===============================================================================
