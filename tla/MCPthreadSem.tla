---------------------------- MODULE MCPthreadSem ------------------------------
(* Three threads wait for and post one semaphore. *)
EXTENDS PthreadSem

CONSTANTS t1, t2, t3
===============================================================================
