-------------------------- MODULE MCPthreadBarrier ----------------------------
(* Two threads at a barrier for two, one of which destroys it. *)
EXTENDS PthreadBarrier

CONSTANTS b1, b2
===============================================================================
