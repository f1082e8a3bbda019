--------------------------- MODULE MCPthreadThread ----------------------------
(* Two application threads create, join and detach up to two others. *)
EXTENDS PthreadThread

CONSTANTS p1, p2, c1, c2
===============================================================================
