------------------------------ MODULE MCMemoryLog ------------------------------
(* The search for addresses, or the log: Init chooses which, and the other   *)
(* does not move.                                                            *)
EXTENDS OsMemory, FloraLog

VARIABLE part

(* Twelve pages: two regions, a page that is in use with too little room     *)
(* before it, and room on both sides of the second region.                   *)
MCAddressSpace == [start |-> 2, end |-> 14]
MCRegions == <<[start |-> 3, end |-> 5], [start |-> 10, end |-> 11]>>
MCUsed == {6}

(* An empty text and another. *)
MCTextLen == <<0, 2>>

allvars == <<vars, logvars, part>>

MCInit ==
  /\ Init /\ LogInit /\ part \in {"memory", "log"}
  /\ part = "memory" => up
  /\ part = "log" => \A o \in Objects : obj[o].size = 1

Memory(A) == part = "memory" /\ A /\ UNCHANGED <<logvars, part>>
Log(A) == part = "log" /\ A /\ UNCHANGED <<vars, part>>

(* The fairness of OsMemory and of FloraLog. *)
MCSpec ==
  /\ MCInit /\ [][Memory(Next) \/ Log(LogNext)]_allvars
  /\ \A t \in Threads : WF_allvars(Memory(Query(t)))
  /\ WF_allvars(Log(Deliver)) /\ WF_allvars(Log(Receive))
===============================================================================
