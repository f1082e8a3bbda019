---------------------------- MODULE MCPthreadObjects ---------------------------
(* A read-write lock with four threads, or a barrier for two or for all of   *)
(* four, or thread-specific data with the initial thread and another one:    *)
(* Init chooses which, and the others do not move.  They share nothing.      *)
EXTENDS PthreadRwlock, PthreadTls, PthreadBarrier

CONSTANTS t0, t1, r1, r2, r3, r4

VARIABLE part

allvars == <<vars, tlsvars, bvars, part>>

MCInit ==
  /\ part \in {"tls", "rwlock", "barrier"} /\ Init /\ TlsInit /\ BarrierInit
  /\ part # "barrier" => threshold = 2

MCNext ==
  \/ part = "tls" /\ TlsNext /\ UNCHANGED <<vars, bvars, part>>
  \/ part = "rwlock" /\ Next /\ UNCHANGED <<tlsvars, bvars, part>>
  \/ part = "barrier" /\ BarrierNext /\ UNCHANGED <<vars, tlsvars, part>>

(* The fairness is that of TlsFairSpec. *)
MCSpec ==
  /\ MCInit /\ [][MCNext]_allvars
  /\ \A t \in TlsThreads :
       WF_tlsvars(part = "tls" /\ Destructors(t) /\ UNCHANGED <<vars, bvars, part>>)
===============================================================================
