------------------------------- MODULE Monitor --------------------------------
(*****************************************************************************)
(* What a mutex with one condition variable promises its callers: at most    *)
(* one thread is inside, a waiter leaves and starts to wait in one step, a   *)
(* wake reaches a thread that is already waiting, and a waiter comes back    *)
(* only when nobody is inside.  os::Mutex with os::ConditionVariable         *)
(* (BioSync) is shown to implement this module.                              *)
(*****************************************************************************)
CONSTANT Threads    \* the threads that share the mutex

VARIABLE st         \* st[t]: where t stands with respect to the monitor

Inside == {t \in Threads : st[t] = "in"}
Waiting == {t \in Threads : st[t] = "waiting"}

Init == st = [t \in Threads |-> "out"]

(* Lock returns (or TryLock returns true). *)
Enter(t) ==
  /\ st[t] = "out"
  /\ Inside = {}
  /\ st' = [st EXCEPT ![t] = "in"]

(* Unlock is called. *)
Leave(t) ==
  /\ st[t] = "in"
  /\ st' = [st EXCEPT ![t] = "out"]

(* The mutex is given up and the wait begins, with nothing in between. *)
Wait(t) ==
  /\ st[t] = "in"
  /\ st' = [st EXCEPT ![t] = "waiting"]

(* A wake reaches waiting threads only. *)
Wake(W) ==
  /\ W # {} /\ W \subseteq Waiting
  /\ st' = [t \in Threads |-> IF t \in W THEN "woken" ELSE st[t]]

(* A woken thread returns from the wait: it is inside again. *)
Return(t) ==
  /\ st[t] = "woken"
  /\ Inside = {}
  /\ st' = [st EXCEPT ![t] = "in"]

(* The wait times out; the thread has to enter again like anybody else. *)
TimeOut(t) ==
  /\ st[t] \in {"waiting", "woken"}
  /\ st' = [st EXCEPT ![t] = "out"]

Next ==
  \/ \E t \in Threads :
       Enter(t) \/ Leave(t) \/ Wait(t) \/ Return(t) \/ TimeOut(t)
  \/ \E W \in SUBSET Threads : Wake(W)

Spec == Init /\ [][Next]_st
===============================================================================
