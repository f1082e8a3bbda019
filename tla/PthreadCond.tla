------------------------------ MODULE PthreadCond -----------------------------
(*****************************************************************************)
(* pthread_cond_wait, _timedwait, _signal and _broadcast of rthread_cond.c,  *)
(* composed with the mutex they are used with (PthreadMutex): one condition  *)
(* variable, one mutex.  cond->sem is a second semaphore of the abstraction  *)
(* layer; a waiter holds its lock from before it unlocks the mutex until it  *)
(* sleeps, and again from its wake-up until it has the mutex back.           *)
(*****************************************************************************)
EXTENDS PthreadMutex

CONSTANT
  Clients      \* the ways of using the two that are considered: who waits, where
               \* signals are sent from, "cs" being with the mutex, and with
               \* which types of mutex

ASSUME ClientsAssumption ==
  Clients \subseteq [waits : SUBSET Threads, from : SUBSET {"idle", "cs"},
                     types : SUBSET Types]

VARIABLES
  client,      \* how the threads use the variable
  csem,        \* phal: the thread that holds the lock of cond->sem
  saved        \* mutex_count in _rthread_cond_timedwait

vars == <<type, client, lock, owner, count, sem, pc, ret, timed, late, csem, saved>>

WaitPCs == {"c_lock", "c_release", "c_wait", "c_asleep", "c_wake", "c_relock",
            "c_unlock"}
SignalSteps == {"s_lock", "s_signal", "s_broadcast", "s_unlock"}

Init ==
  /\ MutexInit
  /\ client \in Clients /\ type \in client.types
  /\ csem = NoThread
  /\ saved = [t \in Threads |-> 0]

CondAsleep == {t \in Threads : pc[t] = "c_asleep"}

(* The client that uses the mutex alone. *)
MutexOnly == client.waits = {} /\ client.from = {}

MutexUnchanged == UNCHANGED <<lock, owner, count, sem, timed, late>>

-------------------------------------------------------------------------------
(* Faulty variant: the mutex is unlocked without the lock of cond->sem. *)
WaitBegin_NoLock(t, d) ==
  /\ pc[t] = "cs"
  /\ saved' = [saved EXCEPT ![t] = count]
  /\ timed' = IF d THEN timed \cup {t} ELSE timed \ {t}
  /\ Goto(t, "c_release")
  /\ UNCHANGED <<lock, owner, count, sem, late, ret, csem>>

(* _rthread_cond_timedwait *)
WaitBegin(t, d) ==
  /\ pc[t] = "cs"
  /\ saved' = [saved EXCEPT ![t] = count]
  /\ timed' = IF d THEN timed \cup {t} ELSE timed \ {t}
  /\ Goto(t, "c_lock")
  /\ UNCHANGED <<lock, owner, count, sem, late, ret, csem>>

CondLock(t, at, next) ==
  /\ pc[t] = at /\ csem = NoThread
  /\ csem' = t /\ Goto(t, next)
  /\ MutexUnchanged /\ UNCHANGED <<ret, saved>>

(* pthread_mutex_unlock: of a recursive mutex with a count, only the count   *)
(* goes down.                                                                *)
WaitRelease(t) ==
  /\ Unlock(t, "c_release", "c_wait") \/ UnlockCount(t, "c_release", "c_wait")
  /\ UNCHANGED <<csem, saved>>

(* phal_semaphore_wait *)
WaitSleep(t) ==
  /\ pc[t] = "c_wait"
  /\ csem' = NoThread /\ Goto(t, "c_asleep")
  /\ MutexUnchanged /\ UNCHANGED <<ret, saved>>

WaitDeadline(t) ==
  /\ t \in CondAsleep \cap timed
  /\ Goto(t, "c_wake")
  /\ MutexUnchanged /\ UNCHANGED <<ret, csem, saved>>

(* Faulty variant: the mutex is not locked again. *)
WaitRelock_Not(t) ==
  /\ pc[t] = "c_relock" /\ Goto(t, "c_unlock")
  /\ MutexUnchanged /\ UNCHANGED <<ret, csem, saved>>

WaitRelock(t) ==
  /\ Lock(t, "c_relock", FALSE, "c_unlock")
  /\ UNCHANGED <<csem, saved>>

WaitReturn(t) ==
  /\ pc[t] = "c_unlock"
  /\ csem' = NoThread
  /\ count' = IF type = "recursive" THEN saved[t] ELSE count
  /\ Goto(t, "cs")
  /\ UNCHANGED <<lock, owner, sem, timed, late, ret, saved>>

-------------------------------------------------------------------------------
(* pthread_cond_signal and pthread_cond_broadcast *)
SignalBegin(t) ==
  /\ pc[t] \in client.from
  /\ ret' = [ret EXCEPT ![t] = pc[t]]
  /\ Goto(t, "s_lock")
  /\ MutexUnchanged /\ UNCHANGED <<csem, saved>>

SignalOne(t) ==
  /\ pc[t] = "s_signal"
  /\ \/ CondAsleep = {} /\ Goto(t, "s_unlock")
     \/ \E w \in CondAsleep : pc' = [pc EXCEPT ![t] = "s_unlock", ![w] = "c_wake"]
  /\ MutexUnchanged /\ UNCHANGED <<ret, csem, saved>>

SignalAll(t) ==
  /\ pc[t] = "s_broadcast"
  /\ pc' = [u \in Threads |-> IF u = t THEN "s_unlock"
                              ELSE IF u \in CondAsleep THEN "c_wake" ELSE pc[u]]
  /\ MutexUnchanged /\ UNCHANGED <<ret, csem, saved>>

SignalEnd(t) ==
  /\ pc[t] = "s_unlock"
  /\ csem' = NoThread /\ Goto(t, ret[t])
  /\ MutexUnchanged /\ UNCHANGED <<ret, saved>>

-------------------------------------------------------------------------------
CondNext(t) ==
  \/ t \in client.waits /\ \E d \in BOOLEAN : WaitBegin(t, d)
  \/ CondLock(t, "c_lock", "c_release") \/ CondLock(t, "c_wake", "c_relock")
  \/ WaitRelease(t) \/ WaitSleep(t) \/ WaitDeadline(t) \/ WaitRelock(t)
  \/ WaitReturn(t)
  \/ SignalBegin(t)
  \/ \E next \in {"s_signal", "s_broadcast"} : CondLock(t, "s_lock", next)
  \/ SignalOne(t) \/ SignalAll(t) \/ SignalEnd(t)

(* The threads lock, with or without a deadline, try and lock again, but a   *)
(* client that waits or signals does so without deadline or try, and locks   *)
(* again a recursive mutex only.                                             *)
Callers(t) ==
  /\ \/ \E d \in BOOLEAN : (d => MutexOnly) /\ Lock(t, "idle", d, "cs")
     \/ \E d \in BOOLEAN : /\ IF MutexOnly THEN type = "strict" => d
                                          ELSE type = "recursive" /\ ~d
                           /\ Lock(t, "cs", d, "cs")
     \/ MutexOnly /\ (TryLock(t) \/ TryLockAgain(t))
     \/ UnlockCount(t, "cs", "cs") \/ Unlock(t, "cs", "idle")
     \/ MutexStep(t)
  /\ UNCHANGED <<csem, saved>>

CondSpecNext == UNCHANGED <<type, client>> /\ \E t \in Threads : CondNext(t) \/ Callers(t)

CondSpec == Init /\ [][CondSpecNext]_vars

-------------------------------------------------------------------------------
CondTypeOK ==
  /\ type \in Types /\ client \in Clients
  /\ lock \in {UNLOCKED, LOCKED, CONTENDED}
  /\ owner \in Threads \cup {NoThread} /\ sem \in Threads \cup {NoThread}
  /\ csem \in Threads \cup {NoThread}
  /\ count \in 0..MaxCount /\ saved \in [Threads -> 0..MaxCount]
  /\ pc \in [Threads -> MutexPCs \cup WaitPCs \cup SignalSteps]
  /\ ret \in [Threads -> {"idle", "cs", "c_wait", "c_unlock"}]
  /\ timed \subseteq Threads /\ late \subseteq Threads

(* The waiter that has given the mutex up, or is giving it up, and does not  *)
(* sleep yet.                                                                *)
Falling(t) == pc[t] = "c_wait" \/ (pc[t] \in UnlockSteps /\ ret[t] = "c_wait")

(* "This ensures the atomicity of thread wakeups": no signal or broadcast    *)
(* acts between the moment a waiter begins to unlock the mutex and the       *)
(* moment it sleeps, so a signal sent by a thread that saw the mutex free    *)
(* finds the waiter asleep.                                                  *)
WaitIsAtomic ==
  \A t, u \in Threads : ~(Falling(t) /\ pc[u] \in {"s_signal", "s_broadcast"})

(* A thread that returns from the wait has the mutex, and alone, also when   *)
(* its deadline raced a signal or several waiters were woken together.       *)
ReturnsWithMutex ==
  /\ \A t \in Threads : pc[t] \in {"cs", "c_unlock"} => owner = t
  /\ \A t, u \in Threads : Holds(t) /\ Holds(u) => t = u

(* "Lock the semaphore now, and unlock user mutex then": a thread that       *)
(* sleeps in the wait has given the mutex up.                                *)
SleeperReleasedMutex == \A t \in CondAsleep : owner # t
===============================================================================
