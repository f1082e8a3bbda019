--------------------------- MODULE PthreadCondProofs --------------------------
(*****************************************************************************)
(* Proofs about the pthread mutex, alone and together with the condition     *)
(* variable, for any set of threads, any mutex type, any way of using the    *)
(* two and any bound on the recursion count.                                 *)
(*****************************************************************************)
EXTENDS PthreadCond, TLAPS

USE NoThreadAssumption, TypesAssumption, MaxCountAssumption, ClientsAssumption
    DEF UNLOCKED, LOCKED, CONTENDED

(* Used alone, the mutex starts with its invariant. *)
LEMMA InitIInv == MutexInit => IInv
<1> SUFFICES ASSUME MutexInit PROVE IInv
  OBVIOUS
<1> QED
  BY DEF MutexInit, IInv, TypeOK, MutualExclusion, NoOrphanLock, CountIsOwners,
     Holds, MutexPCs, LockSteps, WaitSteps, UnlockSteps, SelfSteps, OwnerSteps

(* Every step of the mutex keeps it, one step of the proof per access. *)
LEMMA NextIInv == IInv /\ [Next]_mvars => IInv'
<1> SUFFICES ASSUME IInv, [Next]_mvars PROVE IInv'
  OBVIOUS
<1> USE DEF IInv, TypeOK, MutualExclusion, NoOrphanLock, CountIsOwners, Holds,
        MutexPCs, LockSteps, WaitSteps, UnlockSteps, SelfSteps, OwnerSteps, Goto
<1>0. type' = type
  BY DEF Next, mvars
<1>1. ASSUME NEW t \in Threads, NEW d \in BOOLEAN,
             Lock(t, "idle", d, "cs") \/ Lock(t, "cs", d, "cs")
      PROVE  IInv'
  BY <1>0, <1>1 DEF Lock
<1>2. ASSUME NEW t \in Threads, TryLock(t) PROVE IInv'
  BY <1>0, <1>2 DEF TryLock
<1>18. ASSUME NEW t \in Threads, TryLockAgain(t) PROVE IInv'
  BY <1>0, <1>18 DEF TryLockAgain
<1>3. ASSUME NEW t \in Threads, UnlockCount(t, "cs", "cs") PROVE IInv'
  BY <1>0, <1>3 DEF UnlockCount
<1>4. ASSUME NEW t \in Threads, Unlock(t, "cs", "idle") PROVE IInv'
  BY <1>0, <1>4 DEF Unlock
<1>5. ASSUME NEW t \in Threads, Try(t) PROVE IInv'
  BY <1>0, <1>5 DEF Try
<1>6. ASSUME NEW t \in Threads, Cas(t) PROVE IInv'
  BY <1>0, <1>6 DEF Cas
<1>7. ASSUME NEW t \in Threads, Xchg(t) PROVE IInv'
  BY <1>0, <1>7 DEF Xchg
<1>8. ASSUME NEW t \in Threads, Own(t) PROVE IInv'
  BY <1>0, <1>8 DEF Own
<1>9. ASSUME NEW t \in Threads, SemLock(t) PROVE IInv'
  BY <1>0, <1>9 DEF SemLock, PhalLock
<1>10. ASSUME NEW t \in Threads, SemWait(t) PROVE IInv'
  BY <1>0, <1>10 DEF SemWait, PhalWait
<1>11. ASSUME NEW t \in Threads, SemUnlock(t) PROVE IInv'
  BY <1>0, <1>11 DEF SemUnlock, PhalUnlock
<1>12. ASSUME NEW t \in Threads, SelfWait(t) PROVE IInv'
  BY <1>0, <1>12 DEF SelfWait, PhalLock, PhalWait, PhalUnlock
<1>13. ASSUME NEW t \in Threads, Deadline(t) PROVE IInv'
  BY <1>0, <1>13 DEF Deadline, Asleep, Waked
<1>14. ASSUME NEW t \in Threads, UnlockSub(t) PROVE IInv'
  BY <1>0, <1>14 DEF UnlockSub
<1>15. ASSUME NEW t \in Threads, UnlockStore(t) PROVE IInv'
  BY <1>0, <1>15 DEF UnlockStore
<1>16. ASSUME NEW t \in Threads, UnlockSignal(t) PROVE IInv'
  BY <1>0, <1>16 DEF UnlockSignal, PhalLock, PhalUnlock, PhalSignal, Asleep, Waked
<1>17. CASE UNCHANGED mvars
  BY <1>17 DEF mvars
<1> QED
  BY <1>1, <1>2, <1>3, <1>4, <1>5, <1>6, <1>7, <1>8, <1>9, <1>10, <1>11, <1>12,
     <1>13, <1>14, <1>15, <1>16, <1>17, <1>18 DEF Next, MutexStep

-------------------------------------------------------------------------------
(* The inductive invariant of the pthread mutex. *)
THEOREM Invariance == Spec => []IInv
<1> QED
  BY InitIInv, NextIInv, PTL DEF Spec

(* Types: in particular the word never leaves UNLOCKED, LOCKED, CONTENDED    *)
(* although unlock subtracts from it, and the count stays within its bound.  *)
THEOREM TypeCorrect == Spec => []TypeOK
<1>1. IInv => TypeOK
  BY DEF IInv
<1> QED
  BY <1>1, Invariance, PTL

(* pthread_mutex_lock, _timedlock and _trylock exclude each other. *)
THEOREM PthreadMutexExcludes == Spec => []MutualExclusion
<1>1. IInv => MutualExclusion
  BY DEF IInv
<1> QED
  BY <1>1, Invariance, PTL

(* A mutex is locked exactly when some thread holds it, contention and       *)
(* expired deadlines included.                                               *)
THEOREM PthreadMutexNoOrphanLock == Spec => []NoOrphanLock
<1>1. IInv => NoOrphanLock
  BY DEF IInv
<1> QED
  BY <1>1, Invariance, PTL

(* The recursion count always belongs to the present owner. *)
THEOREM PthreadMutexCount == Spec => []CountIsOwners
<1>1. IInv => CountIsOwners
  BY DEF IInv
<1> QED
  BY <1>1, Invariance, PTL

-------------------------------------------------------------------------------
(* The mutex together with the condition variable.  The inductive invariant: *)
(* first, where a call in progress goes on, and who made it.                 *)
CallsReturn ==
  \A t \in Threads :
    /\ pc[t] \in LockSteps \cup WaitSteps => ret[t] \in {"cs", "c_unlock"}
    /\ pc[t] \in SelfSteps => ret[t] = "cs"
    /\ pc[t] \in UnlockSteps => ret[t] \in {"idle", "c_wait"}
    /\ pc[t] \in SignalSteps => ret[t] \in client.from
    /\ pc[t] \in WaitPCs \/ ret[t] \in {"c_wait", "c_unlock"} => t \in client.waits

(* The steps at which a thread holds the lock of cond->sem. *)
HoldsCondSem(t) ==
  \/ pc[t] \in {"c_release", "c_wait", "c_relock", "c_unlock"}
  \/ pc[t] \in {"s_signal", "s_broadcast", "s_unlock"}
  \/ pc[t] \in UnlockSteps /\ ret[t] = "c_wait"
  \/ pc[t] \in LockSteps \cup WaitSteps /\ ret[t] = "c_unlock"

CondSemHeld == \A t \in Threads : csem = t <=> HoldsCondSem(t)

(* The steps an owner can be at, those only an owner is at, and the waiters  *)
(* that stay owners because they had locked a recursive mutex again.         *)
OwnerOnly == {"cs", "c_lock", "c_release", "c_unlock"} \cup SelfSteps
StillOwner(t) ==
  \/ pc[t] \in {"c_wait", "c_asleep", "c_wake", "c_relock"}
  \/ pc[t] = "try" /\ ret[t] = "c_unlock"

OwnerIsAt ==
  \A t \in Threads :
    /\ owner = t => \/ pc[t] \in OwnerOnly \/ StillOwner(t)
                    \/ pc[t] \in SignalSteps \cup {"try"} /\ ret[t] = "cs"
    /\ pc[t] \in OwnerOnly => owner = t
    /\ pc[t] \in SignalSteps /\ ret[t] = "cs" => owner = t

SavedCount ==
  /\ count > 0 => type = "recursive"
  /\ \A t \in Threads :
       /\ pc[t] \in {"c_lock", "c_release"} => saved[t] = count
       /\ owner = t /\ StillOwner(t)
            => type = "recursive" /\ saved[t] > 0 /\ count = saved[t] - 1
       /\ saved[t] > 0 => type = "recursive"

(* A waiter that locks the mutex again has no deadline any more: it cannot   *)
(* return without the mutex.                                                 *)
RelockHasNoDeadline ==
  \A t \in Threads :
    pc[t] \in LockSteps \cup WaitSteps /\ ret[t] = "c_unlock"
      => t \notin timed /\ t \notin late

CondIInv ==
  /\ CondTypeOK /\ CallsReturn /\ CondSemHeld /\ OwnerIsAt /\ SavedCount
  /\ RelockHasNoDeadline
  /\ MutualExclusion /\ NoOrphanLock /\ CountIsOwners

(* It holds when the threads start. *)
LEMMA CondInitIInv == Init => CondIInv
<1> SUFFICES ASSUME Init PROVE CondIInv
  OBVIOUS
<1> QED
  BY DEF Init, MutexInit, CondIInv, CondTypeOK, CallsReturn, CondSemHeld, OwnerIsAt,
     SavedCount, RelockHasNoDeadline, MutualExclusion, NoOrphanLock, CountIsOwners,
     HoldsCondSem, StillOwner, Holds, MutexPCs, LockSteps, WaitSteps, UnlockSteps,
     SelfSteps, WaitPCs, SignalSteps, OwnerOnly

(* The calls of the mutex, wherever they are made from, keep the invariant.  *)
LEMMA CallersKeep ==
  ASSUME CondIInv, UNCHANGED <<type, client>>,
         NEW t \in Threads, Callers(t)
  PROVE  CondIInv'
<1> USE DEF CondIInv, CondTypeOK, CallsReturn, CondSemHeld, OwnerIsAt, SavedCount,
        RelockHasNoDeadline, MutualExclusion, NoOrphanLock, CountIsOwners,
        HoldsCondSem, StillOwner, Holds, MutexUnchanged, Goto,
        MutexPCs, LockSteps, WaitSteps, UnlockSteps, SelfSteps, WaitPCs, SignalSteps,
        OwnerOnly
<1>0. UNCHANGED <<csem, saved>>
  BY DEF Callers
<1>1. ASSUME NEW d \in BOOLEAN,
             Lock(t, "idle", d, "cs") \/ Lock(t, "cs", d, "cs")
      PROVE  CondIInv'
  BY <1>0, <1>1 DEF Lock
<1>2. CASE TryLock(t)
  BY <1>0, <1>2 DEF TryLock
<1>3. CASE TryLockAgain(t)
  BY <1>0, <1>3 DEF TryLockAgain
<1>4. CASE UnlockCount(t, "cs", "cs")
  BY <1>0, <1>4 DEF UnlockCount
<1>5. CASE Unlock(t, "cs", "idle")
  BY <1>0, <1>5 DEF Unlock
<1>6. CASE Try(t)
  BY <1>0, <1>6 DEF Try
<1>7. CASE Cas(t)
  BY <1>0, <1>7 DEF Cas
<1>8. CASE Xchg(t)
  BY <1>0, <1>8 DEF Xchg
<1>9. CASE Own(t)
  BY <1>0, <1>9 DEF Own
<1>10. CASE SemLock(t)
  BY <1>0, <1>10 DEF SemLock, PhalLock
<1>11. CASE SemWait(t)
  BY <1>0, <1>11 DEF SemWait, PhalWait
<1>12. CASE SemUnlock(t)
  BY <1>0, <1>12 DEF SemUnlock, PhalUnlock
<1>13. CASE SelfWait(t)
  BY <1>0, <1>13 DEF SelfWait, PhalLock, PhalWait, PhalUnlock
<1>14. CASE Deadline(t)
  BY <1>0, <1>14 DEF Deadline, Asleep, Waked
<1>15. CASE UnlockSub(t)
  BY <1>0, <1>15 DEF UnlockSub
<1>16. CASE UnlockStore(t)
  BY <1>0, <1>16 DEF UnlockStore
<1>17. CASE UnlockSignal(t)
  BY <1>0, <1>17 DEF UnlockSignal, PhalLock, PhalUnlock, PhalSignal, Asleep, Waked
<1> HIDE DEF CondIInv, CondTypeOK, CallsReturn, CondSemHeld, OwnerIsAt, SavedCount,
        RelockHasNoDeadline, MutualExclusion, NoOrphanLock, CountIsOwners,
        HoldsCondSem, StillOwner, Holds, MutexUnchanged, Goto,
        MutexPCs, LockSteps, WaitSteps, UnlockSteps, SelfSteps, WaitPCs, SignalSteps,
        OwnerOnly
<1> QED
  BY <1>1, <1>2, <1>3, <1>4, <1>5, <1>6, <1>7, <1>8, <1>9, <1>10, <1>11, <1>12, <1>13, <1>14,
     <1>15, <1>16, <1>17
  DEF Callers, MutexStep

(* So do the waits, the signals and the broadcasts. *)
LEMMA CondNextKeeps ==
  ASSUME CondIInv, UNCHANGED <<type, client>>,
         NEW t \in Threads, CondNext(t)
  PROVE  CondIInv'
<1> USE DEF CondIInv, CondTypeOK, CallsReturn, CondSemHeld, OwnerIsAt, SavedCount,
        RelockHasNoDeadline, MutualExclusion, NoOrphanLock, CountIsOwners,
        HoldsCondSem, StillOwner, Holds, MutexUnchanged, Goto,
        MutexPCs, LockSteps, WaitSteps, UnlockSteps, SelfSteps, WaitPCs, SignalSteps,
        OwnerOnly
<1>1. ASSUME t \in client.waits, NEW d \in BOOLEAN, WaitBegin(t, d)
      PROVE  CondIInv'
  BY <1>1 DEF WaitBegin
<1>2. ASSUME NEW at, NEW next, CondLock(t, at, next),
             <<at, next>> \in {<<"c_lock", "c_release">>, <<"c_wake", "c_relock">>,
                               <<"s_lock", "s_signal">>, <<"s_lock", "s_broadcast">>}
      PROVE  CondIInv'
  BY <1>2 DEF CondLock
<1>3. CASE WaitRelease(t)
  BY <1>3 DEF WaitRelease, Unlock, UnlockCount
<1>4. CASE WaitSleep(t)
  BY <1>4 DEF WaitSleep
<1>5. CASE WaitDeadline(t)
  BY <1>5 DEF WaitDeadline, CondAsleep
<1>6. CASE WaitRelock(t)
  BY <1>6 DEF WaitRelock, Lock
<1>7. CASE WaitReturn(t)
  BY <1>7 DEF WaitReturn
<1>8. CASE SignalBegin(t)
  BY <1>8 DEF SignalBegin
<1>9. CASE SignalOne(t)
  BY <1>9 DEF SignalOne, CondAsleep
<1>10. CASE SignalAll(t)
  BY <1>10 DEF SignalAll, CondAsleep
<1>11. CASE SignalEnd(t)
  BY <1>11 DEF SignalEnd
<1> HIDE DEF CondIInv, CondTypeOK, CallsReturn, CondSemHeld, OwnerIsAt, SavedCount,
        RelockHasNoDeadline, MutualExclusion, NoOrphanLock, CountIsOwners,
        HoldsCondSem, StillOwner, Holds, MutexUnchanged, Goto,
        MutexPCs, LockSteps, WaitSteps, UnlockSteps, SelfSteps, WaitPCs, SignalSteps,
        OwnerOnly
<1> QED
  BY <1>1, <1>2, <1>3, <1>4, <1>5, <1>6, <1>7, <1>8, <1>9, <1>10, <1>11
  DEF CondNext

-------------------------------------------------------------------------------
(* The inductive invariant of mutex and condition variable together. *)
THEOREM CondInvariance == CondSpec => []CondIInv
<1>1. CondIInv /\ [CondSpecNext]_vars => CondIInv'
  <2> SUFFICES ASSUME CondIInv, [CondSpecNext]_vars PROVE CondIInv'
    OBVIOUS
  <2>1. CASE CondSpecNext
    BY <2>1, CallersKeep, CondNextKeeps DEF CondSpecNext
  <2>2. CASE UNCHANGED vars
    BY <2>2 DEF vars, CondIInv, CondTypeOK, CallsReturn, CondSemHeld, OwnerIsAt,
       SavedCount, RelockHasNoDeadline, MutualExclusion, NoOrphanLock, CountIsOwners,
       HoldsCondSem, StillOwner, Holds
  <2> QED
    BY <2>1, <2>2
<1> QED
  BY <1>1, CondInitIInv, PTL DEF CondSpec

(* Mutual exclusion, with threads that give the mutex up inside a wait and   *)
(* lock it again on their way out.                                           *)
THEOREM CondMutexExcludes == CondSpec => []MutualExclusion
<1>1. CondIInv => MutualExclusion
  BY DEF CondIInv
<1> QED
  BY <1>1, CondInvariance, PTL

(* Waits leave no mutex locked without a holder and none unlocked with one.  *)
THEOREM CondNoOrphanLock == CondSpec => []NoOrphanLock
<1>1. CondIInv => NoOrphanLock
  BY DEF CondIInv
<1> QED
  BY <1>1, CondInvariance, PTL

(* The count that a wait puts back into a recursive mutex is one of its      *)
(* owner.                                                                    *)
THEOREM CondCount == CondSpec => []CountIsOwners
<1>1. CondIInv => CountIsOwners
  BY DEF CondIInv
<1> QED
  BY <1>1, CondInvariance, PTL

(* No signal and no broadcast acts while a waiter is between unlocking the   *)
(* mutex and sleeping: both hold the lock of cond->sem, which one holds.     *)
THEOREM CondWaitIsAtomic == CondSpec => []WaitIsAtomic
<1>1. CondIInv => WaitIsAtomic
  BY DEF CondIInv, CondTypeOK, CondSemHeld, HoldsCondSem, WaitIsAtomic, Falling, UnlockSteps
<1> QED
  BY <1>1, CondInvariance, PTL

(* Whoever returns from pthread_cond_wait or _timedwait has the mutex and    *)
(* nobody else holds it.                                                     *)
THEOREM CondReturnsWithMutex == CondSpec => []ReturnsWithMutex
<1>1. CondIInv => ReturnsWithMutex
  BY DEF CondIInv, OwnerIsAt, OwnerOnly, MutualExclusion, ReturnsWithMutex
<1> QED
  BY <1>1, CondInvariance, PTL

(* The sleepers that had locked the mutex once do not own it. *)
LockedOnceIsReleased == \A t \in CondAsleep : saved[t] = 0 => owner # t

(* A waiter that had locked the mutex once, recursive or not, has given it   *)
(* up when it sleeps.  One that had locked it again has not: that is what    *)
(* SleeperReleasedMutex would say and the code does not do.                  *)
THEOREM CondLockedOnceIsReleased == CondSpec => []LockedOnceIsReleased
<1>1. CondIInv => LockedOnceIsReleased
  BY DEF CondIInv, SavedCount, StillOwner, LockedOnceIsReleased, CondAsleep
<1> QED
  BY <1>1, CondInvariance, PTL
===============================================================================
