--------------------------- MODULE PthreadSemProofs ---------------------------
(*****************************************************************************)
(* What is proved of the semaphore of rthread_sem.c for any number of        *)
(* threads and any values: the inductive invariant IInv, that the code       *)
(* implements the counting semaphore, and that no wake-up is lost.           *)
(*****************************************************************************)
EXTENDS PthreadSem, FiniteSetTheorems, TLAPS

USE NoThreadAssumption, ValueAssumption

(* At first nobody holds the lock and nobody waits. *)
LEMMA InitInv == Init => IInv
  BY DEF Init, IInv, TypeOK, LockIsExclusive, WaitCountIsWaiters, LockedSteps,
         PCs, Calls, Results

(* One step per action; PhalLock and PhalUnlock once for each place they are *)
(* used from.                                                                *)
LEMMA NextInv == IInv /\ [Next]_vars => IInv'
<1> SUFFICES ASSUME IInv, [Next]_vars PROVE IInv'
  OBVIOUS
<1> USE DEF IInv, TypeOK, LockIsExclusive, WaitCountIsWaiters, LockedSteps,
            PCs, Calls, Results, Goto
<1>1. CASE UNCHANGED vars
  BY <1>1 DEF vars
<1>2. ASSUME NEW t \in Threads, NEW c \in Calls, Wait(t, c) PROVE IInv'
  BY <1>2 DEF Wait
<1>3. ASSUME NEW t \in Threads, Post(t) PROVE IInv'
  BY <1>3 DEF Post
<1>4. ASSUME NEW t \in Threads, Deadline(t) PROVE IInv'
  BY <1>4 DEF Deadline
<1>5. ASSUME NEW t \in Threads, TakeLock(t) PROVE IInv'
  <2>1. CASE PhalLock(t, "w_lock", "w_test")
    BY <2>1 DEF PhalLock
  <2>2. CASE PhalLock(t, "w_wake", "w_retest")
    BY <2>2 DEF PhalLock
  <2>3. CASE PhalLock(t, "p_lock", "p_add")
    BY <2>3 DEF PhalLock
  <2> QED BY <1>5, <2>1, <2>2, <2>3 DEF TakeLock
<1>6. ASSUME NEW t \in Threads, Test(t) PROVE IInv'
  BY <1>6 DEF Test
<1>7. ASSUME NEW t \in Threads, Sleep(t) PROVE IInv'
  BY <1>7 DEF Sleep
<1>8. ASSUME NEW t \in Threads, Retest(t) PROVE IInv'
  BY <1>8 DEF Retest
<1>9. ASSUME NEW t \in Threads, Add(t) PROVE IInv'
  BY <1>9 DEF Add
<1>10. ASSUME NEW t \in Threads, Signal(t) PROVE IInv'
  BY <1>10 DEF Signal, Asleep
<1>11. ASSUME NEW t \in Threads, NEW at \in {"w_unlock", "p_unlock"},
              PhalUnlock(t, at)
       PROVE  IInv'
  BY <1>11 DEF PhalUnlock
<1> QED
  BY <1>1, <1>2, <1>3, <1>4, <1>5, <1>6, <1>7, <1>8, <1>9, <1>10, <1>11
     DEF Next, Step

(* IInv holds in every state of the semaphore. *)
THEOREM Invariance == Spec => []IInv
  BY InitInv, NextInv, PTL DEF Spec

(* The state of the semaphore is well formed; in particular sem->value is    *)
(* never negative: no wait takes a token that is not there.                  *)
THEOREM TypeCorrect == Spec => []TypeOK
<1>1. IInv => TypeOK BY DEF IInv
<1> QED BY Invariance, <1>1, PTL

(* The steps between phal_semaphore_lock and phal_semaphore_unlock or _wait  *)
(* belong to one thread at a time, the loop of _sem_wait included.           *)
THEOREM SemLockIsExclusive == Spec => []LockIsExclusive
<1>1. IInv => LockIsExclusive BY DEF IInv
<1> QED BY Invariance, <1>1, PTL

(* sem->waitcount is the number of calls in the loop of _sem_wait.           *)
THEOREM SemWaitCount == Spec => []WaitCountIsWaiters
<1>1. IInv => WaitCountIsWaiters BY DEF IInv
<1> QED BY Invariance, <1>1, PTL

(* _sem_wait and _sem_post implement the counting semaphore: every change of *)
(* sem->value is one post, or the taking of one token that is there.         *)
THEOREM SemImplementsCountingSem == Spec => ImplementsCountingSem
<1>1. Init => Sem!Init
  BY DEF Init, Sem!Init
<1>2. IInv /\ [Next]_vars => [Sem!Next]_value
  <2> SUFFICES ASSUME IInv, [Next]_vars, value' # value PROVE Sem!Next
    OBVIOUS
  <2>1. PICK t \in Threads : Test(t) \/ Retest(t) \/ Add(t)
    BY DEF Next, Step, TakeLock, PhalLock, PhalUnlock, Wait, Post, Deadline,
           Sleep, Signal, vars
  <2>2. CASE Test(t)
    BY <2>2 DEF Test, Sem!Next, Sem!Take, IInv, TypeOK
  <2>3. CASE Retest(t)
    BY <2>3 DEF Retest, Sem!Next, Sem!Take, IInv, TypeOK
  <2>4. CASE Add(t)
    BY <2>4 DEF Add, Sem!Next, Sem!Post
  <2> QED BY <2>1, <2>2, <2>3, <2>4
<1> QED BY Invariance, <1>1, <1>2, PTL DEF Spec, ImplementsCountingSem, Sem!Spec

-------------------------------------------------------------------------------
(* The set on which NoWakeupLost counts is finite; one thread more or less   *)
(* in it is one more or less in the count.                                   *)
LEMMA WayFinite == IsFiniteSet(OnTheirWay) /\ Cardinality(OnTheirWay) \in Nat
<1>1. OnTheirWay \subseteq Threads BY DEF OnTheirWay
<1> QED BY <1>1, FiniteAssumption, FS_Subset, FS_CardinalityType

(* A thread that is woken for a token, or posts one, joins the set. *)
LEMMA WayGrows ==
  ASSUME NEW t \in Threads, t \notin OnTheirWay, OnTheirWay' = OnTheirWay \cup {t}
  PROVE  Cardinality(OnTheirWay') = Cardinality(OnTheirWay) + 1
  BY WayFinite, FS_AddElement

(* One that takes its token, or finds nobody to wake, leaves it. *)
LEMMA WayShrinks ==
  ASSUME NEW t \in OnTheirWay, OnTheirWay' = OnTheirWay \ {t}
  PROVE  Cardinality(OnTheirWay') = Cardinality(OnTheirWay) - 1
  BY WayFinite, FS_RemoveElement

(* The signaller leaves the set, the thread that it wakes enters it. *)
LEMMA WaySwaps ==
  ASSUME NEW t \in OnTheirWay, NEW w \in Threads, w \notin OnTheirWay,
         OnTheirWay' = (OnTheirWay \ {t}) \cup {w}
  PROVE  Cardinality(OnTheirWay') = Cardinality(OnTheirWay)
<1>1. /\ IsFiniteSet(OnTheirWay \ {t})
      /\ Cardinality(OnTheirWay \ {t}) = Cardinality(OnTheirWay) - 1
  BY WayFinite, FS_RemoveElement
<1>2. Cardinality((OnTheirWay \ {t}) \cup {w}) = Cardinality(OnTheirWay \ {t}) + 1
  BY <1>1, FS_AddElement
<1> QED BY <1>1, <1>2, WayFinite

(* A thread goes to sleep only when there is no token. *)
LEMMA SleepersInv ==
  IInv /\ SleepersSawNothing /\ [Next]_vars => SleepersSawNothing'
<1> SUFFICES ASSUME IInv, SleepersSawNothing, [Next]_vars PROVE SleepersSawNothing'
  OBVIOUS
<1> USE DEF IInv, TypeOK, LockIsExclusive, LockedSteps, SleepersSawNothing, Goto
<1>1. CASE UNCHANGED vars
  BY <1>1 DEF vars
<1>2. ASSUME NEW t \in Threads,
             \/ \E c \in Calls : Wait(t, c)
             \/ Post(t) \/ Deadline(t) \/ TakeLock(t) \/ Sleep(t) \/ Signal(t)
             \/ PhalUnlock(t, "w_unlock") \/ PhalUnlock(t, "p_unlock")
      PROVE SleepersSawNothing'
  BY <1>2 DEF Wait, Post, Deadline, TakeLock, PhalLock, Sleep, Signal, Asleep,
              PhalUnlock
<1>3. ASSUME NEW t \in Threads, Test(t) PROVE SleepersSawNothing'
  BY <1>3 DEF Test
<1>4. ASSUME NEW t \in Threads, Retest(t) PROVE SleepersSawNothing'
  BY <1>4 DEF Retest
<1>5. ASSUME NEW t \in Threads, Add(t) PROVE SleepersSawNothing'
  BY <1>5 DEF Add
<1> QED BY <1>1, <1>2, <1>3, <1>4, <1>5 DEF Next, Step

(* Each step against the count of OnTheirWay: a post adds a token and a      *)
(* signaller, a signal trades the signaller for the woken, a woken thread    *)
(* leaves with a token or because there is none, and everybody else leaves   *)
(* the set alone and only takes tokens.                                      *)
LEMMA WakeupInv == WInv /\ [Next]_vars => NoWakeupLost'
<1> SUFFICES ASSUME WInv, [Next]_vars PROVE NoWakeupLost'
  OBVIOUS
<1> USE DEF WInv, IInv, TypeOK, SleepersSawNothing, NoWakeupLost, Goto
<1>0. Cardinality(OnTheirWay) \in Nat
  BY WayFinite
<1>1. CASE UNCHANGED vars
  BY <1>1 DEF vars, Asleep, OnTheirWay
<1>2. ASSUME NEW t \in Threads,
             \/ \E c \in Calls : Wait(t, c)
             \/ Post(t) \/ TakeLock(t)
             \/ PhalUnlock(t, "w_unlock") \/ PhalUnlock(t, "p_unlock")
      PROVE NoWakeupLost'
  <2>1. OnTheirWay' = OnTheirWay
    BY <1>2 DEF Wait, Post, TakeLock, PhalLock, PhalUnlock, OnTheirWay
  <2>2. Asleep' = Asleep /\ value' = value
    BY <1>2 DEF Wait, Post, TakeLock, PhalLock, PhalUnlock, Asleep
  <2> QED BY <2>1, <2>2
<1>3. ASSUME NEW t \in Threads, Deadline(t) PROVE NoWakeupLost'
  <2>1. OnTheirWay' = OnTheirWay /\ Asleep' \subseteq Asleep /\ value' = value
    BY <1>3 DEF Deadline, OnTheirWay, Asleep
  <2> QED BY <2>1
<1>4. ASSUME NEW t \in Threads, Test(t) PROVE NoWakeupLost'
  <2>1. OnTheirWay' = OnTheirWay
    BY <1>4 DEF Test, OnTheirWay
  <2>2. Asleep' = Asleep /\ value' \in Nat /\ value' <= value
    BY <1>4 DEF Test, Asleep
  <2> QED BY <2>1, <2>2, <1>0
<1>5. ASSUME NEW t \in Threads, Sleep(t) PROVE NoWakeupLost'
  <2>1. OnTheirWay' = OnTheirWay /\ value' = 0
    BY <1>5 DEF Sleep, OnTheirWay
  <2> QED BY <2>1, <1>0
<1>6. ASSUME NEW t \in Threads, Retest(t) PROVE NoWakeupLost'
  <2>1. Asleep' = Asleep
    BY <1>6 DEF Retest, Asleep
  <2>2. CASE got[t] = "ok"
    <3>1. t \in OnTheirWay /\ OnTheirWay' = OnTheirWay \ {t}
      BY <1>6, <2>2 DEF Retest, OnTheirWay
    <3>2. Cardinality(OnTheirWay)' = Cardinality(OnTheirWay) - 1
      BY <3>1, WayShrinks
    <3>3. CASE value = 0
      <4>1. value' = 0 BY <1>6, <2>2, <3>3 DEF Retest
      <4>2. Cardinality(OnTheirWay)' \in Nat
        BY <3>1, WayFinite, FS_RemoveElement, FS_CardinalityType
      <4> QED BY <4>1, <4>2
    <3>4. CASE value > 0
      <4>1. value' = value - 1 BY <1>6, <2>2, <3>4 DEF Retest
      <4> QED BY <4>1, <3>2, <2>1, <1>0
    <3> QED BY <3>3, <3>4
  <2>3. CASE got[t] # "ok"
    <3>1. OnTheirWay' = OnTheirWay /\ value' = value
      BY <1>6, <2>3 DEF Retest, OnTheirWay
    <3> QED BY <2>1, <3>1
  <2> QED BY <2>2, <2>3
<1>7. ASSUME NEW t \in Threads, Add(t) PROVE NoWakeupLost'
  <2>1. Asleep' = Asleep /\ value' = value + 1
    BY <1>7 DEF Add, Asleep
  <2>2. CASE waiting = {}
    <3>1. Asleep = {} BY <2>2 DEF Asleep, WaitCountIsWaiters
    <3> QED BY <2>1, <3>1
  <2>3. CASE waiting # {}
    <3>1. t \notin OnTheirWay /\ OnTheirWay' = OnTheirWay \cup {t}
      BY <1>7, <2>3 DEF Add, OnTheirWay
    <3>2. Cardinality(OnTheirWay)' = Cardinality(OnTheirWay) + 1
      BY <3>1, WayGrows
    <3> QED BY <2>1, <3>2, <1>0
  <2> QED BY <2>2, <2>3
<1>8. ASSUME NEW t \in Threads, Signal(t) PROVE NoWakeupLost'
  <2>1. value' = value /\ t \in OnTheirWay
    BY <1>8 DEF Signal, OnTheirWay
  <2>2. CASE Asleep = {}
    <3>1. Asleep' = {} BY <1>8, <2>2 DEF Signal, Asleep
    <3> QED BY <3>1
  <2>3. CASE Asleep # {}
    <3>1. PICK w \in Asleep : pc' = [pc EXCEPT ![t] = "p_unlock", ![w] = "w_wake"]
      BY <1>8, <2>3 DEF Signal
    <3>2. w \in Threads /\ w \notin OnTheirWay /\ got[w] = "ok"
      BY DEF Asleep, OnTheirWay
    <3>3. OnTheirWay' = (OnTheirWay \ {t}) \cup {w}
      BY <1>8, <3>1, <3>2 DEF Signal, OnTheirWay, Asleep
    <3>4. Cardinality(OnTheirWay)' = Cardinality(OnTheirWay)
      BY <2>1, <3>2, <3>3, WaySwaps
    <3> QED BY <2>1, <2>3, <3>4
  <2> QED BY <2>2, <2>3
<1> QED
  BY <1>1, <1>2, <1>3, <1>4, <1>5, <1>6, <1>7, <1>8 DEF Next, Step

(* No wake-up of sem_post is lost: while a thread sleeps in _sem_wait, every *)
(* token has a woken thread on its way to it, or a post about to signal.     *)
THEOREM SemNoWakeupLost == Spec => []NoWakeupLost
<1>1. Init => WInv
  <2>1. Init => SleepersSawNothing /\ Asleep = {}
    BY DEF Init, SleepersSawNothing, Asleep
  <2> QED BY <2>1, InitInv DEF WInv, NoWakeupLost
<1>2. WInv /\ [Next]_vars => WInv'
  BY NextInv, SleepersInv, WakeupInv DEF WInv
<1>3. WInv => NoWakeupLost
  BY DEF WInv
<1> QED BY <1>1, <1>2, <1>3, PTL DEF Spec
===============================================================================
