------------------------------ MODULE PthreadSem ------------------------------
(*****************************************************************************)
(* sem_wait, sem_timedwait, sem_trywait and sem_post (rthread_sem.c) on one  *)
(* semaphore.  The semaphore of the abstraction layer underneath is          *)
(* external: a lock, and sleepers that a signal wakes one at a time and that *)
(* have to take the lock again before they go on.                            *)
(*****************************************************************************)
EXTENDS Naturals, FiniteSets

CONSTANTS
  Threads,
  NoThread,
  Initial,     \* the value given to sem_init
  MaxValue     \* bound: no sem_post beyond this value

ASSUME NoThreadAssumption == NoThread \notin Threads
ASSUME FiniteAssumption == IsFiniteSet(Threads)
ASSUME ValueAssumption == Initial \in Nat /\ MaxValue \in Nat /\ Initial <= MaxValue

VARIABLES
  value,       \* sem->value
  waiting,     \* the threads counted in sem->waitcount
  held,        \* phal: the thread that holds the lock of sem->sem
  pc,          \* the step of each thread
  call,        \* what it called: "wait", "timed" or "try"
  got          \* r, for a wait that is over: "ok", "again" or "late"

vars == <<value, waiting, held, pc, call, got>>

Calls == {"wait", "timed", "try"}
Results == {"ok", "again", "late"}
PCs == {"idle", "w_lock", "w_test", "w_sleep", "asleep", "w_wake", "w_retest",
        "w_unlock", "p_lock", "p_add", "p_signal", "p_unlock"}

Init ==
  /\ value = Initial /\ waiting = {} /\ held = NoThread
  /\ pc = [t \in Threads |-> "idle"]
  /\ call = [t \in Threads |-> "wait"]
  /\ got = [t \in Threads |-> "ok"]

Goto(t, l) == pc' = [pc EXCEPT ![t] = l]
Asleep == {t \in Threads : pc[t] = "asleep"}

-------------------------------------------------------------------------------
(* phal_semaphore_lock and _unlock *)
PhalLock(t, at, next) ==
  /\ pc[t] = at /\ held = NoThread
  /\ held' = t /\ Goto(t, next)
  /\ UNCHANGED <<value, waiting, call, got>>

PhalUnlock(t, at) ==
  /\ pc[t] = at
  /\ held' = NoThread /\ Goto(t, "idle")
  /\ UNCHANGED <<value, waiting, call, got>>

-------------------------------------------------------------------------------
(* _sem_wait *)
Wait(t, c) ==
  /\ pc[t] = "idle"
  /\ call' = [call EXCEPT ![t] = c]
  /\ Goto(t, "w_lock")
  /\ UNCHANGED <<value, waiting, held, got>>

Test(t) ==
  /\ pc[t] = "w_test"
  /\ \/ /\ value > 0
        /\ value' = value - 1 /\ got' = [got EXCEPT ![t] = "ok"]
        /\ Goto(t, "w_unlock") /\ UNCHANGED waiting
     \/ /\ value = 0 /\ call[t] = "try"
        /\ got' = [got EXCEPT ![t] = "again"]
        /\ Goto(t, "w_unlock") /\ UNCHANGED <<value, waiting>>
     \/ /\ value = 0 /\ call[t] # "try"
        /\ waiting' = waiting \cup {t}
        /\ Goto(t, "w_sleep") /\ UNCHANGED <<value, got>>
  /\ UNCHANGED <<held, call>>

(* Faulty variant: the lock is given up first, the thread sleeps later. *)
Sleep_NotAtomic(t) ==
  \/ /\ pc[t] = "w_sleep" /\ held = t
     /\ held' = NoThread /\ got' = [got EXCEPT ![t] = "ok"]
     /\ UNCHANGED <<value, waiting, pc, call>>
  \/ /\ pc[t] = "w_sleep" /\ held # t
     /\ Goto(t, "asleep")
     /\ UNCHANGED <<value, waiting, held, call, got>>

(* phal_semaphore_wait: the lock is given up and the thread sleeps at once. *)
Sleep(t) ==
  /\ pc[t] = "w_sleep"
  /\ held' = NoThread /\ got' = [got EXCEPT ![t] = "ok"]
  /\ Goto(t, "asleep")
  /\ UNCHANGED <<value, waiting, call>>

Deadline(t) ==
  /\ pc[t] = "asleep" /\ call[t] = "timed"
  /\ got' = [got EXCEPT ![t] = "late"]
  /\ Goto(t, "w_wake")
  /\ UNCHANGED <<value, waiting, held, call>>

(* Faulty variants: a wake-up is taken for a token, without looking at the   *)
(* value again; a wait that ends at its deadline stays counted.              *)
Retest_Once(t) ==
  /\ pc[t] = "w_retest"
  /\ waiting' = waiting \ {t}
  /\ value' = IF got[t] = "ok" THEN value - 1 ELSE value
  /\ Goto(t, "w_unlock")
  /\ UNCHANGED <<held, call, got>>

(* After the wake-up, with the lock: sleep again if there is still nothing   *)
(* and the deadline has not passed; else stop waiting, and take a token      *)
(* unless the deadline passed.                                               *)
Retest(t) ==
  /\ pc[t] = "w_retest"
  /\ \/ /\ got[t] = "ok" /\ value = 0
        /\ Goto(t, "w_sleep") /\ UNCHANGED <<value, waiting>>
     \/ /\ got[t] = "late" \/ value > 0
        /\ waiting' = waiting \ {t}
        /\ value' = IF got[t] = "ok" THEN value - 1 ELSE value
        /\ Goto(t, "w_unlock")
  /\ UNCHANGED <<held, call, got>>

-------------------------------------------------------------------------------
(* _sem_post.  Bound: no post that could take the value beyond MaxValue. *)
Posting == {t \in Threads : pc[t] \in {"p_lock", "p_add"}}

Post(t) ==
  /\ pc[t] = "idle" /\ value + Cardinality(Posting) < MaxValue
  /\ Goto(t, "p_lock")
  /\ UNCHANGED <<value, waiting, held, call, got>>

(* Faulty variant: signal only when the value was zero before. *)
Add_SignalsFirst(t) ==
  /\ pc[t] = "p_add"
  /\ value' = value + 1
  /\ Goto(t, IF waiting # {} /\ value = 0 THEN "p_signal" ELSE "p_unlock")
  /\ UNCHANGED <<waiting, held, call, got>>

Add(t) ==
  /\ pc[t] = "p_add"
  /\ value' = value + 1
  /\ Goto(t, IF waiting # {} THEN "p_signal" ELSE "p_unlock")
  /\ UNCHANGED <<waiting, held, call, got>>

(* phal_semaphore_signal *)
Signal(t) ==
  /\ pc[t] = "p_signal"
  /\ \/ Asleep = {} /\ Goto(t, "p_unlock")
     \/ \E w \in Asleep : pc' = [pc EXCEPT ![t] = "p_unlock", ![w] = "w_wake"]
  /\ UNCHANGED <<value, waiting, held, call, got>>

-------------------------------------------------------------------------------
TakeLock(t) ==
  \/ PhalLock(t, "w_lock", "w_test") \/ PhalLock(t, "w_wake", "w_retest")
  \/ PhalLock(t, "p_lock", "p_add")

Step(t) ==
  \/ Test(t) \/ Sleep(t) \/ Retest(t) \/ Add(t) \/ Signal(t)
  \/ PhalUnlock(t, "w_unlock") \/ PhalUnlock(t, "p_unlock")

Next ==
  \E t \in Threads :
    \/ \E c \in Calls : Wait(t, c)
    \/ Post(t)
    \/ Deadline(t)
    \/ TakeLock(t)
    \/ Step(t)

Spec == Init /\ [][Next]_vars

(* A thread with the lock goes on, and the lock of the layer's semaphore is  *)
(* not withheld from one thread for ever.                                    *)
FairSpec ==
  /\ Spec
  /\ \A t \in Threads : WF_vars(Step(t)) /\ SF_vars(TakeLock(t))

-------------------------------------------------------------------------------
TypeOK ==
  /\ value \in Nat /\ waiting \subseteq Threads
  /\ held \in Threads \cup {NoThread}
  /\ pc \in [Threads -> PCs]
  /\ call \in [Threads -> Calls] /\ got \in [Threads -> Results]

LockedSteps == {"w_test", "w_sleep", "w_retest", "w_unlock", "p_add", "p_signal",
                "p_unlock"}

(* Everything between taking the layer's lock and giving it up, by returning *)
(* or by sleeping, is done by one thread at a time: the loop of _sem_wait    *)
(* is entered again with the lock ("At this point, I already have lock !").  *)
LockIsExclusive ==
  \A t \in Threads : pc[t] \in LockedSteps <=> held = t

(* waitcount counts the calls that are in the loop of _sem_wait, so that a   *)
(* post sees every sleeper, and a wait that ended at its deadline, or with a *)
(* token, is not counted any more.                                           *)
WaitCountIsWaiters ==
  waiting = {t \in Threads : pc[t] \in {"w_sleep", "asleep", "w_wake", "w_retest"}}

(* The threads on their way to a token: woken by a signal, or about to       *)
(* signal.                                                                   *)
OnTheirWay ==
  {t \in Threads : \/ pc[t] \in {"w_wake", "w_retest"} /\ got[t] = "ok"
                   \/ pc[t] = "p_signal"}

(* No wake-up is lost: while somebody sleeps, every token in the value has a *)
(* thread that was woken for it or a post that is about to signal, although  *)
(* tokens are also taken by threads that never slept and waits end at their  *)
(* deadlines with a signal on its way.                                       *)
NoWakeupLost == Asleep # {} => value <= Cardinality(OnTheirWay)

(* A thread does not sleep for ever on a semaphore that keeps a token. *)
TokenIsTaken == (value > 0 /\ Asleep # {}) ~> (value = 0 \/ Asleep = {})

-------------------------------------------------------------------------------
Sem == INSTANCE CountingSem WITH tokens <- value

(* sem_wait, its variants and sem_post implement the counting semaphore. *)
ImplementsCountingSem == Sem!Spec

(* The inductive invariant: the value never goes below zero because a thread *)
(* that is to take a token has the lock since it saw one.                    *)
IInv == TypeOK /\ LockIsExclusive /\ WaitCountIsWaiters

(* What NoWakeupLost needs in addition: a thread goes to sleep only while    *)
(* there is nothing to take, and asleep its deadline has not passed yet.     *)
SleepersSawNothing ==
  \A t \in Threads : /\ pc[t] = "w_sleep" => value = 0
                     /\ pc[t] = "asleep" => got[t] = "ok"

WInv == IInv /\ SleepersSawNothing /\ NoWakeupLost
===============================================================================
