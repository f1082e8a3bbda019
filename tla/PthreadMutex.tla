----------------------------- MODULE PthreadMutex -----------------------------
(*****************************************************************************)
(* pthread_mutex_lock, _timedlock, _trylock and _unlock of rthread_mutex.c   *)
(* for one mutex, every atomic access and every call of the abstraction      *)
(* layer (phal.h) being one step.  The layer's semaphore is external: a lock *)
(* and a set of sleepers; a signal wakes one of those asleep at that moment  *)
(* and is not remembered (phal.h, "This is not a counting semaphore").       *)
(*****************************************************************************)
EXTENDS Naturals

CONSTANTS
  Threads,     \* the threads
  NoThread,    \* NULL
  Types,       \* the types of mutex that are considered
  MaxCount     \* INT_MAX, the largest recursion count

ASSUME NoThreadAssumption == NoThread \notin Threads
ASSUME TypesAssumption == Types \subseteq {"normal", "errorcheck", "recursive", "strict"}
ASSUME MaxCountAssumption == MaxCount \in Nat

VARIABLES
  type,        \* mutex->type, given to pthread_mutex_init
  lock,        \* mutex->lock
  owner,       \* mutex->owner
  count,       \* mutex->count
  sem,         \* phal: the thread that holds the lock of mutex->sem
  pc,          \* the step each thread is at
  ret,         \* where it goes on when pthread_mutex_lock or _unlock returns
  timed,       \* threads whose call has a deadline (abs != NULL)
  late         \* threads whose wait ended at its deadline (ETIMEDOUT)

mvars == <<type, lock, owner, count, sem, pc, ret, timed, late>>

UNLOCKED == 0
LOCKED == 1        \* locked without waiter
CONTENDED == 2     \* threads waiting for this mutex

(* try .. own: _rthread_mutex_timedlock; u_sub .. u_semunlock: unlock;       *)
(* semlock .. semunlock: the wait on mutex->sem.                             *)
LockSteps == {"try", "cas", "xchg", "own"}
WaitSteps == {"semlock", "semwait", "asleep", "semwake", "semunlock"}
UnlockSteps == {"u_sub", "u_store", "u_semlock", "u_signal", "u_semunlock"}
SelfSteps == {"r_semlock", "r_semwait", "r_asleep", "r_semwake", "r_semunlock"}
MutexPCs == {"idle", "cs"} \cup LockSteps \cup WaitSteps \cup UnlockSteps
            \cup SelfSteps

MutexInit ==
  /\ type \in Types
  /\ lock = UNLOCKED /\ owner = NoThread /\ count = 0 /\ sem = NoThread
  /\ pc = [t \in Threads |-> "idle"]
  /\ ret = [t \in Threads |-> "idle"]
  /\ timed = {} /\ late = {}

Goto(t, l) == pc' = [pc EXCEPT ![t] = l]

-------------------------------------------------------------------------------
(* The semaphore of the abstraction layer: here the steps with which a       *)
(* thread takes, leaves and sleeps on it.                                    *)
PhalLock(t, at, next) ==
  /\ pc[t] = at /\ sem = NoThread
  /\ sem' = t /\ Goto(t, next)

PhalUnlock(t, at, next) ==
  /\ pc[t] = at
  /\ sem' = NoThread /\ Goto(t, next)

PhalWait(t, at, asleep) ==
  /\ pc[t] = at
  /\ sem' = NoThread /\ Goto(t, asleep)

(* Both those that wait for the mutex and a self-locker sleep on mutex->sem. *)
Asleep == {t \in Threads : pc[t] \in {"asleep", "r_asleep"}}
Waked(w) == IF pc[w] = "asleep" THEN "semwake" ELSE "r_semwake"

PhalSignal(t, at, next) ==
  /\ pc[t] = at
  /\ \/ Asleep = {} /\ Goto(t, next)
     \/ \E w \in Asleep : pc' = [pc EXCEPT ![t] = next, ![w] = Waked(w)]

(* The deadline passes for a sleeping thread. *)
Deadline(t) ==
  /\ t \in Asleep \cap timed
  /\ Goto(t, Waked(t))
  /\ late' = late \cup {t}
  /\ UNCHANGED <<lock, owner, count, sem, ret, timed>>

-------------------------------------------------------------------------------
(* pthread_mutex_lock (d = FALSE) and pthread_mutex_timedlock (d = TRUE),    *)
(* to go on at r.                                                            *)
Lock(t, from, d, r) ==
  /\ pc[t] = from
  /\ Goto(t, "try")
  /\ ret' = [ret EXCEPT ![t] = r]
  /\ timed' = IF d THEN timed \cup {t} ELSE timed \ {t}
  /\ late' = late \ {t}
  /\ UNCHANGED <<lock, owner, count, sem>>

TryLock(t) ==
  /\ pc[t] = "idle"
  /\ \/ /\ lock = UNLOCKED
        /\ lock' = LOCKED /\ Goto(t, "own") /\ ret' = [ret EXCEPT ![t] = "cs"]
     \/ lock # UNLOCKED /\ UNCHANGED <<lock, pc, ret>>       \* EBUSY
  /\ UNCHANGED <<owner, count, sem, timed, late>>

(* pthread_mutex_trylock by the owner: counted up to the limit, then EAGAIN, *)
(* if the mutex is recursive; else EBUSY.                                    *)
TryLockAgain(t) ==
  /\ pc[t] = "cs"
  /\ count' = IF type = "recursive" /\ count < MaxCount THEN count + 1 ELSE count
  /\ UNCHANGED <<lock, owner, sem, pc, ret, timed, late>>

(* _rthread_mutex_trylock.  The owner that locks again counts (up to the     *)
(* limit, then EAGAIN) if the mutex is recursive, gets EDEADLK if it checks  *)
(* errors, and else goes to sleep on mutex->sem until the deadline or until  *)
(* anybody's signal, to return ETIMEDOUT either way.                         *)
Try(t) ==
  /\ pc[t] = "try"
  /\ \/ lock = UNLOCKED /\ lock' = LOCKED /\ Goto(t, "own") /\ UNCHANGED count
     \/ lock # UNLOCKED /\ owner # t /\ Goto(t, "cas") /\ UNCHANGED <<lock, count>>
     \/ /\ lock # UNLOCKED /\ owner = t /\ type = "recursive"
        /\ count' = IF count = MaxCount THEN count ELSE count + 1
        /\ Goto(t, ret[t]) /\ UNCHANGED lock
     \/ /\ lock # UNLOCKED /\ owner = t /\ type # "recursive"
        /\ Goto(t, IF type = "errorcheck" THEN ret[t] ELSE "r_semlock")
        /\ UNCHANGED <<lock, count>>
  /\ UNCHANGED <<owner, sem, ret, timed, late>>

(* After the spinning, which changes nothing: the second compare-and-swap. *)
Cas(t) ==
  /\ pc[t] = "cas"
  /\ \/ lock = UNLOCKED /\ lock' = LOCKED /\ Goto(t, "own")
     \/ lock = LOCKED /\ UNCHANGED lock /\ Goto(t, "xchg")
     \/ lock = CONTENDED /\ UNCHANGED lock /\ Goto(t, "semlock")
  /\ UNCHANGED <<owner, count, sem, ret, timed, late>>

(* Announce a waiter; whoever finds UNLOCKED there has the mutex. *)
Xchg(t) ==
  /\ pc[t] = "xchg"
  /\ lock' = CONTENDED
  /\ Goto(t, IF lock = UNLOCKED THEN "own" ELSE "semlock")
  /\ UNCHANGED <<owner, count, sem, ret, timed, late>>

Own(t) ==
  /\ pc[t] = "own"
  /\ owner' = t
  /\ Goto(t, ret[t])
  /\ UNCHANGED <<lock, count, sem, ret, timed, late>>

-------------------------------------------------------------------------------
(* The wait: the lock of the semaphore is taken only after the word was      *)
(* looked at, and the word is not looked at again before going to sleep.     *)
SemLock(t) ==
  /\ PhalLock(t, "semlock", "semwait") \/ PhalLock(t, "semwake", "semunlock")
  /\ UNCHANGED <<lock, owner, count, ret, timed, late>>

SemWait(t) ==
  /\ PhalWait(t, "semwait", "asleep")
  /\ UNCHANGED <<lock, owner, count, ret, timed, late>>

(* Unlock the semaphore; at the deadline the call returns ETIMEDOUT. *)
SemUnlock(t) ==
  /\ PhalUnlock(t, "semunlock", IF t \in late THEN "idle" ELSE "xchg")
  /\ UNCHANGED <<lock, owner, count, ret, timed, late>>

-------------------------------------------------------------------------------
(* The wait of an owner that locks again. *)
SelfWait(t) ==
  /\ \/ PhalLock(t, "r_semlock", "r_semwait") \/ PhalWait(t, "r_semwait", "r_asleep")
     \/ PhalLock(t, "r_semwake", "r_semunlock") \/ PhalUnlock(t, "r_semunlock", ret[t])
  /\ UNCHANGED <<lock, owner, count, ret, timed, late>>

-------------------------------------------------------------------------------
(* pthread_mutex_unlock by the owner, to go on at r. *)
UnlockCount(t, from, r) ==
  /\ pc[t] = from /\ type = "recursive" /\ count > 0
  /\ count' = count - 1
  /\ Goto(t, r)
  /\ UNCHANGED <<lock, owner, sem, ret, timed, late>>

(* Faulty variant: the mutex is released whatever the count. *)
Unlock_AnyCount(t, from, r) ==
  /\ pc[t] = from
  /\ owner' = NoThread
  /\ ret' = [ret EXCEPT ![t] = r]
  /\ Goto(t, "u_sub")
  /\ UNCHANGED <<lock, count, sem, timed, late>>

Unlock(t, from, r) ==
  /\ pc[t] = from /\ (type = "recursive" => count = 0)
  /\ owner' = NoThread
  /\ ret' = [ret EXCEPT ![t] = r]
  /\ Goto(t, "u_sub")
  /\ UNCHANGED <<lock, count, sem, timed, late>>

UnlockSub(t) ==
  /\ pc[t] = "u_sub"
  /\ lock' = lock - 1
  /\ Goto(t, IF lock = LOCKED THEN ret[t] ELSE "u_store")
  /\ UNCHANGED <<owner, count, sem, ret, timed, late>>

(* Faulty variant: decremented a second time, although a waiter may have     *)
(* written CONTENDED in between.                                             *)
UnlockStore_Sub(t) ==
  /\ pc[t] = "u_store"
  /\ lock' = lock - 1
  /\ Goto(t, "u_semlock")
  /\ UNCHANGED <<owner, count, sem, ret, timed, late>>

UnlockStore(t) ==
  /\ pc[t] = "u_store"
  /\ lock' = UNLOCKED
  /\ Goto(t, "u_semlock")
  /\ UNCHANGED <<owner, count, sem, ret, timed, late>>

UnlockSignal(t) ==
  /\ \/ PhalLock(t, "u_semlock", "u_signal")
     \/ PhalSignal(t, "u_signal", "u_semunlock") /\ UNCHANGED sem
     \/ PhalUnlock(t, "u_semunlock", ret[t])
  /\ UNCHANGED <<lock, owner, count, ret, timed, late>>

-------------------------------------------------------------------------------
(* The steps inside the calls, wherever they were made from. *)
MutexStep(t) ==
  \/ Try(t) \/ Cas(t) \/ Xchg(t) \/ Own(t)
  \/ SemLock(t) \/ SemWait(t) \/ SemUnlock(t) \/ SelfWait(t) \/ Deadline(t)
  \/ UnlockSub(t) \/ UnlockStore(t) \/ UnlockSignal(t)

(* The callers: they unlock what they own.  Locking a strict mutex again     *)
(* without a deadline is left out, it aborts the program.                    *)
Next ==
  UNCHANGED type /\ \E t \in Threads :
    \/ \E d \in BOOLEAN : Lock(t, "idle", d, "cs")
    \/ \E d \in BOOLEAN : (type = "strict" => d) /\ Lock(t, "cs", d, "cs")
    \/ TryLock(t) \/ TryLockAgain(t)
    \/ UnlockCount(t, "cs", "cs") \/ Unlock(t, "cs", "idle")
    \/ MutexStep(t)

Spec == MutexInit /\ [][Next]_mvars

-------------------------------------------------------------------------------
TypeOK ==
  /\ type \in Types /\ lock \in {UNLOCKED, LOCKED, CONTENDED}
  /\ owner \in Threads \cup {NoThread} /\ sem \in Threads \cup {NoThread}
  /\ count \in 0..MaxCount
  /\ pc \in [Threads -> MutexPCs] /\ ret \in [Threads -> {"idle", "cs"}]
  /\ timed \subseteq Threads /\ late \subseteq Threads

(* Between acquiring the word and writing the owner, while owner, and        *)
(* between clearing the owner and clearing the word.                         *)
Holds(t) == owner = t \/ pc[t] \in {"own", "u_sub", "u_store"}

(* Two threads never hold the mutex at once, although the word is changed    *)
(* in three separate steps by unlock and by exchange from any number of      *)
(* waiters.                                                                  *)
MutualExclusion ==
  /\ \A t, u \in Threads : Holds(t) /\ Holds(u) => t = u
  /\ \A t \in Threads : pc[t] = "cs" => owner = t

(* The word says UNLOCKED exactly when nobody holds the mutex: waiters that  *)
(* set CONTENDED, and waiters that give up at their deadline, leave no mutex *)
(* locked without a holder.                                                  *)
NoOrphanLock == lock # UNLOCKED <=> \E t \in Threads : Holds(t)

(* The recursion count is that of an owner: nobody acquires a mutex with     *)
(* somebody else's count.                                                    *)
CountIsOwners == count > 0 => owner # NoThread

(* "We don't actually need the lock here": nobody is left asleep on a mutex  *)
(* that nobody holds, wants or is releasing.                                 *)
NobodyLeftAsleep ==
  (\A t \in Threads : pc[t] \in {"idle", "asleep"})
    => \A t \in Threads : pc[t] = "idle"

-------------------------------------------------------------------------------
(* The inductive invariant behind these: which steps the owner can be at,    *)
(* where a call in progress returns to, and that a count needs a recursive   *)
(* mutex.                                                                    *)
OwnerSteps == {"cs", "try"} \cup SelfSteps

IInv ==
  /\ TypeOK /\ MutualExclusion /\ NoOrphanLock /\ CountIsOwners
  /\ count > 0 => type = "recursive"
  /\ \A t \in Threads :
       /\ owner = t => pc[t] \in OwnerSteps
       /\ pc[t] \in SelfSteps => owner = t
       /\ pc[t] \in LockSteps \cup WaitSteps \cup SelfSteps => ret[t] = "cs"
       /\ pc[t] \in UnlockSteps => ret[t] = "idle"
===============================================================================
