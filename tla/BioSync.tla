------------------------------- MODULE BioSync --------------------------------
(*****************************************************************************)
(* libbio's os::Mutex and os::ConditionVariable (os_Mutex.cpp) on top of the *)
(* kernel calls they use.  One mutex word, one condition variable, any       *)
(* number of threads; every atomic instruction and every supervisor call is  *)
(* one step, so all interleavings of Lock, TryLock, Unlock, Wait and Wake    *)
(* are covered.                                                              *)
(*                                                                           *)
(* A word is [owner, listener]: the handle in the low bits and the bit       *)
(* 0x40000000 that says that the kernel has, or is about to have, waiters.   *)
(* The kernel serves its waiters by priority; the choice is left open.       *)
(*****************************************************************************)
EXTENDS FiniteSets, Naturals

CONSTANTS
  Threads,     \* threads created with os::Thread, each with its own handle
  NoThread     \* the null handle, 0

ASSUME NoThreadAssumption == NoThread \notin Threads

VARIABLES
  word,        \* Mutex::mutex
  pc,          \* where each thread is in the calls of this module
  cur,         \* the word a thread read in Mutex::Lock
  waiters      \* kernel: threads asleep until the mutex is handed to them

vars == <<word, pc, cur, waiters>>

-------------------------------------------------------------------------------
Free == [owner |-> NoThread, listener |-> 0]
Held(t) == [owner |-> t, listener |-> 0]
HeldL(t) == [owner |-> t, listener |-> 1]
Words == [owner : Threads \cup {NoThread}, listener : {0, 1}]

(* cvwait: asleep in WaitProcessWideKeyAtomic; cvqueued: woken there, the    *)
(* kernel is getting the mutex for it; cvdone: woken with the mutex.         *)
PCs == {"idle", "lock", "mark", "arbitrate", "queued", "cs", "unlock",
        "cvwait", "cvqueued", "cvdone"}

Sleepers == {t \in Threads : pc[t] = "cvwait"}

Init ==
  /\ word = Free
  /\ pc = [t \in Threads |-> "idle"]
  /\ cur = [t \in Threads |-> Free]
  /\ waiters = {}

Goto(t, l) == pc' = [pc EXCEPT ![t] = l]

-------------------------------------------------------------------------------
(* Kernel side.  The one who gives the mutex up hands it to n, the waiter    *)
(* the kernel picks, or to nobody.  A thread that slept in ArbitrateLock     *)
(* resumes in the loop of Lock, one that slept for the condition variable    *)
(* returns from its call.  at is the program counter of the caller.          *)
Resumed(n) == IF pc[n] = "cvqueued" THEN "cvdone" ELSE "lock"

KernelRelease(t, n, at) ==
  \/ /\ n = NoThread /\ waiters = {}
     /\ word' = Free
     /\ pc' = [pc EXCEPT ![t] = at]
     /\ UNCHANGED <<cur, waiters>>
  \/ /\ n \in waiters
     /\ word' = IF waiters = {n} THEN Held(n) ELSE HeldL(n)
     /\ waiters' = waiters \ {n}
     /\ pc' = [pc EXCEPT ![t] = at, ![n] = Resumed(n)]
     /\ UNCHANGED cur

(* Faulty variant: sleep without looking at the word again. *)
ArbitrateLock_NoRecheck(t) ==
  /\ pc[t] = "arbitrate"
  /\ waiters' = waiters \cup {t} /\ Goto(t, "queued")
  /\ UNCHANGED <<word, cur>>

(* svc::ArbitrateLock(owner, word, self): sleep only if the word still is    *)
(* what the caller saw, with the listener bit; else return to the loop.      *)
ArbitrateLock(t) ==
  /\ pc[t] = "arbitrate"
  /\ IF word = HeldL(cur[t].owner)
     THEN waiters' = waiters \cup {t} /\ Goto(t, "queued")
     ELSE UNCHANGED waiters /\ Goto(t, "lock")
  /\ UNCHANGED <<word, cur>>

(* svc::ArbitrateUnlock(word) *)
ArbitrateUnlock(t, n) == pc[t] = "unlock" /\ KernelRelease(t, n, "idle")

-------------------------------------------------------------------------------
(* Mutex *)
Lock(t) ==
  /\ pc[t] = "idle"
  /\ Goto(t, "lock")
  /\ UNCHANGED <<word, cur, waiters>>

(* Faulty variant: the listener bit of a contended word is taken for one's   *)
(* own ownership.                                                            *)
LockCas_ListenerIsMine(t) ==
  /\ pc[t] = "lock"
  /\ cur' = [cur EXCEPT ![t] = word]
  /\ \/ word = Free /\ word' = Held(t) /\ Goto(t, "cs")
     \/ word.owner # NoThread /\ UNCHANGED word
        /\ Goto(t, IF word.owner = t \/ word.listener = 1 THEN "cs" ELSE "mark")
  /\ UNCHANGED waiters

(* The first compare-and-swap of the loop and the tests on what it returned. *)
LockCas(t) ==
  /\ pc[t] = "lock"
  /\ cur' = [cur EXCEPT ![t] = word]
  /\ \/ word = Free /\ word' = Held(t) /\ Goto(t, "cs")
     \/ word.owner = t /\ Goto(t, "cs") /\ UNCHANGED word
     \/ /\ word.owner \notin {t, NoThread}
        /\ Goto(t, IF word.listener = 1 THEN "arbitrate" ELSE "mark")
        /\ UNCHANGED word
  /\ UNCHANGED waiters

(* The second one announces a listener; if the word moved on, start again. *)
LockMark(t) ==
  /\ pc[t] = "mark"
  /\ \/ word = cur[t] /\ word' = HeldL(word.owner) /\ Goto(t, "arbitrate")
     \/ word # cur[t] /\ Goto(t, "lock") /\ UNCHANGED word
  /\ UNCHANGED <<cur, waiters>>

(* By the holder, TryLock returns true and Lock returns without any effect,  *)
(* and one Unlock undoes both: a stutter, and not offered.                   *)
TryLock(t) ==
  /\ pc[t] = "idle"
  /\ \/ word = Free /\ word' = Held(t) /\ Goto(t, "cs")
     \/ word # Free /\ UNCHANGED <<word, pc>>
  /\ UNCHANGED <<cur, waiters>>

(* Faulty variants: the word is cleared whoever listens; the kernel is not   *)
(* told when somebody listens.                                               *)
Unlock_Store(t) ==
  /\ pc[t] = "cs"
  /\ word' = Free /\ Goto(t, "idle")
  /\ UNCHANGED <<cur, waiters>>

Unlock_NoArbitrate(t) ==
  /\ pc[t] = "cs"
  /\ word' = IF word = Held(t) THEN Free ELSE word
  /\ Goto(t, "idle")
  /\ UNCHANGED <<cur, waiters>>

(* Called by the holder only. *)
Unlock(t) ==
  /\ pc[t] = "cs"
  /\ \/ word = Held(t) /\ word' = Free /\ Goto(t, "idle")
     \/ word # Held(t) /\ UNCHANGED word
        /\ Goto(t, IF word.listener = 1 THEN "unlock" ELSE "idle")
  /\ UNCHANGED <<cur, waiters>>

-------------------------------------------------------------------------------
(* ConditionVariable *)

(* WaitTimeout: the kernel gives the mutex up and puts the caller to sleep   *)
(* in one step.                                                              *)
Wait(t, n) == pc[t] = "cs" /\ KernelRelease(t, n, "cvwait")

(* The wait ends with the mutex, obtained by the kernel for the caller. *)
WaitReturn(t) ==
  /\ pc[t] = "cvdone"
  /\ Goto(t, "cs")
  /\ UNCHANGED <<word, cur, waiters>>

(* Faulty variant: the mutex is not locked again after a timeout. *)
WaitTimedOut_NoLock(t) ==
  /\ pc[t] \in {"cvwait", "cvqueued"}
  /\ Goto(t, "cs")
  /\ waiters' = waiters \ {t}
  /\ UNCHANGED <<word, cur>>

(* The wait ends with 0xea01, without the mutex: WaitTimeout calls Lock. *)
WaitTimedOut(t) ==
  /\ pc[t] \in {"cvwait", "cvqueued"}
  /\ Goto(t, "lock")
  /\ waiters' = waiters \ {t}
  /\ UNCHANGED <<word, cur>>

(* svc::SignalProcessWideKey: the threads of W stop waiting for the          *)
(* variable.  One of them, f, gets the mutex if it is free; the others       *)
(* wait for it like those that came through ArbitrateLock.                   *)
Signal(W) ==
  \/ /\ word = Free
     /\ \E f \in W :
          /\ word' = IF W = {f} THEN Held(f) ELSE HeldL(f)
          /\ waiters' = waiters \cup (W \ {f})
          /\ pc' = [t \in Threads |-> IF t = f THEN "cvdone"
                                      ELSE IF t \in W THEN "cvqueued"
                                      ELSE pc[t]]
  \/ /\ word # Free
     /\ word' = HeldL(word.owner)
     /\ waiters' = waiters \cup W
     /\ pc' = [t \in Threads |-> IF t \in W THEN "cvqueued" ELSE pc[t]]

CanCall(t) == pc[t] \in {"idle", "cs"}

WakeOne(t) ==
  /\ CanCall(t)
  /\ \E w \in Sleepers : Signal({w})
  /\ UNCHANGED cur

WakeAll(t) ==
  /\ CanCall(t)
  /\ Sleepers # {}
  /\ Signal(Sleepers)
  /\ UNCHANGED cur

-------------------------------------------------------------------------------
Next ==
  \E t \in Threads :
    \/ Lock(t) \/ LockCas(t) \/ LockMark(t) \/ ArbitrateLock(t)
    \/ TryLock(t)
    \/ Unlock(t)
    \/ \E n \in Threads \cup {NoThread} : ArbitrateUnlock(t, n)
    \/ \E n \in Threads \cup {NoThread} : Wait(t, n)
    \/ WaitReturn(t) \/ WaitTimedOut(t)
    \/ WakeOne(t) \/ WakeAll(t)

Spec == Init /\ [][Next]_vars

(* Threads keep running and holders unlock.  The kernel's queue is first     *)
(* come, first served among threads of one priority, so a waiter is not      *)
(* passed over for ever: strong fairness of the hand-over to each thread.    *)
Fairness ==
  \A t \in Threads :
    /\ WF_vars(LockCas(t)) /\ WF_vars(LockMark(t)) /\ WF_vars(ArbitrateLock(t))
    /\ WF_vars(Unlock(t)) /\ WF_vars(WaitReturn(t))
    /\ WF_vars(\E n \in Threads \cup {NoThread} : ArbitrateUnlock(t, n))
    /\ SF_vars(\E u \in Threads : ArbitrateUnlock(u, t) \/ Wait(u, t))

FairSpec == Spec /\ Fairness

-------------------------------------------------------------------------------
TypeOK ==
  /\ word \in Words
  /\ pc \in [Threads -> PCs]
  /\ cur \in [Threads -> Words]
  /\ waiters \subseteq Threads

(* Two threads are never both between the return of Lock, TryLock or Wait    *)
(* and their next Unlock or Wait, whatever path each of them came by: the    *)
(* fast path, a hand-over by the kernel, a wake, or a timed-out wait.        *)
MutualExclusion ==
  \A t, u \in Threads : pc[t] = "cs" /\ pc[u] = "cs" => t = u

(* While the kernel has waiters, the word carries its owner and the listener *)
(* bit, so the next Unlock goes through the kernel: no waiter is stranded by *)
(* the fast path of Unlock.                                                  *)
WaitersAnnounced ==
  waiters # {} => word.owner # NoThread /\ word.listener = 1

(* The mutex never belongs to a thread that sleeps or that went away: its    *)
(* owner is running, inside, on its way in or on its way out.  This is what  *)
(* a wake or a hand-over racing a timeout of Wait could break.               *)
OwnerIsAwake ==
  \A t \in Threads :
    word.owner = t => pc[t] \in {"lock", "cs", "unlock", "cvdone"}

(* A thread asleep in ArbitrateLock gets the mutex in the end. *)
QueuedThreadGetsMutex ==
  \A t \in Threads : pc[t] = "queued" ~> pc[t] = "cs"

(* A thread inside the abstract monitor holds the mutex and has not called   *)
(* Unlock; one that the kernel has woken, with or without the mutex, is      *)
(* "woken".                                                                  *)
MonitorState(t) ==
  CASE pc[t] = "cs" -> "in"
    [] pc[t] = "cvwait" -> "waiting"
    [] pc[t] \in {"cvqueued", "cvdone"} -> "woken"
    [] OTHER -> "out"

-------------------------------------------------------------------------------
(* The facts that make the above inductive: who holds the mutex according to *)
(* the word, which threads sleep in the kernel for it, and what Lock read    *)
(* before it announces itself.                                               *)
HolderOwns ==
  \A t \in Threads : pc[t] \in {"cs", "unlock", "cvdone"} => word.owner = t

WaitersAsleep ==
  waiters = {t \in Threads : pc[t] \in {"queued", "cvqueued"}}

MarkedWordWasHeld ==
  \A t \in Threads : pc[t] = "mark" => cur[t].owner \in Threads

(* The inductive invariant: an unlocked word carries no listener bit, an     *)
(* Unlock that found the bit still finds it in the kernel, and the parts     *)
(* named above.                                                              *)
IInv ==
  /\ TypeOK
  /\ word.owner = NoThread => word.listener = 0
  /\ \A t \in Threads : pc[t] = "unlock" => word.listener = 1
  /\ WaitersAnnounced /\ OwnerIsAwake
  /\ HolderOwns /\ WaitersAsleep /\ MarkedWordWasHeld

-------------------------------------------------------------------------------
Mon == INSTANCE Monitor WITH st <- [t \in Threads |-> MonitorState(t)]

(* Mutex and ConditionVariable implement the abstract monitor of Monitor. *)
ImplementsMonitor == Mon!Spec
===============================================================================
