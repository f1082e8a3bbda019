---------------------------- MODULE BioSyncProofs -----------------------------
(*****************************************************************************)
(* Proofs about os::Mutex and os::ConditionVariable for any set of threads:  *)
(* the inductive invariant, mutual exclusion, no stranded waiter, and that   *)
(* the code implements Monitor.                                              *)
(*****************************************************************************)
EXTENDS BioSync, TLAPS

(* The invariant holds when the threads start. *)
LEMMA InitIInv == Init => IInv
<1> SUFFICES ASSUME Init PROVE IInv
  OBVIOUS
<1> QED
  BY NoThreadAssumption DEF Init, IInv, TypeOK, Words, Free, PCs, WaitersAnnounced,
     OwnerIsAwake, HolderOwns, WaitersAsleep, MarkedWordWasHeld

(* The word is handed to one waiter, or freed when there is none. *)
LEMMA KernelReleaseIInv ==
  ASSUME IInv, NEW t \in Threads, NEW n \in Threads \cup {NoThread},
         NEW at \in {"idle", "cvwait"},
         pc[t] \in {"cs", "unlock"}, KernelRelease(t, n, at)
  PROVE  IInv'
<1> USE NoThreadAssumption DEF IInv, TypeOK, Words, PCs
<1>1. CASE n = NoThread
  BY <1>1 DEF KernelRelease, Free, WaitersAnnounced, OwnerIsAwake, HolderOwns,
     WaitersAsleep, MarkedWordWasHeld
<1>2. CASE n \in waiters
  <2>1. n \in Threads /\ n # t /\ pc[n] \in {"queued", "cvqueued"}
    BY <1>2 DEF WaitersAsleep
  <2>2. /\ word' \in {Held(n), HeldL(n)}
        /\ waiters \ {n} # {} => word' = HeldL(n)
        /\ waiters' = waiters \ {n}
        /\ pc' = [pc EXCEPT ![t] = at, ![n] = Resumed(n)]
        /\ Resumed(n) \in {"cvdone", "lock"}
        /\ cur' = cur
    BY <1>2 DEF KernelRelease, Resumed
  <2>3. TypeOK'
    BY <2>1, <2>2 DEF Held, HeldL
  <2>4. word'.owner = n /\ (waiters' # {} => word'.listener = 1)
    BY <2>2 DEF Held, HeldL
  <2>5. \A u \in Threads :
          pc'[u] = IF u = n THEN Resumed(n) ELSE IF u = t THEN at ELSE pc[u]
    BY <2>1, <2>2
  <2>6. \A u \in Threads : u # t => pc[u] \notin {"cs", "unlock", "cvdone"}
    BY DEF HolderOwns
  <2> QED
    BY <2>1, <2>2, <2>3, <2>4, <2>5, <2>6 DEF WaitersAnnounced, OwnerIsAwake,
       HolderOwns, WaitersAsleep, MarkedWordWasHeld
<1> QED
  BY <1>1, <1>2 DEF KernelRelease

(* A wake moves sleepers to the mutex: the kernel gives it to one or queues  *)
(* them all.                                                                 *)
LEMMA SignalIInv ==
  ASSUME IInv, NEW W \in SUBSET Sleepers, W # {}, Signal(W), UNCHANGED cur
  PROVE  IInv'
<1> USE NoThreadAssumption DEF IInv, TypeOK, Words, PCs
<1>0. W \subseteq Threads /\ \A u \in W : pc[u] = "cvwait"
  BY DEF Sleepers
<1>1. CASE word = Free
  <2>1. PICK f \in W :
          /\ word' = IF W = {f} THEN Held(f) ELSE HeldL(f)
          /\ waiters' = waiters \cup (W \ {f})
          /\ pc' = [t \in Threads |-> IF t = f THEN "cvdone"
                                      ELSE IF t \in W THEN "cvqueued" ELSE pc[t]]
    BY <1>1 DEF Signal
  <2>2. waiters = {} /\ \A u \in Threads : pc[u] \notin {"cs", "unlock", "cvdone"}
    BY <1>1 DEF Free, WaitersAnnounced, HolderOwns
  <2>3. word' \in Words /\ word'.owner = f /\ (waiters' # {} => word'.listener = 1)
    BY <1>0, <2>1, <2>2 DEF Held, HeldL
  <2> QED
    BY <1>0, <2>1, <2>2, <2>3 DEF WaitersAnnounced, OwnerIsAwake, HolderOwns,
       WaitersAsleep, MarkedWordWasHeld
<1>2. CASE word # Free
  <2>1. /\ word' = HeldL(word.owner)
        /\ waiters' = waiters \cup W
        /\ pc' = [t \in Threads |-> IF t \in W THEN "cvqueued" ELSE pc[t]]
    BY <1>2 DEF Signal
  <2>2. word.owner \in Threads
    BY <1>2 DEF Free
  <2> QED
    BY <1>0, <2>1, <2>2 DEF HeldL, WaitersAnnounced, OwnerIsAwake, HolderOwns,
       WaitersAsleep, MarkedWordWasHeld
<1> QED
  BY <1>1, <1>2

(* Every step keeps it. *)
LEMMA NextIInv == IInv /\ [Next]_vars => IInv'
<1> SUFFICES ASSUME IInv, [Next]_vars PROVE IInv'
  OBVIOUS
<1> USE NoThreadAssumption DEF IInv
<1>1. ASSUME NEW t \in Threads, Lock(t) PROVE IInv'
  BY <1>1 DEF Lock, Goto, TypeOK, PCs, WaitersAnnounced, OwnerIsAwake, HolderOwns,
     WaitersAsleep, MarkedWordWasHeld
<1>2. ASSUME NEW t \in Threads, LockCas(t) PROVE IInv'
  <2> USE DEF TypeOK, Words, PCs, Goto, LockCas
  <2>1. CASE word = Free /\ word' = Held(t) /\ Goto(t, "cs")
    BY <1>2, <2>1 DEF Free, Held, WaitersAnnounced, OwnerIsAwake, HolderOwns,
       WaitersAsleep, MarkedWordWasHeld
  <2>2. CASE word.owner = t /\ Goto(t, "cs") /\ UNCHANGED word
    BY <1>2, <2>2 DEF WaitersAnnounced, OwnerIsAwake, HolderOwns,
       WaitersAsleep, MarkedWordWasHeld
  <2>3. CASE /\ word.owner \notin {t, NoThread}
             /\ Goto(t, IF word.listener = 1 THEN "arbitrate" ELSE "mark")
             /\ UNCHANGED word
    BY <1>2, <2>3 DEF WaitersAnnounced, OwnerIsAwake, HolderOwns,
       WaitersAsleep, MarkedWordWasHeld
  <2> QED
    BY <1>2, <2>1, <2>2, <2>3
<1>3. ASSUME NEW t \in Threads, LockMark(t) PROVE IInv'
  BY <1>3 DEF LockMark, Goto, TypeOK, Words, PCs, HeldL, WaitersAnnounced,
     OwnerIsAwake, HolderOwns, WaitersAsleep, MarkedWordWasHeld
<1>4. ASSUME NEW t \in Threads, ArbitrateLock(t) PROVE IInv'
  BY <1>4 DEF ArbitrateLock, Goto, TypeOK, Words, PCs, HeldL, WaitersAnnounced,
     OwnerIsAwake, HolderOwns, WaitersAsleep, MarkedWordWasHeld
<1>5. ASSUME NEW t \in Threads, TryLock(t) PROVE IInv'
  BY <1>5 DEF TryLock, Goto, TypeOK, Words, PCs, Free, Held, WaitersAnnounced,
     OwnerIsAwake, HolderOwns, WaitersAsleep, MarkedWordWasHeld
<1>6. ASSUME NEW t \in Threads, Unlock(t) PROVE IInv'
  <2> USE DEF TypeOK, Words, PCs, Goto, Unlock
  <2>0. word.owner = t
    BY <1>6 DEF HolderOwns
  <2>1. CASE word = Held(t) /\ word' = Free /\ Goto(t, "idle")
    BY <1>6, <2>0, <2>1 DEF Free, Held, WaitersAnnounced, OwnerIsAwake, HolderOwns,
       WaitersAsleep, MarkedWordWasHeld
  <2>2. CASE word # Held(t)
    <3>1. word.listener = 1
      BY <2>0, <2>2 DEF Held
    <3> QED
      BY <1>6, <2>0, <2>2, <3>1 DEF WaitersAnnounced, OwnerIsAwake, HolderOwns,
         WaitersAsleep, MarkedWordWasHeld
  <2> QED
    BY <1>6, <2>1, <2>2
<1>7. ASSUME NEW t \in Threads, NEW n \in Threads \cup {NoThread},
             ArbitrateUnlock(t, n)
      PROVE IInv'
  BY <1>7, KernelReleaseIInv DEF ArbitrateUnlock
<1>8. ASSUME NEW t \in Threads, NEW n \in Threads \cup {NoThread}, Wait(t, n)
      PROVE IInv'
  BY <1>8, KernelReleaseIInv DEF Wait
<1>9. ASSUME NEW t \in Threads, WaitReturn(t) PROVE IInv'
  BY <1>9 DEF WaitReturn, Goto, TypeOK, PCs, WaitersAnnounced, OwnerIsAwake,
     HolderOwns, WaitersAsleep, MarkedWordWasHeld
<1>10. ASSUME NEW t \in Threads, WaitTimedOut(t) PROVE IInv'
  BY <1>10 DEF WaitTimedOut, Goto, TypeOK, PCs, WaitersAnnounced, OwnerIsAwake,
     HolderOwns, WaitersAsleep, MarkedWordWasHeld
<1>11. ASSUME NEW t \in Threads, WakeOne(t) PROVE IInv'
  <2>1. PICK w \in Sleepers : Signal({w})
    BY <1>11 DEF WakeOne
  <2> QED
    BY <1>11, <2>1, SignalIInv DEF WakeOne
<1>12. ASSUME NEW t \in Threads, WakeAll(t) PROVE IInv'
  BY <1>12, SignalIInv DEF WakeAll
<1>13. CASE UNCHANGED vars
  BY <1>13 DEF vars, TypeOK, WaitersAnnounced, OwnerIsAwake, HolderOwns,
     WaitersAsleep, MarkedWordWasHeld
<1> QED
  BY <1>1, <1>2, <1>3, <1>4, <1>5, <1>6, <1>7, <1>8, <1>9, <1>10, <1>11, <1>12,
     <1>13 DEF Next

-------------------------------------------------------------------------------
(* The inductive invariant holds of every behaviour of the mutex and the     *)
(* condition variable, for any number of threads.                            *)
THEOREM Invariance == Spec => []IInv
<1> QED
  BY InitIInv, NextIInv, PTL DEF Spec

(* Every state of the model is well typed: the word names a thread or        *)
(* nobody, and every thread is at one of the steps of the code.              *)
THEOREM TypeCorrect == Spec => []TypeOK
<1>1. IInv => TypeOK
  BY DEF IInv
<1> QED
  BY <1>1, Invariance, PTL

(* os::Mutex excludes: of two threads that returned from Lock, TryLock or    *)
(* Wait and did not call Unlock or Wait since, neither exists beside the     *)
(* other.                                                                    *)
THEOREM MutexExcludes == Spec => []MutualExclusion
<1>1. IInv => MutualExclusion
  BY DEF IInv, HolderOwns, MutualExclusion
<1> QED
  BY <1>1, Invariance, PTL

(* Unlock never strands a waiter on its fast path: while somebody sleeps in  *)
(* the kernel, the word has an owner and the listener bit.                   *)
THEOREM NoStrandedWaiter == Spec => []WaitersAnnounced
<1>1. IInv => WaitersAnnounced
  BY DEF IInv
<1> QED
  BY <1>1, Invariance, PTL

(* The mutex never belongs to a sleeping thread, timeouts of Wait included. *)
THEOREM MutexOwnerIsAwake == Spec => []OwnerIsAwake
<1>1. IInv => OwnerIsAwake
  BY DEF IInv
<1> QED
  BY <1>1, Invariance, PTL

-------------------------------------------------------------------------------
(* Refinement: every step of the code is a step of the monitor or none. *)
LEMMA KernelReleaseWaits ==
  ASSUME IInv, NEW t \in Threads, NEW n \in Threads \cup {NoThread},
         pc[t] = "cs", KernelRelease(t, n, "cvwait")
  PROVE  Mon!Wait(t)
<1> USE DEF IInv, TypeOK, PCs
<1>1. \A u \in Threads :
        MonitorState(u)' = IF u = t THEN "waiting" ELSE MonitorState(u)
  <2>1. CASE n = NoThread
    BY <2>1, NoThreadAssumption DEF KernelRelease, MonitorState
  <2>2. CASE n \in waiters
    <3>1. n \in Threads /\ n # t /\ pc[n] \in {"queued", "cvqueued"}
      BY <2>2 DEF WaitersAsleep
    <3> QED
      BY <2>2, <3>1, NoThreadAssumption DEF KernelRelease, Resumed, MonitorState
  <2> QED
    BY <2>1, <2>2 DEF KernelRelease
<1> QED
  BY <1>1 DEF Mon!Wait, MonitorState

(* The hand-over of the mutex changes nothing that the monitor shows. *)
LEMMA KernelReleaseStutters ==
  ASSUME IInv, NEW t \in Threads, NEW n \in Threads \cup {NoThread},
         pc[t] = "unlock", KernelRelease(t, n, "idle")
  PROVE  \A u \in Threads : MonitorState(u)' = MonitorState(u)
<1> USE DEF IInv, TypeOK, PCs
<1>1. CASE n = NoThread
  BY <1>1, NoThreadAssumption DEF KernelRelease, MonitorState
<1>2. CASE n \in waiters
  <2>1. n \in Threads /\ n # t /\ pc[n] \in {"queued", "cvqueued"}
    BY <1>2 DEF WaitersAsleep
  <2> QED
    BY <1>2, <2>1, NoThreadAssumption DEF KernelRelease, Resumed, MonitorState
<1> QED
  BY <1>1, <1>2 DEF KernelRelease

(* Signalled threads are woken in the monitor. *)
LEMMA SignalWakes ==
  ASSUME IInv, NEW W \in SUBSET Sleepers, W # {}, Signal(W)
  PROVE  Mon!Wake(W)
<1> USE DEF IInv, TypeOK, PCs
<1>1. W \subseteq Threads /\ \A u \in W : pc[u] = "cvwait"
  BY DEF Sleepers
<1>2. \A u \in Threads :
        pc'[u] = pc[u] \/ (u \in W /\ pc'[u] \in {"cvdone", "cvqueued"})
  BY <1>1 DEF Signal
<1>3. \A u \in W : pc'[u] \in {"cvdone", "cvqueued"}
  BY <1>1 DEF Signal
<1>4. \A u \in Threads :
        MonitorState(u)' = IF u \in W THEN "woken" ELSE MonitorState(u)
  BY <1>1, <1>2, <1>3 DEF MonitorState
<1> QED
  BY <1>1, <1>4 DEF Mon!Wake, Mon!Waiting, MonitorState

(* Before a thread enters, nobody is inside. *)
LEMMA NobodyInside ==
  ASSUME IInv, NEW t \in Threads, pc[t] # "cs",
         word.owner = t \/ word.owner = NoThread
  PROVE  Mon!Inside = {}
<1>1. \A u \in Threads : pc[u] # "cs"
  BY NoThreadAssumption DEF IInv, HolderOwns
<1> QED
  BY <1>1 DEF Mon!Inside, MonitorState

(* Every step is one of the monitor or leaves its state alone. *)
LEMMA StepRefines ==
  IInv /\ [Next]_vars => [Mon!Next]_([t \in Threads |-> MonitorState(t)])
<1> DEFINE stut == \A u \in Threads : MonitorState(u)' = MonitorState(u)
           Steps(t) == \/ Mon!Enter(t) \/ Mon!Leave(t) \/ Mon!Wait(t)
                       \/ Mon!Return(t) \/ Mon!TimeOut(t)
<1> SUFFICES ASSUME IInv, [Next]_vars
             PROVE  \/ \E t \in Threads : Steps(t)
                    \/ \E W \in SUBSET Threads : Mon!Wake(W)
                    \/ stut
  BY DEF Mon!Next
<1>0. pc \in [Threads -> PCs] /\ IInv
  BY DEF IInv, TypeOK
<1>1. ASSUME NEW t \in Threads, Lock(t) PROVE stut
  BY <1>0, <1>1 DEF Lock, Goto, MonitorState
<1>2. ASSUME NEW t \in Threads, LockCas(t) PROVE Steps(t) \/ stut
  <2>1. CASE Goto(t, "cs") /\ (word = Free \/ word.owner = t)
    <3>1. Mon!Inside = {}
      BY <1>0, <1>2, <2>1, NobodyInside DEF LockCas, Free
    <3>2. \A u \in Threads : MonitorState(u)' = IF u = t THEN "in" ELSE MonitorState(u)
      BY <1>0, <2>1 DEF Goto, MonitorState
    <3>3. MonitorState(t) = "out"
      BY <1>2 DEF LockCas, MonitorState
    <3> QED
      BY <3>1, <3>2, <3>3 DEF Mon!Enter
  <2>2. CASE Goto(t, IF word.listener = 1 THEN "arbitrate" ELSE "mark")
    BY <1>0, <1>2, <2>2 DEF LockCas, Goto, MonitorState
  <2> QED
    BY <1>2, <2>1, <2>2 DEF LockCas
<1>3. ASSUME NEW t \in Threads, LockMark(t) \/ ArbitrateLock(t) PROVE stut
  BY <1>0, <1>3 DEF LockMark, ArbitrateLock, Goto, MonitorState
<1>4. ASSUME NEW t \in Threads, TryLock(t) PROVE Steps(t) \/ stut
  <2>1. CASE word = Free /\ Goto(t, "cs")
    <3>1. Mon!Inside = {}
      BY <1>0, <1>4, <2>1, NobodyInside DEF TryLock, Free
    <3>2. \A u \in Threads : MonitorState(u)' = IF u = t THEN "in" ELSE MonitorState(u)
      BY <1>0, <2>1 DEF Goto, MonitorState
    <3>3. MonitorState(t) = "out"
      BY <1>4 DEF TryLock, MonitorState
    <3> QED
      BY <3>1, <3>2, <3>3 DEF Mon!Enter
  <2>2. CASE UNCHANGED pc
    BY <2>2 DEF MonitorState
  <2> QED
    BY <1>4, <2>1, <2>2 DEF TryLock
<1>5. ASSUME NEW t \in Threads, Unlock(t) PROVE Mon!Leave(t)
  <2>1. \A u \in Threads : MonitorState(u)' = IF u = t THEN "out" ELSE MonitorState(u)
    BY <1>0, <1>5 DEF Unlock, Goto, MonitorState
  <2> QED
    BY <1>5, <2>1 DEF Mon!Leave, Unlock, MonitorState
<1>6. ASSUME NEW t \in Threads, NEW n \in Threads \cup {NoThread},
             ArbitrateUnlock(t, n)
      PROVE  stut
  BY <1>0, <1>6, KernelReleaseStutters DEF ArbitrateUnlock
<1>7. ASSUME NEW t \in Threads, NEW n \in Threads \cup {NoThread}, Wait(t, n)
      PROVE  Mon!Wait(t)
  BY <1>0, <1>7, KernelReleaseWaits DEF Wait
<1>8. ASSUME NEW t \in Threads, WaitReturn(t) PROVE Mon!Return(t)
  <2>1. Mon!Inside = {}
    BY <1>0, <1>8, NobodyInside DEF WaitReturn, IInv, HolderOwns
  <2>2. \A u \in Threads : MonitorState(u)' = IF u = t THEN "in" ELSE MonitorState(u)
    BY <1>0, <1>8 DEF WaitReturn, Goto, MonitorState
  <2>3. MonitorState(t) = "woken"
    BY <1>8 DEF WaitReturn, MonitorState
  <2> QED
    BY <2>1, <2>2, <2>3 DEF Mon!Return
<1>9. ASSUME NEW t \in Threads, WaitTimedOut(t) PROVE Mon!TimeOut(t)
  <2>1. \A u \in Threads : MonitorState(u)' = IF u = t THEN "out" ELSE MonitorState(u)
    BY <1>0, <1>9 DEF WaitTimedOut, Goto, MonitorState
  <2> QED
    BY <1>9, <2>1 DEF WaitTimedOut, Mon!TimeOut, MonitorState
<1>10. ASSUME NEW t \in Threads, WakeOne(t)
       PROVE  \E W \in SUBSET Threads : Mon!Wake(W)
  <2>1. PICK w \in Sleepers : Signal({w})
    BY <1>10 DEF WakeOne
  <2>2. Mon!Wake({w})
    BY <1>0, <2>1, SignalWakes
  <2> QED
    BY <2>2 DEF Sleepers
<1>11. ASSUME NEW t \in Threads, WakeAll(t)
       PROVE  \E W \in SUBSET Threads : Mon!Wake(W)
  <2>1. Mon!Wake(Sleepers)
    BY <1>0, <1>11, SignalWakes DEF WakeAll
  <2> QED
    BY <2>1 DEF Sleepers
<1>12. CASE UNCHANGED vars
  BY <1>12 DEF vars, MonitorState
<1> QED
  BY <1>1, <1>2, <1>3, <1>4, <1>5, <1>6, <1>7, <1>8, <1>9, <1>10, <1>11, <1>12
  DEF Next

(* os::Mutex with os::ConditionVariable implements the abstract monitor. *)
THEOREM BioSyncImplementsMonitor == Spec => ImplementsMonitor
<1>1. Init => Mon!Init
  BY DEF Init, Mon!Init, MonitorState
<1> QED
  BY <1>1, StepRefines, Invariance, PTL DEF Spec, ImplementsMonitor, Mon!Spec

===============================================================================
