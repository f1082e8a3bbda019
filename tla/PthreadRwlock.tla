----------------------------- MODULE PthreadRwlock ----------------------------
(*****************************************************************************)
(* The read-write lock of rthread_rwlock.c: one lock, its spin lock, and the *)
(* calls as they are, with the waits and wake-ups that are still missing     *)
(* there.  What is done under the spin lock is one step; a call that returns *)
(* or spins with the spin lock held leaves it in spin.                       *)
(*****************************************************************************)
EXTENDS Naturals, Sequences, FiniteSets

CONSTANTS
  Threads,
  NoThread     \* NULL

ASSUME NoThreadAssumption == NoThread \notin Threads
ASSUME ThreadsAssumption == IsFiniteSet(Threads)

VARIABLES
  owner,       \* lock->owner, the writer
  readers,     \* lock->readers
  writers,     \* lock->writers
  spin,        \* the thread that left lock->lock locked
  pc           \* what each thread is doing

vars == <<owner, readers, writers, spin, pc>>

Init ==
  /\ owner = NoThread /\ readers = 0 /\ writers = <<>> /\ spin = NoThread
  /\ pc = [t \in Threads |-> "idle"]

Goto(t, l) == pc' = [pc EXCEPT ![t] = l]

-------------------------------------------------------------------------------
(* The call of pthread_rwlock_rdlock, _timedrdlock, _wrlock, _timedwrlock or *)
(* _unlock by a thread that may make it: a thread that has the lock unlocks  *)
(* it before it locks again, which would be EDEADLK.                         *)
Call(t) ==
  /\ \/ pc[t] = "idle" /\ (Goto(t, "rdlock") \/ Goto(t, "wrlock"))
     \/ pc[t] = "reading" /\ Goto(t, "rdunlock")
     \/ pc[t] = "writing" /\ Goto(t, "wrunlock")
  /\ UNCHANGED <<owner, readers, writers, spin>>

(* _rthread_rwlock_rdlock: with a writer in the lock or in the queue the     *)
(* sleep is missing, and the spin lock is taken once more by the thread that *)
(* has it.                                                                   *)
Rdlock(t) ==
  /\ pc[t] = "rdlock" /\ spin = NoThread
  /\ \/ /\ owner = NoThread /\ writers = <<>>
        /\ readers' = readers + 1 /\ Goto(t, "reading") /\ UNCHANGED spin
     \/ /\ owner # NoThread \/ writers # <<>>
        /\ spin' = t /\ Goto(t, "spinning") /\ UNCHANGED readers
  /\ UNCHANGED <<owner, writers>>

(* A try that fails, EBUSY, changes nothing. *)
TryRdlock(t) ==
  /\ pc[t] = "idle" /\ spin = NoThread
  /\ owner = NoThread /\ writers = <<>>
  /\ readers' = readers + 1 /\ Goto(t, "reading")
  /\ UNCHANGED <<owner, writers, spin>>

(* Faulty variant: a writer does not look at the readers. *)
Wrlock_AnyReaders(t) ==
  /\ pc[t] = "wrlock" /\ spin = NoThread
  /\ owner = NoThread
  /\ owner' = t /\ Goto(t, "writing")
  /\ UNCHANGED <<readers, writers, spin>>

(* _rthread_rwlock_wrlock: a writer that has to wait is queued, and the call *)
(* returns ENOSYS with the spin lock.                                        *)
Wrlock(t) ==
  /\ pc[t] = "wrlock" /\ spin = NoThread
  /\ \/ /\ owner = NoThread /\ readers = 0
        /\ owner' = t /\ Goto(t, "writing") /\ UNCHANGED <<writers, spin>>
     \/ /\ owner # NoThread \/ readers > 0
        /\ writers' = Append(writers, t) /\ spin' = t /\ Goto(t, "idle")
        /\ UNCHANGED owner
  /\ UNCHANGED readers

TryWrlock(t) ==
  /\ pc[t] = "idle" /\ spin = NoThread
  /\ owner = NoThread /\ readers = 0
  /\ owner' = t /\ Goto(t, "writing")
  /\ UNCHANGED <<readers, writers, spin>>

(* pthread_rwlock_unlock of a reader: the last one hands the lock to the     *)
(* first writer in the queue.                                                *)
ReaderUnlock(t) ==
  /\ pc[t] = "rdunlock" /\ spin = NoThread
  /\ readers' = readers - 1
  /\ owner' = IF readers = 1 /\ writers # <<>> THEN Head(writers) ELSE owner
  /\ writers' = IF readers = 1 /\ writers # <<>> THEN Tail(writers) ELSE writers
  /\ Goto(t, "idle")
  /\ UNCHANGED spin

(* Of a writer: without a writer in the queue the call returns ENOSYS, with  *)
(* the spin lock, where it was to wake the readers.                          *)
WriterUnlock(t) ==
  /\ pc[t] = "wrunlock" /\ spin = NoThread
  /\ owner' = IF writers # <<>> THEN Head(writers) ELSE NoThread
  /\ writers' = IF writers # <<>> THEN Tail(writers) ELSE writers
  /\ spin' = IF writers # <<>> THEN NoThread ELSE t
  /\ Goto(t, "idle")
  /\ UNCHANGED readers

-------------------------------------------------------------------------------
Step(t) == Rdlock(t) \/ Wrlock(t) \/ ReaderUnlock(t) \/ WriterUnlock(t)

Next == \E t \in Threads : Call(t) \/ Step(t) \/ TryRdlock(t) \/ TryWrlock(t)

Spec == Init /\ [][Next]_vars

-------------------------------------------------------------------------------
PCs == {"idle", "rdlock", "wrlock", "rdunlock", "wrunlock", "reading", "writing",
        "spinning"}
Reading == {t \in Threads : pc[t] \in {"reading", "rdunlock"}}
Writing == {t \in Threads : pc[t] \in {"writing", "wrunlock"}}

TypeOK ==
  /\ owner \in Threads \cup {NoThread} /\ spin \in Threads \cup {NoThread}
  /\ readers \in 0..Cardinality(Threads)
  /\ writers \in Seq(Threads)
  /\ pc \in [Threads -> PCs]

(* A writer is alone: no second writer and no reader is inside with it,      *)
(* whichever of them came by a try.                                          *)
WriterIsAlone ==
  \A t \in Writing : owner = t /\ Reading = {} /\ Writing = {t}
===============================================================================
