---------------------------- MODULE PthreadBarrier ----------------------------
(*****************************************************************************)
(* pthread_barrier_wait and _destroy (rthread_barrier.c).  What is done      *)
(* under barrier->mutex is one step; pthread_cond_wait gives the mutex up    *)
(* and sleeps at once, which is WaitIsAtomic of PthreadCond.  A signal wakes *)
(* any of the sleepers: the layer promises no order.  The end of             *)
(* pthread_mutex_unlock is a step of its own: when the mutex was contended,  *)
(* a thread that has stored UNLOCKED has the semaphore of the mutex still to *)
(* signal, and others may take the mutex meanwhile.                          *)
(*****************************************************************************)
EXTENDS Integers, FiniteSets

CONSTANTS
  BarrierThreads,
  Thresholds,  \* the counts that may be given to pthread_barrier_init
  Rounds       \* bound: how often each thread waits at the barrier

ASSUME BarrierThreadsAssumption == IsFiniteSet(BarrierThreads)
ASSUME ThresholdsAssumption == Thresholds \subseteq Nat \ {0}
ASSUME RoundsAssumption == Rounds \in Nat

VARIABLES
  threshold,   \* b->threshold
  in,          \* b->in
  out,         \* b->out
  generation,  \* b->generation
  freed,       \* the barrier was destroyed
  bpc,         \* "out", "asleep" in pthread_cond_wait, "woken" and not yet on,
               \* "unlock" at the end of pthread_mutex_unlock
  gen,         \* gen in pthread_barrier_wait
  entered,     \* how often each thread came in
  passed,      \* how often it passed
  serials      \* how many returned PTHREAD_BARRIER_SERIAL_THREAD

bvars == <<threshold, in, out, generation, freed, bpc, gen, entered, passed, serials>>

BarrierInit ==
  /\ threshold \in Thresholds
  /\ in = 0 /\ out = 0 /\ generation = 0 /\ serials = 0
  /\ freed = FALSE
  /\ bpc = [t \in BarrierThreads |-> "out"]
  /\ gen = [t \in BarrierThreads |-> 0]
  /\ entered = [t \in BarrierThreads |-> 0]
  /\ passed = [t \in BarrierThreads |-> 0]

Sleepers == {t \in BarrierThreads : bpc[t] = "asleep"}

(* pthread_cond_signal and pthread_mutex_unlock by t: one of those asleep is *)
(* woken, and t is out, or has the semaphore still to signal.                *)
SignalAndUnlock(t) ==
  \E l \in {"out", "unlock"} :
    \/ Sleepers = {} /\ bpc' = [bpc EXCEPT ![t] = l]
    \/ \E s \in Sleepers : bpc' = [bpc EXCEPT ![t] = l, ![s] = "woken"]

-------------------------------------------------------------------------------
(* The thread that completes a generation. *)
ArriveLast(t) ==
  /\ bpc[t] = "out" /\ entered[t] < Rounds /\ ~freed /\ in + 1 = threshold
  /\ out' = in /\ in' = 0 /\ generation' = generation + 1
  /\ SignalAndUnlock(t)
  /\ entered' = [entered EXCEPT ![t] = @ + 1]
  /\ passed' = [passed EXCEPT ![t] = @ + 1]
  /\ serials' = serials + 1
  /\ UNCHANGED <<threshold, freed, gen>>

Arrive(t) ==
  /\ bpc[t] = "out" /\ entered[t] < Rounds /\ ~freed /\ in + 1 # threshold
  /\ in' = in + 1
  /\ gen' = [gen EXCEPT ![t] = generation]
  /\ bpc' = [bpc EXCEPT ![t] = "asleep"]
  /\ entered' = [entered EXCEPT ![t] = @ + 1]
  /\ UNCHANGED <<threshold, out, generation, freed, passed, serials>>

(* Woken for a generation that is not complete: back to sleep. *)
Again(t) ==
  /\ bpc[t] = "woken" /\ gen[t] = generation
  /\ bpc' = [bpc EXCEPT ![t] = "asleep"]
  /\ UNCHANGED <<threshold, in, out, generation, freed, gen, entered, passed, serials>>

(* Faulty variant: every wake-up ends the wait. *)
Leave_AnyWakeup(t) ==
  /\ bpc[t] = "woken"
  /\ out' = out - 1
  /\ SignalAndUnlock(t)
  /\ passed' = [passed EXCEPT ![t] = @ + 1]
  /\ UNCHANGED <<threshold, in, generation, freed, gen, entered, serials>>

Leave(t) ==
  /\ bpc[t] = "woken" /\ gen[t] # generation
  /\ out' = out - 1
  /\ SignalAndUnlock(t)
  /\ passed' = [passed EXCEPT ![t] = @ + 1]
  /\ UNCHANGED <<threshold, in, generation, freed, gen, entered, serials>>

(* The signal to the semaphore of the mutex. *)
Unlocked(t) ==
  /\ bpc[t] = "unlock"
  /\ bpc' = [bpc EXCEPT ![t] = "out"]
  /\ UNCHANGED <<threshold, in, out, generation, freed, gen, entered, passed, serials>>

(* Called by one that has returned, once all have come in for the last time. *)
MayDestroy(t) ==
  bpc[t] = "out" /\ passed[t] = Rounds /\ ~freed /\ \A u \in BarrierThreads : entered[u] = Rounds

(* Faulty variant: those on their way out are not waited for. *)
Destroy_InOnly(t) ==
  /\ MayDestroy(t)
  /\ freed' = (in = 0)
  /\ UNCHANGED <<threshold, in, out, generation, bpc, gen, entered, passed, serials>>

(* pthread_barrier_destroy: EBUSY while others are in or on their way out. *)
Destroy(t) ==
  /\ MayDestroy(t)
  /\ freed' = ~(out > 0 \/ in > 0)
  /\ UNCHANGED <<threshold, in, out, generation, bpc, gen, entered, passed, serials>>

-------------------------------------------------------------------------------
BarrierNext ==
  \E t \in BarrierThreads :
    ArriveLast(t) \/ Arrive(t) \/ Again(t) \/ Leave(t) \/ Unlocked(t) \/ Destroy(t)

BarrierSpec == BarrierInit /\ [][BarrierNext]_bvars

-------------------------------------------------------------------------------
(* How often it happened to all of them together: the pairs of a thread and   *)
(* the number of one of its times.                                           *)
Times(f) == {p \in BarrierThreads \X (1..Rounds) : p[2] <= f[p[1]]}
Total(f) == Cardinality(Times(f))

BarrierTypeOK ==
  /\ in \in 0..(threshold - 1) /\ out \in Int /\ generation \in Nat /\ serials \in Nat
  /\ freed \in BOOLEAN
  /\ bpc \in [BarrierThreads -> {"out", "asleep", "woken", "unlock"}]
  /\ gen \in [BarrierThreads -> Nat]
  /\ entered \in [BarrierThreads -> 0..Rounds] /\ passed \in [BarrierThreads -> 0..Rounds]

(* The threshold is the number of threads. *)
Everybody == threshold = Cardinality(BarrierThreads)

(* The barrier holds everybody back: with as many threads as the threshold,  *)
(* nobody has passed it more often than the slowest has come to it, whichever *)
(* of the sleepers a signal wakes.                                           *)
NobodyPassesAlone ==
  Everybody => \A t, u \in BarrierThreads : passed[t] <= entered[u]

(* Also with more threads than the threshold: what has passed is made of     *)
(* complete generations, with one serial thread each, although threads of    *)
(* the next generations come in while the last ones leave.                   *)
GenerationsAreComplete ==
  /\ Total(entered) = threshold * generation + in
  /\ Total(passed) <= threshold * generation
  /\ serials = generation

(* With as many threads as the threshold, out counts the threads of the last *)
(* generation that have not passed yet, so that nobody sleeps in a barrier   *)
(* that was destroyed or has its mutex still to lock and its generation      *)
(* still to read.  (DestroyedIsUnused says more, and does not hold.)         *)
DestroyWaitsForLeavers ==
  Everybody =>
  /\ out = Cardinality({t \in BarrierThreads : bpc[t] \in {"asleep", "woken"} /\ gen[t] # generation})
  /\ freed => \A t \in BarrierThreads : bpc[t] \in {"out", "unlock"}

(* "mark thread exit": when out is 0 everybody has left the barrier, and     *)
(* pthread_barrier_destroy frees what nobody uses any more.                  *)
DestroyedIsUnused == freed => \A t \in BarrierThreads : bpc[t] = "out"
===============================================================================
