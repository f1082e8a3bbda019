------------------------- MODULE PthreadBarrierProofs -------------------------
(*****************************************************************************)
(* The barrier holds its threads together and counts those on their way out, *)
(* for any finite set of threads, any thresholds and any number of rounds.   *)
(*****************************************************************************)
EXTENDS PthreadBarrier, FiniteSetTheorems, TLAPS

USE BarrierThreadsAssumption, ThresholdsAssumption, RoundsAssumption

(* Those in the barrier, those of the generation that is being gathered, and *)
(* those of an earlier one that have not left yet.                           *)
Inside == {t \in BarrierThreads : bpc[t] \in {"asleep", "woken"}}
Current == {t \in BarrierThreads : bpc[t] \in {"asleep", "woken"} /\ gen[t] = generation}
Leavers == {t \in BarrierThreads : bpc[t] \in {"asleep", "woken"} /\ gen[t] # generation}

(* A thread has come in once more than it has left while it is inside; in    *)
(* counts the generation that is being gathered; and every time that         *)
(* somebody came in belongs to it or to a complete generation.               *)
Visits ==
  \A t \in BarrierThreads :
    /\ gen[t] <= generation
    /\ entered[t] = passed[t] + (IF bpc[t] \in {"asleep", "woken"} THEN 1 ELSE 0)
Counts ==
  /\ in = Cardinality(Current)
  /\ Total(entered) = threshold * generation + in
  /\ Total(passed) + Cardinality(Inside) = Total(entered)
  /\ serials = generation

(* With as many threads as the threshold, all have left as many generations  *)
(* as are complete, but for the leavers, who are in the last of them.        *)
InStep ==
  Everybody =>
    /\ \A t \in BarrierThreads : passed[t] = generation - (IF t \in Leavers THEN 1 ELSE 0)
    /\ out = Cardinality(Leavers)
    /\ freed => Inside = {}

IInv ==
  /\ threshold \in Thresholds /\ BarrierTypeOK
  /\ Visits /\ Counts /\ InStep

-------------------------------------------------------------------------------
(* What the invariant says of types, in the parts that the proofs need. *)
LEMMA Numbers ==
  ASSUME IInv
  PROVE  /\ threshold \in Nat \ {0} /\ in \in 0..(threshold - 1) /\ in \in Nat
         /\ out \in Int /\ generation \in Nat /\ serials \in Nat
         /\ threshold * generation \in Nat
         /\ entered \in [BarrierThreads -> 0..Rounds] /\ passed \in [BarrierThreads -> 0..Rounds]
         /\ gen \in [BarrierThreads -> Nat]
<1>1. /\ threshold \in Nat \ {0} /\ in \in 0..(threshold - 1) /\ out \in Int
      /\ generation \in Nat /\ serials \in Nat
      /\ entered \in [BarrierThreads -> 0..Rounds] /\ passed \in [BarrierThreads -> 0..Rounds]
      /\ gen \in [BarrierThreads -> Nat]
  BY DEF IInv, BarrierTypeOK
<1>2. threshold * generation \in Nat
  BY <1>1
<1> QED
  BY <1>1, <1>2

(* One time more for one thread is one time more for all of them. *)
LEMMA TotalPlus ==
  ASSUME NEW f \in [BarrierThreads -> 0..Rounds], NEW t \in BarrierThreads, f[t] < Rounds
  PROVE  Total(f) \in Nat /\ Total([f EXCEPT ![t] = @ + 1]) = Total(f) + 1
<1> DEFINE g == [f EXCEPT ![t] = @ + 1]
           new == <<t, f[t] + 1>>
<1>1. IsFiniteSet(BarrierThreads \X (1..Rounds))
  <2>1. IsFiniteSet(1..Rounds)
    BY FS_Interval
  <2> QED
    BY <2>1, FS_Product
<1>2. IsFiniteSet(Times(f))
  BY <1>1, FS_Subset DEF Times
<1>3. new \notin Times(f)
  BY DEF Times
<1>4. Times(g) = Times(f) \cup {new}
  BY DEF Times
<1>5. Cardinality(Times(f) \cup {new}) = Cardinality(Times(f)) + 1
  BY <1>2, <1>3, FS_AddElement
<1> QED
  BY <1>2, <1>4, <1>5, FS_CardinalityType DEF Total

(* The total is a number. *)
LEMMA TotalIsNat ==
  ASSUME NEW f \in [BarrierThreads -> 0..Rounds]
  PROVE  Total(f) \in Nat
<1>1. IsFiniteSet(1..Rounds)
  BY FS_Interval
<1>2. IsFiniteSet(BarrierThreads \X (1..Rounds))
  BY <1>1, FS_Product
<1>3. IsFiniteSet(Times(f))
  BY <1>2, FS_Subset DEF Times
<1> QED
  BY <1>3, FS_CardinalityType DEF Total

(* The sets of threads are finite. *)
LEMMA SetsAreFinite ==
  /\ IsFiniteSet(Inside) /\ IsFiniteSet(Current) /\ IsFiniteSet(Leavers)
  /\ Cardinality(Inside) \in Nat /\ Cardinality(Current) \in Nat
  /\ Cardinality(Leavers) \in Nat /\ Cardinality(BarrierThreads) \in Nat
<1>1. IsFiniteSet(Inside) /\ IsFiniteSet(Current) /\ IsFiniteSet(Leavers)
  BY FS_Subset DEF Inside, Current, Leavers
<1> QED
  BY <1>1, FS_CardinalityType

(* A signal by a thread that is not asleep changes nobody else's being in    *)
(* the barrier, whomever it wakes.                                           *)
LEMMA Signalled ==
  ASSUME IInv, NEW t \in BarrierThreads, bpc[t] # "asleep", SignalAndUnlock(t)
  PROVE  /\ bpc' \in [BarrierThreads -> {"out", "asleep", "woken", "unlock"}]
         /\ bpc'[t] \notin {"asleep", "woken"}
         /\ \A u \in BarrierThreads \ {t} :
              bpc'[u] \in {"asleep", "woken"} <=> bpc[u] \in {"asleep", "woken"}
<1>1. bpc \in [BarrierThreads -> {"out", "asleep", "woken", "unlock"}]
  BY DEF IInv, BarrierTypeOK
<1>2. PICK l \in {"out", "unlock"} :
        \/ bpc' = [bpc EXCEPT ![t] = l]
        \/ \E s \in Sleepers : bpc' = [bpc EXCEPT ![t] = l, ![s] = "woken"]
  BY DEF SignalAndUnlock
<1>3. CASE bpc' = [bpc EXCEPT ![t] = l]
  BY <1>1, <1>3
<1>4. ASSUME NEW s \in Sleepers, bpc' = [bpc EXCEPT ![t] = l, ![s] = "woken"]
      PROVE  /\ bpc' \in [BarrierThreads -> {"out", "asleep", "woken", "unlock"}]
             /\ bpc'[t] \notin {"asleep", "woken"}
             /\ \A u \in BarrierThreads \ {t} :
                  bpc'[u] \in {"asleep", "woken"} <=> bpc[u] \in {"asleep", "woken"}
  <2>1. s \in BarrierThreads /\ bpc[s] = "asleep" /\ s # t
    BY DEF Sleepers
  <2> QED
    BY <1>1, <1>4, <2>1
<1> QED
  BY <1>2, <1>3, <1>4

-------------------------------------------------------------------------------
(* It holds before anybody has come in. *)
LEMMA InitIInv == BarrierInit => IInv
<1> SUFFICES ASSUME BarrierInit PROVE IInv
  OBVIOUS
<1>1. Inside = {} /\ Current = {} /\ Leavers = {}
  BY DEF BarrierInit, Inside, Current, Leavers
<1>2. Times(entered) = {} /\ Times(passed) = {}
  BY DEF BarrierInit, Times
<1>3. threshold \in Thresholds /\ threshold \in Nat \ {0}
  BY DEF BarrierInit
<1>4. BarrierTypeOK
  <2>1. freed \in BOOLEAN
    BY DEF BarrierInit
  <2>2. in \in 0..(threshold - 1) /\ out \in Int /\ generation \in Nat /\ serials \in Nat
    BY <1>3 DEF BarrierInit
  <2>3. /\ gen \in [BarrierThreads -> Nat]
        /\ bpc \in [BarrierThreads -> {"out", "asleep", "woken", "unlock"}]
        /\ entered \in [BarrierThreads -> 0..Rounds] /\ passed \in [BarrierThreads -> 0..Rounds]
    BY DEF BarrierInit
  <2> QED
    BY <2>1, <2>2, <2>3 DEF BarrierTypeOK
<1>5. Counts
  <2>1. Total(entered) = 0 /\ Total(passed) = 0 /\ Cardinality(Current) = 0
        /\ Cardinality(Inside) = 0
    BY <1>1, <1>2, FS_EmptySet DEF Total
  <2> QED
    BY <1>3, <2>1 DEF BarrierInit, Counts
<1>6. InStep
  <2>1. /\ Cardinality(Leavers) = 0 /\ out = 0 /\ generation = 0
        /\ \A t \in BarrierThreads : passed[t] = 0 /\ t \notin Leavers
    BY <1>1, FS_EmptySet DEF BarrierInit
  <2> QED
    BY <1>1, <2>1 DEF InStep
<1>7. Visits
  BY DEF BarrierInit, Visits
<1> QED
  BY <1>3, <1>4, <1>5, <1>6, <1>7 DEF IInv

(* The thread that completes a generation.  If all the threads make a        *)
(* generation, the others are all in the one that ends.                      *)
LEMMA ArriveLastKeeps ==
  ASSUME IInv, NEW t \in BarrierThreads, ArriveLast(t)
  PROVE  IInv'
<1> USE DEF ArriveLast
<1>1. bpc[t] = "out" /\ entered[t] < Rounds /\ passed[t] = entered[t]
  BY DEF IInv, BarrierTypeOK, Visits
<1>2. /\ bpc' \in [BarrierThreads -> {"out", "asleep", "woken", "unlock"}]
      /\ bpc'[t] \notin {"asleep", "woken"}
      /\ \A u \in BarrierThreads \ {t} :
           bpc'[u] \in {"asleep", "woken"} <=> bpc[u] \in {"asleep", "woken"}
  BY <1>1, Signalled
<1>3. threshold' \in Thresholds /\ BarrierTypeOK'
  <2>1. freed' \in BOOLEAN /\ threshold' \in Thresholds
    BY DEF IInv, BarrierTypeOK
  <2>2. /\ in' \in 0..(threshold' - 1) /\ out' \in Int /\ generation' \in Nat
        /\ serials' \in Nat /\ gen' \in [BarrierThreads -> Nat]
    BY Numbers
  <2>3. entered' \in [BarrierThreads -> 0..Rounds] /\ passed' \in [BarrierThreads -> 0..Rounds]
    BY <1>1, Numbers
  <2> QED
    BY <1>2, <2>1, <2>2, <2>3 DEF BarrierTypeOK
<1>4. Visits'
  BY <1>1, <1>2 DEF IInv, BarrierTypeOK, Visits
<1>5. Inside' = Inside /\ Current' = {} /\ Leavers' = Inside
  BY <1>1, <1>2 DEF Inside, Current, Leavers, IInv, BarrierTypeOK, Visits
<1>6. Counts'
  <2>1. Total(entered') = Total(entered) + 1 /\ Total(passed') = Total(passed) + 1
        /\ Total(entered) \in Nat /\ Total(passed) \in Nat
    BY <1>1, TotalPlus DEF IInv, BarrierTypeOK
  <2>2. threshold' * generation' = threshold * generation + threshold
    BY Numbers
  <2>3. Total(entered') = threshold' * generation' + in'
    <3>1. Total(entered) = threshold * generation + in /\ in + 1 = threshold /\ in' = 0
      BY DEF IInv, Counts
    <3> QED
      BY <2>1, <2>2, <3>1, Numbers
  <2>4. Total(passed') + Cardinality(Inside') = Total(entered')
    BY <1>5, <2>1, SetsAreFinite DEF IInv, Counts
  <2>5. in' = Cardinality(Current') /\ serials' = generation'
    BY <1>5, FS_EmptySet DEF IInv, Counts
  <2> QED
    BY <2>3, <2>4, <2>5 DEF Counts, Total, Times
<1>7. InStep'
  <2> SUFFICES ASSUME Everybody
               PROVE  /\ \A u \in BarrierThreads :
                           passed'[u] = generation' - (IF u \in Leavers' THEN 1 ELSE 0)
                      /\ out' = Cardinality(Leavers') /\ (freed' => Inside' = {})
    BY DEF InStep, Everybody
  <2>1. /\ Current \subseteq BarrierThreads \ {t} /\ Inside \subseteq BarrierThreads \ {t}
        /\ Current \subseteq Inside
    BY <1>1 DEF Current, Inside
  <2>2. Cardinality(BarrierThreads \ {t}) = Cardinality(Current)
    <3>1. Cardinality(BarrierThreads \ {t}) = threshold - 1
      BY FS_RemoveElement DEF Everybody
    <3>2. Cardinality(Current) = in /\ in + 1 = threshold
      BY DEF IInv, Counts
    <3> QED
      BY <3>1, <3>2, Numbers
  <2>3. Current = BarrierThreads \ {t} /\ Inside = BarrierThreads \ {t}
    <3>1. IsFiniteSet(BarrierThreads \ {t})
      BY FS_RemoveElement
    <3>2. Current = BarrierThreads \ {t}
      BY <2>1, <2>2, <3>1, FS_Subset
    <3> QED
      BY <2>1, <3>2
  <2>4. \A u \in BarrierThreads : passed[u] = generation
    <3>1. \A u \in BarrierThreads : u \notin Leavers
      BY <1>1, <2>3 DEF Leavers, Current
    <3>2. \A u \in BarrierThreads : passed[u] = generation - (IF u \in Leavers THEN 1 ELSE 0)
      BY DEF IInv, InStep
    <3> QED
      BY <3>1, <3>2, Numbers
  <2>5. out' = Cardinality(Leavers') /\ ~freed'
    BY <1>5, <2>3 DEF IInv, Counts
  <2>6. ASSUME NEW u \in BarrierThreads
        PROVE  passed'[u] = generation' - (IF u \in Leavers' THEN 1 ELSE 0)
    BY <1>5, <2>3, <2>4, Numbers
  <2> QED
    BY <2>5, <2>6
<1> QED
  BY <1>2, <1>3, <1>4, <1>6, <1>7 DEF IInv

(* A thread that comes in and sleeps. *)
LEMMA ArriveKeeps ==
  ASSUME IInv, NEW t \in BarrierThreads, Arrive(t)
  PROVE  IInv'
<1> USE DEF Arrive
<1>1. bpc[t] = "out" /\ entered[t] < Rounds /\ passed[t] = entered[t]
  BY DEF IInv, BarrierTypeOK, Visits
<1>3. threshold' \in Thresholds /\ BarrierTypeOK'
  BY <1>1 DEF IInv, BarrierTypeOK
<1>4. Visits'
  BY <1>1 DEF IInv, BarrierTypeOK, Visits
<1>5. /\ Inside' = Inside \cup {t} /\ Current' = Current \cup {t} /\ Leavers' = Leavers
      /\ t \notin Inside /\ t \notin Current /\ t \notin Leavers
  BY <1>1 DEF Inside, Current, Leavers, IInv, BarrierTypeOK
<1>6. /\ Cardinality(Inside') = Cardinality(Inside) + 1
      /\ Cardinality(Current') = Cardinality(Current) + 1
  BY <1>5, SetsAreFinite, FS_AddElement
<1>7. Counts'
  <2>1. Total(entered') = Total(entered) + 1 /\ Total(entered) \in Nat
    BY <1>1, TotalPlus DEF IInv, BarrierTypeOK
  <2>2. Total(passed') = Total(passed)
    BY DEF Total, Times
  <2>3. Total(passed) \in Nat
    BY TotalIsNat, Numbers
  <2>4. /\ in = Cardinality(Current) /\ Total(entered) = threshold * generation + in
        /\ Total(passed) + Cardinality(Inside) = Total(entered) /\ serials = generation
    BY DEF IInv, Counts
  <2>5. in' = Cardinality(Current') /\ Total(entered') = threshold' * generation' + in'
    BY <1>6, <2>1, <2>4, Numbers
  <2>6. Total(passed') + Cardinality(Inside') = Total(entered')
    BY <1>6, <2>1, <2>2, <2>3, <2>4, SetsAreFinite
  <2> QED
    BY <2>4, <2>5, <2>6 DEF Counts, Total, Times
<1>8. InStep'
  BY <1>1, <1>5 DEF IInv, InStep, Everybody
<1> QED
  BY <1>3, <1>4, <1>7, <1>8 DEF IInv

(* A thread that was woken too early. *)
LEMMA AgainKeeps ==
  ASSUME IInv, NEW t \in BarrierThreads, Again(t)
  PROVE  IInv'
<1> USE DEF Again
<1>2. threshold' \in Thresholds /\ BarrierTypeOK' /\ Visits'
  BY DEF IInv, BarrierTypeOK, Visits
<1>3. Inside' = Inside /\ Current' = Current /\ Leavers' = Leavers
  BY DEF Inside, Current, Leavers, IInv, BarrierTypeOK
<1>4. Counts' /\ InStep'
  BY <1>3 DEF IInv, Counts, InStep, Everybody, Total, Times
<1> QED
  BY <1>2, <1>4 DEF IInv

(* The signal to the semaphore of the mutex, at the end of the unlock. *)
LEMMA UnlockedKeeps ==
  ASSUME IInv, NEW t \in BarrierThreads, Unlocked(t)
  PROVE  IInv'
<1> USE DEF Unlocked
<1>2. threshold' \in Thresholds /\ BarrierTypeOK' /\ Visits'
  BY DEF IInv, BarrierTypeOK, Visits
<1>3. Inside' = Inside /\ Current' = Current /\ Leavers' = Leavers
  BY DEF Inside, Current, Leavers, IInv, BarrierTypeOK
<1>4. Counts' /\ InStep'
  BY <1>3 DEF IInv, Counts, InStep, Everybody, Total, Times
<1> QED
  BY <1>2, <1>4 DEF IInv

(* A thread that leaves a complete generation. *)
LEMMA LeaveKeeps ==
  ASSUME IInv, NEW t \in BarrierThreads, Leave(t)
  PROVE  IInv'
<1> USE DEF Leave
<1>1. bpc[t] = "woken" /\ passed[t] < Rounds /\ entered[t] = passed[t] + 1
  BY DEF IInv, BarrierTypeOK, Visits
<1>2. /\ bpc' \in [BarrierThreads -> {"out", "asleep", "woken", "unlock"}]
      /\ bpc'[t] \notin {"asleep", "woken"}
      /\ \A u \in BarrierThreads \ {t} :
           bpc'[u] \in {"asleep", "woken"} <=> bpc[u] \in {"asleep", "woken"}
  BY <1>1, Signalled
<1>3. threshold' \in Thresholds /\ BarrierTypeOK'
  <2>1. freed' \in BOOLEAN /\ threshold' \in Thresholds
    BY DEF IInv, BarrierTypeOK
  <2>2. /\ in' \in 0..(threshold' - 1) /\ out' \in Int /\ generation' \in Nat
        /\ serials' \in Nat /\ gen' \in [BarrierThreads -> Nat]
    BY Numbers
  <2>3. entered' \in [BarrierThreads -> 0..Rounds] /\ passed' \in [BarrierThreads -> 0..Rounds]
    BY <1>1, Numbers
  <2> QED
    BY <1>2, <2>1, <2>2, <2>3 DEF BarrierTypeOK
<1>4. Visits'
  BY <1>1, <1>2 DEF IInv, BarrierTypeOK, Visits
<1>5. /\ Inside' = Inside \ {t} /\ Current' = Current /\ Leavers' = Leavers \ {t}
      /\ t \in Inside /\ t \in Leavers
  BY <1>1, <1>2 DEF Inside, Current, Leavers
<1>6. /\ Cardinality(Inside') = Cardinality(Inside) - 1
      /\ Cardinality(Leavers') = Cardinality(Leavers) - 1
  BY <1>5, SetsAreFinite, FS_RemoveElement
<1>7. Counts'
  <2>1. Total(passed') = Total(passed) + 1 /\ Total(passed) \in Nat
    BY <1>1, TotalPlus DEF IInv, BarrierTypeOK
  <2>2. Total(entered') = Total(entered)
    BY DEF Total, Times
  <2> QED
    BY <1>5, <1>6, <2>1, <2>2, SetsAreFinite DEF IInv, Counts, BarrierTypeOK
<1>8. InStep'
  <2> SUFFICES ASSUME Everybody
               PROVE  /\ \A u \in BarrierThreads :
                           passed'[u] = generation' - (IF u \in Leavers' THEN 1 ELSE 0)
                      /\ out' = Cardinality(Leavers') /\ (freed' => Inside' = {})
    BY DEF InStep, Everybody
  <2>1. /\ \A u \in BarrierThreads : passed[u] = generation - (IF u \in Leavers THEN 1 ELSE 0)
        /\ out = Cardinality(Leavers) /\ (freed => Inside = {})
    BY DEF IInv, InStep
  <2>2. \A u \in BarrierThreads : passed'[u] = generation' - (IF u \in Leavers' THEN 1 ELSE 0)
    BY <1>5, <2>1, Numbers
  <2>3. out' = Cardinality(Leavers')
    BY <1>6, <2>1
  <2>4. ~freed'
    BY <1>5, <2>1
  <2> QED
    BY <2>2, <2>3, <2>4
<1> QED
  BY <1>2, <1>3, <1>4, <1>7, <1>8 DEF IInv

(* pthread_barrier_destroy: nothing is in, and, if all the threads make a    *)
(* generation, nobody is left to leave.                                      *)
LEMMA DestroyKeeps ==
  ASSUME IInv, NEW t \in BarrierThreads, Destroy(t)
  PROVE  IInv'
<1> USE DEF Destroy
<1>1. Inside' = Inside /\ Current' = Current /\ Leavers' = Leavers
  BY DEF Inside, Current, Leavers
<1>2. threshold' \in Thresholds /\ BarrierTypeOK' /\ Visits'
  BY DEF IInv, BarrierTypeOK, Visits
<1>3. Counts'
  BY <1>1 DEF IInv, Counts, Total, Times
<1>4. ASSUME Everybody, freed' PROVE Inside = {}
  <2>0. ~(out > 0 \/ in > 0)
    BY <1>4, Zenon
  <2>1. Cardinality(Current) = 0 /\ Cardinality(Leavers) = 0
    <3>1. in = Cardinality(Current) /\ out = Cardinality(Leavers)
      BY <1>4 DEF IInv, Counts, InStep
    <3> QED
      BY <2>0, <3>1, SetsAreFinite
  <2>2. Current = {} /\ Leavers = {}
    BY <2>1, SetsAreFinite, FS_EmptySet
  <2> QED
    BY <2>2 DEF Inside, Current, Leavers
<1>5. InStep'
  BY <1>1, <1>4 DEF IInv, InStep, Everybody
<1> QED
  BY <1>2, <1>3, <1>5 DEF IInv

(* Every step keeps the invariant. *)
LEMMA NextIInv == IInv /\ [BarrierNext]_bvars => IInv'
<1> SUFFICES ASSUME IInv, [BarrierNext]_bvars PROVE IInv'
  OBVIOUS
<1>1. CASE BarrierNext
  BY <1>1, ArriveLastKeeps, ArriveKeeps, AgainKeeps, LeaveKeeps, UnlockedKeeps,
     DestroyKeeps
  DEF BarrierNext
<1>2. CASE UNCHANGED bvars
  BY <1>2 DEF bvars, IInv, BarrierTypeOK, Visits, Counts, InStep, Everybody,
     Inside, Current, Leavers, Total, Times
<1> QED
  BY <1>1, <1>2

-------------------------------------------------------------------------------
(* The inductive invariant of the barrier. *)
THEOREM Invariance == BarrierSpec => []IInv
<1> QED
  BY InitIInv, NextIInv, PTL DEF BarrierSpec

(* The barrier never lets one of its threads get ahead of another that has   *)
(* still to come, although a signal may wake a thread of the wrong           *)
(* generation.                                                               *)
THEOREM BarrierNobodyPassesAlone == BarrierSpec => []NobodyPassesAlone
<1>1. IInv => NobodyPassesAlone
  <2> SUFFICES ASSUME IInv, Everybody, NEW t \in BarrierThreads, NEW u \in BarrierThreads
               PROVE  passed[t] <= entered[u]
    BY DEF NobodyPassesAlone
  <2>1. passed[t] <= generation
    BY Numbers DEF IInv, InStep
  <2>2. CASE u \in Leavers
    BY <2>1, <2>2, Numbers DEF IInv, InStep, Visits, Leavers
  <2>3. CASE u \notin Leavers
    BY <2>1, <2>3, Numbers DEF IInv, InStep, Visits
  <2> QED
    BY <2>2, <2>3
<1> QED
  BY <1>1, Invariance, PTL

(* The threads pass in complete generations, each with one serial thread,    *)
(* also when there are more threads than the threshold.                      *)
THEOREM BarrierGenerationsAreComplete == BarrierSpec => []GenerationsAreComplete
<1>1. IInv => GenerationsAreComplete
  <2> SUFFICES ASSUME IInv PROVE GenerationsAreComplete
    OBVIOUS
  <2>1. Cardinality(Current) <= Cardinality(Inside)
    BY SetsAreFinite, FS_Subset DEF Current, Inside
  <2>2. threshold * generation \in Nat
    BY DEF IInv, BarrierTypeOK
  <2>3. Total(passed) \in Nat
    BY TotalIsNat, Numbers
  <2> QED
    BY <2>1, <2>2, <2>3, SetsAreFinite DEF IInv, Counts, BarrierTypeOK, GenerationsAreComplete
<1> QED
  BY <1>1, Invariance, PTL

(* pthread_barrier_destroy does not free a barrier that a thread sleeps in   *)
(* or has the generation of still to read.  It may free one whose mutex a    *)
(* thread has still to finish unlocking: see DestroyedIsUnused.              *)
THEOREM BarrierDestroyWaitsForLeavers == BarrierSpec => []DestroyWaitsForLeavers
<1>1. IInv => DestroyWaitsForLeavers
  <2> SUFFICES ASSUME IInv, Everybody
               PROVE  /\ out = Cardinality(Leavers)
                      /\ freed => \A t \in BarrierThreads : bpc[t] \in {"out", "unlock"}
    BY DEF DestroyWaitsForLeavers, Leavers
  <2>1. out = Cardinality(Leavers) /\ (freed => Inside = {})
    BY DEF IInv, InStep
  <2>2. \A t \in BarrierThreads : bpc[t] \in {"out", "unlock"} \/ t \in Inside
    BY DEF IInv, BarrierTypeOK, Inside
  <2> QED
    BY <2>1, <2>2
<1> QED
  BY <1>1, Invariance, PTL
===============================================================================
