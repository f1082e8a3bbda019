-------------------------- MODULE PthreadObjectsProofs -------------------------
(*****************************************************************************)
(* The read-write lock of PthreadRwlock, for any finite set of threads, and  *)
(* the thread-specific data of PthreadTls, for any threads, number of keys   *)
(* and number of rounds.                                                     *)
(*****************************************************************************)
EXTENDS PthreadRwlock, PthreadTls, FiniteSetTheorems, WellFoundedInduction, TLAPS

(* Thread-specific data. *)
USE TlsAssumption

Data == [i : 0..Iterations, stale : BOOLEAN]
Entries == [key : Keys, data : Data]
TlsPCs == {"run", "lock", "scan", "destructor", "exited"}

TlsType ==
  /\ used \in [Keys -> BOOLEAN] /\ destructor \in [Keys -> BOOLEAN] /\ hint \in Keys
  /\ tlspc \in [TlsThreads -> TlsPCs] /\ i \in [TlsThreads -> 0..(Iterations - 1)]
  /\ rs \in [TlsThreads -> Nat]
  /\ DOMAIN storage = TlsThreads

(* The lists, and the place of the scan in them. *)
Lists == \A t \in TlsThreads : storage[t] \in Seq(Entries) /\ rs[t] <= Len(storage[t])

(* Data that were not set under an earlier key have theirs: a key that is    *)
(* created finds none.                                                       *)
Fresh(e) == e.data # NULL /\ ~e.data.stale
FreshIsUsed ==
  \A t \in TlsThreads : \A n \in 1..Len(storage[t]) : Fresh(storage[t][n]) => used[storage[t][n].key]

(* What the scan has behind it and a destructor still waits for was set in   *)
(* this round.                                                               *)
BehindIsLate ==
  \A t \in TlsThreads : tlspc[t] \in {"lock", "scan", "destructor"} =>
    \A n \in (rs[t] + 1)..Len(storage[t]) :
      Fresh(storage[t][n]) /\ destructor[storage[t][n].key] => storage[t][n].data.i = i[t]

TlsIInv == TlsType /\ Lists /\ FreshIsUsed /\ BehindIsLate /\ LeftOversAreLate

(* Of some numbers one is the least. *)
LEMMA LeastOf ==
  ASSUME NEW T \in SUBSET Nat, T # {}
  PROVE  \E x \in T : \A y \in T : x <= y
<1> DEFINE R == OpToRel(<, Nat)
<1>1. IsWellFoundedOn(R, Nat)
  BY NatLessThanWellFounded
<1>2. \A x, y \in Nat : <<y, x>> \in R <=> y < x
  BY DEF OpToRel
<1> HIDE DEF R
<1>3. PICK x \in T : \A y \in T : ~(<<y, x>> \in R)
  BY <1>1, WFMin
<1>4. \A y \in T : ~(y < x)
  BY <1>2, <1>3, Zenon
<1> QED
  BY <1>4

(* pthread_key_create finds a key that is not used, when there is one. *)
LEMMA FreeKeyIsFree ==
  ASSUME TlsType, \E k \in Keys : ~used[k]
  PROVE  FreeKey \in Keys /\ ~used[FreeKey]
<1>1. CASE ~used[hint]
  BY <1>1 DEF TlsType, FreeKey
<1>2. CASE used[hint]
  <2> DEFINE T == {k \in Keys : ~used[k]}
  <2>1. T \in SUBSET Nat /\ T # {}
    BY DEF Keys
  <2>2. PICK x \in T : \A y \in T : x <= y
    BY <2>1, LeastOf
  <2>3. \A j \in 0..(x - 1) : used[j]
    <3> SUFFICES ASSUME NEW j \in 0..(x - 1) PROVE used[j]
      OBVIOUS
    <3>1. j \in Keys /\ ~(x <= j)
      BY DEF Keys
    <3> QED
      BY <2>2, <3>1
  <2>4. \E k \in Keys : ~used[k] /\ \A j \in 0..(k - 1) : used[j]
    BY <2>3
  <2>5. FreeKey = CHOOSE k \in Keys : ~used[k] /\ \A j \in 0..(k - 1) : used[j]
    BY <1>2 DEF FreeKey
  <2> QED
    BY <2>4, <2>5
<1> QED
  BY <1>1, <1>2

-------------------------------------------------------------------------------
(* What becomes of a list.  A deleted key leaves nothing fresh behind. *)
LEMMA MarkedList ==
  ASSUME NEW s \in Seq(Entries), NEW k \in Keys
  PROVE  /\ Marked(s, k) \in Seq(Entries) /\ Len(Marked(s, k)) = Len(s)
         /\ \A n \in 1..Len(s) :
              /\ Marked(s, k)[n].key = s[n].key
              /\ Fresh(Marked(s, k)[n]) => s[n].key # k /\ Marked(s, k)[n] = s[n]
<1>1. Marked(s, k) =
        [n \in 1..Len(s) |-> IF s[n].key = k /\ s[n].data # NULL
                             THEN [s[n] EXCEPT !.data.stale = TRUE] ELSE s[n]]
  BY DEF Marked
<1>2. \A n \in 1..Len(s) : s[n] \in Entries
  OBVIOUS
<1>3. \A e \in Entries : [e EXCEPT !.data.stale = TRUE] \in Entries
  BY DEF Entries, Data
<1>4. Marked(s, k) \in Seq(Entries) /\ Len(Marked(s, k)) = Len(s)
  BY <1>1, <1>2, <1>3
<1>5. ASSUME NEW n \in 1..Len(s)
      PROVE  /\ Marked(s, k)[n].key = s[n].key
             /\ Fresh(Marked(s, k)[n]) => s[n].key # k /\ Marked(s, k)[n] = s[n]
  BY <1>1, <1>2 DEF Fresh, Entries, Data
<1> QED
  BY <1>4, <1>5

(* In the list of the initial thread it leaves nothing at all. *)
LEMMA ClearedList ==
  ASSUME NEW s \in Seq(Entries), NEW k \in Keys
  PROVE  /\ Cleared(s, k) \in Seq(Entries) /\ Len(Cleared(s, k)) = Len(s)
         /\ \A n \in 1..Len(s) :
              /\ Cleared(s, k)[n].key = s[n].key
              /\ Cleared(s, k)[n].data.stale => s[n].data.stale
              /\ Fresh(Cleared(s, k)[n]) => s[n].key # k /\ Cleared(s, k)[n] = s[n]
<1>1. Cleared(s, k) =
        [n \in 1..Len(s) |-> IF s[n].key = k THEN [s[n] EXCEPT !.data = NULL] ELSE s[n]]
  BY DEF Cleared
<1>2. \A n \in 1..Len(s) : s[n] \in Entries
  OBVIOUS
<1>3. NULL \in Data /\ ~NULL.stale
  BY DEF NULL, Data
<1>4. Cleared(s, k) \in Seq(Entries) /\ Len(Cleared(s, k)) = Len(s)
  <2>1. \A e \in Entries : [e EXCEPT !.data = NULL] \in Entries
    BY <1>3 DEF Entries
  <2> QED
    BY <1>1, <1>2, <2>1
<1>5. ASSUME NEW n \in 1..Len(s)
      PROVE  /\ Cleared(s, k)[n].key = s[n].key
             /\ Cleared(s, k)[n].data.stale => s[n].data.stale
             /\ Fresh(Cleared(s, k)[n]) => s[n].key # k /\ Cleared(s, k)[n] = s[n]
  BY <1>1, <1>2, <1>3 DEF Fresh, Entries, Data
<1> QED
  BY <1>4, <1>5

(* _rthread_findstorage leaves the entries and adds at most an empty one. *)
LEMMA FoundList ==
  ASSUME NEW s \in Seq(Entries), NEW k \in Keys
  PROVE  /\ Found(s, k) \in Seq(Entries) /\ Len(Found(s, k)) >= Len(s)
         /\ \A n \in 1..Len(Found(s, k)) :
              \/ n \in 1..Len(s) /\ Found(s, k)[n] = s[n]
              \/ n > Len(s) /\ Found(s, k)[n].data = NULL
<1>1. CASE \E n \in DOMAIN s : s[n].key = k
  BY <1>1 DEF Found
<1>2. CASE ~\E n \in DOMAIN s : s[n].key = k
  <2> DEFINE e == [key |-> k, data |-> NULL]
  <2>1. Found(s, k) = Append(s, e)
    BY <1>2 DEF Found
  <2>2. e \in Entries /\ e.data = NULL
    BY DEF Entries, Data, NULL
  <2> HIDE DEF e
  <2> QED
    BY <2>1, <2>2
<1> QED
  BY <1>1, <1>2

-------------------------------------------------------------------------------
(* A list w that a thread sets a datum d of key k in: each entry is as it    *)
(* was, empty, or the new one.                                               *)
Written(w, s, k, d) ==
  /\ w \in Seq(Entries) /\ Len(w) >= Len(s)
  /\ \A n \in 1..Len(w) :
       \/ n \in 1..Len(s) /\ w[n] = s[n]
       \/ w[n].data = NULL
       \/ w[n] = [key |-> k, data |-> d]

(* pthread_setspecific writes into the list that _rthread_findstorage gives. *)
LEMMA SetList ==
  ASSUME NEW s \in Seq(Entries), NEW k \in Keys, NEW d \in Data
  PROVE  Written([n \in DOMAIN Found(s, k) |->
                    IF Found(s, k)[n].key = k THEN [key |-> k, data |-> d] ELSE Found(s, k)[n]],
                 s, k, d)
<1> DEFINE f == Found(s, k)
           e == [key |-> k, data |-> d]
           w == [n \in DOMAIN f |-> IF f[n].key = k THEN e ELSE f[n]]
<1>1. /\ f \in Seq(Entries) /\ Len(f) >= Len(s)
      /\ \A n \in 1..Len(f) : \/ n \in 1..Len(s) /\ f[n] = s[n]
                              \/ n > Len(s) /\ f[n].data = NULL
  BY FoundList
<1>2. e \in Entries
  BY DEF Entries
<1> HIDE DEF f, e
<1>3. w = [n \in 1..Len(f) |-> IF f[n].key = k THEN e ELSE f[n]]
  BY <1>1
<1>4. w \in Seq(Entries) /\ Len(w) = Len(f)
  BY <1>1, <1>2, <1>3
<1>5. \A n \in 1..Len(f) : w[n] = e \/ w[n] = f[n]
  BY <1>3
<1> HIDE DEF w
<1>6. \A n \in 1..Len(w) : (n \in 1..Len(s) /\ w[n] = s[n]) \/ w[n].data = NULL \/ w[n] = e
  BY <1>1, <1>4, <1>5
<1>7. Len(w) >= Len(s)
  BY <1>1, <1>4
<1> QED
  BY <1>4, <1>6, <1>7 DEF Written, w, f, e

(* Whatever a thread sets, in its own code or in a destructor, is fresh, and *)
(* late if the scan is past it.                                              *)
LEMMA WritingKeeps ==
  ASSUME TlsIInv, NEW t \in TlsThreads, NEW k \in Keys, used[k], NEW w, NEW d,
         Written(w, storage[t], k, d), ~d.stale, d = NULL \/ d.i = i[t],
         storage' = [storage EXCEPT ![t] = w],
         UNCHANGED <<used, destructor, hint, tlspc, i, rs, lost>>
  PROVE  TlsIInv'
<1> USE DEF TlsIInv
<1>1. TlsType'
  BY DEF TlsType
<1>2. \A u \in TlsThreads : storage'[u] = IF u = t THEN w ELSE storage[u]
  BY DEF TlsType
<1>3. /\ storage[t] \in Seq(Entries) /\ rs[t] <= Len(storage[t]) /\ rs[t] \in Nat
      /\ w \in Seq(Entries) /\ Len(w) >= Len(storage[t])
  BY DEF Lists, Written, TlsType
<1>4. Lists'
  <2>1. rs[t] <= Len(w)
    BY <1>3
  <2> QED
    BY <1>2, <1>3, <2>1 DEF Lists
<1>5. ASSUME NEW n \in 1..Len(w), Fresh(w[n])
      PROVE  \/ n \in 1..Len(storage[t]) /\ w[n] = storage[t][n]
             \/ w[n].key = k /\ w[n].data = d
  <2>1. w[n].data # NULL
    BY <1>5 DEF Fresh
  <2>2. \/ n \in 1..Len(storage[t]) /\ w[n] = storage[t][n]
        \/ w[n] = [key |-> k, data |-> d]
    BY <2>1 DEF Written
  <2> QED
    BY <2>2
<1>6. FreshIsUsed'
  <2> SUFFICES ASSUME NEW u \in TlsThreads, NEW n \in 1..Len(storage'[u]), Fresh(storage'[u][n])
               PROVE  used[storage'[u][n].key]
    BY DEF FreshIsUsed, Fresh
  <2>1. CASE u = t
    BY <1>2, <1>5, <2>1 DEF FreshIsUsed
  <2>2. CASE u # t
    BY <1>2, <2>2 DEF FreshIsUsed
  <2> QED
    BY <2>1, <2>2
<1>7. BehindIsLate'
  <2> SUFFICES ASSUME NEW u \in TlsThreads, tlspc[u] \in {"lock", "scan", "destructor"},
                      NEW n \in (rs[u] + 1)..Len(storage'[u]),
                      Fresh(storage'[u][n]), destructor[storage'[u][n].key]
               PROVE  storage'[u][n].data.i = i[u]
    BY DEF BehindIsLate, Fresh
  <2>1. CASE u = t
    <3>1. n \in 1..Len(w) /\ storage'[u][n] = w[n] /\ Fresh(w[n])
      BY <1>2, <1>3, <2>1
    <3>2. CASE n \in 1..Len(storage[t]) /\ w[n] = storage[t][n]
      <4>1. n \in (rs[t] + 1)..Len(storage[t])
        BY <1>3, <2>1, <3>2
      <4> QED
        BY <2>1, <3>1, <3>2, <4>1 DEF BehindIsLate
    <3>3. CASE w[n].data = d
      BY <2>1, <3>1, <3>3 DEF Fresh
    <3> QED
      BY <1>5, <3>1, <3>2, <3>3
  <2>2. CASE u # t
    BY <1>2, <2>2 DEF BehindIsLate
  <2> QED
    BY <2>1, <2>2
<1>9. LeftOversAreLate'
  BY DEF LeftOversAreLate
<1> QED
  BY <1>1, <1>4, <1>6, <1>7, <1>9

(* pthread_getspecific adds an empty entry. *)
LEMMA GetSpecificKeeps ==
  ASSUME TlsIInv, NEW t \in TlsThreads, NEW k \in Keys, GetSpecific(t, k)
  PROVE  TlsIInv'
<1>1. storage[t] \in Seq(Entries) /\ DOMAIN storage = TlsThreads
  BY DEF TlsIInv, Lists, TlsType
<1>2. Written(Found(storage[t], k), storage[t], k, NULL)
  BY <1>1, FoundList DEF Written
<1>3. /\ used[k] /\ storage' = [storage EXCEPT ![t] = Found(storage[t], k)]
      /\ UNCHANGED <<used, destructor, hint, tlspc, i, rs, lost>>
  BY <1>1 DEF GetSpecific
<1>4. ~NULL.stale
  BY DEF NULL
<1> QED
  BY <1>2, <1>3, <1>4, WritingKeeps

(* pthread_setspecific of a datum of this round, or of NULL. *)
LEMMA SetSpecificKeeps ==
  ASSUME TlsIInv, NEW t \in TlsThreads, NEW k \in Keys, NEW d \in Data, SetSpecific(t, k, d),
         ~d.stale, d = NULL \/ d.i = i[t]
  PROVE  TlsIInv'
<1> DEFINE w == [n \in DOMAIN Found(storage[t], k) |->
                   IF Found(storage[t], k)[n].key = k THEN [key |-> k, data |-> d]
                   ELSE Found(storage[t], k)[n]]
<1>1. storage[t] \in Seq(Entries) /\ DOMAIN storage = TlsThreads
  BY DEF TlsIInv, Lists, TlsType
<1>2. Written(w, storage[t], k, d)
  BY <1>1, SetList
<1>3. /\ used[k] /\ storage' = [storage EXCEPT ![t] = w]
      /\ UNCHANGED <<used, destructor, hint, tlspc, i, rs, lost>>
  BY <1>1 DEF SetSpecific
<1> HIDE DEF w
<1> QED
  BY <1>2, <1>3, WritingKeeps

-------------------------------------------------------------------------------
(* A key that is created has no fresh data in any list. *)
LEMMA KeyCreateKeeps ==
  ASSUME TlsIInv, NEW t \in TlsThreads, KeyCreate(t)
  PROVE  TlsIInv'
<1> USE DEF TlsIInv
<1>1. FreeKey \in Keys /\ ~used[FreeKey]
  BY FreeKeyIsFree DEF KeyCreate
<1> DEFINE f == FreeKey
<1>2. PICK d \in BOOLEAN : destructor' = [destructor EXCEPT ![f] = d]
  BY DEF KeyCreate
<1>3. used' = [used EXCEPT ![f] = TRUE] /\ hint' = (f + 1) % KeysMax
      /\ UNCHANGED <<storage, tlspc, i, rs, lost>>
  BY DEF KeyCreate
<1> HIDE DEF f
<1>4. f \in Keys /\ ~used[f]
  BY <1>1 DEF f
<1>5. TlsType'
  <2>1. hint' \in Keys
    BY <1>3, <1>4 DEF Keys
  <2>2. used' \in [Keys -> BOOLEAN]
    BY <1>3, <1>4 DEF TlsType
  <2>3. destructor' \in [Keys -> BOOLEAN]
    BY <1>2, <1>4 DEF TlsType
  <2> QED
    BY <1>3, <2>1, <2>2, <2>3 DEF TlsType
<1>6. \A u \in TlsThreads : \A n \in 1..Len(storage[u]) :
        storage[u][n].key \in Keys /\ (Fresh(storage[u][n]) => storage[u][n].key # f)
  <2>1. \A u \in TlsThreads : \A n \in 1..Len(storage[u]) : storage[u][n] \in Entries
    BY DEF Lists
  <2> QED
    BY <1>4, <2>1 DEF FreshIsUsed, Entries
<1>7. Lists'
  BY <1>3 DEF Lists
<1>8. FreshIsUsed'
  BY <1>3, <1>4, <1>6 DEF FreshIsUsed, Fresh, TlsType
<1>9. BehindIsLate'
  <2> SUFFICES ASSUME NEW u \in TlsThreads, tlspc[u] \in {"lock", "scan", "destructor"},
                      NEW n \in (rs[u] + 1)..Len(storage[u]),
                      Fresh(storage[u][n]), destructor'[storage[u][n].key]
               PROVE  storage[u][n].data.i = i[u]
    BY <1>3 DEF BehindIsLate, Fresh
  <2>1. n \in 1..Len(storage[u])
    BY DEF TlsType
  <2>2. storage[u][n].key \in Keys /\ storage[u][n].key # f
    BY <1>6, <2>1
  <2>3. destructor[storage[u][n].key]
    BY <1>2, <1>4, <2>2 DEF TlsType
  <2> QED
    BY <2>3 DEF BehindIsLate
<1>10. LeftOversAreLate'
  BY <1>3 DEF LeftOversAreLate
<1> QED
  BY <1>5, <1>7, <1>8, <1>9, <1>10

(* A key that is deleted leaves no fresh data. *)
LEMMA KeyDeleteKeeps ==
  ASSUME TlsIInv, NEW t \in TlsThreads, NEW k \in Keys, KeyDelete(t, k)
  PROVE  TlsIInv'
<1> USE DEF TlsIInv
<1> DEFINE new(u) == IF u = Initial THEN Cleared(storage[u], k) ELSE Marked(storage[u], k)
<1>1. /\ used' = [used EXCEPT ![k] = FALSE] /\ destructor' = [destructor EXCEPT ![k] = FALSE]
      /\ storage' = [u \in TlsThreads |-> new(u)]
      /\ UNCHANGED <<hint, tlspc, i, rs, lost>>
  BY DEF KeyDelete
<1>2. TlsType'
  <2>1. used' \in [Keys -> BOOLEAN] /\ destructor' \in [Keys -> BOOLEAN]
    BY <1>1 DEF TlsType
  <2> QED
    BY <1>1, <2>1 DEF TlsType
<1>3. ASSUME NEW u \in TlsThreads
      PROVE  /\ storage'[u] \in Seq(Entries) /\ Len(storage'[u]) = Len(storage[u])
             /\ \A n \in 1..Len(storage[u]) :
                  /\ storage'[u][n].key = storage[u][n].key
                  /\ Fresh(storage'[u][n]) => storage[u][n].key # k /\ storage'[u][n] = storage[u][n]
  <2>1. storage[u] \in Seq(Entries) /\ storage'[u] = new(u)
    BY <1>1 DEF Lists
  <2>2. CASE u = Initial
    BY <2>1, <2>2, ClearedList
  <2>3. CASE u # Initial
    BY <2>1, <2>3, MarkedList
  <2> QED
    BY <2>2, <2>3
<1>4. Lists'
  BY <1>1, <1>3 DEF Lists
<1>5. FreshIsUsed'
  <2> SUFFICES ASSUME NEW u \in TlsThreads, NEW n \in 1..Len(storage'[u]), Fresh(storage'[u][n])
               PROVE  used'[storage'[u][n].key]
    BY DEF FreshIsUsed, Fresh
  <2>1. n \in 1..Len(storage[u]) /\ storage[u][n].key # k /\ storage'[u][n] = storage[u][n]
    BY <1>3
  <2>2. used[storage[u][n].key] /\ storage[u][n] \in Entries
    BY <2>1 DEF FreshIsUsed, Lists
  <2> QED
    BY <1>1, <2>1, <2>2 DEF TlsType, Entries
<1>6. BehindIsLate'
  <2> SUFFICES ASSUME NEW u \in TlsThreads, tlspc[u] \in {"lock", "scan", "destructor"},
                      NEW n \in (rs[u] + 1)..Len(storage'[u]),
                      Fresh(storage'[u][n]), destructor'[storage'[u][n].key]
               PROVE  storage'[u][n].data.i = i[u]
    BY <1>1 DEF BehindIsLate, Fresh
  <2>1. n \in (rs[u] + 1)..Len(storage[u]) /\ n \in 1..Len(storage[u])
    BY <1>3 DEF TlsType
  <2>2. storage[u][n].key # k /\ storage'[u][n] = storage[u][n] /\ storage[u][n] \in Entries
    BY <1>3, <2>1 DEF Lists
  <2>3. destructor[storage[u][n].key]
    BY <1>1, <2>2 DEF TlsType, Entries
  <2> QED
    BY <2>1, <2>2, <2>3 DEF BehindIsLate
<1>8. LeftOversAreLate'
  BY <1>1 DEF LeftOversAreLate
<1> QED
  BY <1>2, <1>4, <1>5, <1>6, <1>8

(* pthread_exit, and a new round, begin at the head of the list: nothing is  *)
(* behind the scan.                                                          *)
LEMMA ScanBegins ==
  ASSUME TlsIInv, NEW t \in TlsThreads, Exit(t) \/ Round(t)
  PROVE  TlsIInv'
<1> USE DEF TlsIInv
<1>1. /\ UNCHANGED <<used, destructor, hint, storage, lost>>
      /\ rs' = [rs EXCEPT ![t] = Len(storage[t])]
      /\ \A u \in TlsThreads \ {t} : tlspc'[u] = tlspc[u] /\ i'[u] = i[u] /\ rs'[u] = rs[u]
  BY DEF Exit, Round, TlsType
<1>2. storage[t] \in Seq(Entries) /\ rs'[t] = Len(storage[t])
  BY <1>1 DEF Lists, TlsType
<1>3. TlsType'
  <2>1. tlspc' \in [TlsThreads -> TlsPCs] /\ i' \in [TlsThreads -> 0..(Iterations - 1)]
    <3>1. tlspc \in [TlsThreads -> TlsPCs] /\ i \in [TlsThreads -> 0..(Iterations - 1)]
      BY DEF TlsType
    <3>2. CASE Exit(t)
      BY <3>1, <3>2 DEF Exit, TlsPCs
    <3>3. CASE Round(t)
      BY <3>1, <3>3 DEF Round
    <3> QED
      BY <3>2, <3>3
  <2>2. rs' \in [TlsThreads -> Nat]
    BY <1>1, <1>2 DEF TlsType
  <2> QED
    BY <1>1, <2>1, <2>2 DEF TlsType
<1>4. Lists'
  BY <1>1, <1>2 DEF Lists
<1>5. FreshIsUsed' /\ LeftOversAreLate'
  BY <1>1 DEF FreshIsUsed, LeftOversAreLate, Fresh
<1>6. BehindIsLate'
  <2> SUFFICES ASSUME NEW u \in TlsThreads, tlspc'[u] \in {"lock", "scan", "destructor"},
                      NEW n \in (rs'[u] + 1)..Len(storage[u]),
                      Fresh(storage[u][n]), destructor[storage[u][n].key]
               PROVE  storage[u][n].data.i = i'[u]
    BY <1>1 DEF BehindIsLate, Fresh
  <2>1. u # t
    BY <1>2
  <2> QED
    BY <1>1, <2>1 DEF BehindIsLate
<1> QED
  BY <1>3, <1>4, <1>5, <1>6

(* The spin lock, and the return from a destructor. *)
LEMMA LockKeeps ==
  ASSUME TlsIInv, NEW t \in TlsThreads, Lock(t) \/ Return(t)
  PROVE  TlsIInv'
<1> USE DEF TlsIInv
<1>1. /\ UNCHANGED <<used, destructor, hint, storage, i, rs, lost>>
      /\ tlspc[t] \in {"lock", "destructor"}
      /\ tlspc' \in [TlsThreads -> TlsPCs] /\ \A u \in TlsThreads \ {t} : tlspc'[u] = tlspc[u]
  BY DEF Lock, Return, TlsType, TlsPCs
<1>2. TlsType'
  BY <1>1 DEF TlsType
<1>3. Lists' /\ FreshIsUsed' /\ LeftOversAreLate'
  BY <1>1 DEF Lists, FreshIsUsed, LeftOversAreLate, Fresh
<1>4. BehindIsLate'
  BY <1>1 DEF BehindIsLate, Fresh
<1> QED
  BY <1>2, <1>3, <1>4

(* An entry that is passed over has no fresh data with a destructor. *)
LEMMA SkipKeeps ==
  ASSUME TlsIInv, NEW t \in TlsThreads, Skip(t)
  PROVE  TlsIInv'
<1> USE DEF TlsIInv
<1>1. /\ UNCHANGED <<used, destructor, hint, storage, tlspc, i, lost>>
      /\ tlspc[t] = "scan" /\ rs[t] > 0 /\ ~Pending(t, rs[t]) /\ rs' = [rs EXCEPT ![t] = @ - 1]
      /\ rs[t] \in Nat
  BY DEF Skip, TlsType
<1>2. TlsType'
  BY <1>1 DEF TlsType
<1>3. Lists'
  <2>1. storage[t] \in Seq(Entries) /\ rs'[t] = rs[t] - 1
    BY <1>1 DEF Lists, TlsType
  <2>2. \A u \in TlsThreads : rs'[u] <= Len(storage[u])
    BY <1>1, <2>1 DEF Lists, TlsType
  <2> QED
    BY <1>1, <2>2 DEF Lists
<1>4. FreshIsUsed' /\ LeftOversAreLate'
  BY <1>1 DEF FreshIsUsed, LeftOversAreLate, Fresh
<1>5. BehindIsLate'
  <2> SUFFICES ASSUME NEW u \in TlsThreads, tlspc[u] \in {"lock", "scan", "destructor"},
                      NEW n \in (rs'[u] + 1)..Len(storage[u]),
                      Fresh(storage[u][n]), destructor[storage[u][n].key]
               PROVE  storage[u][n].data.i = i[u]
    BY <1>1 DEF BehindIsLate, Fresh
  <2>1. u = t => n # rs[t]
    BY <1>1 DEF Pending, Fresh
  <2>2. rs'[u] = IF u = t THEN rs[t] - 1 ELSE rs[u]
    BY <1>1 DEF TlsType
  <2>3. n \in (rs[u] + 1)..Len(storage[u])
    BY <1>1, <2>1, <2>2
  <2> QED
    BY <2>3 DEF BehindIsLate
<1> QED
  BY <1>2, <1>3, <1>4, <1>5

(* The entry whose destructor is called is emptied before. *)
LEMMA CallDestructorKeeps ==
  ASSUME TlsIInv, NEW t \in TlsThreads, CallDestructor(t)
  PROVE  TlsIInv'
<1> USE DEF TlsIInv
<1> DEFINE s == storage[t]
           r == rs[t]
           w == [s EXCEPT ![r].data = NULL]
<1>1. /\ UNCHANGED <<used, destructor, hint, i, lost>>
      /\ tlspc[t] = "scan" /\ tlspc' = [tlspc EXCEPT ![t] = "destructor"]
      /\ rs' = [rs EXCEPT ![t] = @ - 1] /\ storage' = [storage EXCEPT ![t] = w] /\ r > 0
  BY DEF CallDestructor
<1>2. s \in Seq(Entries) /\ r \in 1..Len(s)
  BY <1>1 DEF Lists, TlsType
<1>3. NULL \in Data /\ ~NULL.stale
  BY DEF NULL, Data
<1>4. s[r] \in Entries /\ [s[r] EXCEPT !.data = NULL] \in Entries
  <2>1. s[r] \in Entries
    BY <1>2
  <2>2. \A e \in Entries : [e EXCEPT !.data = NULL] \in Entries
    BY <1>3 DEF Entries
  <2> QED
    BY <2>1, <2>2
<1>5. w = [s EXCEPT ![r] = [s[r] EXCEPT !.data = NULL]]
  OBVIOUS
<1>6. w \in Seq(Entries) /\ Len(w) = Len(s)
  BY <1>2, <1>4, <1>5
<1>7. \A n \in 1..Len(s) : w[n] = IF n = r THEN [s[r] EXCEPT !.data = NULL] ELSE s[n]
  BY <1>2, <1>5
<1>8. w[r].data = NULL
  BY <1>2, <1>4, <1>7 DEF Entries
<1> HIDE DEF w
<1>9. \A u \in TlsThreads : /\ storage'[u] = IF u = t THEN w ELSE storage[u]
                            /\ rs'[u] = IF u = t THEN r - 1 ELSE rs[u]
                            /\ u # t => tlspc'[u] = tlspc[u]
  BY <1>1 DEF TlsType
<1>10. TlsType'
  <2>1. tlspc' \in [TlsThreads -> TlsPCs]
    BY <1>1 DEF TlsType, TlsPCs
  <2>2. rs' \in [TlsThreads -> Nat]
    BY <1>1, <1>2 DEF TlsType
  <2> QED
    BY <1>1, <2>1, <2>2 DEF TlsType
<1>11. Lists'
  <2>1. r - 1 <= Len(w)
    BY <1>2, <1>6
  <2> HIDE DEF r
  <2> QED
    BY <1>6, <1>9, <2>1 DEF Lists
<1>12. ASSUME NEW n \in 1..Len(w), Fresh(w[n])
       PROVE  n \in 1..Len(s) /\ n # r /\ w[n] = s[n]
  BY <1>6, <1>7, <1>8, <1>12 DEF Fresh
<1>13. FreshIsUsed'
  <2> SUFFICES ASSUME NEW u \in TlsThreads, NEW n \in 1..Len(storage'[u]), Fresh(storage'[u][n])
               PROVE  used[storage'[u][n].key]
    BY <1>1 DEF FreshIsUsed, Fresh
  <2>1. CASE u = t
    BY <1>9, <1>12, <2>1 DEF FreshIsUsed
  <2>2. CASE u # t
    BY <1>9, <2>2 DEF FreshIsUsed
  <2> QED
    BY <2>1, <2>2
<1>14. BehindIsLate'
  <2> SUFFICES ASSUME NEW u \in TlsThreads, tlspc'[u] \in {"lock", "scan", "destructor"},
                      NEW n \in (rs'[u] + 1)..Len(storage'[u]),
                      Fresh(storage'[u][n]), destructor[storage'[u][n].key]
               PROVE  storage'[u][n].data.i = i[u]
    BY <1>1 DEF BehindIsLate, Fresh
  <2>1. CASE u = t
    <3>1. n \in r..Len(w) /\ storage'[u][n] = w[n] /\ Fresh(w[n])
      BY <1>2, <1>9, <2>1
    <3>2. n \in 1..Len(w)
      BY <1>2, <3>1
    <3>3. n \in (r + 1)..Len(s) /\ w[n] = s[n]
      BY <1>2, <1>6, <1>12, <3>1, <3>2
    <3> QED
      BY <1>1, <2>1, <3>1, <3>3 DEF BehindIsLate
  <2>2. CASE u # t
    BY <1>9, <2>2 DEF BehindIsLate
  <2> QED
    BY <2>1, <2>2
<1>16. LeftOversAreLate'
  BY <1>1 DEF LeftOversAreLate
<1> QED
  BY <1>10, <1>11, <1>13, <1>14, <1>16

(* After the last round everything that is left is behind the scan. *)
LEMMA FreeKeeps ==
  ASSUME TlsIInv, NEW t \in TlsThreads, Free(t)
  PROVE  TlsIInv'
<1> USE DEF TlsIInv
<1> DEFINE left == {m \in DOMAIN storage[t] : Pending(t, m) /\ ~storage[t][m].data.stale}
<1>1. /\ UNCHANGED <<used, destructor, hint, i, rs>>
      /\ tlspc[t] = "scan" /\ tlspc' = [tlspc EXCEPT ![t] = "exited"]
      /\ rs[t] = 0 /\ i[t] = Iterations - 1 /\ storage' = [storage EXCEPT ![t] = <<>>]
      /\ lost' = lost \cup {storage[t][n].data.i : n \in left}
  BY DEF Free
<1>2. storage[t] \in Seq(Entries)
  BY DEF Lists
<1>3. \A n \in left : storage[t][n].data.i = Iterations - 1
  <2> SUFFICES ASSUME NEW n \in left PROVE storage[t][n].data.i = Iterations - 1
    OBVIOUS
  <2>1. n \in (rs[t] + 1)..Len(storage[t])
    BY <1>1, <1>2
  <2>2. Fresh(storage[t][n]) /\ destructor[storage[t][n].key]
    BY DEF Pending, Fresh
  <2> QED
    BY <1>1, <2>1, <2>2 DEF BehindIsLate
<1> HIDE DEF left
<1>4. LeftOversAreLate'
  BY <1>1, <1>3 DEF LeftOversAreLate
<1>5. TlsType'
  BY <1>1 DEF TlsType, TlsPCs
<1>6. \A u \in TlsThreads : /\ storage'[u] = IF u = t THEN <<>> ELSE storage[u]
                            /\ tlspc'[u] = IF u = t THEN "exited" ELSE tlspc[u]
  BY <1>1 DEF TlsType
<1>7. Lists'
  BY <1>1, <1>6 DEF Lists
<1>8. FreshIsUsed'
  BY <1>1, <1>6 DEF FreshIsUsed, Fresh
<1>9. BehindIsLate'
  BY <1>1, <1>6 DEF BehindIsLate, Fresh
<1> QED
  BY <1>4, <1>5, <1>7, <1>8, <1>9

-------------------------------------------------------------------------------
(* The program starts without keys and with empty lists. *)
LEMMA TlsInitIInv == TlsInit => TlsIInv
<1> SUFFICES ASSUME TlsInit PROVE TlsIInv
  OBVIOUS
<1>1. TlsType
  BY DEF TlsInit, TlsType, TlsPCs, Keys
<1>2. \A t \in TlsThreads : storage[t] = <<>> /\ rs[t] = 0 /\ tlspc[t] = "run"
  BY DEF TlsInit
<1>3. Lists
  <2>1. <<>> \in Seq(Entries) /\ 0 <= Len(<<>>)
    OBVIOUS
  <2> QED
    BY <1>2, <2>1 DEF Lists
<1>4. FreshIsUsed /\ BehindIsLate
  BY <1>2 DEF FreshIsUsed, BehindIsLate
<1>5. LeftOversAreLate
  BY DEF TlsInit, LeftOversAreLate
<1> QED
  BY <1>1, <1>3, <1>4, <1>5 DEF TlsIInv

(* Every call and every step of the destructors keeps it. *)
LEMMA TlsNextIInv == TlsIInv /\ [TlsNext]_tlsvars => TlsIInv'
<1> SUFFICES ASSUME TlsIInv, [TlsNext]_tlsvars PROVE TlsIInv'
  OBVIOUS
<1>1. CASE UNCHANGED tlsvars
  BY <1>1 DEF tlsvars, TlsIInv, TlsType, Lists, FreshIsUsed, BehindIsLate,
     LeftOversAreLate, Fresh
<1>2. ASSUME NEW t \in TlsThreads, App(t)
      PROVE  TlsIInv'
  <2>1. i[t] \in 0..(Iterations - 1)
    BY DEF TlsIInv, TlsType
  <2>2. ASSUME NEW k \in Keys, SetData(t, k)
        PROVE  TlsIInv'
    <3> DEFINE d == [i |-> i[t], stale |-> FALSE]
    <3>1. d \in Data /\ ~d.stale /\ d.i = i[t]
      BY <2>1 DEF Data
    <3>2. SetSpecific(t, k, d)
      BY <2>2 DEF SetData
    <3> HIDE DEF d
    <3> QED
      BY <3>1, <3>2, SetSpecificKeeps
  <2>3. ASSUME NEW k \in Keys, SetNull(t, k)
        PROVE  TlsIInv'
    <3>1. NULL \in Data /\ ~NULL.stale
      BY DEF Data, NULL
    <3> QED
      BY <2>3, <3>1, SetSpecificKeeps DEF SetNull
  <2> QED
    BY <1>2, <2>2, <2>3, KeyCreateKeeps, KeyDeleteKeeps, GetSpecificKeeps, ScanBegins DEF App
<1>3. ASSUME NEW t \in TlsThreads, Destructors(t)
      PROVE  TlsIInv'
  BY <1>3, LockKeeps, CallDestructorKeeps, SkipKeeps, ScanBegins, FreeKeeps DEF Destructors
<1> QED
  BY <1>1, <1>2, <1>3 DEF TlsNext

(* The lists of all threads, the scans and the keys fit in every state. *)
THEOREM TlsInvariance == TlsSpec => []TlsIInv
  BY TlsInitIInv, TlsNextIInv, PTL DEF TlsSpec

(* With any number of rounds, what _rthread_tls_destructors frees although   *)
(* its key has a destructor was set in the last round, whatever keys the     *)
(* destructors and the other threads delete and create meanwhile.            *)
THEOREM TlsLeftOversAreLate == TlsSpec => []LeftOversAreLate
  BY TlsInvariance, PTL DEF TlsIInv

-------------------------------------------------------------------------------
(* The read-write lock. *)
USE NoThreadAssumption, ThreadsAssumption

RwType ==
  /\ owner \in Threads \cup {NoThread} /\ readers \in Nat /\ writers \in Seq(Threads)
  /\ pc \in [Threads -> PCs]

(* lock->readers is the number of readers inside; a thread that writes is    *)
(* the owner; and while there is an owner, which the lock may have been      *)
(* handed to before it knows, nobody reads.                                  *)
ReadersAreCounted == readers = Cardinality(Reading)
WriterOwns == \A t \in Writing : owner = t
OwnedIsUnread == owner # NoThread => readers = 0

IInv == RwType /\ ReadersAreCounted /\ WriterOwns /\ OwnedIsUnread

(* The readers are finitely many, and none of them is there when there are   *)
(* none to count.                                                            *)
LEMMA ReadingFinite ==
  IsFiniteSet(Reading) /\ (Cardinality(Reading) = 0 <=> Reading = {})
<1>1. IsFiniteSet(Reading)
  BY FS_Subset DEF Reading
<1> QED
  BY <1>1, FS_EmptySet

(* One reader more. *)
LEMMA ReaderEnters ==
  ASSUME IInv, NEW t \in Threads, t \notin Reading,
         Reading' = Reading \cup {t}, readers' = readers + 1
  PROVE  ReadersAreCounted'
BY ReadingFinite, FS_AddElement DEF IInv, ReadersAreCounted

(* One reader less. *)
LEMMA ReaderLeaves ==
  ASSUME IInv, NEW t \in Threads, t \in Reading,
         Reading' = Reading \ {t}, readers' = readers - 1
  PROVE  ReadersAreCounted'
BY ReadingFinite, FS_RemoveElement DEF IInv, ReadersAreCounted

(* Nobody is inside, and nobody is counted. *)
LEMMA InitIInv == Init => IInv
<1> SUFFICES ASSUME Init PROVE IInv
  OBVIOUS
<1>1. Reading = {} /\ Writing = {}
  BY DEF Init, Reading, Writing
<1>2. RwType
  BY DEF Init, RwType, PCs
<1> QED
  BY <1>1, <1>2, FS_EmptySet DEF Init, IInv, ReadersAreCounted, WriterOwns, OwnedIsUnread

(* A reader comes in only when nobody owns the lock. *)
LEMMA EnterReading ==
  ASSUME IInv, NEW t \in Threads,
         pc[t] \in {"idle", "rdlock"}, owner = NoThread, readers' = readers + 1,
         Goto(t, "reading"), UNCHANGED <<owner, writers>>
  PROVE  IInv'
<1>1. RwType'
  BY DEF IInv, RwType, Goto, PCs
<1>2. t \notin Reading /\ Reading' = Reading \cup {t} /\ Writing' \subseteq Writing
  BY DEF IInv, RwType, Goto, Reading, Writing
<1>3. ReadersAreCounted'
  BY <1>2, ReaderEnters
<1> QED
  BY <1>1, <1>2, <1>3 DEF IInv, WriterOwns, OwnedIsUnread

(* A writer comes in only when nobody owns the lock and nobody reads. *)
LEMMA EnterWriting ==
  ASSUME IInv, NEW t \in Threads,
         pc[t] \in {"idle", "wrlock"}, owner = NoThread, readers = 0, owner' = t,
         Goto(t, "writing"), UNCHANGED <<readers, writers>>
  PROVE  IInv'
<1>1. RwType'
  BY DEF IInv, RwType, Goto, PCs
<1>2. Reading' = Reading /\ Writing' \subseteq Writing \cup {t}
  BY DEF IInv, RwType, Goto, Reading, Writing
<1>3. Writing = {}
  BY DEF IInv, WriterOwns, Writing
<1> QED
  BY <1>1, <1>2, <1>3 DEF IInv, WriterOwns, OwnedIsUnread, ReadersAreCounted

(* A step that lets nobody in or out. *)
LEMMA NobodyMoves ==
  ASSUME IInv, NEW t \in Threads, NEW l \in PCs, Goto(t, l),
         pc[t] \in {"reading", "rdunlock"} <=> l \in {"reading", "rdunlock"},
         pc[t] \in {"writing", "wrunlock"} <=> l \in {"writing", "wrunlock"},
         writers' \in Seq(Threads), UNCHANGED <<owner, readers>>
  PROVE  IInv'
<1>1. RwType'
  BY DEF IInv, RwType, Goto
<1>2. Reading' = Reading /\ Writing' = Writing
  BY DEF IInv, RwType, Goto, Reading, Writing
<1> QED
  BY <1>1, <1>2 DEF IInv, WriterOwns, OwnedIsUnread, ReadersAreCounted

(* The last reader may hand the lock over. *)
LEMMA ReaderUnlockIInv ==
  ASSUME IInv, NEW t \in Threads,
         ReaderUnlock(t)
  PROVE  IInv'
<1>1. t \in Reading /\ Reading' = Reading \ {t} /\ Writing' = Writing
  BY DEF IInv, RwType, ReaderUnlock, Goto, Reading, Writing
<1>2. readers > 0
  <2>1. Reading # {}
    BY <1>1
  <2> QED
    BY <2>1, ReadingFinite DEF IInv, RwType, ReadersAreCounted
<1>3. owner = NoThread /\ Writing = {}
  BY <1>2 DEF IInv, OwnedIsUnread, WriterOwns, Writing
<1>4. RwType'
  <2>1. writers # <<>> => Head(writers) \in Threads /\ Tail(writers) \in Seq(Threads)
    BY DEF IInv, RwType
  <2> QED
    BY <2>1, <1>2 DEF IInv, RwType, ReaderUnlock, Goto, PCs
<1>5. ReadersAreCounted'
  BY <1>1, ReaderLeaves DEF ReaderUnlock
<1>6. OwnedIsUnread'
  BY <1>3 DEF ReaderUnlock, OwnedIsUnread
<1> QED
  BY <1>1, <1>3, <1>4, <1>5, <1>6 DEF IInv, WriterOwns

(* A writer hands the lock to the next, or to nobody. *)
LEMMA WriterUnlockIInv ==
  ASSUME IInv, NEW t \in Threads, WriterUnlock(t)
  PROVE  IInv'
<1>1. t \in Writing /\ Reading' = Reading /\ Writing' = Writing \ {t}
  BY DEF IInv, RwType, WriterUnlock, Goto, Reading, Writing
<1>2. owner = t /\ readers = 0
  BY <1>1 DEF IInv, WriterOwns, OwnedIsUnread
<1>3. Writing' = {}
  BY <1>1, <1>2 DEF IInv, WriterOwns
<1>4. RwType'
  <2>1. writers # <<>> => Head(writers) \in Threads /\ Tail(writers) \in Seq(Threads)
    BY DEF IInv, RwType
  <2> QED
    BY <2>1 DEF IInv, RwType, WriterUnlock, Goto, PCs
<1> QED
  BY <1>1, <1>2, <1>3, <1>4
  DEF IInv, WriterOwns, OwnedIsUnread, ReadersAreCounted, WriterUnlock

(* Every call, step by step. *)
LEMMA NextIInv == IInv /\ [Next]_vars => IInv'
<1> SUFFICES ASSUME IInv, [Next]_vars PROVE IInv'
  OBVIOUS
<1>1. CASE UNCHANGED vars
  BY <1>1 DEF vars, IInv, RwType, ReadersAreCounted, WriterOwns, OwnedIsUnread, Reading, Writing
<1>2. ASSUME NEW t \in Threads, Call(t) \/ Step(t) \/ TryRdlock(t) \/ TryWrlock(t)
      PROVE  IInv'
  <2> writers \in Seq(Threads)
    BY DEF IInv, RwType
  <2>1. CASE Call(t)
    <3>1. PICK l \in PCs : /\ Goto(t, l)
                           /\ pc[t] \in {"reading", "rdunlock"} <=> l \in {"reading", "rdunlock"}
                           /\ pc[t] \in {"writing", "wrunlock"} <=> l \in {"writing", "wrunlock"}
      BY <2>1 DEF Call, PCs
    <3> QED
      BY <2>1, <3>1, NobodyMoves DEF Call
  <2>2. CASE TryRdlock(t)
    BY <2>2, EnterReading DEF TryRdlock
  <2>3. CASE TryWrlock(t)
    BY <2>3, EnterWriting DEF TryWrlock
  <2>4. CASE Rdlock(t)
    <3>1. CASE owner = NoThread /\ writers = <<>>
      BY <2>4, <3>1, EnterReading DEF Rdlock
    <3>2. CASE owner # NoThread \/ writers # <<>>
      <4>1. Goto(t, "spinning") /\ pc[t] = "rdlock" /\ UNCHANGED <<owner, readers, writers>>
        BY <2>4, <3>2 DEF Rdlock
      <4> QED
        BY <4>1, NobodyMoves DEF PCs
    <3> QED
      BY <3>1, <3>2
  <2>5. CASE Wrlock(t)
    <3>1. CASE owner = NoThread /\ readers = 0
      <4>1. owner' = t /\ Goto(t, "writing") /\ pc[t] = "wrlock" /\ UNCHANGED <<readers, writers>>
        BY <2>5, <3>1 DEF Wrlock
      <4> QED
        BY <4>1, <3>1, EnterWriting
    <3>2. CASE owner # NoThread \/ readers # 0
      <4>1. /\ Goto(t, "idle") /\ pc[t] = "wrlock" /\ writers' = Append(writers, t)
            /\ UNCHANGED <<owner, readers>>
        BY <2>5, <3>2 DEF Wrlock
      <4> QED
        BY <4>1, NobodyMoves DEF PCs
    <3> QED
      BY <3>1, <3>2
  <2>6. CASE ReaderUnlock(t)
    BY <2>6, ReaderUnlockIInv
  <2>7. CASE WriterUnlock(t)
    BY <2>7, WriterUnlockIInv
  <2> QED
    BY <1>2, <2>1, <2>2, <2>3, <2>4, <2>5, <2>6, <2>7 DEF Step
<1> QED
  BY <1>1, <1>2 DEF Next

(* A writer is alone in the lock, and the readers are counted, as the code   *)
(* under the spin lock keeps them.                                           *)
THEOREM Invariance == Spec => []IInv
<1> QED
  BY InitIInv, NextIInv, PTL DEF Spec

(* For any finite set of threads: while a thread writes it owns the lock, no *)
(* other writes and nobody reads (rthread_rwlock.c).                         *)
THEOREM RwlockWriterIsAlone == Spec => []WriterIsAlone
<1>1. IInv => WriterIsAlone
  <2> SUFFICES ASSUME IInv, NEW t \in Writing
               PROVE  owner = t /\ Reading = {} /\ Writing = {t}
    BY DEF WriterIsAlone
  <2>1. owner = t /\ Writing = {t}
    BY DEF IInv, WriterOwns
  <2>2. readers = 0
    BY <2>1 DEF IInv, OwnedIsUnread, Writing
  <2> QED
    BY <2>1, <2>2, ReadingFinite DEF IInv, ReadersAreCounted
<1> QED
  BY Invariance, <1>1, PTL
===============================================================================
