------------------------------- MODULE PthreadTls ------------------------------
(*****************************************************************************)
(* Thread-specific data, rthread_tls.c: the keys under their spin lock, the  *)
(* list of each thread, and the destructors that pthread_exit runs.  A       *)
(* destructor runs without the spin lock and may do what any thread may:     *)
(* create and delete keys, set data again.                                   *)
(* Of a datum the model knows the round in which it was set and whether its  *)
(* key has been deleted since.  An application does not set the data of a    *)
(* key while it deletes it.                                                  *)
(*****************************************************************************)
EXTENDS Naturals, Sequences

CONSTANTS
  TlsThreads,
  Initial,       \* _initial_thread
  NoHolder,
  KeysMax,       \* PTHREAD_KEYS_MAX
  Iterations,    \* PTHREAD_DESTRUCTOR_ITERATIONS
  MaxCreates,    \* bound: how often a key is created
  MaxData        \* bound: how often data are set

ASSUME TlsAssumption ==
  Initial \in TlsThreads /\ KeysMax \in Nat \ {0} /\ Iterations \in Nat \ {0}

VARIABLES
  used,          \* rkeys[k].used
  destructor,    \* rkeys[k].destructor is not NULL
  hint,          \* the key to try first
  rkeyslock,     \* the thread that holds the spin lock
  storage,       \* thread->local_storage, the head of the list last
  tlspc,            \* run, lock, scan, destructor, exited
  i,             \* rounds done by _rthread_tls_destructors
  rs,            \* the entry it is at
  creates,       \* keys created so far
  sets,          \* data set so far
  lost           \* history: the rounds in which data were set that were freed
                 \* although their key has its destructor

tlsvars == <<used, destructor, hint, rkeyslock, storage, tlspc, i, rs, creates, sets,
          lost>>

Keys == 0..(KeysMax - 1)

NULL == [i |-> Iterations, stale |-> FALSE]

TlsInit ==
  /\ used = [k \in Keys |-> FALSE] /\ destructor = [k \in Keys |-> FALSE]
  /\ hint = 0 /\ rkeyslock = NoHolder
  /\ storage = [t \in TlsThreads |-> <<>>]
  /\ tlspc = [t \in TlsThreads |-> "run"]
  /\ i = [t \in TlsThreads |-> 0] /\ rs = [t \in TlsThreads |-> 0]
  /\ creates = 0 /\ sets = 0 /\ lost = {}

(* Application code runs: the thread's own, or a destructor of it. *)
MayCall(t) == tlspc[t] \in {"run", "destructor"}

-------------------------------------------------------------------------------
(* The key that pthread_key_create takes: the hint, or the first one free. *)
FreeKey ==
  IF ~used[hint] THEN hint
  ELSE CHOOSE k \in Keys : ~used[k] /\ \A j \in 0..(k - 1) : used[j]

(* Without a free key the call returns EAGAIN. *)
KeyCreate(t) ==
  /\ MayCall(t) /\ rkeyslock = NoHolder /\ creates < MaxCreates
  /\ \E k \in Keys : ~used[k]
  /\ \E d \in BOOLEAN : destructor' = [destructor EXCEPT ![FreeKey] = d]
  /\ used' = [used EXCEPT ![FreeKey] = TRUE]
  /\ hint' = (FreeKey + 1) % KeysMax
  /\ creates' = creates + 1
  /\ UNCHANGED <<rkeyslock, storage, tlspc, i, rs, sets, lost>>

(* A list after key k was deleted, with its data marked or cleared. *)
Marked(s, k) ==
  [n \in DOMAIN s |-> IF s[n].key = k /\ s[n].data # NULL
                      THEN [s[n] EXCEPT !.data.stale = TRUE] ELSE s[n]]
Cleared(s, k) ==
  [n \in DOMAIN s |-> IF s[n].key = k THEN [s[n] EXCEPT !.data = NULL] ELSE s[n]]

(* The data of the initial thread are cleared, those of the others stay. *)
KeyDelete(t, k) ==
  /\ MayCall(t) /\ rkeyslock = NoHolder /\ used[k]
  /\ used' = [used EXCEPT ![k] = FALSE]
  /\ destructor' = [destructor EXCEPT ![k] = FALSE]
  /\ storage' = [u \in TlsThreads |->
       IF u = Initial THEN Cleared(storage[u], k) ELSE Marked(storage[u], k)]
  /\ UNCHANGED <<hint, rkeyslock, tlspc, i, rs, creates, sets, lost>>

(* _rthread_findstorage: the list with an entry for the key. *)
Found(s, k) ==
  IF \E n \in DOMAIN s : s[n].key = k THEN s ELSE Append(s, [key |-> k, data |-> NULL])

(* pthread_getspecific changes the list of a thread that looks at a key for  *)
(* the first time.                                                           *)
GetSpecific(t, k) ==
  /\ MayCall(t) /\ used[k]
  /\ storage' = [storage EXCEPT ![t] = Found(@, k)]
  /\ UNCHANGED <<used, destructor, hint, rkeyslock, tlspc, i, rs, creates, sets, lost>>

(* pthread_setspecific of a fresh datum, or of NULL.  A key that is not used *)
(* and a calloc that fails are ENOMEM and change nothing.                    *)
SetSpecific(t, k, d) ==
  /\ MayCall(t) /\ used[k]
  /\ storage' = [storage EXCEPT ![t] =
       [n \in DOMAIN Found(@, k) |->
          IF Found(@, k)[n].key = k THEN [key |-> k, data |-> d] ELSE Found(@, k)[n]]]
  /\ UNCHANGED <<used, destructor, hint, rkeyslock, tlspc, i, rs, creates, lost>>

SetData(t, k) ==
  /\ sets < MaxData
  /\ SetSpecific(t, k, [i |-> i[t], stale |-> FALSE])
  /\ sets' = sets + 1

SetNull(t, k) == SetSpecific(t, k, NULL) /\ UNCHANGED sets

-------------------------------------------------------------------------------
(* pthread_exit goes to _rthread_tls_destructors. *)
Exit(t) ==
  /\ tlspc[t] = "run"
  /\ tlspc' = [tlspc EXCEPT ![t] = "lock"]
  /\ rs' = [rs EXCEPT ![t] = Len(storage[t])]
  /\ UNCHANGED <<used, destructor, hint, rkeyslock, storage, i, creates, sets, lost>>

Lock(t) ==
  /\ tlspc[t] = "lock" /\ rkeyslock = NoHolder
  /\ rkeyslock' = t /\ tlspc' = [tlspc EXCEPT ![t] = "scan"]
  /\ UNCHANGED <<used, destructor, hint, storage, i, rs, creates, sets, lost>>

(* The entry has data and its key a destructor. *)
Pending(t, n) == storage[t][n].data # NULL /\ destructor[storage[t][n].key]

(* Faulty variant: the destructor is called with the spin lock held. *)
CallDestructor_Locked(t) ==
  /\ tlspc[t] = "scan" /\ rs[t] > 0 /\ Pending(t, rs[t])
  /\ storage' = [storage EXCEPT ![t][rs[t]].data = NULL]
  /\ rs' = [rs EXCEPT ![t] = @ - 1]
  /\ tlspc' = [tlspc EXCEPT ![t] = "destructor"]
  /\ UNCHANGED <<used, destructor, hint, rkeyslock, i, creates, sets, lost>>

(* The data are taken out of the entry and the destructor is called, without *)
(* the spin lock.                                                            *)
CallDestructor(t) ==
  /\ tlspc[t] = "scan" /\ rs[t] > 0 /\ Pending(t, rs[t])
  /\ storage' = [storage EXCEPT ![t][rs[t]].data = NULL]
  /\ rs' = [rs EXCEPT ![t] = @ - 1]
  /\ rkeyslock' = NoHolder /\ tlspc' = [tlspc EXCEPT ![t] = "destructor"]
  /\ UNCHANGED <<used, destructor, hint, i, creates, sets, lost>>

(* The destructor returns, and the spin lock is taken again. *)
Return(t) ==
  /\ tlspc[t] = "destructor"
  /\ tlspc' = [tlspc EXCEPT ![t] = "lock"]
  /\ UNCHANGED <<used, destructor, hint, rkeyslock, storage, i, rs, creates, sets, lost>>

Skip(t) ==
  /\ tlspc[t] = "scan" /\ rs[t] > 0 /\ ~Pending(t, rs[t])
  /\ rs' = [rs EXCEPT ![t] = @ - 1]
  /\ UNCHANGED <<used, destructor, hint, rkeyslock, storage, tlspc, i, creates, sets, lost>>

(* Faulty variant: the next round goes on where the last one ended. *)
Round_SameEntry(t) ==
  /\ tlspc[t] = "scan" /\ rs[t] = 0 /\ i[t] < Iterations - 1
  /\ i' = [i EXCEPT ![t] = @ + 1]
  /\ UNCHANGED <<used, destructor, hint, rkeyslock, storage, tlspc, rs, creates, sets, lost>>

(* The next round starts at the head of the list. *)
Round(t) ==
  /\ tlspc[t] = "scan" /\ rs[t] = 0 /\ i[t] < Iterations - 1
  /\ i' = [i EXCEPT ![t] = @ + 1]
  /\ rs' = [rs EXCEPT ![t] = Len(storage[t])]
  /\ UNCHANGED <<used, destructor, hint, rkeyslock, storage, tlspc, creates, sets, lost>>

(* After the last round the list is freed, with the data that are still in   *)
(* it.                                                                       *)
Free(t) ==
  /\ tlspc[t] = "scan" /\ rs[t] = 0 /\ i[t] = Iterations - 1
  /\ lost' = lost \cup {storage[t][n].data.i : n \in
       {m \in DOMAIN storage[t] : Pending(t, m) /\ ~storage[t][m].data.stale}}
  /\ storage' = [storage EXCEPT ![t] = <<>>]
  /\ rkeyslock' = NoHolder /\ tlspc' = [tlspc EXCEPT ![t] = "exited"]
  /\ UNCHANGED <<used, destructor, hint, i, rs, creates, sets>>

-------------------------------------------------------------------------------
App(t) ==
  \/ KeyCreate(t) \/ Exit(t)
  \/ \E k \in Keys : KeyDelete(t, k) \/ GetSpecific(t, k) \/ SetData(t, k) \/ SetNull(t, k)

Destructors(t) == Lock(t) \/ CallDestructor(t) \/ Return(t) \/ Skip(t) \/ Round(t) \/ Free(t)

TlsNext == \E t \in TlsThreads : App(t) \/ Destructors(t)

TlsSpec == TlsInit /\ [][TlsNext]_tlsvars

(* Destructors return, and a thread that wants the spin lock gets it: the    *)
(* others take it a bounded number of times.                                 *)
TlsFairSpec == TlsSpec /\ \A t \in TlsThreads : WF_tlsvars(Destructors(t))

-------------------------------------------------------------------------------
(* What a thread leaves behind undestroyed, although its key has a           *)
(* destructor, was set by a destructor in the last round.                    *)
LeftOversAreLate == lost \subseteq {Iterations - 1}

(* A thread that exits gets to the end of its destructors, which may         *)
(* themselves need the spin lock of the keys.                                *)
ExitEnds == \A t \in TlsThreads : tlspc[t] = "lock" ~> tlspc[t] = "exited"
===============================================================================
