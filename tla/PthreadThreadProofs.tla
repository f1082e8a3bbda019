-------------------------- MODULE PthreadThreadProofs --------------------------
(*****************************************************************************)
(* Descriptors are freed once and not before their thread has released them, *)
(* for any number of threads and callers (PthreadThread).                    *)
(*****************************************************************************)
EXTENDS PthreadThread, TLAPS

USE NoThrAssumption

ThreadType ==
  /\ mem \in [Thr -> {"fresh", "live", "freed"}]
  /\ flags \in [Thr -> SUBSET {"done", "detached"}]
  /\ gc \in [Thr -> Nat] /\ donesem \in [Thr -> Nat]
  /\ run \in [Thr -> {"none", "user", "release", "selffree", "post", "halexit", "gone"}]
  /\ cpc \in [Callers -> {"idle", "c_reap", "c_destroy", "c_alloc", "c_start", "reap",
                          "destroy", "j_wait", "j_free", "d_free"}]
  /\ arg \in [Callers -> Thr \cup {NoThr}]
  /\ uses \in [Thr -> SUBSET {"join", "detach"}]

(* A thread's own state: what its flags, its place in the list and its       *)
(* semaphore say of the step it is at.                                       *)
FlagsFit(t) ==
  /\ mem[t] = "fresh" => run[t] = "none" /\ flags[t] = {} /\ t \notin destroyed
  /\ run[t] = "none" => uses[t] = {} /\ "done" \notin flags[t] /\ gc[t] = 0
  /\ "done" \in flags[t] => "detached" \notin flags[t] /\ run[t] \in {"post", "halexit", "gone"}
  /\ run[t] = "post" \/ donesem[t] # 0 => "done" \in flags[t]
  /\ run[t] = "selffree" => "detached" \in flags[t]
  /\ t \in list => run[t] \in {"none", "user"} /\ mem[t] = "live"
  /\ t \in destroyed => "done" \in flags[t]

(* The steps at which a caller has a descriptor that is not on the list. *)
Held == {"j_wait", "j_free", "d_free", "destroy", "c_destroy"}

(* A caller's step says what has happened to its descriptor. *)
CallFits(c) ==
  /\ cpc[c] = "c_start" =>
       arg[c] \in Thr /\ run[arg[c]] = "none" /\ mem[arg[c]] = "live"
  /\ cpc[c] \in Held =>
       /\ arg[c] \in Thr /\ uses[arg[c]] # {}
       /\ cpc[c] # "j_wait" => "done" \in flags[arg[c]]
       /\ "detached" \in flags[arg[c]] => Abused(arg[c])

(* Queued once, and alive until the entry is taken; before the end of the    *)
(* thread, or before somebody joins or detaches it, not queued at all.       *)
QueuedOnce(t) ==
  /\ gc[t] <= 1 /\ (gc[t] = 1 => mem[t] = "live")
  /\ run[t] # "none" /\ "done" \notin flags[t] => mem[t] = "live"
  /\ "done" \notin flags[t] /\ run[t] \in {"user", "release", "selffree"} => gc[t] = 0
  /\ uses[t] = {} /\ run[t] # "none" /\ "detached" \notin flags[t] => gc[t] = 0 /\ mem[t] = "live"

(* A caller that has a descriptor is the only one, and nobody else is going  *)
(* to free it.                                                               *)
HeldOnce(c) ==
  cpc[c] \in Held \cup {"c_start"} /\ ~Abused(arg[c]) =>
    /\ gc[arg[c]] = 0 /\ mem[arg[c]] = "live"
    /\ \A d \in Callers :
         arg[d] = arg[c] /\ cpc[d] \in Held \cup {"c_start"} => d = c

IInv ==
  /\ ThreadType
  /\ list \subseteq Thr /\ destroyed \subseteq Thr
  /\ \A t \in Thr : FlagsFit(t) /\ (Abused(t) \/ QueuedOnce(t))
  /\ \A c \in Callers : CallFits(c) /\ HeldOnce(c)

(* No thread has been created yet. *)
LEMMA InitIInv == Init => IInv
BY DEF Init, IInv, ThreadType, FlagsFit, CallFits, HeldOnce, QueuedOnce, Held, Abused

-------------------------------------------------------------------------------
(* The reaper takes an entry: of a thread that is done, that somebody has    *)
(* joined or detached, and that nobody else has.                             *)
LEMMA ReapTakeKeeps ==
  ASSUME IInv, NEW c \in Callers, ReapTake(c)
  PROVE  IInv'
<1>1. ThreadType' /\ list' \subseteq Thr /\ destroyed' \subseteq Thr
  BY DEF IInv, ThreadType, CallFits, Held, ReapTake, CGoto, Reapable
<1>2. ASSUME NEW u \in Thr PROVE FlagsFit(u)'
  BY DEF IInv, ThreadType, CallFits, FlagsFit, Held, ReapTake, CGoto, Reapable
<1>3. ASSUME NEW u \in Thr PROVE Abused(u)' \/ QueuedOnce(u)'
  BY DEF IInv, ThreadType, CallFits, FlagsFit, HeldOnce, QueuedOnce, Held, Abused, ReapTake,
     CGoto, Reapable
<1>4. ASSUME NEW d \in Callers PROVE CallFits(d)'
  <2>1. PICK t \in Reapable : /\ arg' = [arg EXCEPT ![c] = t]
                             /\ gc' = [gc EXCEPT ![t] = @ - 1]
    BY DEF ReapTake
  <2>2. uses[t] # {} /\ "detached" \notin flags[t] /\ "done" \in flags[t]
    <3>1. t \in Thr /\ gc[t] > 0 /\ "done" \in flags[t]
      BY <2>1 DEF Reapable
    <3>2. ThreadType /\ FlagsFit(t) /\ (Abused(t) \/ QueuedOnce(t))
      BY <3>1 DEF IInv
    <3>3. "detached" \notin flags[t] /\ run[t] # "none"
      BY <3>1, <3>2 DEF FlagsFit
    <3>4. gc[t] # 0
      BY <3>1
    <3>5. CASE Abused(t)
      BY <3>1, <3>3, <3>5, Zenon DEF Abused
    <3>6. CASE QueuedOnce(t)
      BY <3>1, <3>3, <3>4, <3>6, Zenon DEF QueuedOnce
    <3> QED
      BY <3>2, <3>5, <3>6
  <2>3. CASE d = c
    BY <2>1, <2>2, <2>3 DEF IInv, ThreadType, CallFits, Held, Reapable, ReapTake, CGoto
  <2>4. CASE d # c
    BY <2>1, <2>4 DEF IInv, ThreadType, CallFits, Held, Abused, ReapTake, CGoto
  <2> QED
    BY <2>3, <2>4
<1>5. ASSUME NEW d \in Callers PROVE HeldOnce(d)'
  BY DEF IInv, ThreadType, CallFits, FlagsFit, HeldOnce, QueuedOnce, Held, Abused, ReapTake,
     CGoto, Reapable
<1> QED
  BY <1>1, <1>2, <1>3, <1>4, <1>5 DEF IInv

(* It frees what it has taken, which was alive and is on no list. *)
LEMMA ReapDestroyKeeps ==
  ASSUME IInv, NEW c \in Callers, ReapDestroy(c)
  PROVE  IInv'
<1>1. ThreadType' /\ list' \subseteq Thr /\ destroyed' \subseteq Thr
  BY DEF IInv, ThreadType, CallFits, Held, ReapDestroy, CGoto
<1>2. ASSUME NEW u \in Thr PROVE FlagsFit(u)'
  BY DEF IInv, ThreadType, CallFits, FlagsFit, Held, ReapDestroy, CGoto
<1>3. ASSUME NEW u \in Thr PROVE Abused(u)' \/ QueuedOnce(u)'
  BY DEF IInv, ThreadType, CallFits, FlagsFit, HeldOnce, QueuedOnce, Held, Abused,
     ReapDestroy, CGoto
<1>4. ASSUME NEW d \in Callers PROVE CallFits(d)'
  BY DEF IInv, ThreadType, CallFits, FlagsFit, QueuedOnce, Held, Abused, ReapDestroy, CGoto
<1>5. ASSUME NEW d \in Callers PROVE HeldOnce(d)'
  BY DEF IInv, ThreadType, CallFits, FlagsFit, HeldOnce, QueuedOnce, Held, Abused,
     ReapDestroy, CGoto
<1> QED
  BY <1>1, <1>2, <1>3, <1>4, <1>5 DEF IInv

(* The scan finds nothing. *)
LEMMA ReapEndKeeps ==
  ASSUME IInv, NEW c \in Callers, ReapEnd(c)
  PROVE  IInv'
BY DEF IInv, ThreadType, CallFits, FlagsFit, HeldOnce, QueuedOnce, Held, Abused, ReapEnd, CGoto

(* The call alone changes nothing of a thread. *)
LEMMA CreateKeeps ==
  ASSUME IInv, NEW c \in Callers, Create(c)
  PROVE  IInv'
BY DEF IInv, ThreadType, CallFits, FlagsFit, HeldOnce, QueuedOnce, Held, Abused, Create, CGoto

(* A fresh descriptor is known to nobody else. *)
LEMMA CreateAllocKeeps ==
  ASSUME IInv, NEW c \in Callers, NEW t \in Thr,
         NEW f \in {{}, {"detached"}}, CreateAlloc(c, t, f)
  PROVE  IInv'
<1>1. ThreadType' /\ list' \subseteq Thr /\ destroyed' \subseteq Thr
  BY DEF IInv, ThreadType, CallFits, Held, CreateAlloc, CGoto
<1>2. ASSUME NEW u \in Thr PROVE FlagsFit(u)'
  BY DEF IInv, ThreadType, CallFits, FlagsFit, Held, CreateAlloc, CGoto
<1>3. ASSUME NEW u \in Thr PROVE Abused(u)' \/ QueuedOnce(u)'
  BY DEF IInv, ThreadType, CallFits, FlagsFit, HeldOnce, QueuedOnce, Held, Abused,
     CreateAlloc, CGoto
<1>4. ASSUME NEW d \in Callers PROVE CallFits(d)'
  BY DEF IInv, ThreadType, CallFits, FlagsFit, QueuedOnce, Held, Abused, CreateAlloc, CGoto
<1>5. ASSUME NEW d \in Callers PROVE HeldOnce(d)'
  BY DEF IInv, ThreadType, CallFits, FlagsFit, HeldOnce, QueuedOnce, Held, Abused,
     CreateAlloc, CGoto
<1> QED
  BY <1>1, <1>2, <1>3, <1>4, <1>5 DEF IInv

(* Without memory nothing changes. *)
LEMMA CreateNoMemKeeps ==
  ASSUME IInv, NEW c \in Callers, CreateNoMem(c)
  PROVE  IInv'
BY DEF IInv, ThreadType, CallFits, FlagsFit, HeldOnce, QueuedOnce, Held, Abused, CreateNoMem,
   CGoto

(* The thread runs, or its descriptor is freed by the only caller that has   *)
(* it.                                                                       *)
LEMMA CreateStartKeeps ==
  ASSUME IInv, NEW c \in Callers, CreateStart(c)
  PROVE  IInv'
<1>1. ThreadType' /\ list' \subseteq Thr /\ destroyed' \subseteq Thr
  BY DEF IInv, ThreadType, CallFits, Held, CreateStart, CGoto, RGoto
<1>2. ASSUME NEW u \in Thr PROVE FlagsFit(u)'
  BY DEF IInv, ThreadType, CallFits, FlagsFit, Held, CreateStart, CGoto, RGoto
<1>3. ASSUME NEW u \in Thr PROVE Abused(u)' \/ QueuedOnce(u)'
  BY DEF IInv, ThreadType, CallFits, FlagsFit, HeldOnce, QueuedOnce, Held, Abused,
     CreateStart, CGoto, RGoto
<1>4. ASSUME NEW d \in Callers PROVE CallFits(d)'
  <2>1. CASE d = c
    BY <2>1 DEF IInv, ThreadType, CallFits, Held, CreateStart, CGoto, RGoto
  <2>2. CASE d # c
    <3>1. arg[c] \in Thr /\ ~Abused(arg[c])
      BY DEF IInv, CallFits, FlagsFit, CreateStart, Abused
    <3>2. cpc[d] = "c_start" => arg[d] # arg[c]
      BY <2>2, <3>1 DEF IInv, HeldOnce, Held, CreateStart
    <3> QED
      BY <2>2, <3>1, <3>2 DEF IInv, ThreadType, CallFits, Held, Abused, CreateStart, CGoto,
         RGoto
  <2> QED
    BY <2>1, <2>2
<1>5. ASSUME NEW d \in Callers PROVE HeldOnce(d)'
  BY DEF IInv, ThreadType, CallFits, FlagsFit, HeldOnce, QueuedOnce, Held, Abused,
     CreateStart, CGoto, RGoto
<1> QED
  BY <1>1, <1>2, <1>3, <1>4, <1>5 DEF IInv

(* A joiner goes on only when the thread has posted, and so is done. *)
LEMMA JoinWaitKeeps ==
  ASSUME IInv, NEW c \in Callers, JoinWait(c)
  PROVE  IInv'
<1>1. ThreadType' /\ list' \subseteq Thr /\ destroyed' \subseteq Thr
  BY DEF IInv, ThreadType, CallFits, Held, JoinWait, CGoto
<1>2. ASSUME NEW u \in Thr PROVE FlagsFit(u)'
  BY DEF IInv, ThreadType, CallFits, FlagsFit, Held, JoinWait, CGoto
<1>3. ASSUME NEW u \in Thr PROVE Abused(u)' \/ QueuedOnce(u)'
  BY DEF IInv, ThreadType, CallFits, FlagsFit, HeldOnce, QueuedOnce, Held, Abused, JoinWait,
     CGoto
<1>4. ASSUME NEW d \in Callers PROVE CallFits(d)'
  BY DEF IInv, ThreadType, CallFits, FlagsFit, QueuedOnce, Held, Abused, JoinWait, CGoto
<1>5. ASSUME NEW d \in Callers PROVE HeldOnce(d)'
  BY DEF IInv, ThreadType, CallFits, FlagsFit, HeldOnce, QueuedOnce, Held, Abused, JoinWait,
     CGoto
<1> QED
  BY <1>1, <1>2, <1>3, <1>4, <1>5 DEF IInv

(* The joiner queues a descriptor that is not queued, unless it was          *)
(* detached.                                                                 *)
LEMMA JoinFreeKeeps ==
  ASSUME IInv, NEW c \in Callers, JoinFree(c)
  PROVE  IInv'
<1>1. ThreadType' /\ list' \subseteq Thr /\ destroyed' \subseteq Thr
  BY DEF IInv, ThreadType, CallFits, Held, JoinFree, CGoto, Free
<1>2. ASSUME NEW u \in Thr PROVE FlagsFit(u)'
  BY DEF IInv, ThreadType, CallFits, FlagsFit, Held, JoinFree, CGoto, Free
<1>3. ASSUME NEW u \in Thr PROVE Abused(u)' \/ QueuedOnce(u)'
  BY DEF IInv, ThreadType, CallFits, FlagsFit, HeldOnce, QueuedOnce, Held, Abused, JoinFree,
     CGoto, Free
<1>4. ASSUME NEW d \in Callers PROVE CallFits(d)'
  BY DEF IInv, ThreadType, CallFits, FlagsFit, QueuedOnce, Held, Abused, JoinFree, CGoto, Free
<1>5. ASSUME NEW d \in Callers PROVE HeldOnce(d)'
  BY DEF IInv, ThreadType, CallFits, FlagsFit, HeldOnce, QueuedOnce, Held, Abused, JoinFree,
     CGoto, Free
<1> QED
  BY <1>1, <1>2, <1>3, <1>4, <1>5 DEF IInv

(* So does the thread that detaches one that is done. *)
LEMMA DetachFreeKeeps ==
  ASSUME IInv, NEW c \in Callers, DetachFree(c)
  PROVE  IInv'
<1>1. ThreadType' /\ list' \subseteq Thr /\ destroyed' \subseteq Thr
  BY DEF IInv, ThreadType, CallFits, Held, DetachFree, CGoto, Free
<1>2. ASSUME NEW u \in Thr PROVE FlagsFit(u)'
  BY DEF IInv, ThreadType, CallFits, FlagsFit, Held, DetachFree, CGoto, Free
<1>3. ASSUME NEW u \in Thr PROVE Abused(u)' \/ QueuedOnce(u)'
  BY DEF IInv, ThreadType, CallFits, FlagsFit, HeldOnce, QueuedOnce, Held, Abused,
     DetachFree, CGoto, Free
<1>4. ASSUME NEW d \in Callers PROVE CallFits(d)'
  BY DEF IInv, ThreadType, CallFits, FlagsFit, QueuedOnce, Held, Abused, DetachFree, CGoto, Free
<1>5. ASSUME NEW d \in Callers PROVE HeldOnce(d)'
  BY DEF IInv, ThreadType, CallFits, FlagsFit, HeldOnce, QueuedOnce, Held, Abused,
     DetachFree, CGoto, Free
<1> QED
  BY <1>1, <1>2, <1>3, <1>4, <1>5 DEF IInv

(* A join has the descriptor to itself: nobody has joined or detached it. *)
LEMMA JoinKeeps ==
  ASSUME IInv, NEW c \in Callers, NEW t \in Thr, Join(c, t)
  PROVE  IInv'
<1>1. ThreadType' /\ list' \subseteq Thr /\ destroyed' \subseteq Thr
  BY DEF IInv, ThreadType, CallFits, Held, Join, CGoto, Known, MayUse
<1>2. ASSUME NEW u \in Thr PROVE FlagsFit(u)'
  BY DEF IInv, ThreadType, CallFits, FlagsFit, Held, Join, CGoto, Known, MayUse
<1>3. ASSUME NEW u \in Thr PROVE Abused(u)' \/ QueuedOnce(u)'
  BY DEF IInv, ThreadType, CallFits, FlagsFit, HeldOnce, QueuedOnce, Held, Abused, Join,
     CGoto, Known, MayUse
<1>4. ASSUME NEW d \in Callers PROVE CallFits(d)'
  <2>1. uses[t] = {}
    BY DEF Join, MayUse
  <2>2. CASE d = c
    BY <2>1, <2>2 DEF IInv, ThreadType, CallFits, Held, Join, CGoto
  <2>3. CASE d # c
    <3>1. cpc[d] \in Held => arg[d] # t
      BY <2>1 DEF IInv, CallFits
    <3> QED
      BY <2>3, <3>1 DEF IInv, ThreadType, CallFits, Held, Abused, Join, CGoto
  <2> QED
    BY <2>2, <2>3
<1>5. ASSUME NEW d \in Callers PROVE HeldOnce(d)'
  BY DEF IInv, ThreadType, CallFits, FlagsFit, HeldOnce, QueuedOnce, Held, Abused, Join,
     CGoto, Known, MayUse
<1> QED
  BY <1>1, <1>2, <1>3, <1>4, <1>5 DEF IInv

(* So has a detach, or the thread is joined as well, and Abused. *)
LEMMA DetachKeeps ==
  ASSUME IInv, NEW c \in Callers, NEW t \in Thr, Detach(c, t)
  PROVE  IInv'
<1>1. ThreadType' /\ list' \subseteq Thr /\ destroyed' \subseteq Thr
  BY DEF IInv, ThreadType, CallFits, Held, Detach, CGoto, Known, MayUse
<1>2. ASSUME NEW u \in Thr PROVE FlagsFit(u)'
  BY DEF IInv, ThreadType, CallFits, FlagsFit, Held, Detach, CGoto, Known, MayUse
<1>3. ASSUME NEW u \in Thr PROVE Abused(u)' \/ QueuedOnce(u)'
  BY DEF IInv, ThreadType, CallFits, FlagsFit, HeldOnce, QueuedOnce, Held, Abused, Detach,
     CGoto, Known, MayUse
<1>4. ASSUME NEW d \in Callers PROVE CallFits(d)'
  BY DEF IInv, ThreadType, CallFits, FlagsFit, QueuedOnce, Held, Abused, Detach, CGoto,
     Known, MayUse
<1>5. ASSUME NEW d \in Callers PROVE HeldOnce(d)'
  BY DEF IInv, ThreadType, CallFits, FlagsFit, HeldOnce, QueuedOnce, Held, Abused, Detach,
     CGoto, Known, MayUse
<1> QED
  BY <1>1, <1>2, <1>3, <1>4, <1>5 DEF IInv

(* The thread leaves the list of threads. *)
LEMMA ExitKeeps ==
  ASSUME IInv, NEW t \in Thr, Exit(t)
  PROVE  IInv'
BY DEF IInv, ThreadType, CallFits, FlagsFit, HeldOnce, QueuedOnce, Held, Abused, Exit, RGoto

(* It is done, or will queue itself; what is done is on no list yet. *)
LEMMA ReleaseFlagsKeeps ==
  ASSUME IInv, NEW t \in Thr, ReleaseFlags(t)
  PROVE  IInv'
<1>1. ThreadType' /\ list' \subseteq Thr /\ destroyed' \subseteq Thr
  BY DEF IInv, ThreadType, CallFits, Held, ReleaseFlags, RGoto
<1>2. ASSUME NEW u \in Thr PROVE FlagsFit(u)'
  BY DEF IInv, ThreadType, CallFits, FlagsFit, Held, ReleaseFlags, RGoto
<1>3. ASSUME NEW u \in Thr PROVE Abused(u)' \/ QueuedOnce(u)'
  BY DEF IInv, ThreadType, CallFits, FlagsFit, HeldOnce, QueuedOnce, Held, Abused,
     ReleaseFlags, RGoto
<1>4. ASSUME NEW d \in Callers PROVE CallFits(d)'
  BY DEF IInv, ThreadType, CallFits, FlagsFit, QueuedOnce, Held, Abused, ReleaseFlags, RGoto
<1>5. ASSUME NEW d \in Callers PROVE HeldOnce(d)'
  BY DEF IInv, ThreadType, CallFits, FlagsFit, HeldOnce, QueuedOnce, Held, Abused,
     ReleaseFlags, RGoto
<1> QED
  BY <1>1, <1>2, <1>3, <1>4, <1>5 DEF IInv

(* A detached thread queues itself, and nobody else does. *)
LEMMA ReleaseFreeKeeps ==
  ASSUME IInv, NEW t \in Thr, ReleaseFree(t)
  PROVE  IInv'
<1>1. ThreadType' /\ list' \subseteq Thr /\ destroyed' \subseteq Thr
  BY DEF IInv, ThreadType, CallFits, Held, ReleaseFree, RGoto, Free
<1>2. ASSUME NEW u \in Thr PROVE FlagsFit(u)'
  BY DEF IInv, ThreadType, CallFits, FlagsFit, Held, ReleaseFree, RGoto, Free
<1>3. ASSUME NEW u \in Thr PROVE Abused(u)' \/ QueuedOnce(u)'
  BY DEF IInv, ThreadType, CallFits, FlagsFit, HeldOnce, QueuedOnce, Held, Abused,
     ReleaseFree, RGoto, Free
<1>4. ASSUME NEW d \in Callers PROVE CallFits(d)'
  BY DEF IInv, ThreadType, CallFits, FlagsFit, QueuedOnce, Held, Abused, ReleaseFree, RGoto,
     Free
<1>5. ASSUME NEW d \in Callers PROVE HeldOnce(d)'
  BY DEF IInv, ThreadType, CallFits, FlagsFit, HeldOnce, QueuedOnce, Held, Abused,
     ReleaseFree, RGoto, Free
<1> QED
  BY <1>1, <1>2, <1>3, <1>4, <1>5 DEF IInv

(* It posts its end after it is done. *)
LEMMA ReleasePostKeeps ==
  ASSUME IInv, NEW t \in Thr, ReleasePost(t)
  PROVE  IInv'
BY DEF IInv, ThreadType, CallFits, FlagsFit, HeldOnce, QueuedOnce, Held, Abused, ReleasePost,
   RGoto

(* The end of the thread touches nothing. *)
LEMMA HalExitKeeps ==
  ASSUME IInv, NEW t \in Thr, HalExit(t)
  PROVE  IInv'
BY DEF IInv, ThreadType, CallFits, FlagsFit, HeldOnce, QueuedOnce, Held, Abused, HalExit, RGoto

-------------------------------------------------------------------------------
(* Every step of a caller or of a thread. *)
LEMMA NextIInv == IInv /\ [Next]_vars => IInv'
<1> SUFFICES ASSUME IInv, [Next]_vars PROVE IInv'
  OBVIOUS
<1>1. CASE UNCHANGED vars
  BY <1>1 DEF vars, IInv, ThreadType, CallFits, FlagsFit, HeldOnce, QueuedOnce, Held, Abused
<1>2. ASSUME NEW c \in Callers, Create(c) \/ CallerStep(c) PROVE IInv'
  BY <1>2, CreateKeeps, ReapTakeKeeps, ReapDestroyKeeps, ReapEndKeeps, CreateAllocKeeps,
     CreateNoMemKeeps, CreateStartKeeps, JoinWaitKeeps, JoinFreeKeeps, DetachFreeKeeps
  DEF CallerStep
<1>3. ASSUME NEW c \in Callers, NEW t \in Thr, Join(c, t) \/ Detach(c, t) PROVE IInv'
  BY <1>3, JoinKeeps, DetachKeeps
<1>4. ASSUME NEW t \in Thr, ThreadStep(t) PROVE IInv'
  BY <1>4, ExitKeeps, ReleaseFlagsKeeps, ReleaseFreeKeeps, ReleasePostKeeps, HalExitKeeps
  DEF ThreadStep
<1> QED
  BY <1>1, <1>2, <1>3, <1>4 DEF Next

(* What the threads' flags, the callers' steps and the reaper's list say of  *)
(* a descriptor agrees for ever.                                             *)
THEOREM Invariance == Spec => []IInv
<1> QED
  BY InitIInv, NextIInv, PTL DEF Spec

(* No descriptor is freed twice by join, detach, a failing create and the    *)
(* reaper together, unless the application both joins and detaches it.       *)
THEOREM ThreadFreedOnce == Spec => []FreedOnce
<1>1. IInv => FreedOnce
  <2> SUFFICES ASSUME IInv, NEW t \in Thr, ~Abused(t)
               PROVE  /\ gc[t] <= 1
                      /\ mem[t] = "freed" => gc[t] = 0 /\ Releasers(t) = {} /\ t \notin list
    BY DEF FreedOnce
  <2>1. QueuedOnce(t) /\ FlagsFit(t) /\ gc[t] \in Nat
    BY DEF IInv, ThreadType
  <2>2. mem[t] = "freed" => Releasers(t) = {}
    BY DEF IInv, HeldOnce, Held, Releasers
  <2> QED
    BY <2>1, <2>2 DEF QueuedOnce, FlagsFit
<1> QED
  BY Invariance, <1>1, PTL

(* What was destroyed has left the list of threads and set THREAD_DONE. *)
ReapedHasReleased ==
  \A t \in destroyed : t \notin list /\ run[t] \in {"halexit", "gone", "post"}

(* The reaper never takes a descriptor from under a thread that still runs   *)
(* its function, whatever the application does.  It may take one whose       *)
(* thread has its semaphore still to post or phal_thread_exit still to call: *)
(* that DestroyedHasExited denies and the code does not prevent.             *)
THEOREM ThreadReapedHasReleased == Spec => []ReapedHasReleased
<1>1. IInv => ReapedHasReleased
  BY DEF IInv, FlagsFit, ReapedHasReleased
<1> QED
  BY Invariance, <1>1, PTL
===============================================================================
