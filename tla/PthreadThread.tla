----------------------------- MODULE PthreadThread ----------------------------
(*****************************************************************************)
(* The life of a thread descriptor: pthread_create, pthread_exit, _join,     *)
(* _detach and the reaper (rthread_thread.c, rthread_internal.c).  A section *)
(* under a spin lock is one step; donesem is a counting semaphore, which is  *)
(* what PthreadSem shows of _sem_wait and _sem_post.                         *)
(*****************************************************************************)
EXTENDS Integers

CONSTANTS
  Thr,         \* the descriptors that malloc can return; each is used once
  Callers,     \* application threads that create, join and detach others
  NoThr        \* no descriptor

ASSUME NoThrAssumption == NoThr \notin Thr

VARIABLES
  mem,         \* the memory of each descriptor
  flags,       \* thread->flags
  list,        \* _thread_list
  gc,          \* _thread_gc_list: how often each descriptor is on it
  donesem,     \* thread->donesem
  run,         \* the step of the thread itself
  destroyed,   \* phal_thread_destroy was called for these
  cpc,         \* the step of each caller
  arg,         \* the descriptor the caller's step is about
  uses         \* what the application has asked for: join, detach

vars == <<mem, flags, list, gc, donesem, run, destroyed, cpc, arg, uses>>

Init ==
  /\ mem = [t \in Thr |-> "fresh"]
  /\ flags = [t \in Thr |-> {}]
  /\ list = {}
  /\ gc = [t \in Thr |-> 0]
  /\ donesem = [t \in Thr |-> 0]
  /\ run = [t \in Thr |-> "none"]
  /\ destroyed = {}
  /\ cpc = [c \in Callers |-> "idle"]
  /\ arg = [c \in Callers |-> NoThr]
  /\ uses = [t \in Thr |-> {}]

CGoto(c, l) == cpc' = [cpc EXCEPT ![c] = l]
RGoto(t, l) == run' = [run EXCEPT ![t] = l]

(* _rthread_free: onto the list of those to be reaped. *)
Free(t) == gc' = [gc EXCEPT ![t] = @ + 1]

-------------------------------------------------------------------------------
(* _rthread_reaper, called at the end of join and detach ("reap") and at the *)
(* start of create ("c_reap").                                               *)
Reapable == {t \in Thr : gc[t] > 0 /\ "done" \in flags[t]}

(* Faulty variant: the descriptor is left on the list. *)
ReapTake_KeepsEntry(c) ==
  /\ cpc[c] \in {"reap", "c_reap"}
  /\ \E t \in Reapable :
       /\ arg' = [arg EXCEPT ![c] = t]
       /\ CGoto(c, IF cpc[c] = "reap" THEN "destroy" ELSE "c_destroy")
  /\ UNCHANGED <<mem, flags, list, gc, donesem, run, destroyed, uses>>

ReapTake(c) ==
  /\ cpc[c] \in {"reap", "c_reap"}
  /\ \E t \in Reapable :
       /\ gc' = [gc EXCEPT ![t] = @ - 1]
       /\ arg' = [arg EXCEPT ![c] = t]
       /\ CGoto(c, IF cpc[c] = "reap" THEN "destroy" ELSE "c_destroy")
  /\ UNCHANGED <<mem, flags, list, donesem, run, destroyed, uses>>

(* phal_thread_destroy and free, then the scan starts again. *)
ReapDestroy(c) ==
  /\ cpc[c] \in {"destroy", "c_destroy"}
  /\ destroyed' = destroyed \cup {arg[c]}
  /\ mem' = [mem EXCEPT ![arg[c]] = "freed"]
  /\ CGoto(c, IF cpc[c] = "destroy" THEN "reap" ELSE "c_reap")
  /\ UNCHANGED <<flags, list, gc, donesem, run, arg, uses>>

ReapEnd(c) ==
  /\ cpc[c] \in {"reap", "c_reap"}
  /\ Reapable = {}
  /\ CGoto(c, IF cpc[c] = "reap" THEN "idle" ELSE "c_alloc")
  /\ arg' = [arg EXCEPT ![c] = NoThr]
  /\ UNCHANGED <<mem, flags, list, gc, donesem, run, destroyed, uses>>

-------------------------------------------------------------------------------
(* pthread_create *)
Create(c) ==
  /\ cpc[c] = "idle"
  /\ CGoto(c, "c_reap")
  /\ UNCHANGED <<mem, flags, list, gc, donesem, run, destroyed, arg, uses>>

CreateAlloc(c, t, f) ==
  /\ cpc[c] = "c_alloc" /\ mem[t] = "fresh"
  /\ mem' = [mem EXCEPT ![t] = "live"]
  /\ flags' = [flags EXCEPT ![t] = f]
  /\ list' = list \cup {t}
  /\ arg' = [arg EXCEPT ![c] = t]
  /\ CGoto(c, "c_start")
  /\ UNCHANGED <<gc, donesem, run, destroyed, uses>>

(* malloc fails: ENOMEM. *)
CreateNoMem(c) ==
  /\ cpc[c] = "c_alloc"
  /\ CGoto(c, "idle")
  /\ UNCHANGED <<mem, flags, list, gc, donesem, run, destroyed, arg, uses>>

(* phal_thread_create succeeds, or the descriptor is taken back. *)
CreateStart(c) ==
  /\ cpc[c] = "c_start"
  /\ \/ RGoto(arg[c], "user") /\ CGoto(c, "idle") /\ UNCHANGED <<mem, list>>
     \/ /\ list' = list \ {arg[c]}
        /\ mem' = [mem EXCEPT ![arg[c]] = "freed"]
        /\ CGoto(c, "idle") /\ UNCHANGED run
  /\ arg' = [arg EXCEPT ![c] = NoThr]
  /\ UNCHANGED <<flags, gc, donesem, destroyed, uses>>

-------------------------------------------------------------------------------
(* pthread_exit in the thread, after cleanup functions and destructors;      *)
(* _rthread_release; phal_thread_exit, which reads thread->tib_tid.          *)
Exit(t) ==
  /\ run[t] = "user"
  /\ list' = list \ {t}
  /\ RGoto(t, "release")
  /\ UNCHANGED <<mem, flags, gc, donesem, destroyed, cpc, arg, uses>>

(* Faulty variant: nobody is told. *)
ReleaseFlags_NoPost(t) ==
  /\ run[t] = "release"
  /\ \/ "detached" \in flags[t] /\ RGoto(t, "selffree") /\ UNCHANGED flags
     \/ /\ "detached" \notin flags[t]
        /\ flags' = [flags EXCEPT ![t] = @ \cup {"done"}]
        /\ RGoto(t, "halexit")
  /\ UNCHANGED <<mem, list, gc, donesem, destroyed, cpc, arg, uses>>

ReleaseFlags(t) ==
  /\ run[t] = "release"
  /\ \/ "detached" \in flags[t] /\ RGoto(t, "selffree") /\ UNCHANGED flags
     \/ /\ "detached" \notin flags[t]
        /\ flags' = [flags EXCEPT ![t] = @ \cup {"done"}]
        /\ RGoto(t, "post")
  /\ UNCHANGED <<mem, list, gc, donesem, destroyed, cpc, arg, uses>>

ReleaseFree(t) ==
  /\ run[t] = "selffree"
  /\ Free(t)
  /\ RGoto(t, "halexit")
  /\ UNCHANGED <<mem, flags, list, donesem, destroyed, cpc, arg, uses>>

ReleasePost(t) ==
  /\ run[t] = "post"
  /\ donesem' = [donesem EXCEPT ![t] = @ + 1]
  /\ RGoto(t, "halexit")
  /\ UNCHANGED <<mem, flags, list, gc, destroyed, cpc, arg, uses>>

HalExit(t) ==
  /\ run[t] = "halexit"
  /\ RGoto(t, "gone")
  /\ UNCHANGED <<mem, flags, list, gc, donesem, destroyed, cpc, arg, uses>>

-------------------------------------------------------------------------------
(* The application joins or detaches a thread once it has its descriptor,    *)
(* and does one of the two; but "someone stupid or evil" may also detach it  *)
(* while a join of it is under way.                                          *)
Known(t) == run[t] # "none"
Joining(t) == \E c \in Callers : arg[c] = t /\ cpc[c] \in {"j_wait", "j_free"}
MayUse(t, u) ==
  \/ uses[t] = {}
  \/ u = "detach" /\ uses[t] = {"join"} /\ Joining(t)

(* pthread_join: the unlocked test of the flags, the wait, the test again. *)
Join(c, t) ==
  /\ cpc[c] = "idle" /\ Known(t) /\ mem[t] = "live" /\ MayUse(t, "join")
  /\ uses' = [uses EXCEPT ![t] = @ \cup {"join"}]
  /\ arg' = [arg EXCEPT ![c] = t]
  /\ CGoto(c, IF "detached" \in flags[t] THEN "reap" ELSE "j_wait")
  /\ UNCHANGED <<mem, flags, list, gc, donesem, run, destroyed>>

JoinWait(c) ==
  /\ cpc[c] = "j_wait" /\ donesem[arg[c]] > 0
  /\ donesem' = [donesem EXCEPT ![arg[c]] = @ - 1]
  /\ CGoto(c, "j_free")
  /\ UNCHANGED <<mem, flags, list, gc, run, destroyed, arg, uses>>

(* Faulty variant: only the detached are freed. *)
JoinFree_Inverted(c) ==
  /\ cpc[c] = "j_free"
  /\ IF "detached" \in flags[arg[c]] THEN Free(arg[c]) ELSE UNCHANGED gc
  /\ CGoto(c, "reap")
  /\ UNCHANGED <<mem, flags, list, donesem, run, destroyed, arg, uses>>

JoinFree(c) ==
  /\ cpc[c] = "j_free"
  /\ IF "detached" \in flags[arg[c]] THEN UNCHANGED gc ELSE Free(arg[c])
  /\ CGoto(c, "reap")
  /\ UNCHANGED <<mem, flags, list, donesem, run, destroyed, arg, uses>>

(* pthread_detach *)
Detach(c, t) ==
  /\ cpc[c] = "idle" /\ Known(t) /\ mem[t] = "live" /\ MayUse(t, "detach")
  /\ uses' = [uses EXCEPT ![t] = @ \cup {"detach"}]
  /\ arg' = [arg EXCEPT ![c] = t]
  /\ \/ "detached" \in flags[t] /\ CGoto(c, "reap") /\ UNCHANGED flags
     \/ /\ "detached" \notin flags[t] /\ "done" \in flags[t]
        /\ CGoto(c, "d_free") /\ UNCHANGED flags
     \/ /\ flags[t] = {}
        /\ flags' = [flags EXCEPT ![t] = {"detached"}]
        /\ CGoto(c, "reap")
  /\ UNCHANGED <<mem, list, gc, donesem, run, destroyed>>

DetachFree(c) ==
  /\ cpc[c] = "d_free"
  /\ Free(arg[c])
  /\ CGoto(c, "reap")
  /\ UNCHANGED <<mem, flags, list, donesem, run, destroyed, arg, uses>>

-------------------------------------------------------------------------------
CallerStep(c) ==
  \/ ReapTake(c) \/ ReapDestroy(c) \/ ReapEnd(c)
  \/ \E t \in Thr, f \in {{}, {"detached"}} : CreateAlloc(c, t, f)
  \/ CreateNoMem(c) \/ CreateStart(c)
  \/ JoinWait(c) \/ JoinFree(c) \/ DetachFree(c)

ThreadStep(t) ==
  Exit(t) \/ ReleaseFlags(t) \/ ReleaseFree(t) \/ ReleasePost(t) \/ HalExit(t)

Next ==
  \/ \E c \in Callers : Create(c) \/ CallerStep(c)
  \/ \E c \in Callers, t \in Thr : Join(c, t) \/ Detach(c, t)
  \/ \E t \in Thr : ThreadStep(t)

Spec == Init /\ [][Next]_vars

(* Calls go on once made, and threads come to their end. *)
FairSpec ==
  /\ Spec
  /\ \A c \in Callers : WF_vars(CallerStep(c))
  /\ \A t \in Thr : WF_vars(ThreadStep(t))

-------------------------------------------------------------------------------
TypeOK ==
  /\ mem \in [Thr -> {"fresh", "live", "freed"}]
  /\ flags \in [Thr -> SUBSET {"done", "detached"}]
  /\ list \subseteq Thr /\ destroyed \subseteq Thr
  /\ gc \in [Thr -> 0..2] /\ donesem \in [Thr -> 0..1]
  /\ run \in [Thr -> {"none", "user", "release", "selffree", "post", "halexit", "gone"}]
  /\ cpc \in [Callers -> {"idle", "c_reap", "c_destroy", "c_alloc", "c_start", "reap",
                          "destroy", "j_wait", "j_free", "d_free"}]
  /\ arg \in [Callers -> Thr \cup {NoThr}]
  /\ uses \in [Thr -> SUBSET {"join", "detach"}]

(* How many threads are about to put t on, or have taken it from, the list   *)
(* of those to be reaped: each entry ends in one free.                       *)
Releasers(t) ==
  {c \in Callers : arg[c] = t /\ cpc[c] \in {"j_free", "d_free", "destroy", "c_destroy"}}

(* Joined by one and detached by another. *)
Abused(t) == uses[t] = {"join", "detach"}

(* A descriptor is freed once: it is never queued twice for the reaper, nor  *)
(* queued or taken by anybody when it is free already.  A thread that is     *)
(* detached while it is being joined is the exception.                       *)
FreedOnce ==
  \A t \in Thr : Abused(t) \/
    /\ gc[t] <= 1
    /\ mem[t] = "freed" => gc[t] = 0 /\ Releasers(t) = {} /\ t \notin list

(* Every join of a thread that nobody detaches returns. *)
JoinReturns ==
  \A c \in Callers : cpc[c] = "j_wait" ~>
    (cpc[c] = "idle" \/ \E t \in Thr : arg[c] = t /\ Abused(t))

(* What is joined, and detached by nobody, is freed in the end. *)
JoinedIsFreed ==
  \A t \in Thr : [](uses[t] = {"join"} /\ "detached" \notin flags[t]
                      => <>(mem[t] = "freed" \/ Abused(t)))

(* "Called after the thread exited, to free up any potential resources":     *)
(* phal_thread_destroy is called for threads that are past phal_thread_exit. *)
DestroyedHasExited == \A t \in destroyed : run[t] = "gone"

(* "the thread will clean up itself": a detached thread that has exited is   *)
(* not left on the list by the reaper.                                       *)
DetachedIsReaped ==
  [][ \A c \in Callers : ReapEnd(c) => \A t \in Thr : run[t] = "gone" => gc[t] = 0 ]_vars
===============================================================================
