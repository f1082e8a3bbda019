# Biosphere: a TLA+ verification project

Biosphere is a toolkit for Nintendo Switch homebrew. Its own code is

* **libbio** (`src/libbio`), a C++ runtime and system library: start-up code, wrappers of kernel
  calls, IPC, threads and locks, memory, file system devices, dynamic loading, logging and
  input;
* **pthread** (`src/pthread`), OpenBSD's rthread library ported onto a small abstraction layer,
  `phal.h`;
* **flora** (`src/flora`), a daemon on the console that takes log messages over IPC, and
  **fauna** (`src/fauna`), the viewer on a PC that gets them over TCP.

openlibm, xz, QuickJS, the NuGet packages and libusbK are vendored and are left aside.

This project starts with what is hardest to test, the two families of locks, and works outwards
to threads, memory, sessions, files and the log connection. Contents: 1 inventory, 2 plan, 3
modules and their correspondence to the code, 4 runs, 5 bounds, fairness and deadlock, 6 proofs,
7 findings, 8 what is not modelled.

## 1. Inventory

| Part | State | Operations | What is hard | What makes it correct |
|---|---|---|---|---|
| `os::Mutex`, `os::ConditionVariable` (`os_Mutex.cpp`) | a 32-bit word: owner handle and listener bit; the kernel's waiters | `Lock` `TryLock` `Unlock` `Wait(Timeout)` `WakeOne` `WakeAll` | each atomic instruction and kernel call interleaves; hand-over against time-out | exclusion, nobody stranded in the kernel, the pair is a monitor |
| `os::RecursiveMutex` | word, owner handle, counter | `Lock` `TryLock` `Unlock` | fields behind the lock | exclusion, the counter is that of the owner |
| pthread mutex (`rthread_mutex.c`) | three-valued word, owner, count, a `phal` semaphore | `lock` `timedlock` `trylock` `unlock` | word and sleep are separate; unlock writes the word twice; deadlines | exclusion, no orphan lock, no lost wake-up |
| pthread condition variable (`rthread_cond.c`) | a `phal` semaphore | `wait` `timedwait` `signal` `broadcast` | unlocking and sleeping must look atomic; two locks in two orders; recursive mutex | atomic wait, the mutex is free while it sleeps, returns with the mutex |
| POSIX semaphore (`rthread_sem.c`) | value, waiter count, a `phal` semaphore | `sem_wait` `_timedwait` `_trywait` `_post` | barging threads, deadlines against posts | it is a counting semaphore; no wake-up is lost |
| threads (`rthread_thread.c`, `rthread_internal.c`) | descriptors, thread list, garbage list, done semaphores | create, exit, join, detach, reaper | who frees what, when, against an exit in progress | freed once, not under the thread, in the end |
| barrier (`rthread_barrier.c`) | in, out, generation | `wait` `destroy` | chain of signals through overlapping generations | nobody passes alone, destroyed when nobody uses it |
| read-write lock (`rthread_rwlock.c`) | owner, readers, queue of writers, spin lock | `rdlock` `wrlock` `try..` `timed..` `unlock` | unfinished port: sleeps and wake-ups missing | a writer is alone |
| thread-specific data (`rthread_tls.c`) | keys under a spin lock, a list of data per thread | create, delete, get, set; destructors at exit | key reuse, destructors that set data again or use the keys | nothing set before the last round is left, the exit ends |
| once, spin locks | mutex and state; lock and owner | | | |
| `os::Thread`, `os::Event` | thread block; two handles | create, start; wait, fire, clear | life of the block against the thread; deadline arithmetic | |
| `os` memory (`os_Memory.cpp`) | a hint shared by all threads; address and handle of each object | reserve, map, unmap, destroy | no lock: two searches may find the same range | what is mapped is what the objects know; the search ends |
| ipc: messages (`ipc_Request.cpp`, `ipc_Types.cpp`) | the thread's buffer of 64 words | write a request, read the answer | counts, padding and offsets that two sides compute apart | both sides find the same fields |
| ipc: sessions, sm (`ipc_Session.cpp`, `sm_Port.cpp`) | session handle, type, object id; the port | create, convert, out-sessions, close, move; initialise, finalise, get | handles whose numbers are used again | an object closes its own handle and nobody else's; nothing leaks |
| fs | mount table, descriptor table, offsets | mount, open, read, write, seek, close | descriptor numbers after a close | a descriptor names its file |
| ld | modules, dependencies, reference counts | `dlopen` `dlsym` `dlclose` | partial failure, double delete | a module lives as long as its references |
| flora, fauna | a TCP connection | write, read records | several threads write, reads come short | what was written is shown |
| crt0, svc, fsp, ro, hid, input, log, err, fatal | start-up values, single requests | | | |

How they interact. Everything in libbio sits on `svc`. `os::Mutex` is newlib's lock and the lock
of its users. pthread knows nothing of libbio: it calls `phal_*` (semaphores, threads, thread
id), for which `crt0_Newlib.cpp` has stubs that answer `ENOSYS`. Inside pthread the condition
variable calls the mutex, the barrier and `pthread_once` call both, threads use the semaphores
for `join`. Applications reach the rest by calls; only flora and fauna exchange messages. The
hazards in `PROJECT.json` are listed at their lines.

## 2. Plan

Done, in this order: `BioSync` with `Monitor`; `PthreadMutex`; `PthreadCond` on top of it;
`PthreadSem` with `CountingSem`; `PthreadThread`; `PthreadBarrier`; `PthreadRwlock`;
`PthreadTls`; `IpcMessage` and `IpcSession` with sm; `FsDevice` and `FsPath`; `OsMemory`;
`FloraLog`; proofs for the safety of every module.

Every invariant, action property and refinement that a passing run checks is now a theorem. What
is left to the runs is liveness (section 6).

## 3. Modules

Names of actions are those of the functions, with the step of the function where one call is
several actions. `pc` holds the step of each thread. Definitions whose name has a suffix
(`Unlock_Store`) are faulty variants of the definition that follows them: they are used by no
specification and show which error each property would catch.

**Monitor** is abstract: threads are out, in, waiting or woken; at most one is in; to wait is
one step; a wake reaches only those who wait.

**BioSync** (`os_Mutex.cpp`). `word` is the mutex as `[owner, listener]`, the listener being the
bit `0x40000000`. `LockCas`, `LockMark` and `ArbitrateLock` are the two compare-and-swaps and
the kernel call in the loop of `Lock`, `cur` what the first returned. `Unlock` is the
compare-and-swap, `ArbitrateUnlock` the kernel call after it. `Wait`, `WaitReturn` and
`WaitTimedOut` are `WaitTimeout` (the last one calls `Lock`); `WakeOne` and `WakeAll` are
`Wake`. The kernel is external and modelled from its use: `ArbitrateLock` sleeps only if the
word is what the caller says, whoever gives the mutex up hands it to one waiter of the kernel's
choice and keeps the bit if more are waiting, a signalled thread waits for the mutex like one in
`ArbitrateLock`. Threads are those made with `os::Thread`: each has its own handle, none has
`0xFFFFFFFF`, which is what a thread without block would use. The holder does not lock again:
`Lock` and `TryLock` then return without any effect (and one `Unlock` undoes both), which would
be a step that changes nothing.

**PthreadMutex** (`rthread_mutex.c`). `lock`, `owner` and `count` are the fields. `Try`, `Cas`
and `Xchg` are the three accesses of the lock path, `Own` the assignment of the owner,
`SemLock`, `SemWait`, `SemUnlock` the wait, `UnlockSub`, `UnlockStore`, `UnlockSignal` the three
parts of the unlock, `SelfWait` the wait of a non-recursive owner that locks again. `TryLock`
and `TryLockAgain` are `pthread_mutex_trylock` by another thread and by the owner. The semaphore
of `phal.h` is external: a lock and sleepers; a signal wakes one of those asleep and is not
remembered, which is what the header asks for. The spinning between the first and second
compare-and-swap changes nothing and is left out; so are the unlock by a thread that is not the
owner and the relock of a strict mutex, which abort or return without effect. All accesses are
sequentially consistent, which is what C11 atomics give the word; `owner` is a plain field.

**PthreadCond** (`rthread_cond.c`) extends `PthreadMutex`: a wait runs the mutex's own unlock
and lock, step by step, and `ret` says where the thread goes on. `csem` is the lock of the
second semaphore. `client` says which threads wait, from where signals are sent and which types
of mutex are used; one client waits for nothing and uses the mutex alone, so that the run of
this module covers `PthreadMutex` too.

**CountingSem** is abstract: a number of tokens that goes up or down by one.

**PthreadSem** (`rthread_sem.c`). `value` is the field; `waiting` is the set of threads that
`waitcount` counts. `Test` is the first look, `Sleep` the wait, `Retest` the condition of the
loop and what follows it, `Add` and `Signal` the post.

**PthreadThread** (`rthread_thread.c`, `rthread_internal.c`). `mem` is the memory of a
descriptor, `gc` how often it is on `_thread_gc_list`, `run` the step of the thread in its exit,
`cpc` and `arg` the step of each caller and the descriptor it is at. Sections under a spin lock
are one step; reads of the flags without the lock, as in `pthread_join`, are steps of their own.
`donesem` is a counting semaphore, which is what `PthreadSem` establishes. A descriptor is used
once, so that a late use of a freed one is seen. An application joins or detaches each thread
once, except that it may detach one that is being joined, the case the comment in `pthread_join`
is about: `Abused` names such a thread, and the properties leave it out.

**PthreadBarrier** (`rthread_barrier.c`). What is done under the barrier's mutex is one step,
and to wait on the condition variable gives the mutex up and sleeps at once; a signal wakes any
of the sleepers, since the layer promises no order. `Unlocked` is the end of
`pthread_mutex_unlock`: a thread that found the mutex contended has stored `UNLOCKED`, so that
others may take it, and has its semaphore still to signal. It is the algorithm of the barrier
that is checked here, for safety; what the mutex and the condition variable under it lack is the
subject of their own modules. `entered`, `passed` and `serials` are history; `Total` counts over
all threads how often something happened, as the number of pairs of a thread and one of its
times. `MayDestroy` is the rule of use that a barrier is destroyed by one that has returned,
when nobody is to come any more.

**PthreadRwlock** (`rthread_rwlock.c`) follows the code as it is: `spin` is the thread that
returned, or spins, with the spin lock held.

**PthreadTls** (`rthread_tls.c`). `used`, `destructor` and `hint` are the table of keys,
`rkeyslock` its spin lock, `storage` the list of each thread, `tlspc` the step of each. `Lock`,
`Skip`, `CallDestructor`, `Return`, `Round` and `Free` are the loops of
`_rthread_tls_destructors`; a destructor is application code and may do whatever a thread may,
among it what takes the spin lock. Of a datum the model keeps in which round it was set and
whether its key has been deleted since.

**IpcMessage** (`ipc_Types.cpp`, `ipc_Request.cpp`). A request is the record of its counts.
`PrepareCommandHeader` writes header, handles, descriptors, sizes, receive list and the domain
header into the buffer in the order of the code, a word being a name and a number;
`ProcessRequest` adds the raw data, and `ProcessResponse` reads an answer. `Server` and `Answer`
are external: the other side, which goes by the counts in the header as the kernel's format
prescribes. A request is one that fits into the buffer, since `PrepareCommandHeader` writes
without a check, and whose object ids, if it has any, begin a word of the buffer: the code puts
them at the byte behind the data, which the model, that counts words, has only for data of whole
words.

**IpcSession** (`ipc_Session.cpp`, `sm_Port.cpp`). `obj` is the handle and type of each object,
`kern` the kernel's table of handles, whose numbers are given out again. `Connect`, `Probe`,
`SendPid` and `InitializeReturns` are `sm::Initialize`, which every `Create` calls first; then
come `GetService` and `ConvertToDomain`. `born`, `service` and `moved` are history. A `Move` is
an action, but it loses the handle (`Claim` takes it by value), so the properties are stated of
programs that moved nothing.

**FsDevice** (`fs_Device.cpp`, `fs_FspImpl.cpp`). `devices` and `files` are the two lists; a
descriptor is an index of the second plus 200. `Open` is `_open_r` with `OpenFile` of the
device, `OpenFails` an `O_CREAT` that makes the file and cannot open it, and so on. `ToInt` is
the conversion to `int` when `Seek` is called with an `off_t` or a `u64`; `Half` is 2^31.
`mounted` and `held` are history: what each name stands for, and what the program knows of each
of its descriptors, `sure` being whether it can say where the descriptor stands. It cannot after
a write, which does not move the offset, after a distance that `int` does not hold, and after a
seek from an end that the service did not tell (`GetSize`, whose result is not looked at). The
file system service is external and a file is its size. `Lengths` and `Moves` are what is read,
written and sought; `MaxPos` bounds the file and the position.

**FsPath** (`fs_Device.cpp`) is `_inner_ProcessPath`. One step is one round of its loop over the
characters: `read` is the counter, `imount` the length of the name so far or -1 behind the
colon, `mount` and `processed` the two results. `Slash`, `Colon` and `Letter` are the branches,
`Return` the end of the path. The reference, `Splits` and `Kept`, says by positions what the
loop is meant to do: the name before the colon, and what is behind the colon with every run of
slashes as one.

**OsMemory** (`os_Memory.cpp`). `curaddr` is the hint that all threads share, `addr` the local
variable of a search. `Query` is one round of the loop of `ReserveVirtualMemory` with the kernel
call in it, `QueryFails` the round whose kernel call fails, which moves the hint all the same,
`MapMemory` the mapping, which the kernel refuses unless all of the range is free. Addresses
count pages. The search of `ReserveVirtualMemoryMap` is kept as its effect on the hint.

**FloraLog** (`flora_ILogService.cpp`, `flora_Log.cpp`, `Main.cpp`, `Program.cs`).
`SendLogHeader` and `SendString` are the three sends of a message, by one of several threads;
`ReadHeader`, `ReadLength` and `ReadText` the viewer. The connection is external: what was sent
arrives in order and in pieces, or the connection is lost. A send on it is whole or fails, since
the socket that `accept` returned has no timeout (the one of `SO_SNDTIMEO` is set on the
listening socket). `LogSpec` is the system, `FairLogSpec` adds the fairness of section 5. The
stream is a sequence of words, which stand for the fields. `torn` is history: two writes have
overlapped, or a read came short.

**MCServices**, **MCMemoryLog** and **MCPthreadObjects** put modules that share no state into
one run: `part`, which Init chooses, says which of them moves, and the others stay where they
are. They extend the modules, so the properties of the run are the very definitions that the
theorems are about. Where two modules would use the same name for different things, one of them
has the name with its own prefix (`MsgInit`, `TlsInit`, `FsInit`, `PathInit`, `LogInit`,
`BarrierInit`).

## 4. Runs

| Run | Instance | Shows |
|---|---|---|
| `bio_sync` | 3 threads, fair; 26,643 states | `MutualExclusion`, `WaitersAnnounced`, `OwnerIsAwake`, `ImplementsMonitor`, `QueuedThreadGetsMutex` |
| `pthread_cond` | 3 threads; the mutex alone, of all four types, count up to 1; with the variable, strict or recursive, everybody waits and signals; 192,208 states | of the mutex `NoOrphanLock`, `CountIsOwners`; of the variable `WaitIsAtomic`, `ReturnsWithMutex` |
| `pthread_mutex_stranded` | recursive mutex | violation of `NobodyLeftAsleep` (finding 1) |
| `pthread_cond_recursive` | that of `pthread_cond` | violation of `SleeperReleasedMutex` (finding 3) |
| `pthread_thread` | 2 callers, 2 descriptors, fair; 47,554 states | `FreedOnce`, `JoinReturns`, `JoinedIsFreed` |
| `pthread_thread_detach` | same | violation of `DetachedIsReaped` (finding 2) |
| `pthread_thread_destroy` | same | violation of `DestroyedHasExited` (finding 4) |
| `pthread_sem` | 3 threads, value up to 2, fair; 130,233 states | `NoWakeupLost`, `ImplementsCountingSem`, `TokenIsTaken` |
| `pthread_objects` | thread-specific data: 2 threads, 2 keys, 2 rounds, fair; read-write lock: 4 threads; barrier: 4 threads, threshold 2 or 4, 3 rounds; 1,096,715 states | `LeftOversAreLate`, `ExitEnds`; `WriterIsAlone`; `NobodyPassesAlone`, `GenerationsAreComplete`, `DestroyWaitsForLeavers` |
| `pthread_barrier_destroy` | 2 threads, threshold 2, 1 round | violation of `DestroyedIsUnused` (finding 5) |
| `services` | sessions: 2 objects and the port, 3 handles, 5 kernel sessions; messages: none or some of everything, every alignment; descriptors: one name in two spellings, 2 file systems, 3 descriptors, sizes up to 2; every path of up to 7 characters; 1,344,974 states | `HandleIsOwn`, `NothingElseLeaks`, `PortIsOpen`; `RequestArrives`, `ReplyArrives`; `DescriptorNamesItsFile`, `OffsetIsPosition`; `PathIsSplit` |
| `memory_log` | memory: 2 threads, 2 objects of 1 or 2 pages, 12 pages with two regions and a page in use, fair; log: 2 servers, 2 messages with texts of length 0 and 2, fair; 61,641 states | `MappingIsKnown`, `SearchEnds`; `ShownWasWritten`, `EveryLogIsShown` |

What an object is initialised with, the type of a mutex or the threshold of a barrier, is a
variable that Init chooses and nothing changes, so that one run covers several.

Several properties say what is left after a known loss, and each names it: `HandleIsOwn` and its
companions leave out sessions that were moved, `FreedOnce` threads that are both joined and
detached, `DescriptorNamesItsFile` descriptors above one that was closed, `OffsetIsPosition`
what comes after a write or after a distance that `int` does not hold, `PathIsSplit` what
slashes before the name leave in the path, `DestroyWaitsForLeavers` the end of the mutex's
unlock, and `ShownWasWritten` and `EveryLogIsShown` overlapping writes and short reads. Section
7 says what happens in these cases.

## 5. Bounds, fairness, deadlock

Three threads are enough for an owner, one that is about to sleep and one that barges in, or for
a sleeper, a poster and a barger; the barrier has four, so that two generations of two overlap.
`MaxCount = 1` reaches the limit of the recursion count, `MaxValue = 2` two tokens for two
sleepers. With `Rounds = 3` a thread can be a whole generation ahead of the slowest. Two keys
and three creations make a number be used again, two rounds and three data let a destructor set
data in the last round. Three handles for three objects and five kernel sessions give every
number out twice. With three descriptors one closes in front of, between or behind others; with
`Half = 2` the distance 2 does not fit an `int` and the others do; seven characters hold slashes
before, in and behind a name, two colons and a run of slashes. The twelve pages have a block
that is too small, one that is large enough only with the page the search skips, and room on
both sides of a region. `MaxValue` and `Rounds` are guards of `Post` and of the barrier's
arrivals. Symmetry of threads, and of session objects, is used in runs without liveness only;
they are treated alike there, and no property names one.

Fairness. `BioSync`: threads keep running (weak fairness of each step inside a call, of `Unlock`
and of the return from a wait), and the kernel's queue, first come first served within a
priority, passes nobody over for ever (strong fairness of the hand-over to each thread).
`PthreadSem`: a thread that has the layer's lock goes on; the lock is not withheld from one
thread for ever. `PthreadThread`: calls once made go on and every thread's function ends. The
barrier has none, and no liveness is claimed of it.  `PthreadTls`: destructors return, and an
exiting thread gets the spin lock, which the others take a bounded number of times. `OsMemory`:
a search, which waits for nobody, keeps running. `FloraLog`: the viewer polls for ever and a
connection that holds delivers. No caller is obliged to lock, wait, post or signal, and no
deadline is obliged to pass.

Deadlock is checked for `BioSync` and `PthreadThread`. It is not for the others because these
systems may stop: a sleeper on a mutex whose wake-up was lost or on one that it owns, a wait on
a semaphore that nobody posts, a condition variable used with two waiters, a barrier after its
last round, the read-write lock after a return with the spin lock, threads that have all exited,
a request that was answered, sessions that were made up to the bound, a path that was split or
refused, a connection with nothing left to say.

## 6. Proofs

TLAPS proves these for every set of threads and every value of the other constants, from the
assumptions that the modules name:

* `NoThread`, `NoThr`, `NoObject` and the like are not members of the sets they stand outside
  of; mutex types are among the four and clients are made of threads, places and types; bounds
  are natural numbers;
* the set of threads is finite where threads are counted (`PthreadSem`, `PthreadBarrier`,
  `PthreadRwlock`); barrier thresholds are above 0, as `pthread_barrier_init` requires; there is
  at least one key and one round of destructors;
* handles are numbers other than 0; addresses are natural numbers, the address space does not
  start at 0 and no region is empty; lengths are natural numbers and seek distances integers;
* requests and answers fit into the buffer, and a request with object ids has raw data of whole
  words. The buffer's size is any;
* paths are sequences of characters, among which is the slash; texts have a length.

TLC evaluates all of them in the runs. The invariants:

* `BioSyncProofs`: `TypeCorrect`, `MutexExcludes`, `NoStrandedWaiter`, `MutexOwnerIsAwake` and
  the refinement `BioSyncImplementsMonitor`. The inductive invariant `IInv` adds to the
  properties that a holder is the owner in the word (`HolderOwns`), that the kernel's waiters
  are exactly the threads asleep for the mutex (`WaitersAsleep`), that an announced owner was an
  owner (`MarkedWordWasHeld`), that a free word has no listener bit and that the bit which
  `Unlock` saw is there when it calls the kernel. Without the last one a hand-over could take
  the mutex from a thread that never gave it up. Every action of `BioSync`, with `IInv`, is a
  step of `Monitor` or leaves its state alone.
* `PthreadCondProofs`. Of the mutex used alone, `PthreadMutexExcludes`,
  `PthreadMutexNoOrphanLock` and `PthreadMutexCount`: `IInv` adds where the owner can be, that a
  call in progress returns to where its kind of call does, and that only recursive mutexes
  count. It is `Holds`, which spans the steps between taking the word and writing the owner and
  between clearing the owner and the word, that makes exclusion inductive. Of mutex and
  condition variable together, for any clients, `CondMutexExcludes`, `CondNoOrphanLock`,
  `CondCount`, `CondWaitIsAtomic`, `CondReturnsWithMutex` and `CondLockedOnceIsReleased`, which
  is what is left of `SleeperReleasedMutex`. `CondIInv` says who made a call in progress and
  where it goes on (`CallsReturn`), at which steps, the mutex's own included, a thread has the
  lock of `cond->sem` (`CondSemHeld`), at which steps a thread is the owner and which waiters
  stay owners (`OwnerIsAt`), how the count of such a waiter stands to the one it began with
  (`SavedCount`), and that a waiter that locks the mutex again has no deadline any more
  (`RelockHasNoDeadline`). Without the last one a wait could return without the mutex; without
  `CondSemHeld` nothing keeps a signal out of a wait.
* `PthreadSemProofs`: `TypeCorrect`, `SemLockIsExclusive`, `SemWaitCount`,
  `SemImplementsCountingSem` from `IInv`; `SemNoWakeupLost` from `WInv`, which adds that a
  thread goes to sleep only when there is no token. Its counting argument rests on lemmas about
  how the set `OnTheirWay` grows, shrinks or swaps a member.
* `PthreadThreadProofs`: `ThreadFreedOnce` and `ThreadReapedHasReleased`, which is what is left
  of `DestroyedHasExited`: the thread has set `THREAD_DONE`, and may still have to post and to
  exit. Both are for any number of threads and callers. `IInv` says what the flags of a thread,
  its place in the list and its semaphore tell of the step it is at (`FlagsFit`), what a
  caller's step tells of its descriptor (`CallFits`), that a descriptor is queued at most once
  and not before its thread is done or somebody has joined or detached it (`QueuedOnce`), and
  that a caller at a step that will queue or free a descriptor is the only one (`HeldOnce`). The
  last two speak of threads that were not both joined and detached. Without `HeldOnce` two
  callers could each take the descriptor to the reaper.
* `PthreadBarrierProofs`: `BarrierNobodyPassesAlone`, `BarrierGenerationsAreComplete` and
  `BarrierDestroyWaitsForLeavers`, for any finite set of threads, any threshold and any number
  of rounds. No order of wake-ups is assumed, and the end of an unlock may come at any time.
  `IInv` says that a thread inside has come once more than it has passed (`Visits`), that `in`
  counts those inside of the current generation and every arrival belongs to it or to a complete
  one (`Counts`), and, with as many threads as the threshold, that all have passed as many
  generations as are complete but for the leavers, who are in the last of them (`InStep`). The
  step that matters is the last arrival: then everybody is inside in the current generation, so
  there are no leavers of the one before and `out` can be set anew.
* `PthreadObjectsProofs`. Of the read-write lock `RwlockWriterIsAlone`, for any finite set of
  threads: `IInv` adds that `readers` is the number of readers inside, that a writer is the
  owner and that nobody reads while there is an owner, for the lock is handed to a thread that
  does not write yet. Of thread-specific data `TlsLeftOversAreLate`, for any threads, keys and
  rounds: `TlsIInv` adds that data which are not stale have a key in use (`FreshIsUsed`), so
  that no destructor is given to data set under an earlier key, and that what the scan has
  behind it and still has a destructor was set in the same round (`BehindIsLate`).
* `IpcProofs`. Of sessions `SessionHandleIsOwn`, `SessionNothingElseLeaks` and
  `SessionPortIsOpen`, for any number of objects and handles. `IInv` adds that no kernel session
  is behind two handles and none has a number not made yet (`SessionsDiffer`), that each object
  with a session of its own has one that no other has (`SessionIsOwn`, which includes the
  `Invalid` objects that may still become domains), that an object of a domain leads to its
  domain or to one that is gone (`SubIsOwn`), and where the call under way stands. All of it is
  stated of programs that have moved nothing. Of messages `RawDataFit`, `IpcRequestArrives` and
  `IpcReplyArrives`, for every request and answer that fits. `RawDataFit` is arithmetic:
  padding, domain header, data and object ids end before the sizes of the receive list begin,
  and the data are aligned to 16 bytes. `MsgInv` says that the buffer is `Laid` for the request
  once it was sent and `ReplyLaid` for the answer once there is one: where each field is. That
  the code writes this layout, and that it is enough for the other side to find every field, are
  two lemmas for each direction (`RequestIsLaid`, `ServerFinds`, `ReplyIsLaid`, `ClientFinds`),
  over lemmas on what a concatenation, a write and a slice leave where. Of flora and fauna
  `LogShownWasWritten`, for any number of threads and messages and texts of any length, with a
  connection that may be lost at any step. `LogIInv` holds while nothing is torn. `Framed` says
  of the stream, of any length, what follows the end of a message and each word of one; a
  message that a failed send left unfinished is the last, since nothing is sent afterwards. At
  most one thread is inside a `Write`, and what it sends next fits the last word (`WritersFit`);
  what the viewer expects next fits the word it read last (`ViewerFits`). It is the framing that
  needs no induction over the stream: each part looks at two neighbours, or at a length and the
  text behind it.
* `OsFsProofs`. Of memory `MemoryMappingIsKnown`, for any address space, regions and number of
  threads. Two searches may end at the same range; what keeps the second mapping out is the
  kernel, and what keeps an object from being mapped twice is `BusyIsUnmapped`: a thread inside
  `Map` has an object that no other thread has and that is not mapped. Of files
  `FsDescriptorNamesItsFile` and `FsOffsetIsPosition`, for any names, file systems, paths and
  number of descriptors. `FsIInv` adds that no two devices have the same name (`DevicesDiffer`)
  and that each is what its name stands for (`NamesStand`): without them `_inner_SearchDevice`
  might find another device than the one that was mounted last. `IntOf` says that a distance
  that fits an `int` of any width is not cut, and `MovingKeeps`, on which reads, writes and
  seeks rest, that only the descriptor that moved has moved. Of paths `FsPathIsSplit`, for every
  path over any characters. `PathIInv` is the loop's invariant: what was read so far splits at
  some first letter and colon as the reference says, `mount` is the name in it and `processed`
  is what the reference keeps of it, behind at most one slash from before the name
  (`ReadIsSplit`), with the slash that a run of slashes ends in decided by one character of
  look-ahead. A refusal needs the other direction, that no position further on could make a
  split of the whole path.

`LockIsExclusive` and `WaitCountIsWaiters` of `PthreadSem`, `MutualExclusion` of `PthreadMutex`
and the type invariants are proved where a theorem names them and are parts of inductive
invariants; no run repeats them.

Only model-checked: all liveness, which is out of the prover's reach (`QueuedThreadGetsMutex`,
`TokenIsTaken`, `JoinReturns`, `JoinedIsFreed`, `ExitEnds`, `SearchEnds`, `EveryLogIsShown`).
`Monitor` and `CountingSem` state no fairness, so the refinements are proved whole.

## 7. Findings

Where a text of the repository says otherwise, a run shows the violation:

1. `rthread_mutex.c:198`. A waiter looks at the word, then takes the semaphore's lock and
   sleeps. An unlock in between signals nobody, and the signal is not remembered.
2. `rthread_thread.c:232`. A detached thread queues itself without `THREAD_DONE`, and the reaper
   passes over it for ever.
3. `rthread_cond.c:105`. A wait is to unlock the user's mutex before it sleeps (comment at line
   101). With a recursive mutex locked twice the unlock only counts down, and the thread sleeps
   as the owner.
4. `rthread_thread.c:242`. `phal_thread_destroy` is called after the thread exited, says
   `phal.h:10`. A detach that sees `THREAD_DONE`, or a join that the post lets through, takes
   the thread to the reaper while it has its semaphore to post or `phal_thread_exit` to call.
5. `rthread_barrier.c:83`. `out` marks the exit of the threads (comment at line 129), and a
   barrier with `out` 0 is freed. A thread that has passed may still be in
   `pthread_mutex_unlock` (`rthread_mutex.c:289-292`) and signals a semaphore in freed memory.
   The trace needs two threads and one round.

Modelling met these too. The models behave as the code does, and the properties are stated of
what is left:

* `rthread_cond.c:124`. A waiter that was woken locks the mutex while it holds the lock of
  `cond->sem`; a second waiter, or a signal sent with the mutex held (as `pthread_barrier_wait`
  sends it), takes the two in the other order and both stop. No text of the repository says
  otherwise, and a client that avoids both cases takes the two locks in one order only, so no
  property is stated.
* `rthread_barrier.c:130`. One signal lets one thread go, and each that leaves signals the next.
  With a layer that wakes in any order, a thread that has come back for the next round may be
  woken instead of the one that was meant, and goes back to sleep without a signal: the last of
  the round sleep on. Liveness of the barrier would need an order that `phal.h` does not promise
  and a condition variable that does not stop; none is claimed.
* `rthread_thread.c:315`. A detach of a thread that is done, while it is being joined, queues it
  twice.
* `rthread_rwlock.c` is an unfinished port: a reader that must wait takes the spin lock it holds
  (line 121), a writer that must wait returns `ENOSYS` with it (line 181), and so does the
  unlock of a writer (line 259).
* `rthread_tls.c:86`. `pthread_key_delete` clears the data of the initial thread only: the
  others find theirs under the next key with that number.
* `ipc_Session.cpp:81`. `Claim` takes the handle by value, so a session that is moved loses it.
  A session got by name stays `Invalid` and closes nothing unless it becomes a domain.
* `sm_Port.cpp`. `RegisterService` and `IsServiceRegistered` call themselves.
* `fs_Device.cpp`. A close moves the files behind it down, and their descriptors then lead to
  others; a write does not move the offset (line 251: `ret` is still 0), so that the next one
  overwrites it; `O_CREAT` of a file that exists fails. `_lseek_r` and `_read_r` pass their
  distance to `Seek(int)` (`fs_FspImpl.cpp:30`), which cuts it; a seek from an end whose size
  the service did not tell takes it for 0. `_inner_ProcessPath` lets slashes before the name
  through and puts one of them in front of the path: `/a:/b` gives `//b`, `/a:b` gives `/b`.
* `os_Memory.cpp`. The search compares the size with the whole block, and skips the first page
  of what it jumps to; the mutex around it is commented out.
* flora's threads send header, length and text of a message apart and without a lock, and the
  viewer takes a short read for a whole one; after either it reads texts as headers and does not
  recover.

## 8. Not modelled

`PROJECT.json` lists every part with the reason.

* Wrappers of single kernel calls and service requests (svc, fsp, ro, hid, fatal, err), reads of
  a memory area filled by a service (input), text output (log), getters and setters of
  attributes, and stubs have no state that a sequence of steps could bring out of order.
* `RecursiveMutex`, `os::Thread`'s destructor and `ld`'s `dlclose` fail at their first use in a
  way that leaves nothing to check: `Lock` returns before it sets owner and counter, so that
  `Unlock` counts down from 0 and does not release, the destructor frees the stack of a thread
  that may run, `dlclose` deletes a block twice. The last two are listed as hazards without a
  property.
* Initialisation and destruction of pthread objects, cancellation and clean-up handlers are left
  out; the objects exist from the initial state on. Directories and `stat` of fs repeat the
  lookup of `Open`; a directory hands out entries that were never filled if its second read
  finds fewer than its first counted (`fs_FspImpl.cpp:78`).
* Argument splitting of crt0 works on text with no state beside its position.
* openlibm, xz, QuickJS, LibHac and libusbK, nearly all of the repository's lines, are
  third-party.
