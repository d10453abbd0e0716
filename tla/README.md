# Verification of libsev

libsev is a C++ library of building blocks for event-driven programs: atomics and
spin locks, an event flag, type-erased functors, a concurrent queue of functors, an
event loop on top of them, exceptions that cross a C interface, and an older
generation of such blocks. What is hard to get right in it is its shared-memory
code and who owns what, and that is what these TLA+ modules model. TLC checks the
models on small instances; TLAPS proves theorems about them for every instance.

In this file and in the modules' comments a bare number such as `415` or `301-303`
is a line of the source file that the module's header names.

## 1. The system

### Modelled components

| Component | Source | State | Operations | Used by |
|---|---|---|---|---|
| AtomicSharedMutex | `src/sev/atomic_shared_mutex.h` | `Unique`, `Sharing` | tryLock, lock, unlock, tryPartialLock, cancelPartialLock, completePartialLock, downgradeLock, upgradeLock, tryLockShared, lockShared, unlockShared | functor queue, exception map |
| ConcurrentFunctorQueue | `src/sev/concurrent_functor_queue.{h,cpp}` | a chain of blocks from `ReadBlock` to `WriteBlock`, `PreWriteIdx`, two spare blocks, two shared mutexes; per block `NextBlock`, `ReadIdx`, `ReadShared`, `NbObjects`; per place `Ready`, `Vt`, `Size` | init, release, pushFunctorEx (and push, pushFunctor, which wrap it), tryCallAndPop | event loop |
| EventFlag, Windows | `src/sev/event_flag.cpp` 41-132 | `Waiting`, `Set`, a kernel event | init, wait, wait with a time limit, set, reset, release | event loop |
| EventFlag, standard library | `src/sev/event_flag.cpp` 136-249 | `Flag`, `ResetValue`, `Reset`, `Waiting`, `Delete`, a mutex, a condition variable | the same | event loop |
| EventLoop | `src/sev/event_loop.{h,cpp}` | the queue, `QueueItems`, `Running`, `Stopping`, `Threads`, `ThreadsWaiting`, two event flags, the managed threads | postFunctor, invokeFunctor, run, loop, stop; create, destroy, and post, invoke, timeout, interval, which wrap a C function and its data | programs |
| sev_lite EventLoop | `src/sev_lite/event_loop.h` | `m_Running`, `m_Poked`, `m_Cancel`, the thread, a queue of functors, a priority queue of timers | run, runSync, stop, immediate, timeout, timed, interval, join, clear, cancel, loop | programs |
| Functor, FunctorView, FunctorVt | `src/sev/functor*.h`, `concurrent_functor_queue.h` | storage and table of a functor; table, pointer and movability of a view | construct, copy, move, assign, destroy, call, toFunctor, extract, push, tryCallAndPop | event loop, queue |
| ExceptionHandle | `src/sev/exception.{h,cpp}` | a pointer per handle; the map of error numbers, its lock | capture, captureEx, rethrow, errNo, discard, adopt | event loop, functors |
| RingBuffer | `src/old_addtl/ring_buffer.h` | a block, its capacity, two indices | push_back, pop_front, try_pop, front, back, copy, move | one thread |
| SharedSingleton | `src/old_addtl/shared_singleton.h` | a count, a pointer, a mutex | instance, copies, assignments, destructor, get | threads |
| ConcurrentBucketMap | `src/old_addtl/concurrent_bucket_map.h` | a tree of arrays | insert, find_or_emplace, find, clear, destructor | threads |
| Old exceptions | `src/old_sev/exception.*`, `win32_exception.*` | up to three texts and a flag that says whether to free one | construct, copy, assign, destroy, what | the old library |
| CRC-32 | `src/old_sev/crc32.*`, `impl/crc32_brumme.*` | a register, the bytes that are left | ten ways to compute it, and wrappers | the old library |

How they interact. The first five are the event loop's own stack, and all of it is shared memory: there are no messages. A poster
counts its functor in `QueueItems`, pushes it into the queue, and sets `Flag`. A
thread in `loop()` looks at `QueueItems`, pops and calls functors until there are
none, and waits for `Flag`. The queue holds its memory together with two
AtomicSharedMutexes: writers share `AtomicWriteSwap` while they reserve a place, and
the one that has to append a block claims it and waits for the others; readers share
`DeleteLock` while they pin a block, and the one that moves on to the next block locks
it. `stop()` sends the loop threads home, joins those that `run()` made and waits for
the others through `LoopEndedFlag`.

What is hard in them, and the properties that make each correct:

* **AtomicSharedMutex.** Readers count themselves before they look whether they may
  enter, and take it back; writers claim first and wait for the count to drain.
  A unique holder must be alone, the count must be exact on every path that fails or
  retries, a claim must be a barrier for newcomers, and whoever waits for the drain
  must be let through.
* **ConcurrentFunctorQueue.** Places are reserved by a compare-exchange of an index
  whose block may be replaced meanwhile; a constructor may throw after its place was
  reserved; readers race each other out of a block, the last one recycles it, and the
  recycled block may be appended again at once. No place may be given twice or read
  before it is committed, order must be that of the reservations, no block may be
  reused while someone can reach it, and none may be leaked, out of memory included.
* **EventFlag.** A waiter that has looked at the flag but does not sleep yet must not
  miss a `set()`; a signal must not be lost, duplicated or made up; the counts of
  waiters decide who deletes a released flag.
* **EventLoop.** The item count, the queue and the flag are three pieces of state
  that change at different times; a functor must not be left in the queue with
  everybody asleep, on failed pushes, failing functors and several loop threads; stop
  must return, and only when nobody is left. Its C functions copy data into lambdas
  whose lifetime is not that of the view that is pushed, and translate errors twice.
* **sev_lite EventLoop.** Its flags are neither atomic nor always under a lock, timers
  leave the queue while they are looked at, and `join` hands out its own frame. No post
  may be lost by a loop that goes to sleep, a join must be behind what was queued
  before, an interval timer must come back.
* **Functors and handles.** A callable has one owner at a time, of which views and
  tables of functions know nothing; an exception must come out at the other end of the
  interface as what went in, with the map that everybody shares filled by whoever comes
  first.
* **The older blocks.** Index arithmetic that wraps and doubles (ring), a count that
  several destructors take to 0 (singleton), two inserts into one empty slot (map), texts
  of exceptions after copies that ran out of memory, and ten loops with block boundaries
  that must agree (checksum).

### Not modelled

| Component | Source | Why |
|---|---|---|
| AtomicMutex, atomic wrappers | `src/sev/atomic_mutex.h`, `src/sev/atomic.h` | One exchange, and one interlocked instruction each: the models use them as atomic steps. |
| old_sev event functions, main loop | `src/old_sev/event_function.*`, `main_event_loop.*` | The first version of the functors, superseded and not built. A moved-from `EventFunction` has no table, so its own destructor is undefined already. |
| Streams | `src/old_sev/_trash/` | Discarded formatting code. |
| Platform headers, tests, templates | `src/sev/platform.h`, `src/test_00*`, ... | No behaviour of the library. The test programs were read for how its parts are used. |

Of the modelled components: the timer queue of EventLoop (nothing is ever put into it,
because `timeoutFunctor`, `intervalFunctor` and `join` are null entries of its table),
functors that call the loop that calls them, and `onError`; `thread()` of the sev_lite
loop, which cannot be instantiated; the 4-byte form of the checksum, which is compiled
out; the fallback class of RingBuffer; WaitForSingleObject failing.

`PROJECT.json` lists every hazard of the code, with the properties that cover it or the
reason why none does.

## 2. The modules

```
SharedLock   <----refined by----  SharedMutex
    ^ two instances
    |
FunctorQueue ----refines---->  FunctorFifo
                                   ^ instance
                                   |
                               EventLoop --uses two flags that promise--> EventSignal
                                                                             ^
                               EventFlagWin32 -------------------------------+ refined by
                               EventFlagStl   -------------------------------+

LoopCalls, FunctorStorage, ExceptionHandle        around the event loop, by themselves
LiteEventLoop, RingBuffer, SharedSingleton,       the older blocks, by themselves
BucketMap, OldException, Crc32
MCLocks (mutex, flags, loop), MCFunctorQueue (queue),
MCProgress (queue and LiteEventLoop), MCParts (Windows flag, loop and the rest)

EventFlagWin32Proofs, EventFlagStlProofs,         theorems, each about the module it extends
FunctorQueueProofs, EventLoopProofs,
LiteEventLoopProofs
FunctorQueueFifoProofs                            the queue's order, on top of FunctorQueueProofs
LocksProofs                                       theorems of MCLocks: the mutex, both flags, the loop
PartsProofs                                       theorems of MCParts: the parts, the event loop
```

Each layer is built on what the layer below promises, and the promise is checked
against the code of that layer: the queue's steps on its two locks are actions of
`SharedLock`, which `SharedMutex` implements; the loop's steps on its queue are
actions of `FunctorFifo`, which `FunctorQueue` implements; the loop's flags hold one
signal that one waiter takes, the case of `EventSignal` that the library version of
the flag implements exactly. (On Windows a flag may hold two signals at a time, finding 2;
a spare signal makes a loop thread go round once more and look at everything
again, which the model's loop thread does for a real one, too.)

All models are interleavings of atomic steps, so they assume sequential consistency,
which the code's interlocked operations and full barriers are there to provide.

**SharedLock.** The abstract lock: `sharers`, `claims` (the partial claim), `exclusive`.

**SharedMutex.** One action per interlocked access. `pc[t]` is what the thread holds
between calls (`Holding`) or the access it makes next (`Inside`). A failed attempt goes
through its undo step, a spin loop is an action that is enabled when its load gives 0.
`Ops` limits the calls a run makes; a thread only makes calls that fit what it holds.

**FunctorFifo.** The abstract queue: `Reserve`, `Commit`, `Take`, `Finish`.

**FunctorQueue.** Blocks have `Capacity` units instead of bytes, a functor takes
`Sizes` of them with its preamble; the index arithmetic (`Mask`, `RoundUp`, `StartIdx`,
`BlockLimit`) is the code's, with a block size one more than the limit, so a full block
and the start of the next are different indices. Every access to shared memory is a
step; accesses under a lock that keeps all others away from the same words are one step
(appending a block under the full lock; `ReadBlock` and `ReadShared` under `DeleteLock`).
`malloc` and the functor's constructor are the environment: malloc may return any free
address or null, the constructor may throw. `fifo` is a history variable.

**EventSignal.** The abstract flag: signals that are there, threads that set, wait or
reset, and what a wait with a limit answers: false if its time was up (`late`). Two
constants say what an implementation keeps of the header's promises. `Signals` is
`{0, 1}` if setting the flag several times has no more effect than setting it once; the
library's flag implements that, the Windows flag only the abstract flag with `Nat`
(finding 2). `LateMayUse` is whether a wait that answers false may have used a signal: not
on Windows, but with the library's flag.

**EventFlagWin32.** Every interlocked access and every kernel call is a step. The
kernel event is external and modelled by what the code relies on: `SetEvent` lets one
blocked thread go, or all for a manual-reset event, or stays signalled.

**EventFlagStl.** The code between lock and unlock is one step. The condition variable
is external: it wakes the notified threads, and any thread at any time for no reason. A
thread whose `wait_for` reports a timeout is `late`; if it then finds the flag up, it lowers
it and answers false (223, 232).

**EventLoop.** `postFunctor`/`invokeFunctor` (`Post` to `Await`), `loop()`
(`LoadStopping` to `SignalEnded`), the managed threads (`Run`, `Check`) and `stop()`
(`StoreStopping` to `Finish`); each access of an atomic is a step, each pop and push is
a step of `FunctorFifo`. `Invoked`, `Failing` and `Throwing` say which functors are
posted by `invoke`, end in an error, or throw in their constructor.

**LoopCalls.** The C functions of the loop: `CopyData` (the vector), `Capture` (the lambda
and its copy), `EndStatement` (the lambda is destroyed), `Forward` (through the table of
functions), `Call` (a loop thread). Memory may run out at each; `heap` says which buffers
are allocated.

**LiteEventLoop.** Both builds of the header in one module (`build`). A section under a
mutex, and an operation of a concurrent container, is one step; the plain accesses to
`m_Running`, `m_Poked` and `m_Cancel` are steps of their own. The functor of join() takes
two: it looks at the queue (131, 136) and then wakes its client up (145) or posts again
(141), and others may post in between. Time is a counter of half
milliseconds, because the Windows build rounds to milliseconds and the other does not.
`before` and `asked` are history.

**FunctorStorage.** A callable is in a place (a variable, a functor's storage, the queue)
and is full or moved-from; a view is a table, a place and whether it may be moved from.
The typed wrappers of the queue (`push`, `tryCallAndPop`) are included, the queue itself
is a sequence.

**ExceptionHandle.** A handle is nothing, an entry of the map, the static bad exception, or
an exception of its own; two libraries each know the types of their own build.

**RingBuffer.** A cell is raw memory or an object. `ActsAsQueue` compares the contents
before and after every call with what a sequence would do. `Mark` is the value that
stands for all others: the code never looks at values.

**SharedSingleton.** One step per operation of the count, one per section under the mutex.
operator= counts an empty instance (63) in one step, and gives the count back (68) in another.

**BucketMap.** The tree of arrays for two keys that part at the second level.
`SwapOperands` says in which order the compare-and-swap takes its operands.

**OldException.** Each member's text is a buffer of its own; copies may run out of memory
one by one.

**Crc32.** A word is the set of its bits. Every form is the loop that the code has, and
goes on from a register that another form has left; `division` is what dividing bit by
bit leaves. Of each table only the entries of single bits (its columns) are read from the
source; all others, and the 16 entries of the half-byte table, are taken as sums of columns and
not compared with what the source lists. The columns are checked
against each other when the module is loaded (`TablesAgree`). `crc32_const` is fed ASCII only.

**MCLocks**, **MCProgress** and **MCParts** put modules that share no state next to each
other: `lock` and `part` say which one a behaviour is about, and the others stay as they are.
One run then asks each of its own question, and the state space is the sum, not the product.
**MCFunctorQueue** gives a behaviour of the queue one of two shapes, writers that race or
readers that race, which differ in their bounds.

In each module the slips (marked `Slip:`) are not part of the specification. They are
small mistakes in the code's operations, kept to show that each property notices one.
Numbered comments on actions give the lines the action stands for.

## 3. The runs

`pass` unless stated otherwise.

| Run | Question | Bounds |
|---|---|---|
| Locks_calls | Mutex: `CountersAreExact`, `Exclusion`, `ClaimStopsNewSharers`, `ImplementsSharedLock`, `DrainCompletes`. C++ flag: `StlFlagIsSafe`, `ReleaseEnds`. Both flags: `BothImplementSignal`, `SignalsAreSeen`, with spurious wakeups, timeouts, resets and a release at any time. Event loop: `ItemsCounted`, `NoLostPost`, `PostedIsCalled`, `InvokeReturns`, with a failing functor, an invoked one, and pushes that fail | mutex and each flag 3 threads, all calls; loop 2 posters, 1 thread of the program, 1 managed, 2 functors |
| FunctorQueue_calls | Writers that race: `TypeOK`, `EveryBlockHasOneOwner`, `PlacesAreExclusive`, `AppendsAgree`, `ReleaseLeavesNothing`, with malloc failing anywhere, in init included. Readers that race: `PinsProtect`, `RecycledIsUsedUp`. Both: all of these and `ImplementsFifo` | 2 writers of 2 pushes, 1 reader at a time, 3 blocks; or 1 writer of 3 pushes, 2 readers, 4 blocks |
| Progress_calls | Queue: `PushReturns`, `EverythingIsTaken`, where one writer's constructors may throw. Lite loop: `TypeOK`, `JoinWaits`, `IntervalKept`, `PostedIsCalled`, `JoinReturns` in both builds | 3 writers of 1 push, 1 reader, 3 blocks; 2 clients, 1 functor, 1 timer, a timer 2 ticks ahead or an interval of 1, 3 calls, 2 ticks of the clock |
| Parts_calls | one property for each of ten parts: `Win32FlagIsSafe`, `RingIsQueue`, `SingletonIsShared`, `MapIsSafe`, `ExceptionsAreKept`, `FunctorsAreWhole`, `TextsAreOwned`, `ChecksumsAgree`, `CallsAreAnswered`; and of the event loop with failing functors and two threads that stop it again and again `LoopIsCounted`, `ManagedAreJoined` | below |
| EventFlagStl_timeout (violation) | `TimedWaitReturns`: the comment in `event_flag.h` | 2 threads |
| EventFlagWin32_signals (violation) | `OneSignal`: the comment in `event_flag.h` | 2 threads |
| EventLoop_throw (violation) | `ReadyIsCounted`: does `QueueItems` tell what is in the queue? | 1 poster, 1 loop thread, 2 functors |
| EventLoop_stop (violation) | `StopReturns` | 2 loop threads, 1 stopper, no posters |
| LoopCalls_post (violation) | `PostedIsCopied`: the comment in `event_loop.h` | 2 callers |
| LiteEventLoop_stop (violation) | `StopReturns` in the library build: the comment in the header | 2 clients, 2 calls |
| SharedSingleton_delete (violation) | `DestroyedOnce`: the comment in the header | 2 slots, 1 object |
| ExceptionHandle_invalid (violation) | `KindSurvives` for an invalid_argument: the table in `exception.h` | 1 handle, 2 libraries |

The parts of Parts_calls: *flag* 3 threads; *ring* two rings of capacity 4 that grow once, 4 values in it at most,
2 values; *singleton* 3 slots, 4 objects; *map* 2 threads, 2 keys of 3 levels, 1 value;
*handle* 2 handles, 2 libraries, 2 cells, a type of the table and one that is not listed; *functor* 2 variables (one large, one that throws
when it is moved), 2 functors, 2 views; *text* 2 exceptions; *checksum* chunks of 0, 3, 33
and 65 bytes, one after the other; *calls* 2
callers, 3 buffers, 1 functor in the queue; *loop* 1 poster, 1 thread of the program, 1
managed, 2 stoppers, 1 functor; *crowd* the same loop with 2 managed threads and nobody that
stops it.

### Why these bounds show something

* Every hazard of the mutex and of the flags is between two threads that race and at
  most one more that disturbs them; three threads leave room for it. The
  theorems of section 5 remove the bounds, for safety, from everything but the checksum.
* A block of two units takes one functor of size two or two of size one, so with two or
  three pushes a block fills up exactly, is left with a rest that does not fit, and is
  left behind; three or four blocks let a block be recycled and appended a second time.
  With malloc failing, the queue may start with no spare, one or two, and run out of
  memory at any append or refill. `MaxPush` bounds the pushes of a writer; there is no
  bound on pops. Progress_calls takes functors that fill a block, so that two writers
  come to append at the same time. It watches the writer that may throw and one other
  (`Watched`), since the others are interchangeable, and starts from one of the initial
  states, which differ in the addresses of the first blocks only.
* The loop's state is bounded by its functors: one that is in use is not posted
  again until it has been called and destroyed, so two posters go on for ever with two.
  In Locks_calls only one of them posts once a managed thread runs (`FewAtWork`): two posters
  race in front of one loop thread, two loop threads race behind one poster.
  In Parts_calls it has two stoppers, because the first clears `Stopping` at its end while the
  second waits for the mutex, and a managed thread that `run()` may start in between.
  *crowd* has three threads in the loop because line 415 compares `ThreadsWaiting` with 1
  after the thread has taken itself off: it wakes somebody only if two others wait.
  `MaxThrown` bounds how far `QueueItems` may fall below the truth, which is only
  reached with `Throwing` functors.

* A ring of capacity 4 wraps in every position and doubles to 8 while wrapped. Three
  slots of the singleton are the two last holders and the newcomer between them; strays
  (copies of empty instances) are counted up to one. Two inserting threads race for one
  slot at every level; a third would lose to either. Chunks of 33 and 65 bytes with
  four different bytes that are not zero at every place of a block, at the end of an
  unrolled loop and in the tail tell every slice from the others.
* LiteEventLoop: three calls are enough for a run, and a post, a join, a clear or a stop
  of two clients against each other: the races in the code are between two of these and the
  loop thread. In two ticks, a millisecond, a timeout comes due, and early in the Windows
  build, which rounds what is left down (half a millisecond is none); an interval of one
  tick comes due twice, so that it is put back at least once.

### Fairness

* `SharedMutex`, `EventFlagWin32`: each thread inside a call is scheduled (weak
  fairness of its next step), and a thread that holds the mutex gives it up: no caller
  in `src/sev` waits for anything under it. Nobody is ever forced to start a call, and
  nothing is assumed of the order in which the kernel wakes threads.
  `DrainCompletes` excepts behaviours in which another thread retries
  tryLockShared or upgrades; the queue does neither.
* `FunctorQueue` (in Progress_calls): as above, and each reader polls for ever, as a loop does that
  is woken for every push. With fairness of whole threads a writer may lose its
  compare-exchange again and again, but only to pushes that went through.
* `EventFlagStl`: besides, a thread that wants the mutex gets it, and time limits run
  out; spurious wakeups are allowed and never promised.
* `EventLoop`: besides, the program's own threads call `loop()` again when it returns
  (with an error, for instance), and a stop that has begun goes on. Nothing is assumed of
  posters, except that a post that has begun goes on. Liveness of the loop uses an
  instance without `stop()`, because a stopped loop calls nothing.
* Where modules stand next to each other, each has its own fairness, asked for while it is
  the one in use (`LoopFairness` in MCLocks, `LiteFairness` and `QueueFairness` in MCProgress):
  a module that is not in use has no step to take.

* `LiteEventLoop`: the loop's thread runs, a poked wait ends, and a call that has begun
  goes on, as long as the process lives. Spurious wakeups may happen and are not promised;
  time need not pass.
* Parts_calls asks for no liveness and assumes no fairness.

### Where deadlock is not checked

The flags end in a released flag or a terminated process, and every thread may come to
wait with nobody left to set (Locks_calls, Parts_calls). In the event loop of Parts_calls
and in EventLoop_stop everybody may sleep, in the loop and in stop(), with no poster that
can wake them (finding 4). LiteEventLoop ends when the calls are used up and when the
process is terminated, the other parts when something undefined has happened.
FunctorQueue_calls and EventLoop_throw check it.

## 4. Findings

Each is a run that TLC ends with a counterexample to what the code's own comments or
assertions say; `PROJECT.json` quotes them.

1. `EventFlagStl_timeout`: a wait with a time limit does not end when the time is up.
2. `EventFlagWin32_signals`: sets of the Windows flag may leave two signals, one in `Set`
   and one in the event, of which two waits go through, where the header says that only one
   thread will continue. One waiter at a time is enough for it.
3. `EventLoop_throw`: a post whose functor throws while it is moved into the queue is
   discounted twice, and the loop may then overlook a functor that is ready.
4. `EventLoop_stop`: stop() does not wake threads that sleep in the loop.
5. `LoopCalls_post`: a function posted with data is queued as a lambda that has been
   destroyed, with its copy of the data, before it is moved into the queue.
6. `LiteEventLoop_stop`: in the library build the poke of stop() may be erased (236) before
   the loop sleeps, and stop() waits for it for ever.
7. `SharedSingleton_delete`: two destructors can both see the count at 0 (78, 82) and delete
   the object twice.
8. `ExceptionHandle_invalid`: an invalid_argument comes out of a handle in another library as
   an overflow_error.

One comment is not borne out: "Doesn't work yet for multiple reads..." at the head of
`concurrent_functor_queue.cpp` (31). With the counts of readers that the code has by now
(516-533), every safety property of the queue holds for two readers in FunctorQueue_calls and
for any number in the proofs. (Liveness was checked with one reader.)

What the models have besides, or what reading for them showed, without a run of its own:

* *Mutex and queue.* A functor that `SEV_ConcurrentFunctorQueue_push` makes of a C function
  reads one byte of the function's address back (226) and calls that. Two threads that call upgradeLock at once wait for each other (no
  caller in `src/sev` does). The debug assertion at 331 of the queue may fail when another
  writer reserves a smaller place in between; the release build comes to no harm
  (`AppendsAgree`). A pop answers ENODATA, "queue is empty" (631), while functors are
  ready behind a place that is reserved and not committed. The answer of a pop that found
  nothing is a variable nobody wrote, which the loop may take for an error (343).
* *Flags.* A wait with a limit on the library's flag that comes back late and finds the flag
  up lowers it and answers false (221-232): it used the signal, and its caller does not know
  (`LateMayUse`). A reset of the
  library's flag can put a notified thread back to sleep (191). With `manualReset` the
  library's flag stays up (158, 197), but set() notifies one waiter (236-241) and that one
  passes nothing on: the others sleep beside a raised flag until somebody sets it again.
  Nothing in `src/sev` makes such a flag, and `event_flag.h` 34 asks for one waiter. The
  Windows flag does not look at `initialState`: 47 passes `manualReset` twice.
* *EventLoop.* stop() may return while a thread is between its last look at `Stopping`
  (327) and the line that counts it (332). run() on a fresh loop makes a thread that ends
  at once, because `Running` is false (305) until somebody calls loop(). timeout() and
  interval() call through a null entry of the table (225-228).
* *sev_lite.* Two stop() calls at once may join one std::thread twice (101), which is undefined
  although stop is called thread-safe (96): the model ends there, in either build. join(true) posts the functor in its own frame again after it was moved away (141, 149):
  an empty function is called, which terminates the process. When it returns, the queue need
  not be empty: others may post between the look (131, 136) and the end. join's wait (150) has
  no predicate. The library build reads the time of a
  timer after it has unlocked the queue that holds it (294).
* *Functors.* More than seven pointers of data are constructed through an uninitialised
  pointer (functor.h 197-198). A view is emptied before the push that may fail: a second
  push with it queues an empty functor, whose call throws out of a `noexcept` function. A
  constructor that throws into the queue leaves raw memory that is called as a functor.
  Some members cannot be instantiated (the default view, its assignment, push of a const
  view).
* *Exceptions.* Capturing into a handle that holds an exception leaks it, and so does
  a capture that runs out of memory; the destructor of a raised handle terminates; a
  copied handle frees twice. In the old library a Win32Exception assigned to as an
  Exception frees its texts twice, and two functions return a string_view of null.
* *RingBuffer.* back() at write index 0 reads outside the block (169); the copy constructor
  uses its mask before it is set; the assertion of expand (202) always fails in a build
  with assertions.
* *SharedSingleton.* A copy of an empty instance counts for ever, so that no destructor finds
  the count at 1 any more; assigning an empty instance to the last holder deletes nothing.
* *BucketMap.* In the GCC and clang builds the compare-and-swap (356) has its operands the
  wrong way round: an insert into a missing bucket stores nothing (`SwapOperands`; Parts_calls
  takes the order of 354). clear() frees all buckets although its comment (164) says it does
  not release memory, visits only as many root cells as a bucket has, and leaves the pointers;
  nothing may be done with the map afterwards, and no property asks for anything after it.
* *CRC-32.* crc32_const takes a char as an index, which is negative for text outside
  ASCII.

## 5. The proofs

Each theorem holds for every value of the constants that the module's own `ASSUME`s (or
its `Assumptions`, which the MC module assumes of its instance) admit: finite sets of
threads, calls that exist, Booleans, a block size above 0 and functors that fit into a
block, values that are not the null value. Any hypothesis beyond these is named below, with
the reason. The proofs have one shape: an inductive invariant, `Init => IInv`, one lemma
per action or kind of step, `Invariant == Spec => []IInv`, and from it each property.

**LocksProofs**, its first section, for every finite set of threads and every choice of calls:

    IInv == TypeOK /\ OneOwner /\ SharingCounts /\ Exclusion

`Exclusion` alone is not inductive. A thread becomes unique when it reads `Sharing = 0`;
that this means nobody shares needs the exact count (`SharingCounts`, with those who
are only trying), and that nobody else has the claim needs `OneOwner`. A reader gets its
share when it reads `Unique = 0` after it was counted, which excludes a unique holder by
`OneOwner` again. The proof has one lemma for moves (`MoveKeepsInvariant`): a move of one
thread that is *legal*, i.e. treats the two words as its change of position demands, keeps
the invariant; and one that says that each of the code's accesses is legal
(`EveryAccessIsLegal`), with one step per action. From `IInv` follow the invariants, the
action property `ClaimStopsNewSharers`, and `ImplementsSharedLock`, where each access is
shown to be a step of `SharedLock` or a stutter (`MoveIsLockStep`).

**FunctorQueueProofs**, for any number of writers, readers and blocks, any block size and
set of sizes, any `MaxPush`, and malloc failing anywhere. Its invariant is one conjunct per
question that the code leaves to reasoning over several threads:

* `SwapLocks`, `DelLocks`: which threads have which lock, read off from where they are. A
  lock's sets are then equal to sets of threads at points of the code, so the guards of
  `SharedLock` decide who can be where together.
* `WriterLocals`, `WriterView`: between loading `PreWriteIdx` and committing, a writer's
  block is `WriteBlock` and its index is one of that block (asserts 392, 434, 454), because who
  changes `WriteBlock` is alone. The index is never more than `PreWriteIdx`, so a
  compare-exchange that succeeds has looked at the block limit under the same block.
* `ChainOK`: `Chain` is the least set of blocks that holds `ReadBlock` and the next block of
  each of its blocks, so what a step does to it can be shown without induction: a set that
  is linked contains it, and nothing smaller is linked. In the chain only `WriteBlock` has no
  next block, links do not join, and readers are in no block of it but the first.
* `OneOwner`: an allocated block is in use (in the chain, or *retired*: left behind with
  readers inside), or one of the spares, or held by one writer or one reader, and these
  exclude each other. This is `EveryBlockHasOneOwner` without counting.
* `SparesAreWiped`: what nobody uses is zero, so a block that comes back into the chain
  brings no functor and no link of its previous life.
* `ReadyApart`, `WritingApart`, `Tiled`: the places of a block do not overlap, and where
  one ends another starts, or nothing follows. `Tiled` is what makes `ReadIdx`, which a
  reader moves by the size it finds, land on a place again. It speaks of committed places
  and of places being filled together, as the one turns into the other.
* `ReadersFollow`, `UsedUp`: a reader's index is `ReadIdx` or one that was passed, two
  readers that call have different places of a block, and who is about to leave a block
  has seen a next block after it saw nothing ready, hence all of it is used up (the second
  look, 573-579: places after the next block was linked are not reserved in this one).
* `PinsCounted`, `ObjectsCounted`: `ReadShared` and `NbObjects` are exact, so the reader that
  counts down to 0 is the last and the block is recycled once.

From it follow `TypeOK`, `EveryBlockHasOneOwner`, `PlacesAreExclusive`, `AppendsAgree`,
`PinsProtect`, `RecycledIsUsedUp`, and that release leaves no block allocated
(`ReleaseFreesAllBlocks`). Steps of one writer leave the readers' words alone and
the other way round (`OnlyWriter`, `OnlyReader`), so most conjuncts need a lemma for half of
the actions only.

**FunctorQueueFifoProofs**, with the same generality. The abstract queue is one sequence,
the code's a chain of blocks with places, of which some are committed, some being
filled, and whose order appears in no variable. `InOrder` says that there are

* a number for each block, going up by one along the links from `ReadBlock` to
  `WriteBlock` (`Ranked`), and
* for each push in `fifo` one place, which no other push has (`Filed`), such that
  `fifo` is sorted by the number of the block and then by the place in it (`Sorted`).

A compare-exchange reserves behind all places, since its block is the last and its index
`PreWriteIdx`; appending gives the new block the next number; a pop takes the first
place of the first block, where `UsedUp` of FunctorQueueProofs shows that a reader that
goes on to the next block leaves none behind. So a step of the code is a step of
`FunctorFifo` on `fifo` or a stutter (`QueueIsFifo == Spec => ImplementsFifo`), and as
places and pushes correspond, release destroys exactly the functors whose pushes it
takes out of `fifo` (`NothingIsLeft`). `PushesAreOld`, `CommitsOwn` and `CallsTaken`
tie the locals of writers and readers to it: nobody reserves twice for one push, commits
another's functor, or calls one that it did not take.

**EventFlagWin32Proofs**, for every finite set of threads, every choice of calls, and both
kinds of event:

    IInv == TypeOK /\ WaitingCounts /\ NoStrandedWaiter

`NoStrandedWaiter` is the lost-wakeup property. A `set()` on the fast path may stop looking
only when it reads `Waiting = 0` at its second look; that nobody is then on the way to the
kernel needs the exact count of waiters. The layout is that of the mutex: legal moves keep
the invariant, every step but `SetEvent` is a legal move, and `SetEvent`, which moves
two or more threads, has a lemma of its own. `Refinement` shows that a flag whose event
resets itself (`~ManualReset`, what the class defaults to and the only kind that promises
one signal one wait) implements `EventSignal`, with any number of signals and answers that
are true: a wait with a limit answers true just when it used a signal. That there is one
signal at most cannot be proved (finding 2).

**EventFlagStlProofs**, for every finite set of threads and choice of calls, with spurious
wakeups, time limits and a release at any time. Besides the types and the count, `IInv` says
that a released flag stays up, that whoever deletes it is the only one and the last
(`ReleaseIsFinal`), and that the flag comes down with the wait it ended (`LowersItself`).
The last is why nobody is stranded: a wait that ends takes the flag down with it, so a flag
that is up was raised since, and that `set()` has notified a sleeper who is still on the way
out. A flag made with `manualReset` stays up and strands sleepers (see section 4), so
`FlagIsSafe` and `Refinement` assume `~ManualReset`. `Refinement` is to the `EventSignal` that
holds one signal however often it is set.

**EventLoopProofs**, for any number of posters, loop threads, managed threads and stoppers,
with failing functors and pushes:

    IInv == TypeOK /\ OwnWays /\ QueueOK /\ ThreadsCounted /\ ManagedAreJoined
              /\ (Throwing = {} => ItemsCounted)

`ThreadsAreCounted` and `ManagedStayJoined` need no further hypothesis. `ItemsAreCounted`
assumes `Throwing = {}`: a functor whose constructor throws leaves its place in the queue,
which the loop will count down for, and is counted down by its poster as well (261), which is
finding 3. `PostsAreNotLost` assumes in addition that nobody calls stop() (`[]~Stopping`),
because afterwards threads may sleep beside a post (finding 4). Its invariant is
`NoLostPostYet`, which says the same of a thread that is *about* to sleep: from its look at
`QueueItems` on, a functor that it missed is one whose poster has yet to set `Flag`.

**LiteEventLoopProofs**, for any number of clients, functors and timers, both builds and
any bounds. `JoinWaits` says that when the functor of a join is called, nothing is left of
what was queued before. `LiteInv` says it of every place in the queue (`SyncIsBehind`): the
functor of a join is in the queue, or in hand, once and only while its client waits, and
whatever of `before` is left is in hand or ahead of it. That it is there once needs that the
client waits in that call, and that what a second wait puts into the queue is the function
that the first has emptied (`Hollow`); so `NamesAssumption` says that functors are not
joins. A loop that one of those terminated keeps its queue as it is. `IntervalKept` needs
that `m_Cancel` says, when a timer has returned, what its own functor asked
(`CancelIsAsked`): it is lowered before the call, and only the one loop thread calls
functors, for which the owner alone starts a loop and only when there is none
(`OnlyTheOwner`, `LoopIsOver`). The functor of join is in hand over two steps, and what is
posted between them comes behind it. Time, deadlines and the flags that are written without a
lock need not be known more exactly than their types.

**PartsProofs** has the inductive invariants of the parts that have no threads of their own
or few, each for any number of everything:

* *Singleton* (`SingletonInv`). Every access of the count is a step of its own, those of
  operator= (63, 68) included, so the count has to be the number of holders, of threads
  between two accesses ("look", "create", "uncount") and of stray copies, exactly
  (`CountFollows`: one slot moves, and the count with it). The difficulty is the destructor
  (74-89), which takes the count to 0 and looks at it again under the mutex. If it is 0 then,
  nobody is counted (`ZeroMeansNone`), so nobody is a holder, and unlinking the object takes
  it from nobody; if it is not, a newcomer is counted and may already hold the object. Holders
  share the live instance, and an object to be deleted is not the instance
  (`DeletedIsUnlinked`). That an object is deleted once cannot be proved (finding 7).
* *Calls of the C interface* (`CallsInv`). `NothingLeaks` compares the buffers that are
  allocated with those that are held. It is inductive only with who holds what at each point
  (`CallersFollow`) and with no buffer held twice (`BuffersApart`) - where even the address of
  a lambda that was destroyed counts, since what is queued may still refer to it. `ErrorsCross`
  needs that an invoking caller has one functor in the queue (`WaitersQueued`).
* *Handles* (`HandleInv`). What is allocated is what handles own and what was captured over
  (`Held`, `lost`); no exception has two owners. `Remembers` ties handles to what went
  in: an error number in a handle has its entry in the shared map, and an error number that was
  asked for is one that the exception has. Entries are never removed, so a capture that finds
  none under the shared lock and one that made it meanwhile end with the same entry.
* *Texts of old exceptions* (`TextInv`). `HoldsItsOwn` says of each exception which texts
  are allocated for it: those it points to, and of `what` only with `delete`. An exception that
  was assigned to as its base (`sliced`) is exempt: it is the one way to free a text twice.
  `Telling` says which text `what()` reads, unless memory ran out for it (`short`).
* *Functors and views* (`FunctorInv`). `FunctorsAreWhole` needs two things besides itself.
  A variable holds its own type (`VarsMatch`), or a view of it would call through another
  table. And a callable that can be moved from through a view is seen through no other
  (`MovableIsAlone`), or moving from it would leave the other to show what is gone: the rule
  that the callers of push keep and nothing in the code enforces.
* *Ring buffer* (`RingInv`). The contents are what lies between the read and the write index
  under the mask (80-88), so the invariant says of every cell whether it is one of those
  (`LiveAt`): then it holds an object, and the others are raw memory. What the mask computes is
  a case distinction (`ModIs`): an index plus a distance below the capacity is itself or that
  less one round. When the block doubles (191-220), what had wrapped goes on behind the old
  end and the rest keeps its index, which are the cells between the new indices because
  exactly one cell was free; so push_back (128-145) never constructs over an object. `RingIsQueue` then compares, call by call, the contents before and
  after. It holds for every capacity the constructor can be given, and ends where the code is
  undefined: at a copy, whose block has the size that uninitialised memory says, and at
  `back()` with the write index 0.
* *Map of buckets* (`MapInv`). `MapIsSafe` speaks of the bucket on a key's path at each
  depth, which is a recursive function of the cells. The invariant instead says that there is
  a function from keys to paths that follows the cells (`FollowsCells`), one depth at a time,
  and what a step that changes one cell does to the paths is then a case distinction on which
  keys end there. Paths that part do not join again (`PathsPart`), nothing hangs below a
  bucket but what is on some key's path (`CellsAreFollowed`), and a bucket that was made and is
  not swapped in yet is its thread's alone and on no path (`OwnsApart`). So of several threads
  that fill one cell, the first extends the paths of all keys through it, and the others find
  those paths there. The recursive functions that the properties use are equal to the paths
  because such a function has no other solution (`DepthByDepth`, from the well-foundedness of
  the naturals). Both theorems assume `SwapOperands = "exchange first"`, the operand order of
  line 354; in the other what is inserted is lost (section 4). `MapStaysSafe` assumes in addition
  `RootSize = IndexSize`, the case that the bits of an index divide those of a key: clear() and
  the destructor walk as many cells of the root as another array has (177), and leave what
  hangs from the others. `MapStaysSearched`, about what insert and find promise, does without.

These assume what MCParts assumes of each part's constants: values that are not `None`,
types, error numbers and buffers that are told apart, capacities that are powers of two from 4 on, finite sets where they are counted.
For the map, two of these follow from the bound on the keys by arithmetic that the provers
cannot do (`Index` divides by powers), so `Assumptions` states them, for TLC to evaluate: that
the digits of a key are cells, and that no two keys have the same digits.

`ExceptionsStayKept` assumes that no kind is invalid_argument (finding 8);
`HandlesStayValid`, about who owns what, holds for all kinds.

LocksProofs and PartsProofs also carry the results of the modules over to the specifications
that the runs check, where the modules stand next to each other: each component only does
steps of its own or none, so its theorem applies to it (`EachIsItself`, `LoopIsItself`,
`CallsAreThemselves` and so on). They state `StlFlagIsSafe`, `BothImplementSignal`, `ItemsCounted`, `NoLostPost`,
`LoopIsCounted`, `ManagedAreJoined`, `SingletonIsShared`, `CallsAreAnswered`,
`ExceptionsAreKept`, `TextsAreOwned`, `FunctorsAreWhole`, `RingIsQueue` and `MapIsSafe` as the
runs do. For `ItemsCounted` and `NoLostPost`, MCLocks has no stoppers and no throwing functors,
which are the hypotheses of EventLoopProofs (`NobodyStops`).

**Only model-checked:**

* `ChecksumsAgree`: what a loop over bytes computes for every input is induction over data,
  which the installed provers cannot do.
* Liveness (`DrainCompletes`, `SignalsAreSeen`, `ReleaseEnds`, `PushReturns`,
  `EverythingIsTaken`, `PostedIsCalled`, `InvokeReturns`, `JoinReturns`): they do not
  handle ENABLED and fairness.

## 6. What is abstracted

* Weak memory: see section 2.
* The bytes of a functor, its vtable and the alignment of places: a functor is the
  push that made it, with its size.
* Overflow of `PreWriteIdx` and of the counters (pointer-sized and 32 bits): not
  reached within the bounds.
* A functor that calls the queue or the loop it is called from, and the flag on the
  stack of `invokeFunctor`, which the caller destroys when it returns.
* Names of threads, locale, and console set-up; the texts that exceptions format; types of
  arguments and results of functors.
* An address that something still refers to is not given out again (LoopCalls,
  OldException): a use of freed memory shows as such and is not followed further.
* Where the code does something undefined, the model of that part ends (`wild`,
  `terminated`, `end`), and the properties say which paths lead there.

## 7. Plan

Modelled and checked: all components of section 1. Proved: every safety and action property
and every refinement that a passing run checks, but for `ChecksumsAgree`.
What is left, in this order:

1. `InvokeFlag`: the flag on the stack of `invokeFunctor`, over both flags: nobody touches
   it after its owner destroyed it.
2. `BlockLayout`: the queue's byte arithmetic (`SEV_BLOCK_UNPAD`, alignment of malloc)
   against a reference definition.
