------------------------------ MODULE EventLoop ------------------------------
(***************************************************************************)
(* The event loop (src/sev/event_loop.cpp, 213-454): functors posted by    *)
(* any thread go through a ConcurrentFunctorQueue to the threads that are  *)
(* in loop(); Flag wakes those up, QueueItems tells them that there is     *)
(* something to pop, and stop() makes them leave.                          *)
(*                                                                         *)
(* The queue is FunctorFifo, which FunctorQueue implements; the flags are  *)
(* event flags that hold one signal, which EventFlagStl implements.  Every *)
(* access to an atomic variable is one step.  Timers are left out: nothing *)
(* puts one into the timer queue (the entries of the table are null).      *)
(***************************************************************************)
EXTENDS Integers, Sequences, FiniteSets, Functions

CONSTANTS
  Posters,       \* threads that post and invoke
  Loopers,       \* threads of the program that call loop()
  Managed,       \* threads that run() creates
  Stoppers,      \* threads that call stop()
  Functors,      \* what is posted
  Invoked,       \* those of them whose poster waits for the call (invoke)
  Failing,       \* those that return an error or throw when called
  Throwing,      \* those whose constructor throws when they are pushed
  PushMayFail,   \* the queue may run out of memory
  MaxThrown,     \* bound: pushes that throw before the run looks no further
  None

LoopThreads == Loopers \union Managed
AllThreads == Posters \union LoopThreads \union Stoppers

Assumptions ==
  /\ IsFiniteSet(AllThreads)
  /\ Posters \intersect LoopThreads = {} /\ Posters \intersect Stoppers = {}
  /\ LoopThreads \intersect Stoppers = {} /\ Loopers \intersect Managed = {}
  /\ IsFiniteSet(Functors) /\ None \notin Functors
  /\ Invoked \subseteq Functors /\ Failing \subseteq Functors \ Invoked
  /\ Throwing \subseteq Functors \ Invoked
  /\ PushMayFail \in BOOLEAN /\ MaxThrown \in Nat

VARIABLES
  fifo, committed, taken,    \* the queue
  QueueItems,
  Running, Stopping,
  ThreadsIn,                 \* Threads: the number of threads in loop()
  ThreadsWaiting,
  Flag, LoopEndedFlag,
  pc,
  job,                       \* the functor that each poster is posting
  answered,                  \* the posters whose invoked functor was called
  eh                         \* the loop threads with an error in eh

queue == <<fifo, committed, taken>>
runFlags == <<Running, Stopping>>
counts == <<ThreadsIn, ThreadsWaiting>>
events == <<Flag, LoopEndedFlag>>
posting == <<job, answered>>
vars == <<queue, QueueItems, runFlags, counts, events, posting, eh, pc>>

Queue == INSTANCE FunctorFifo WITH Readers <- LoopThreads

At(points) == { t \in AllThreads : pc[t] \in points }

PostPoints == { "push", "construct", "wake", "uncount", "await" }
EnterPoints == { "enter", "run", "recheck", "unrun", "count" }
LoopPoints == { "while", "items", "pop", "call", "destroy", "discount", "sleep",
                "asleep", "awake", "more", "moreThreads", "wakeMore", "leave" }
StopPoints == { "lock", "halt", "join", "drain", "loopEnded", "finish" }

TypeOK ==
  /\ QueueItems \in Int /\ ThreadsIn \in Nat /\ ThreadsWaiting \in Nat
  /\ {Running, Stopping, Flag, LoopEndedFlag} \subseteq BOOLEAN
  /\ pc \in [AllThreads -> {"idle", "unborn", "check", "signal", "ended"} \union PostPoints
                          \union EnterPoints \union LoopPoints \union StopPoints]
  /\ job \in [Posters -> Functors \union {None}]
  /\ answered \subseteq Posters /\ eh \subseteq LoopThreads

Init ==
  /\ Queue!Init
  /\ QueueItems = 0
  /\ Running = FALSE /\ Stopping = FALSE
  /\ ThreadsIn = 0 /\ ThreadsWaiting = 0
  /\ Flag = FALSE /\ LoopEndedFlag = FALSE
  /\ job = [p \in Posters |-> None] /\ answered = {}
  /\ eh = {}
  /\ pc = [t \in AllThreads |-> IF t \in Managed THEN "unborn" ELSE "idle"]

Goto(t, from, to) == pc[t] = from /\ pc' = [pc EXCEPT ![t] = to]

(* A step that only looks. *)
Look(t, from, to) ==
  Goto(t, from, to) /\ UNCHANGED <<queue, QueueItems, runFlags, counts, events, posting, eh>>

InUse == Range(fifo) \union { taken[t] : t \in LoopThreads } \union { job[p] : p \in Posters }
------------------------------------------------------------------------------
(* postFunctor and invokeFunctor *)

(* 259, 273 *)
Post(p, f) ==
  /\ f \notin InUse
  /\ f \in Throwing => QueueItems > -MaxThrown
  /\ Goto(p, "idle", "push")
  /\ job' = [job EXCEPT ![p] = f]
  /\ QueueItems' = QueueItems + 1
  /\ UNCHANGED <<queue, runFlags, counts, events, answered, eh>>

(* 260, 274: the queue reserves a place, or has no memory for one. *)
Push(p) ==
  /\ \/ Queue!Reserve(job[p]) /\ Goto(p, "push", "construct")
     \/ PushMayFail /\ Goto(p, "push", "uncount") /\ UNCHANGED queue
  /\ UNCHANGED <<QueueItems, runFlags, counts, events, posting, eh>>

(* The place is committed even if the constructor throws; the push then     *)
(* answers EOTHER.                                                          *)
Construct(p) ==
  /\ Goto(p, "construct", IF job[p] \in Throwing THEN "uncount" ELSE "wake")
  /\ Queue!Commit(job[p])
  /\ UNCHANGED <<QueueItems, runFlags, counts, events, posting, eh>>

(* Slip: the error path does not take the item back. *)
UncountForgotten(p) ==
  /\ Goto(p, "uncount", "idle")
  /\ job' = [job EXCEPT ![p] = None]
  /\ UNCHANGED <<queue, QueueItems, runFlags, counts, events, answered, eh>>

(* 261, 282 *)
Uncount(p) ==
  /\ Goto(p, "uncount", "idle")
  /\ QueueItems' = QueueItems - 1
  /\ job' = [job EXCEPT ![p] = None]
  /\ UNCHANGED <<queue, runFlags, counts, events, answered, eh>>

(* The poster goes on, or waits for the call of what it invoked; a thread   *)
(* in loop() goes on.                                                       *)
AfterWake(t) ==
  \/ /\ Goto(t, "wake", IF job[t] \in Invoked THEN "await" ELSE "idle")
     /\ job' = IF job[t] \in Invoked THEN job ELSE [job EXCEPT ![t] = None]
  \/ Goto(t, "wakeMore", "while") /\ UNCHANGED job

(* Slip: somebody is woken up only if somebody is waiting.                  *)
WakeIfWaiting(t) ==
  /\ AfterWake(t)
  /\ Flag' = (Flag \/ ThreadsWaiting > 0)
  /\ UNCHANGED <<queue, QueueItems, runFlags, counts, LoopEndedFlag, answered, eh>>

(* 262, 287, 416: Flag.set() *)
Wake(t) ==
  /\ AfterWake(t)
  /\ Flag' = TRUE
  /\ UNCHANGED <<queue, QueueItems, runFlags, counts, LoopEndedFlag, answered, eh>>

(* 288: flag.wait() *)
Await(p) ==
  /\ p \in answered
  /\ Goto(p, "await", "idle")
  /\ job' = [job EXCEPT ![p] = None]
  /\ answered' = answered \ {p}
  /\ UNCHANGED <<queue, QueueItems, runFlags, counts, events, eh>>

PostStep(p) == Push(p) \/ Construct(p) \/ Uncount(p) \/ Wake(p) \/ Await(p)
------------------------------------------------------------------------------
(* run *)

(* 298-299: the thread is created, and starts at line 302. *)
Run(t) == At(StopPoints \ {"lock"}) = {} /\ Look(t, "unborn", "check")

(* 302-305: the managed thread ends, or calls loop, again if an error that  *)
(* onError has handled made it return.                                      *)
Check(t) ==
  /\ Goto(t, "check", IF Running THEN "enter" ELSE "ended")
  /\ eh' = eh \ {t}
  /\ UNCHANGED <<queue, QueueItems, runFlags, counts, events, posting>>
------------------------------------------------------------------------------
(* loop *)

CallLoop(t) ==
  /\ Goto(t, "idle", "enter")
  /\ eh' = eh \ {t}
  /\ UNCHANGED <<queue, QueueItems, runFlags, counts, events, posting>>

Back(t) == IF t \in Managed THEN "check" ELSE "idle"

(* 324, 327 *)
LoadStopping(t) ==
  \/ Look(t, "enter", IF Stopping THEN Back(t) ELSE "run")
  \/ Look(t, "recheck", IF Stopping THEN "unrun" ELSE "count")

(* Slip: the way out at line 329 uncounts a thread that was not counted. *)
StoreRunningLeaves(t) ==
  /\ \/ Goto(t, "run", "recheck") /\ Running' = TRUE
     \/ Goto(t, "unrun", "leave") /\ Running' = FALSE
  /\ UNCHANGED <<queue, QueueItems, Stopping, counts, events, posting, eh>>

(* 326, 329 *)
StoreRunning(t) ==
  /\ \/ Goto(t, "run", "recheck") /\ Running' = TRUE
     \/ Goto(t, "unrun", Back(t)) /\ Running' = FALSE
  /\ UNCHANGED <<queue, QueueItems, Stopping, counts, events, posting, eh>>

(* Slip: a thread that leaves with an error stays counted. *)
CountThreadUnlessError(t) ==
  /\ \/ Goto(t, "count", "while") /\ ThreadsIn' = ThreadsIn + 1
     \/ Goto(t, "leave", "signal") /\ ThreadsIn' = IF t \in eh THEN ThreadsIn ELSE ThreadsIn - 1
  /\ UNCHANGED <<queue, QueueItems, runFlags, ThreadsWaiting, events, posting, eh>>

(* 332, 418 *)
CountThread(t) ==
  /\ \/ Goto(t, "count", "while") /\ ThreadsIn' = ThreadsIn + 1
     \/ Goto(t, "leave", "signal") /\ ThreadsIn' = ThreadsIn - 1
  /\ UNCHANGED <<queue, QueueItems, runFlags, ThreadsWaiting, events, posting, eh>>

(* 333 *)
LoadRunning(t) == Look(t, "while", IF Running THEN "items" ELSE "leave")

(* 336 *)
LoadQueueItems(t) == Look(t, "items", IF QueueItems # 0 THEN "pop" ELSE "sleep")

HeadIsReady == fifo # <<>> /\ Head(fifo) \in committed

(* 341: the functor at the head of the queue, or none.  If there is none,   *)
(* the answer eno is what the variable res of tryCallAndPop happens to hold.*)
Pop(t) ==
  /\ \/ Queue!Take(t) /\ Goto(t, "pop", "call") /\ UNCHANGED eh
     \/ /\ ~HeadIsReady
        /\ \/ Goto(t, "pop", "sleep") /\ UNCHANGED eh
           \/ Goto(t, "pop", "leave") /\ eh' = eh \union {t}
        /\ UNCHANGED queue
  /\ UNCHANGED <<QueueItems, runFlags, counts, events, posting>>

(* 275-277: what was invoked answers its poster. *)
Call(t) ==
  /\ Goto(t, "call", "destroy")
  /\ answered' = answered \union { p \in Posters : job[p] = taken[t] /\ taken[t] \in Invoked }
  /\ eh' = IF taken[t] \in Failing THEN eh \union {t} ELSE eh
  /\ UNCHANGED <<queue, QueueItems, runFlags, counts, events, job>>

Destroy(t) ==
  /\ Goto(t, "destroy", "discount")
  /\ Queue!Finish(t)
  /\ UNCHANGED <<QueueItems, runFlags, counts, events, posting, eh>>

(* Slip: the next functor is left to the next time round. *)
DiscountOnce(t) ==
  /\ Goto(t, "discount", IF t \in eh THEN "leave" ELSE "sleep")
  /\ QueueItems' = QueueItems - 1
  /\ UNCHANGED <<queue, runFlags, counts, events, posting, eh>>

(* 342-345 *)
Discount(t) ==
  /\ Goto(t, "discount", IF t \in eh THEN "leave" ELSE "pop")
  /\ QueueItems' = QueueItems - 1
  /\ UNCHANGED <<queue, runFlags, counts, events, posting, eh>>

(* 412, 414 *)
CountWaiting(t) ==
  /\ \/ Goto(t, "sleep", "asleep") /\ ThreadsWaiting' = ThreadsWaiting + 1
     \/ Goto(t, "awake", "more") /\ ThreadsWaiting' = ThreadsWaiting - 1
  /\ UNCHANGED <<queue, QueueItems, runFlags, ThreadsIn, events, posting, eh>>

(* 413 *)
WaitFlag(t) ==
  /\ Flag
  /\ Goto(t, "asleep", "awake")
  /\ Flag' = FALSE
  /\ UNCHANGED <<queue, QueueItems, runFlags, counts, LoopEndedFlag, posting, eh>>

(* 415 *)
LookForMore(t) ==
  \/ Look(t, "more", IF QueueItems > 1 THEN "moreThreads" ELSE "while")
  \/ Look(t, "moreThreads", IF ThreadsWaiting > 1 THEN "wakeMore" ELSE "while")

(* 419 *)
SignalEnded(t) ==
  /\ Goto(t, "signal", Back(t))
  /\ LoopEndedFlag' = TRUE
  /\ UNCHANGED <<queue, QueueItems, runFlags, counts, Flag, posting, eh>>

LoopStep(t) ==
  \/ Check(t) \/ LoadStopping(t) \/ StoreRunning(t) \/ CountThread(t) \/ LoadRunning(t)
  \/ LoadQueueItems(t) \/ Pop(t) \/ Call(t) \/ Destroy(t) \/ Discount(t)
  \/ CountWaiting(t) \/ WaitFlag(t) \/ LookForMore(t) \/ Wake(t) \/ SignalEnded(t)
------------------------------------------------------------------------------
(* stop *)

(* 425, 427-428: Stopping is set before and after the mutex is locked. *)
StoreStopping(s) ==
  /\ \/ Goto(s, "idle", "lock")
     \/ At(StopPoints \ {"lock"}) = {} /\ Goto(s, "lock", "halt")
  /\ Stopping' = TRUE
  /\ UNCHANGED <<queue, QueueItems, Running, counts, events, posting, eh>>

(* 429 *)
Halt(s) ==
  /\ Goto(s, "halt", "join")
  /\ Running' = FALSE
  /\ UNCHANGED <<queue, QueueItems, Stopping, counts, events, posting, eh>>

(* Slip: the managed threads are not waited for. *)
JoinNone(s) ==
  /\ pc[s] = "join"
  /\ pc' = [t \in AllThreads |-> IF t = s THEN "drain"
                              ELSE IF pc[t] = "ended" THEN "unborn" ELSE pc[t]]
  /\ UNCHANGED <<queue, QueueItems, runFlags, counts, events, posting, eh>>

(* 431-445 *)
Join(s) ==
  /\ pc[s] = "join"
  /\ \A t \in Managed : pc[t] \in {"unborn", "ended"}
  /\ pc' = [t \in AllThreads |-> IF t = s THEN "drain"
                              ELSE IF t \in Managed THEN "unborn" ELSE pc[t]]
  /\ UNCHANGED <<queue, QueueItems, runFlags, counts, events, posting, eh>>

(* 446 *)
Drain(s) == Look(s, "drain", IF ThreadsIn # 0 THEN "loopEnded" ELSE "finish")

(* 450 *)
WaitLoopEnded(s) ==
  /\ LoopEndedFlag
  /\ Goto(s, "loopEnded", "drain")
  /\ LoopEndedFlag' = FALSE
  /\ UNCHANGED <<queue, QueueItems, runFlags, counts, Flag, posting, eh>>

(* 452 *)
Finish(s) ==
  /\ Goto(s, "finish", "idle")
  /\ Stopping' = FALSE
  /\ UNCHANGED <<queue, QueueItems, Running, counts, events, posting, eh>>

StopStep(s) == Halt(s) \/ Join(s) \/ Drain(s) \/ WaitLoopEnded(s) \/ Finish(s)
------------------------------------------------------------------------------
Next ==
  \/ \E p \in Posters : PostStep(p) \/ (\E f \in Functors : Post(p, f))
  \/ \E t \in LoopThreads : LoopStep(t)
  \/ \E t \in Loopers : CallLoop(t)
  \/ \E t \in Managed : Run(t)
  \/ \E s \in Stoppers : StoreStopping(s) \/ StopStep(s)

Spec == Init /\ [][Next]_vars

(* The scheduler runs every thread that can run; the program keeps its      *)
(* threads in loop(); a stop() gets on with it.                             *)
Fairness ==
  /\ \A p \in Posters : WF_vars(PostStep(p))
  /\ \A t \in LoopThreads : WF_vars(LoopStep(t))
  /\ \A t \in Loopers : WF_vars(CallLoop(t))
  /\ \A s \in Stoppers : WF_vars(StopStep(s) \/ (pc[s] = "lock" /\ StoreStopping(s)))

FairSpec == Spec /\ Fairness
------------------------------------------------------------------------------
(* A functor is counted that is not in the queue: its poster is about to    *)
(* push it or to take it back, or it was popped a moment ago.               *)
ItemPoints == { "push", "uncount", "call", "destroy", "discount" }

(* QueueItems counts what is in the queue and what is at those points:      *)
(* nobody who finds it 0 misses a functor that is ready.                    *)
ItemsCounted == QueueItems = Len(fifo) + Cardinality(At(ItemPoints))

(* Threads and ThreadsWaiting count the threads in loop() and those of them *)
(* that sleep, errors and stops included.                                   *)
ThreadsCounted ==
  /\ ThreadsIn = Cardinality(At(LoopPoints))
  /\ ThreadsWaiting = Cardinality(At({"asleep", "awake"}))

(* What is counted of the threads, in a state that is well-formed.          *)
LoopIsCounted == TypeOK /\ ThreadsCounted

(* The lost wakeup: the functor at the head of the queue is ready, but the  *)
(* threads in loop() sleep or are about to, Flag is not set and nobody will *)
(* set it.                                                                  *)
NoLostPost ==
  HeadIsReady /\ At({"asleep"}) # {} =>
    \/ Flag
    \/ At({"wake"}) # {}
    \/ \E t \in LoopThreads : pc[t] \notin {"sleep", "asleep", "unborn", "ended"}

(* While stop() waits for the threads of the program, the managed ones are  *)
(* gone and no new one starts.                                              *)
ManagedAreJoined ==
  At({"drain", "loopEnded", "finish"}) # {} => \A t \in Managed : pc[t] = "unborn"

(* A functor that is ready is called, also if others before it fail.        *)
PostedIsCalled == \A f \in Functors : f \in committed ~> f \notin Range(fifo)

(* invoke() returns. *)
InvokeReturns == \A p \in Posters : pc[p] = "await" ~> pc[p] = "idle"

(* "Wake up more threads if there's more than one item in the queue" (416): *)
(* QueueItems tells what is in the queue; it is not 0 beside an item.       *)
ReadyIsCounted == committed # {} => QueueItems # 0

(* "Wait for managed threads" (430), "Wait for other threads" (448): the    *)
(* threads leave, and stop() returns.                                       *)
StopReturns == \A s \in Stoppers : pc[s] # "idle" ~> pc[s] = "idle"
=============================================================================
