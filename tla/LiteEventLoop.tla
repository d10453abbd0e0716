---------------------------- MODULE LiteEventLoop ----------------------------
(***************************************************************************)
(* The header-only loop of sev_lite (src/sev_lite/event_loop.h): one loop  *)
(* thread, a queue of functors, timers, join, clear and stop.              *)
(*                                                                         *)
(* The header has two builds.  "windows" has a kernel event to poke the    *)
(* loop and the concurrent containers of the compiler; "library" has a     *)
(* flag, a condition variable and mutexes.  A section under a mutex and an *)
(* operation of a concurrent container are one step each.                  *)
(***************************************************************************)
EXTENDS Integers, Sequences, SequencesExt, FiniteSets

CONSTANTS
  Clients,      \* the threads that use the loop
  Owner,        \* the client that calls run and runSync
  Posts,        \* what they pass to immediate()
  Timers,       \* what they pass to timeout(), timed() and interval()
  Builds,       \* the builds under consideration
  Delays,       \* how far off a timer is when it is posted
  Intervals,    \* of timers; 0 for timeout() and timed()
  MaxTime,      \* bound: the clock stops here
  MaxCalls,     \* bound: calls of all kinds
  None

Ms == 2         \* ticks of the clock in a millisecond

ASSUME OwnerAssumption == Owner \in Clients /\ IsFiniteSet(Clients)
ASSUME BuildsAssumption == Builds \subseteq {"windows", "library"}
ASSUME TimesAssumption == Delays \union Intervals \union {MaxTime, MaxCalls} \subseteq Nat

VARIABLES
  build,
  running,      \* m_Running
  poked,        \* m_Poked, or the state of m_PokeEvent
  immediate,    \* m_Immediate
  timeout,      \* m_Timeout: records of functor, time and interval
  cancel,       \* m_Cancel
  thread,       \* m_Thread; or the owner is in runSync; or the object is gone
  loop,         \* where the thread in loop() is
  cur,          \* the functor it has in hand
  tf,           \* the timer it has in hand
  client,       \* where each client is
  call,         \* what each client has called, and a join() whose functor clear() took away
  now,
  calls,        \* how many there have been
  before,       \* of each client in join(): functors queued earlier (history)
  asked         \* did the timer in hand call cancel()? (history)

queues == <<immediate, timeout>>
flags == <<running, poked, cancel, thread>>
loopVars == <<loop, cur, tf, asked>>
callVars == <<client, call, before>>
clock == <<build, now>>
vars == <<clock, flags, queues, loopVars, callVars, calls>>

Syncs == {"sync"} \X Clients
Hollow == <<"hollow", None>>       \* a functor that was moved away
ASSUME NamesAssumption == Posts \intersect (Syncs \union {Hollow, None}) = {}
Stops == { "stop", "run", "runSync", "destroy" }
Timer == [functor : Timers, time : Nat, interval : Intervals]

ClientPoints == { "idle", "poke", "joinPoke", "joining", "early", "clearTimers",
                  "stopPoke", "stopTest", "stopJoin", "stopped" }
(* With a functor taken from the queue; in that of join(), "sync" is past   *)
(* the look at the queue, and "again" where the queue was not empty.        *)
HoldPoints == { "call", "sync", "again" }
LoopPoints == HoldPoints \union
  { "off", "top", "unpoke", "immediate", "callPoke", "timers", "holding",
    "timerWait", "callTimer", "rearm", "idle", "terminated" }
Calls == Stops \union { "other", "join", "joinEmpty", "joinCleared" }

TypeOK ==
  /\ build \in Builds
  /\ {running, poked, cancel, asked} \subseteq BOOLEAN
  /\ immediate \in Seq(Posts \union Syncs \union {Hollow})
  /\ timeout \subseteq Timer
  /\ thread \in {"none", "joinable", "sync", "gone"}
  /\ loop \in LoopPoints
  /\ cur \in Posts \union Syncs \union {Hollow, None}
  /\ tf \in Timer \union {None}
  /\ client \in [Clients -> ClientPoints]
  /\ call \in [Clients -> Calls]
  /\ now \in 0 .. MaxTime /\ calls \in 0 .. MaxCalls
  /\ before \in [Clients -> SUBSET Posts]

Init ==
  /\ build \in Builds
  /\ running = FALSE /\ poked = FALSE /\ cancel = FALSE
  /\ immediate = <<>> /\ timeout = {}
  /\ thread = "none"
  /\ loop = "off" /\ cur = None /\ tf = None /\ asked = FALSE
  /\ client = [c \in Clients |-> "idle"]
  /\ call = [c \in Clients |-> "other"]
  /\ now = 0 /\ calls = 0
  /\ before = [c \in Clients |-> {}]

InHand == IF loop \in HoldPoints \union {"callPoke"} THEN {cur} ELSE {}
Pending == ToSet(immediate) \union InHand
Timed == timeout \union (IF loop \in {"holding", "callTimer", "rearm"} THEN {tf} ELSE {})
------------------------------------------------------------------------------
(* What clients do. *)

Goto(c, from, to) == client[c] = from /\ client' = [client EXCEPT ![c] = to]

(* What was remembered of a call ends with it. *)
Return(c, from) ==
  /\ Goto(c, from, "idle")
  /\ call' = [call EXCEPT ![c] = "other"]
  /\ before' = [before EXCEPT ![c] = {}]

(* A client calls something; the owner not while it is inside runSync().    *)
MayBegin(c, to) ==
  /\ Goto(c, "idle", to)
  /\ calls < MaxCalls /\ calls' = calls + 1
  /\ thread # "gone" /\ (thread = "sync" => c # Owner)
  /\ \A d \in Clients : client[d] # "idle" => call[d] # "destroy"

Begin(c, what, to) == MayBegin(c, to) /\ call' = [call EXCEPT ![c] = what]

(* 154-161 *)
Immediate(c) == \E f \in Posts \ Pending :
  /\ Begin(c, "other", "poke")
  /\ immediate' = Append(immediate, f)
  /\ UNCHANGED <<clock, flags, timeout, loopVars, before>>

(* Slip: timeout() does not set the interval. *)
TimeoutUnset(c) == \E k \in Timers, d \in Delays, i \in Intervals :
  /\ \A other \in Timed : other.functor # k
  /\ Begin(c, "other", "poke")
  /\ timeout' = timeout \union
       {[functor |-> k, time |-> now + (IF i = 0 THEN d ELSE i), interval |-> IF i = 0 THEN None ELSE i]}
  /\ UNCHANGED <<clock, flags, immediate, loopVars, before>>

(* 166-216: interval, which begins one interval from now, timeout and timed. *)
Timeout(c) == \E k \in Timers, d \in Delays, i \in Intervals :
  /\ \A other \in Timed : other.functor # k
  /\ Begin(c, "other", "poke")
  /\ timeout' = timeout \union
       {[functor |-> k, time |-> now + (IF i = 0 THEN d ELSE i), interval |-> i]}
  /\ UNCHANGED <<clock, flags, immediate, loopVars, before>>

(* Slip: the functor of join() overtakes the others. *)
JoinFirst(c) == \E what \in {"join", "joinEmpty"} :
  /\ Begin(c, what, "joinPoke")
  /\ immediate' = <<<<"sync", c>>>> \o immediate
  /\ before' = [before EXCEPT ![c] = Pending \intersect Posts]
  /\ UNCHANGED <<clock, flags, timeout, loopVars>>

(* 124-149: the functor that will wake this client up goes into the queue.  *)
Join(c) == \E what \in {"join", "joinEmpty"} :
  /\ Begin(c, what, "joinPoke")
  /\ immediate' = Append(immediate, <<"sync", c>>)
  /\ before' = [before EXCEPT ![c] = Pending \intersect Posts]
  /\ UNCHANGED <<clock, flags, timeout, loopVars>>

(* Slip: nobody is poked. *)
NoPoke(c) ==
  /\ Goto(c, "poke", "idle") \/ Goto(c, "joinPoke", "joining") \/ Goto(c, "stopPoke", "stopTest")
  /\ UNCHANGED <<clock, flags, queues, loopVars, call, calls, before>>

(* 335-344, called at the end of the calls and by stop: sets the flag and   *)
(* notifies, or sets the event.  A client in join() waits from here on      *)
(* (150), which gives up syncLock.                                          *)
Poke(c) ==
  /\ Goto(c, "poke", "idle") \/ Goto(c, "joinPoke", "joining") \/ Goto(c, "stopPoke", "stopTest")
  /\ poked' = TRUE
  /\ UNCHANGED <<clock, running, cancel, thread, queues, loopVars, call, calls, before>>

(* 150: nothing tells a wakeup for no reason from the end of the wait.  The *)
(* functor in the queue refers to a frame that is gone.                     *)
WakeEarly(c) ==
  /\ Goto(c, "joining", "early")
  /\ UNCHANGED <<clock, flags, queues, loopVars, call, calls, before>>

(* Those who join lose their functor, too, and are not woken up. *)
Forget(c) ==
  call' = [d \in Clients |-> IF d = c THEN "other"
                             ELSE IF <<"sync", d>> \in ToSet(immediate) THEN "joinCleared" ELSE call[d]]

(* 104-115: under both locks, or one container after the other. *)
Clear(c) ==
  /\ \/ build = "library" /\ MayBegin(c, "idle") /\ timeout' = {}
     \/ build = "windows" /\ MayBegin(c, "clearTimers") /\ UNCHANGED timeout
  /\ Forget(c)
  /\ immediate' = <<>>
  /\ before' = [d \in Clients |-> before[d] \ ToSet(immediate)]
  /\ UNCHANGED <<clock, flags, loopVars>>

ClearTimers(c) ==
  /\ Goto(c, "clearTimers", "idle")
  /\ timeout' = {}
  /\ UNCHANGED <<clock, flags, immediate, loopVars, call, calls, before>>
------------------------------------------------------------------------------
(* stop, and run, runSync and the destructor, which begin with it. *)

(* 98 *)
Stop(c) == \E what \in Stops :
  /\ Begin(c, what, "stopPoke")
  /\ what # "stop" => c = Owner
  /\ what = "destroy" => \A d \in Clients \ {c} : client[d] = "idle"
  /\ running' = FALSE
  /\ UNCHANGED <<clock, poked, cancel, thread, queues, loopVars, before>>

(* 100 *)
StopTest(c) ==
  /\ Goto(c, "stopTest", IF thread = "joinable" THEN "stopJoin" ELSE "stopped")
  /\ UNCHANGED <<clock, flags, queues, loopVars, call, calls, before>>

(* 101: undefined if two threads join the same std::thread. *)
StopJoin(c) ==
  /\ client[c] = "stopJoin"
  /\ \/ /\ \A d \in Clients \ {c} : client[d] # "stopJoin"
        /\ loop = "off" /\ UNCHANGED loop
        /\ Goto(c, "stopJoin", "stopped")
        /\ thread' = "none"
     \/ /\ \E d \in Clients \ {c} : client[d] = "stopJoin"
        /\ loop' = "terminated" /\ UNCHANGED <<client, thread>>
  /\ UNCHANGED <<clock, running, poked, cancel, queues, cur, tf, asked, call, calls, before>>

(* 85-86, 92-93: a new loop; 76: the object is empty, and gone. *)
AfterStop(c) ==
  /\ Return(c, "stopped")
  /\ \/ /\ call[c] \in {"run", "runSync"}
        /\ running' = TRUE /\ loop' = "top"
        /\ thread' = IF call[c] = "run" THEN "joinable" ELSE "sync"
        /\ UNCHANGED queues
     \/ /\ call[c] = "destroy"
        /\ immediate' = <<>> /\ timeout' = {} /\ thread' = "gone"
        /\ UNCHANGED <<running, loop>>
     \/ call[c] = "stop" /\ UNCHANGED <<running, loop, thread, queues>>
  /\ UNCHANGED <<clock, poked, cancel, cur, tf, asked, calls>>
------------------------------------------------------------------------------
(* loop() 231-333 *)

LoopGoto(from, to) == loop = from /\ loop' = to

(* 233 *)
Top ==
  /\ LoopGoto("top", IF ~running THEN "off"
                     ELSE IF build = "library" THEN "unpoke" ELSE "immediate")
  /\ thread' = IF ~running /\ thread = "sync" THEN "none" ELSE thread
  /\ UNCHANGED <<clock, running, poked, cancel, queues, cur, tf, asked, callVars, calls>>

(* 236 *)
Unpoke ==
  /\ LoopGoto("unpoke", "immediate")
  /\ poked' = FALSE
  /\ UNCHANGED <<clock, running, cancel, thread, queues, cur, tf, asked, callVars, calls>>

(* 239-255 *)
PopImmediate ==
  /\ \/ /\ immediate # <<>> /\ LoopGoto("immediate", "call")
        /\ cur' = Head(immediate) /\ immediate' = Tail(immediate)
     \/ /\ immediate = <<>> /\ LoopGoto("immediate", "timers")
        /\ UNCHANGED <<cur, immediate>>
  /\ UNCHANGED <<clock, flags, timeout, tf, asked, callVars, calls>>

(* 256, of a functor that may call cancel() (118). *)
Call ==
  /\ LoopGoto("call", "immediate")
  /\ cur \in Posts /\ cur' = None
  /\ before' = [c \in Clients |-> before[c] \ {cur}]
  /\ cancel' \in {cancel, TRUE}
  /\ UNCHANGED <<clock, running, poked, thread, queues, tf, asked, client, call, calls>>

(* 131, 138: join(true) is not done while something is queued. *)
IsDone(c) == call[c] = "join" \/ immediate = <<>>

(* 131-139: the functor of join() looks at the queue; others may change it  *)
(* before the next step.                                                    *)
CallSync ==
  /\ loop = "call"
  /\ \E c \in Clients : cur = <<"sync", c>> /\ loop' = IF IsDone(c) THEN "sync" ELSE "again"
  /\ UNCHANGED <<clock, flags, queues, cur, tf, asked, callVars, calls>>

(* Slip: without syncLock, a client that does not wait yet misses it. *)
SyncNotifyUnlocked ==
  /\ LoopGoto("sync", "immediate")
  /\ \E c \in Clients :
       /\ cur = <<"sync", c>> /\ client[c] # "early"
       /\ \/ Return(c, "joining")
          \/ client[c] # "joining" /\ UNCHANGED callVars
  /\ cur' = None
  /\ UNCHANGED <<clock, flags, queues, tf, asked, calls>>

(* 145-146: under syncLock, as soon as its client waits. *)
SyncNotify ==
  /\ LoopGoto("sync", "immediate")
  /\ \E c \in Clients : cur = <<"sync", c>> /\ Return(c, "joining")
  /\ cur' = None
  /\ UNCHANGED <<clock, flags, queues, tf, asked, calls>>

(* 141: again at the end of the queue.  What immediate() forwards is the    *)
(* functor in the frame of join(), which line 149 has moved away already.   *)
SyncAgain ==
  /\ LoopGoto("again", "callPoke")
  /\ \E c \in Clients : cur = <<"sync", c>> /\ client[c] # "early"
  /\ immediate' = Append(immediate, Hollow)
  /\ UNCHANGED <<clock, flags, timeout, cur, tf, asked, callVars, calls>>

(* 162 *)
CallPoke ==
  /\ LoopGoto("callPoke", "immediate")
  /\ poked' = TRUE /\ cur' = None
  /\ UNCHANGED <<clock, running, cancel, thread, queues, tf, asked, callVars, calls>>

(* 256: an empty function throws out of the thread; 141, 145: a frame that  *)
(* is gone is undefined.  The model ends.                                   *)
CallFails ==
  /\ \/ LoopGoto("call", "terminated") /\ cur = Hollow
     \/ /\ LoopGoto("sync", "terminated") \/ LoopGoto("again", "terminated")
        /\ \E c \in Clients : cur = <<"sync", c>> /\ client[c] = "early"
  /\ UNCHANGED <<clock, flags, queues, cur, tf, asked, callVars, calls>>

(* 276-281: the time has come, for Windows to the millisecond. *)
Due(t) ==
  \/ t.time <= now
  \/ build = "windows" /\ (t.time - now) \div Ms = 0

Earliest(t) == t \in timeout /\ \A other \in timeout : t.time <= other.time

(* Slip: m_Cancel is still what an earlier functor left. *)
LookAtTimersCancelled ==
  /\ loop = "timers"
  /\ \/ timeout = {} /\ loop' = "idle" /\ UNCHANGED <<tf, timeout>>
     \/ \E t \in timeout :
          /\ Earliest(t) /\ tf' = t
          /\ \/ Due(t) /\ loop' = "callTimer" /\ timeout' = timeout \ {t}
             \/ ~Due(t) /\ build = "library" /\ loop' = "timerWait" /\ UNCHANGED timeout
             \/ ~Due(t) /\ build = "windows" /\ loop' = "holding" /\ timeout' = timeout \ {t}
  /\ UNCHANGED <<clock, flags, immediate, cur, asked, callVars, calls>>

(* Slip: the flag is lowered before the loop goes to sleep. *)
LookThenUnpoke ==
  /\ loop = "timers"
  /\ \/ timeout = {} /\ loop' = "idle" /\ poked' = FALSE /\ UNCHANGED <<tf, timeout, cancel>>
     \/ UNCHANGED poked /\ \E t \in timeout :
          /\ Earliest(t) /\ tf' = t
          /\ \/ Due(t) /\ loop' = "callTimer" /\ timeout' = timeout \ {t} /\ cancel' = FALSE
             \/ ~Due(t) /\ build = "library" /\ loop' = "timerWait" /\ UNCHANGED <<timeout, cancel>>
             \/ ~Due(t) /\ build = "windows" /\ loop' = "holding" /\ timeout' = timeout \ {t}
                /\ UNCHANGED cancel
  /\ UNCHANGED <<clock, running, thread, immediate, cur, asked, callVars, calls>>

(* 260-306: the earliest timer is called, or waited for; the Windows build  *)
(* takes it out to look at it.                                              *)
LookAtTimers ==
  /\ loop = "timers"
  /\ \/ timeout = {} /\ loop' = "idle" /\ UNCHANGED <<tf, timeout, cancel>>
     \/ \E t \in timeout :
          /\ Earliest(t) /\ tf' = t
          /\ \/ Due(t) /\ loop' = "callTimer" /\ timeout' = timeout \ {t} /\ cancel' = FALSE
             \/ ~Due(t) /\ build = "library" /\ loop' = "timerWait" /\ UNCHANGED <<timeout, cancel>>
             \/ ~Due(t) /\ build = "windows" /\ loop' = "holding" /\ timeout' = timeout \ {t}
                /\ UNCHANGED cancel
  /\ UNCHANGED <<clock, running, poked, thread, immediate, cur, asked, callVars, calls>>

(* 285 *)
PutBack ==
  /\ LoopGoto("holding", "timerWait")
  /\ timeout' = timeout \union {tf}
  /\ UNCHANGED <<clock, flags, immediate, cur, tf, asked, callVars, calls>>

(* A wait ends when the loop is poked, which uses up a kernel event; a      *)
(* condition variable may also wake up for no reason.                       *)
WakeUp ==
  \/ poked /\ poked' = (build = "library")
  \/ ~poked /\ build = "library" /\ UNCHANGED poked

(* 289-299: or the time of the timer comes.  The library build reads that   *)
(* time out of the queue after it has unlocked it: it may be any by then.   *)
TimerWait ==
  /\ LoopGoto("timerWait", "top")
  /\ WakeUp \/ (Due(tf) /\ UNCHANGED poked)
  /\ tf' = None
  /\ UNCHANGED <<clock, running, cancel, thread, queues, cur, asked, callVars, calls>>

(* 322-331 *)
Idle ==
  /\ LoopGoto("idle", "top") /\ WakeUp
  /\ UNCHANGED <<clock, running, cancel, thread, queues, cur, tf, asked, callVars, calls>>

(* 307, of a functor that may call cancel() (118). *)
CallTimer == \E cancelled \in BOOLEAN :
  /\ LoopGoto("callTimer", "rearm")
  /\ cancel' = (cancel \/ cancelled) /\ asked' = cancelled
  /\ UNCHANGED <<clock, running, poked, thread, queues, cur, tf, callVars, calls>>

(* 308-319 *)
Rearm ==
  /\ LoopGoto("rearm", "timers")
  /\ timeout' = IF ~cancel /\ tf.interval > 0
                THEN timeout \union {[tf EXCEPT !.time = @ + tf.interval]}
                ELSE timeout
  /\ tf' = None /\ asked' = FALSE
  /\ UNCHANGED <<clock, flags, immediate, cur, callVars, calls>>

Tick ==
  /\ now < MaxTime /\ now' = now + 1
  /\ UNCHANGED <<build, flags, queues, loopVars, callVars, calls>>
------------------------------------------------------------------------------
LoopStep ==
  \/ Top \/ Unpoke \/ PopImmediate \/ Call \/ CallSync \/ SyncNotify \/ SyncAgain \/ CallPoke
  \/ CallFails \/ LookAtTimers \/ PutBack \/ CallTimer \/ Rearm

Wait == TimerWait \/ Idle

Start(c) == Immediate(c) \/ Timeout(c) \/ Join(c) \/ Clear(c) \/ Stop(c)

Continue(c) == Poke(c) \/ ClearTimers(c) \/ StopTest(c) \/ StopJoin(c) \/ AfterStop(c)

Next ==
  /\ loop # "terminated"
  /\ \/ LoopStep \/ Wait \/ Tick
     \/ \E c \in Clients : Start(c) \/ Continue(c) \/ WakeEarly(c)

Spec == Init /\ [][Next]_vars

(* The scheduler runs every thread that can run, and a wait that is poked   *)
(* ends.                                                                    *)
Fairness ==
  /\ WF_vars(LoopStep)
  /\ WF_vars(poked /\ Wait)
  /\ \A c \in Clients : WF_vars(loop # "terminated" /\ Continue(c))

FairSpec == Spec /\ Fairness
------------------------------------------------------------------------------
(* "Block call until the queued functors finished processing" (123): when   *)
(* join() is woken up by its functor, what was queued before is done.  This *)
(* is not said of a client that wakes up for no reason ("early"): line 150  *)
(* waits without a condition.  Nor is the queue empty when join(true) is    *)
(* woken up: somebody may post between the look at 131 and the end at 146.  *)
JoinWaits ==
  [][\A c \in Clients : client[c] = "joining" /\ client'[c] = "idle" => before[c] = {}]_vars

(* A timer with an interval goes on until it calls cancel() itself (117) or *)
(* somebody clears the queue.                                               *)
IntervalKept ==
  [][\A t \in Timed : t.interval > 0 =>
       \/ \E next \in Timed' : next.functor = t.functor
       \/ loop = "rearm" /\ asked
       \/ loop' = "terminated"
       \/ \E c \in Clients : Clear(c) \/ ClearTimers(c)
       \/ thread' = "gone"]_vars

(* A functor in the queue is called; no poke is lost by the loop that goes  *)
(* to sleep.  Of the functors of join(), JoinReturns says so.               *)
PostedIsCalled == \A f \in Posts :
  f \in ToSet(immediate) /\ running ~> f \notin ToSet(immediate) \/ ~running \/ loop = "terminated"

(* While the loop runs, join() returns, unless clear() takes its functor    *)
(* away: the functor waits for the client that still holds syncLock (145),  *)
(* and the client for the functor (150).                                    *)
JoinReturns == \A c \in Clients :
  client[c] = "joining" /\ call[c] = "join" /\ running
    ~> client[c] # "joining" \/ call[c] # "join" \/ ~running \/ loop = "terminated"

(* "stop() // thread-safe" (96): whoever waits for the thread of the loop   *)
(* (101) comes back from there, unless run() has started another.           *)
StopReturns == \A c \in Clients :
  client[c] = "stopJoin" /\ ~running ~> client[c] # "stopJoin" \/ running
==============================================================================
