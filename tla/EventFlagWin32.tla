--------------------------- MODULE EventFlagWin32 ---------------------------
(***************************************************************************)
(* SEV_EventFlag on Windows (src/sev/event_flag.cpp, 41-132): a kernel     *)
(* event with a fast path in front of it.                                  *)
(*                                                                         *)
(*   Waiting  number of threads inside wait()                              *)
(*   Set      1: the flag was set while nobody seemed to wait              *)
(*   Event    the kernel event                                             *)
(*                                                                         *)
(* A set() that sees a waiter goes through the kernel; one that does not   *)
(* leaves Set behind, and takes it back if a waiter showed up meanwhile.   *)
(* Every interlocked access and every system call is one step.             *)
(***************************************************************************)
EXTENDS Integers, FiniteSets

CONSTANTS
  Threads,       \* the threads that use the flag
  Ops,           \* the operations they call
  ManualReset    \* init's parameter manualReset

AllOps == { "wait", "waitFor", "set", "reset", "release" }

ASSUME ThreadsAssumption == IsFiniteSet(Threads)
ASSUME OpsAssumption == Ops \subseteq AllOps
ASSUME ManualResetAssumption == ManualReset \in BOOLEAN

VARIABLES
  Waiting,
  Set,
  Event,
  pc,      \* the access or call each thread makes next
  timed,   \* the threads whose wait has a time limit
  life     \* "used", "released", or "terminated" with the process

vars == <<Waiting, Set, Event, pc, timed, life>>

(* Inside wait and waitFor.  "kernel" is about to call WaitForSingleObject, *)
(* "blocked" is inside it.                                                  *)
WaitPoints == { "exchange", "kernel", "blocked", "granted", "timedOut" }
SetPoints == { "store", "recheck", "takeBack", "passOn", "setEvent" }
ResetPoints == { "resetEvent" }

At(points) == { t \in Threads : pc[t] \in points }

TypeOK ==
  /\ Waiting \in Nat
  /\ Set \in {0, 1}
  /\ Event \in BOOLEAN
  /\ pc \in [Threads -> {"idle"} \union WaitPoints \union SetPoints \union ResetPoints]
  /\ timed \subseteq Threads
  /\ life \in {"used", "released", "terminated"}

(* SEV_EventFlag_init: CreateEventW gets manualReset as the initial state,  *)
(* too; the parameter initialState is not used.                             *)
Init ==
  /\ Waiting = 0
  /\ Set = 0
  /\ Event = ManualReset
  /\ pc = [t \in Threads |-> "idle"]
  /\ timed = {}
  /\ life = "used"

Goto(t, from, to) == pc[t] = from /\ pc' = [pc EXCEPT ![t] = to]

Call(t, op, to) == op \in Ops /\ Goto(t, "idle", to) /\ UNCHANGED life

(* A thread that finds the event signalled resets it (unless ManualReset).  *)
Signalled == Event' = ManualReset
------------------------------------------------------------------------------
(* wait 70, waitFor 90 *)
WaitStart(t) ==
  /\ \/ Call(t, "wait", "exchange") /\ UNCHANGED timed
     \/ Call(t, "waitFor", "exchange") /\ timed' = timed \union {t}
  /\ Waiting' = Waiting + 1
  /\ UNCHANGED <<Set, Event>>

(* Slip: Set is only looked at. *)
WaitExchangeLoads(t) ==
  /\ Goto(t, "exchange", IF Set = 1 THEN "granted" ELSE "kernel")
  /\ UNCHANGED <<Waiting, Set, Event, timed, life>>

(* Slip: the fast path uncounts the waiter that its way out uncounts again. *)
WaitExchangeUncounts(t) ==
  /\ Goto(t, "exchange", IF Set = 1 THEN "granted" ELSE "kernel")
  /\ Waiting' = Waiting - Set
  /\ Set' = 0
  /\ UNCHANGED <<Event, timed, life>>

(* 71, 91 *)
WaitExchange(t) ==
  /\ Goto(t, "exchange", IF Set = 1 THEN "granted" ELSE "kernel")
  /\ Set' = 0
  /\ UNCHANGED <<Waiting, Event, timed, life>>

(* 77, 97: WaitForSingleObject returns at once, or queues the thread. *)
WaitForSingleObject(t) ==
  /\ \/ Event /\ Goto(t, "kernel", "granted") /\ Signalled
     \/ ~Event /\ Goto(t, "kernel", "blocked") /\ UNCHANGED Event
  /\ UNCHANGED <<Waiting, Set, timed, life>>

(* WAIT_TIMEOUT *)
WaitTimeout(t) ==
  /\ t \in timed
  /\ Goto(t, "blocked", "timedOut")
  /\ UNCHANGED <<Waiting, Set, Event, timed, life>>

(* Slip: the timeout's way out does not uncount the waiter. *)
WaitLeaveKeepsCount(t) ==
  /\ \/ Goto(t, "granted", "idle") /\ Waiting' = Waiting - 1
     \/ Goto(t, "timedOut", "idle") /\ UNCHANGED Waiting
  /\ timed' = timed \ {t}
  /\ UNCHANGED <<Set, Event, life>>

(* 73 and 79, 93 and 99 *)
WaitLeave(t) ==
  /\ Goto(t, "granted", "idle") \/ Goto(t, "timedOut", "idle")
  /\ Waiting' = Waiting - 1
  /\ timed' = timed \ {t}
  /\ UNCHANGED <<Set, Event, life>>

(* 111 *)
SetStart(t) ==
  /\ Call(t, "set", IF Waiting > 0 THEN "setEvent" ELSE "store")
  /\ UNCHANGED <<Waiting, Set, Event, timed>>

(* Slip: the waiters are not looked at a second time. *)
SetStoreOnly(t) ==
  /\ Goto(t, "store", "idle")
  /\ Set' = 1
  /\ UNCHANGED <<Waiting, Event, timed, life>>

(* 118 *)
SetStore(t) ==
  /\ Goto(t, "store", "recheck")
  /\ Set' = 1
  /\ UNCHANGED <<Waiting, Event, timed, life>>

(* 119, first half *)
SetRecheck(t) ==
  /\ Goto(t, "recheck", IF Waiting > 0 THEN "takeBack" ELSE "idle")
  /\ UNCHANGED <<Waiting, Set, Event, timed, life>>

(* Slip: Set stays although it is passed on to the event. *)
SetTakeBackKeeps(t) ==
  /\ Goto(t, "takeBack", IF Set = 1 THEN "passOn" ELSE "idle")
  /\ UNCHANGED <<Waiting, Set, Event, timed, life>>

(* 119, second half *)
SetTakeBack(t) ==
  /\ Goto(t, "takeBack", IF Set = 1 THEN "passOn" ELSE "idle")
  /\ Set' = 0
  /\ UNCHANGED <<Waiting, Event, timed, life>>

(* 113, 121: SetEvent.  The kernel lets one blocked thread go, and keeps    *)
(* the event signalled if there is none; a manual-reset event lets all go.  *)
SetEvent(t) ==
  /\ pc[t] \in {"setEvent", "passOn"}
  /\ \/ /\ ManualReset \/ At({"blocked"}) = {}
        /\ Event' = TRUE
        /\ pc' = [u \in Threads |-> IF u = t THEN "idle"
                                    ELSE IF pc[u] = "blocked" THEN "granted" ELSE pc[u]]
     \/ /\ ~ManualReset
        /\ \E u \in At({"blocked"}) : pc' = [pc EXCEPT ![t] = "idle", ![u] = "granted"]
        /\ UNCHANGED Event
  /\ UNCHANGED <<Waiting, Set, timed, life>>

(* 129 *)
ResetStore(t) ==
  /\ Call(t, "reset", "resetEvent")
  /\ Set' = 0
  /\ UNCHANGED <<Waiting, Event, timed>>

(* 130 *)
ResetEvent(t) ==
  /\ Goto(t, "resetEvent", "idle")
  /\ Event' = FALSE
  /\ UNCHANGED <<Waiting, Set, timed, life>>

(* release, 55-61: not while somebody sets or resets the flag; with threads *)
(* that still wait the process terminates.                                  *)
Release(t) ==
  /\ "release" \in Ops
  /\ pc[t] = "idle"
  /\ At(SetPoints \union ResetPoints) = {}
  /\ life' = IF Waiting > 0 THEN "terminated" ELSE "released"
  /\ UNCHANGED <<Waiting, Set, Event, pc, timed>>
------------------------------------------------------------------------------
WaitStep(t) == WaitExchange(t) \/ WaitForSingleObject(t) \/ WaitTimeout(t) \/ WaitLeave(t)

SetStep(t) == SetStore(t) \/ SetRecheck(t) \/ SetTakeBack(t) \/ SetEvent(t)

Continue(t) == WaitStep(t) \/ SetStep(t) \/ ResetEvent(t)

Start(t) == WaitStart(t) \/ SetStart(t) \/ ResetStore(t) \/ Release(t)

Next == life = "used" /\ \E t \in Threads : Start(t) \/ Continue(t)

Spec == Init /\ [][Next]_vars

(* The scheduler runs every thread that is inside a call. *)
Fairness == \A t \in Threads : WF_vars(life = "used" /\ Continue(t))

FairSpec == Spec /\ Fairness
------------------------------------------------------------------------------
(* Waiting counts the threads inside a wait, failed and timed out ones      *)
(* included, so that release only terminates when somebody really waits.    *)
WaitingCounts == Waiting = Cardinality(At(WaitPoints))

(* The lost wakeup: a thread sleeps in the kernel, or is on its way there   *)
(* past its look at Set, while the flag is set and no set() is left that    *)
(* would pass it on.                                                        *)
NoStrandedWaiter ==
  Set = 1 /\ At({"kernel", "blocked"}) # {} => At({"recheck", "takeBack"}) # {}

(* What holds in every state of the flag. *)
Win32FlagIsSafe == TypeOK /\ WaitingCounts /\ NoStrandedWaiter

(* A set() at one of these points is about to give its signal, and a thread *)
(* at one of those has one in its hands.                                    *)
GivePoints == { "store", "setEvent" }
CarryPoints == { "passOn", "granted" }

(* The signals the flag holds, wherever they are on their way from a set()  *)
(* to the wait() that returns.                                              *)
Pending == Set + (IF Event THEN 1 ELSE 0) + Cardinality(At(CarryPoints))

Signal == INSTANCE EventSignal WITH
  Signals    <- Nat,
  LateMayUse <- FALSE,
  pending    <- Pending,
  setting    <- At(GivePoints),
  waiting    <- At(WaitPoints),
  late       <- At({"timedOut"}),
  resetting  <- At(ResetPoints) # {}

(* No signal is lost, used twice or made up on the way between Set, the     *)
(* event and the threads, and a waitFor() answers TRUE if and only if it    *)
(* used one.  It is not said that sets leave one signal: see OneSignal.     *)
SignalsAreConserved == Signal!Spec

(* "Setting the flag multiple times has no effect, only one thread will     *)
(* continue" (event_flag.h:33): when nobody is in a call, the flag lets one *)
(* wait through at most.                                                    *)
OneSignal == At(SetPoints \union WaitPoints \union ResetPoints) = {} => ~(Set = 1 /\ Event)

(* A set() is seen: while the flag holds a signal, the threads that wait do *)
(* not sleep for ever, unless a reset() takes the signal away, they give up *)
(* or the flag is released.                                                 *)
SetIsSeen ==
  (Set = 1 \/ Event) /\ At({"exchange", "kernel", "blocked"}) # {}
    ~> At({"granted", "timedOut"} \union ResetPoints) # {} \/ life # "used"
=============================================================================
