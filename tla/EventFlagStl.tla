---------------------------- MODULE EventFlagStl ----------------------------
(***************************************************************************)
(* SEV_EventFlag on everything but Windows (src/sev/event_flag.cpp,        *)
(* 136-249): a flag, a mutex and a condition variable.                     *)
(*                                                                         *)
(* The code between lock and unlock is one step.  A thread that waits on   *)
(* the condition variable is "waiting" until it is notified, times out or  *)
(* wakes up for no reason; it is "woken" until it has the mutex again, or  *)
(* "late" if its time is up by then, when wait_for reports a timeout.      *)
(***************************************************************************)
EXTENDS Integers, FiniteSets

CONSTANTS
  Threads,       \* the threads that use the flag
  Ops,           \* the operations they call
  ManualReset,   \* init's parameters
  InitialState

AllOps == { "wait", "waitFor", "set", "reset", "release" }

(* What the constants have to be. *)
Assumptions ==
  IsFiniteSet(Threads) /\ Ops \subseteq AllOps /\ {ManualReset, InitialState} \subseteq BOOLEAN

VARIABLES
  Flag,
  ResetValue,
  Reset,
  Waiting,
  Delete,
  pc,        \* where each thread is
  timed,     \* the threads whose wait has a time limit
  life       \* of the object: "used", "released", "freed"; or "terminated"

flags == <<Flag, ResetValue, Reset, Delete>>
vars == <<Flag, ResetValue, Reset, Waiting, Delete, pc, timed, life>>

(* On the way back to the mutex; "late" is where res is false (221). *)
AwakePoints == { "woken", "late" }

(* Inside wait and waitFor: on its way to the mutex, asleep, woken up. *)
WaitPoints == { "enter", "waiting" } \union AwakePoints

(* Behind the mutex: about to delete the object, about to terminate. *)
LeavePoints == { "delete", "terminate" }

At(points) == { t \in Threads : pc[t] \in points }

TypeOK ==
  /\ {Flag, ResetValue, Reset, Delete} \subseteq BOOLEAN
  /\ Waiting \in Nat
  /\ pc \in [Threads -> {"idle", "set"} \union WaitPoints \union LeavePoints]
  /\ timed \subseteq Threads
  /\ life \in {"used", "released", "freed", "terminated"}

Init ==
  /\ Flag = InitialState
  /\ ResetValue = ManualReset
  /\ Reset = FALSE
  /\ Waiting = 0
  /\ Delete = FALSE
  /\ pc = [t \in Threads |-> "idle"]
  /\ timed = {}
  /\ life = "used"

Goto(t, from, to) == pc[t] = from /\ pc' = [pc EXCEPT ![t] = to]

Call(t, op, to) == op \in Ops /\ life = "used" /\ Goto(t, "idle", to)
------------------------------------------------------------------------------
(* wait 185, waitFor 210 *)
CallWait(t) ==
  /\ \/ Call(t, "wait", "enter") /\ UNCHANGED timed
     \/ Call(t, "waitFor", "enter") /\ timed' = timed \union {t}
  /\ UNCHANGED <<flags, Waiting, life>>

(* 194, 221: nobody has set the flag; wait on. *)
Sleep(t, count) ==
  /\ Waiting' = count
  /\ pc' = [pc EXCEPT ![t] = "waiting"]
  /\ UNCHANGED <<timed, life>>

(* Slip: whoever leaves a released flag deletes it. *)
LeaveDeletes(t, count) ==
  /\ Flag' = ResetValue
  /\ Waiting' = count - 1
  /\ pc' = [pc EXCEPT ![t] = IF Delete THEN "delete" ELSE "idle"]
  /\ timed' = timed \ {t}
  /\ UNCHANGED <<ResetValue, Delete, life>>

(* Slip: the way out does not lower the flag. *)
LeaveKeepsFlag(t, count) ==
  /\ UNCHANGED Flag
  /\ Waiting' = count - 1
  /\ pc' = [pc EXCEPT ![t] = "idle"]
  /\ timed' = timed \ {t}
  /\ UNCHANGED <<ResetValue, Delete, life>>

(* 197-200, 223-226: the wait is over; the last one out of a released flag  *)
(* deletes it, and all of them terminate.  waitFor answers FALSE (232) if   *)
(* it comes from "late": it has lowered the flag all the same.              *)
Leave(t, count) ==
  /\ Flag' = ResetValue
  /\ Waiting' = count - 1
  /\ pc' = [pc EXCEPT ![t] = IF ~Delete THEN "idle"
                             ELSE IF count = 1 THEN "delete" ELSE "terminate"]
  /\ timed' = timed \ {t}
  /\ UNCHANGED <<ResetValue, Delete, life>>

(* Slip: a wait that finds the flag up was not counted. *)
EnterUncounted(t) ==
  /\ pc[t] = "enter"
  /\ \/ /\ Flag /\ ~Reset
        /\ Leave(t, Waiting)
     \/ /\ ~(Flag /\ ~Reset)
        /\ Sleep(t, Waiting + 1)
        /\ Flag' = FALSE
        /\ UNCHANGED <<ResetValue, Delete>>
  /\ UNCHANGED Reset

(* 189-200, 215-226: a reset that nobody has carried out yet is carried out *)
(* by the thread that comes to wait.                                        *)
Enter(t) ==
  /\ pc[t] = "enter"
  /\ \/ /\ Flag /\ ~Reset
        /\ Leave(t, Waiting + 1)
     \/ /\ ~(Flag /\ ~Reset)
        /\ Sleep(t, Waiting + 1)
        /\ Flag' = FALSE
        /\ UNCHANGED <<ResetValue, Delete>>
  /\ UNCHANGED Reset

(* wait may return for no reason. *)
WakeUp(t) ==
  /\ Goto(t, "waiting", "woken")
  /\ UNCHANGED <<flags, Waiting, timed, life>>

(* 221: the time is up, before or after the thread was woken. *)
TimeUp(t) ==
  /\ t \in timed
  /\ pc[t] \in {"waiting", "woken"}
  /\ pc' = [pc EXCEPT ![t] = "late"]
  /\ UNCHANGED <<flags, Waiting, timed, life>>

(* Slip: a thread that sleeps again is counted again. *)
RelockCounts(t) ==
  /\ pc[t] \in AwakePoints
  /\ \/ Flag /\ Leave(t, Waiting) /\ UNCHANGED Reset
     \/ ~Flag /\ Sleep(t, Waiting + 1) /\ UNCHANGED flags

(* 193, 219: back with the mutex.  waitFor waits again after a timeout. *)
Relock(t) ==
  /\ pc[t] \in AwakePoints
  /\ \/ Flag /\ Leave(t, Waiting) /\ UNCHANGED Reset
     \/ ~Flag /\ Sleep(t, Waiting) /\ UNCHANGED flags

CallSet(t) == Call(t, "set", "set") /\ UNCHANGED <<flags, Waiting, timed, life>>

(* Slip: nobody is notified. *)
SetSilent(t) ==
  /\ Goto(t, "set", "idle")
  /\ Reset' = FALSE
  /\ Flag' = TRUE
  /\ UNCHANGED <<ResetValue, Delete, Waiting, timed, life>>

(* 238-241 *)
Set(t) ==
  /\ pc[t] = "set"
  /\ Reset' = FALSE
  /\ Flag' = TRUE
  /\ \/ At({"waiting"}) = {} /\ Goto(t, "set", "idle")
     \/ \E u \in At({"waiting"}) : pc' = [pc EXCEPT ![t] = "idle", ![u] = "woken"]
  /\ UNCHANGED <<ResetValue, Delete, Waiting, timed, life>>

(* 247-248: the flag itself stays as it is. *)
DoReset(t) ==
  /\ Call(t, "reset", "idle")
  /\ Reset' = TRUE
  /\ UNCHANGED <<Flag, ResetValue, Delete, Waiting, timed, life>>

(* Slip: the waiters are not notified. *)
ReleaseSilent(t) ==
  /\ Call(t, "release", "idle")
  /\ At({"set", "enter"}) = {}
  /\ IF Waiting > 0
     THEN /\ Flag' = TRUE /\ ResetValue' = TRUE /\ Reset' = FALSE /\ Delete' = TRUE
          /\ life' = "released"
     ELSE life' = "freed" /\ UNCHANGED flags
  /\ UNCHANGED <<Waiting, timed>>

(* 169-180: not while a set() or a wait() is about to lock the mutex. *)
Release(t) ==
  /\ Call(t, "release", "idle")
  /\ At({"set", "enter"}) = {}
  /\ IF Waiting > 0
     THEN /\ Flag' = TRUE /\ ResetValue' = TRUE /\ Reset' = FALSE /\ Delete' = TRUE
          /\ pc' = [u \in Threads |-> IF pc[u] = "waiting" THEN "woken" ELSE pc[u]]
          /\ life' = "released"
     ELSE life' = "freed" /\ UNCHANGED <<flags, pc>>
  /\ UNCHANGED <<Waiting, timed>>

(* 203, 229 *)
DeleteFlag(t) ==
  /\ Goto(t, "delete", "terminate")
  /\ life' = "freed"
  /\ UNCHANGED <<flags, Waiting, timed>>

(* 205, 231 *)
Terminate(t) ==
  /\ pc[t] = "terminate"
  /\ life' = "terminated"
  /\ UNCHANGED <<flags, Waiting, pc, timed>>
------------------------------------------------------------------------------
Start(t) == CallWait(t) \/ CallSet(t) \/ DoReset(t) \/ Release(t)

Continue(t) == Enter(t) \/ Relock(t) \/ Set(t) \/ DeleteFlag(t) \/ Terminate(t)

Next ==
  /\ life # "terminated"
  /\ \E t \in Threads : Start(t) \/ WakeUp(t) \/ TimeUp(t) \/ Continue(t)

Spec == Init /\ [][Next]_vars

(* The scheduler runs every thread that can run, whoever wants the mutex    *)
(* gets it, and a time limit runs out.                                      *)
Fairness == \A t \in Threads :
  /\ WF_vars(life # "terminated" /\ Continue(t))
  /\ WF_vars(life # "terminated" /\ TimeUp(t))

FairSpec == Spec /\ Fairness
------------------------------------------------------------------------------
(* Waiting counts the threads that hold on to the object, asleep or woken:  *)
(* the last one of them has to delete it.                                   *)
WaitingCounts == Waiting = Cardinality(At({"waiting"} \union AwakePoints))

(* The lost wakeup: a thread sleeps although the flag is up, and nobody is  *)
(* awake who would take it down.                                            *)
NoStrandedWaiter == Flag /\ At({"waiting"}) # {} => At(AwakePoints) # {}

(* The object is gone only when every thread is out of it, and only one     *)
(* thread deletes it.                                                       *)
FreedIsLeft ==
  /\ life = "freed" => At({"set", "delete"} \union WaitPoints) = {}
  /\ Cardinality(At({"delete"})) <= 1

(* What holds in every state of the flag. *)
StlFlagIsSafe == TypeOK /\ WaitingCounts /\ NoStrandedWaiter /\ FreedIsLeft

Signal == INSTANCE EventSignal WITH
  Signals    <- {0, 1},
  LateMayUse <- TRUE,
  pending    <- IF Flag THEN 1 ELSE 0,
  setting    <- At({"set"}),
  waiting    <- At(WaitPoints),
  late       <- At({"late"}),
  resetting  <- Reset

(* Until the flag is released, every wait that returns uses up the signal   *)
(* of a set() of its own, and sets that nobody waited for in between leave  *)
(* one signal: "setting the flag multiple times has no effect"              *)
(* (event_flag.h:33).  A waitFor that answers FALSE is no exception: it     *)
(* never returns without the flag, so it has used a signal, too             *)
(* (LateMayUse), and its caller cannot know.                                *)
ImplementsSignal ==
  Signal!Init /\ [][life' = "used" => Signal!Next \/ UNCHANGED Signal!vars]_vars

(* A flag that is up, with a thread in wait(), comes down: somebody goes    *)
(* (or is about to go when a reset() overtakes it).                         *)
SetIsSeen ==
  life = "used" /\ Flag /\ ~Reset /\ At(WaitPoints) # {} ~> ~Flag \/ Reset \/ life # "used"

(* A released flag with waiters: they all leave, and the process ends.      *)
ReleaseEnds == life = "released" ~> life = "terminated"

(* "Returns false on timeout" (event_flag.h:143): a wait with a time limit  *)
(* returns.                                                                 *)
TimedWaitReturns == \A t \in Threads : t \in timed ~> t \notin timed
=============================================================================
