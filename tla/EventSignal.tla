---------------------------- MODULE EventSignal ----------------------------
(***************************************************************************)
(* What an event flag that resets itself does with its signals, whatever   *)
(* it is made of: a set() leaves a signal behind, a wait uses one up, and  *)
(* no signal comes from or goes anywhere else.  Signals that were not used *)
(* yet may be merged, but the last one stays until a wait uses it or       *)
(* somebody resets the flag.                                               *)
(*                                                                         *)
(* A wait without a limit only returns with a signal.  One with a limit    *)
(* answers FALSE when the limit had run out ("late"), and TRUE otherwise;  *)
(* TRUE says that it used a signal.                                        *)
(***************************************************************************)
EXTENDS Naturals

CONSTANTS
  Threads,
  Signals,     \* how many signals may be pending: {0, 1} if setting the flag
               \* several times has no more effect than setting it once
  LateMayUse   \* whether a wait that answers FALSE may have used a signal

VARIABLES
  pending,    \* signals that were given and not used
  setting,    \* the threads whose set() has had no effect yet
  waiting,    \* the threads that are inside wait()
  timed,      \* those of them that wait for a limited time
  late,       \* those of them whose time is up
  resetting   \* a reset() is in effect

vars == <<pending, setting, waiting, timed, late, resetting>>

Init ==
  /\ pending \in {0, 1}
  /\ setting = {}
  /\ waiting = {}
  /\ timed = {}
  /\ late = {}
  /\ resetting = FALSE

CallSet(t) ==
  /\ setting' = setting \union {t}
  /\ UNCHANGED <<pending, waiting, timed, late, resetting>>

(* After a set() there is a signal; it also ends the effect of a reset(). *)
Signal(t) ==
  /\ t \in setting
  /\ pending' \in {pending, pending + 1} \intersect (Signals \ {0})
  /\ setting' = setting \ {t}
  /\ resetting' \in {resetting, FALSE}
  /\ UNCHANGED <<waiting, timed, late>>

(* A thread that starts to wait may carry out the reset it finds. *)
CallWait(t) ==
  /\ waiting' = waiting \union {t}
  /\ timed' \in {timed, timed \union {t}}
  /\ pending' \in IF resetting THEN 0..pending ELSE {pending}
  /\ UNCHANGED <<setting, late, resetting>>

(* The time is up; or the thread waits on, for as long again. *)
Limit(t) ==
  /\ t \in timed
  /\ late' \in {late \union {t}, late \ {t}}
  /\ UNCHANGED <<pending, setting, waiting, timed, resetting>>

Return(t) ==
  /\ t \in waiting
  /\ waiting' = waiting \ {t}
  /\ timed' = timed \ {t}
  /\ late' = late \ {t}

Use(t) ==
  /\ Return(t)
  /\ pending > 0
  /\ pending' = pending - 1
  /\ t \in late => LateMayUse
  /\ UNCHANGED <<setting, resetting>>

TimeOut(t) ==
  /\ t \in late
  /\ Return(t)
  /\ UNCHANGED <<pending, setting, resetting>>

Merge ==
  /\ pending > 1
  /\ pending' = pending - 1
  /\ UNCHANGED <<setting, waiting, timed, late, resetting>>

Reset ==
  /\ resetting' \in BOOLEAN
  /\ pending' \in IF resetting \/ resetting' THEN 0..pending ELSE {pending}
  /\ UNCHANGED <<setting, waiting, timed, late>>

Next ==
  \/ \E t \in Threads : \/ CallSet(t) \/ Signal(t)
                        \/ CallWait(t) \/ Limit(t) \/ Use(t) \/ TimeOut(t)
  \/ Merge
  \/ Reset

Spec == Init /\ [][Next]_vars
=============================================================================
