------------------------ MODULE EventFlagWin32Proofs ------------------------
(***************************************************************************)
(* Proofs about EventFlagWin32, for every finite set of threads, every     *)
(* choice of the operations they call and both kinds of kernel event.      *)
(***************************************************************************)
EXTENDS EventFlagWin32, FiniteSetTheorems, TLAPS

(* The inductive invariant.  NoStrandedWaiter is not inductive without the  *)
(* count: that a set() which reads Waiting = 0 at its second look strands   *)
(* nobody needs every thread on its way to the kernel to be counted.        *)
IInv == TypeOK /\ WaitingCounts /\ NoStrandedWaiter

(* What a step does to Waiting when it moves a thread. *)
CountsWith(from, to) ==
  \/ Waiting' = Waiting /\ (from \in WaitPoints <=> to \in WaitPoints)
  \/ Waiting' = Waiting + 1 /\ from \notin WaitPoints /\ to \in WaitPoints
  \/ Waiting' = Waiting - 1 /\ from \in WaitPoints /\ to \notin WaitPoints

(* The sets of threads at given points are finite. *)
LEMMA AtIsFinite == \A points : IsFiniteSet(At(points))
<1> TAKE points
<1>1. At(points) \subseteq Threads
  BY DEF At
<1> QED
  BY <1>1, ThreadsAssumption, FS_Subset

(* Waiting = 0 means that no thread is on its way to the kernel. *)
LEMMA NobodyWaits ==
  ASSUME IInv, Waiting = 0
  PROVE  At({"kernel", "blocked"}) = {}
<1>1. At(WaitPoints) = {}
  BY AtIsFinite, FS_EmptySet DEF IInv, WaitingCounts
<1> QED
  BY <1>1 DEF At, WaitPoints

(* A move that counts its thread keeps the count. *)
LEMMA MoveKeepsCount ==
  ASSUME IInv, NEW t \in Threads, NEW from, NEW to,
         Goto(t, from, to), CountsWith(from, to)
  PROVE  WaitingCounts' /\ Waiting' \in Nat
<1> DEFINE W == At(WaitPoints)
<1>1. TypeOK /\ Waiting = Cardinality(W) /\ IsFiniteSet(W)
  BY AtIsFinite DEF IInv, WaitingCounts
<1>2. Cardinality(W) \in Nat
  BY <1>1, FS_CardinalityType
<1>3. /\ to \in WaitPoints => W' = W \union {t}
      /\ to \notin WaitPoints => W' = W \ {t}
      /\ t \in W <=> from \in WaitPoints
  BY <1>1 DEF At, Goto, TypeOK
<1>4. Waiting' = Cardinality(W')
  <2>1. CASE Waiting' = Waiting /\ (from \in WaitPoints <=> to \in WaitPoints)
    <3>1. W' = W
      BY <1>3, <2>1
    <3> QED
      BY <3>1, <1>1, <2>1
  <2>2. CASE Waiting' = Waiting + 1 /\ from \notin WaitPoints /\ to \in WaitPoints
    <3>1. Cardinality(W \union {t}) = Cardinality(W) + 1
      BY <1>1, <1>3, <2>2, FS_AddElement
    <3> QED
      BY <3>1, <1>1, <1>3, <2>2
  <2>3. CASE Waiting' = Waiting - 1 /\ from \in WaitPoints /\ to \notin WaitPoints
    <3>1. Cardinality(W \ {t}) = Cardinality(W) - 1
      BY <1>1, <1>3, <2>3, FS_RemoveElement
    <3> QED
      BY <3>1, <1>1, <1>3, <2>3
  <2> QED
    BY <2>1, <2>2, <2>3 DEF CountsWith
<1>5. IsFiniteSet(W')
  BY <1>1, <1>3, FS_AddElement, FS_RemoveElement
<1>6. Waiting' \in Nat
  BY <1>4, <1>5, FS_CardinalityType
<1> QED
  BY <1>4, <1>6 DEF WaitingCounts

LEMMA InitInv == Init => IInv
<1> SUFFICES ASSUME Init PROVE IInv
  OBVIOUS
<1>1. TypeOK
  BY ManualResetAssumption DEF Init, TypeOK
<1>2. At(WaitPoints) = {} /\ NoStrandedWaiter
  BY DEF Init, At, WaitPoints, NoStrandedWaiter
<1>3. WaitingCounts
  BY <1>2, FS_EmptySet DEF Init, WaitingCounts
<1> QED
  BY <1>1, <1>2, <1>3 DEF IInv

(* Every step but SetEvent moves one thread, and counts it. *)
OneThreadStep(t) ==
  \/ WaitStart(t) \/ WaitStep(t)
  \/ SetStart(t) \/ SetStore(t) \/ SetRecheck(t) \/ SetTakeBack(t)
  \/ ResetStore(t) \/ ResetEvent(t)

(* Such a move strands nobody: it leaves Set down, or a set() at its look   *)
(* for waiters, or finds that there are none.                               *)
StrandsNobody(t, from, to) ==
  \/ Set' = 0
  \/ to \in {"recheck", "takeBack"}
  \/ /\ Set' = Set
     /\ from \in {"recheck", "takeBack"} => Waiting = 0
     /\ to \in {"kernel", "blocked"} => from \in {"kernel", "blocked"}

LegalMove(t, from, to) ==
  /\ Goto(t, from, to)
  /\ to \in {"idle"} \union WaitPoints \union SetPoints \union ResetPoints
  /\ CountsWith(from, to)
  /\ StrandsNobody(t, from, to)
  /\ Set' \in {0, 1} /\ Event' \in BOOLEAN /\ timed' \subseteq Threads
  /\ life' = life

LEMMA EveryMoveIsLegal ==
  ASSUME IInv, NEW t \in Threads, OneThreadStep(t)
  PROVE  \E from, to : LegalMove(t, from, to)
<1> USE ManualResetAssumption DEF LegalMove, CountsWith, StrandsNobody, WaitPoints, SetPoints, ResetPoints
<1>1. TypeOK
  BY DEF IInv
<1>2. CASE WaitStart(t)
  <2>1. LegalMove(t, "idle", "exchange")
    BY <1>1, <1>2 DEF TypeOK, WaitStart, Call, Goto
  <2> QED
    BY <2>1
<1>3. CASE WaitExchange(t)
  <2>1. LegalMove(t, "exchange", IF Set = 1 THEN "granted" ELSE "kernel")
    BY <1>1, <1>3 DEF TypeOK, WaitExchange, Goto
  <2> QED
    BY <2>1
<1>4. CASE WaitForSingleObject(t)
  <2>1. LegalMove(t, "kernel", "granted") \/ LegalMove(t, "kernel", "blocked")
    BY <1>1, <1>4 DEF TypeOK, WaitForSingleObject, Signalled, Goto
  <2> QED
    BY <2>1
<1>5. CASE WaitTimeout(t)
  <2>1. LegalMove(t, "blocked", "timedOut")
    BY <1>1, <1>5 DEF TypeOK, WaitTimeout, Goto
  <2> QED
    BY <2>1
<1>6. CASE WaitLeave(t)
  <2>1. LegalMove(t, "granted", "idle") \/ LegalMove(t, "timedOut", "idle")
    BY <1>1, <1>6 DEF TypeOK, WaitLeave, Goto
  <2> QED
    BY <2>1
<1>7. CASE SetStart(t)
  <2>1. LegalMove(t, "idle", IF Waiting > 0 THEN "setEvent" ELSE "store")
    BY <1>1, <1>7 DEF TypeOK, SetStart, Call, Goto
  <2> QED
    BY <2>1
<1>8. CASE SetStore(t)
  <2>1. LegalMove(t, "store", "recheck")
    BY <1>1, <1>8 DEF TypeOK, SetStore, Goto
  <2> QED
    BY <2>1
<1>9. CASE SetRecheck(t)
  <2>1. LegalMove(t, "recheck", IF Waiting > 0 THEN "takeBack" ELSE "idle")
    BY <1>1, <1>9 DEF TypeOK, SetRecheck, Goto
  <2> QED
    BY <2>1
<1>10. CASE SetTakeBack(t)
  <2>1. LegalMove(t, "takeBack", IF Set = 1 THEN "passOn" ELSE "idle")
    BY <1>1, <1>10 DEF TypeOK, SetTakeBack, Goto
  <2> QED
    BY <2>1
<1>11. CASE ResetStore(t)
  <2>1. LegalMove(t, "idle", "resetEvent")
    BY <1>1, <1>11 DEF TypeOK, ResetStore, Call, Goto
  <2> QED
    BY <2>1
<1>12. CASE ResetEvent(t)
  <2>1. LegalMove(t, "resetEvent", "idle")
    BY <1>1, <1>12 DEF TypeOK, ResetEvent, Goto
  <2> QED
    BY <2>1
<1> QED
  BY <1>2, <1>3, <1>4, <1>5, <1>6, <1>7, <1>8, <1>9, <1>10, <1>11, <1>12
     DEF OneThreadStep, WaitStep

LEMMA MoveKeepsInvariant ==
  ASSUME IInv, NEW t \in Threads, NEW from, NEW to, LegalMove(t, from, to)
  PROVE  IInv'
<1>1. TypeOK /\ NoStrandedWaiter /\ Goto(t, from, to) /\ CountsWith(from, to)
  BY DEF IInv, LegalMove
<1>2. WaitingCounts' /\ Waiting' \in Nat
  BY <1>1, MoveKeepsCount
<1>3. TypeOK'
  BY <1>1, <1>2 DEF TypeOK, LegalMove, Goto
<1>4. \A u \in Threads : pc'[u] = IF u = t THEN to ELSE pc[u]
  BY <1>1 DEF TypeOK, Goto
<1>5. NoStrandedWaiter'
  <2>1. CASE Set' = 0
    BY <2>1 DEF NoStrandedWaiter
  <2>2. CASE to \in {"recheck", "takeBack"}
    BY <1>4, <2>2 DEF NoStrandedWaiter, At
  <2>3. CASE /\ Set' = Set
             /\ from \in {"recheck", "takeBack"} => Waiting = 0
             /\ to \in {"kernel", "blocked"} => from \in {"kernel", "blocked"}
    <3>1. pc[t] = from
      BY <1>1 DEF Goto
    <3>2. At({"kernel", "blocked"}) = {} => At({"kernel", "blocked"})' = {}
      BY <1>4, <2>3, <3>1 DEF At
    <3>3. CASE from \in {"recheck", "takeBack"}
      BY <2>3, <3>2, <3>3, NobodyWaits DEF NoStrandedWaiter
    <3>4. CASE from \notin {"recheck", "takeBack"}
      <4>1. At({"recheck", "takeBack"}) # {} => At({"recheck", "takeBack"})' # {}
        BY <1>4, <3>1, <3>4 DEF At
      <4> QED
        BY <1>1, <2>3, <3>2, <4>1 DEF NoStrandedWaiter
    <3> QED
      BY <3>3, <3>4
  <2> QED
    BY <2>1, <2>2, <2>3 DEF LegalMove, StrandsNobody
<1> QED
  BY <1>2, <1>3, <1>5 DEF IInv

(* SetEvent moves the threads it lets go, too; they stay counted. *)
LEMMA SetEventKeepsInvariant ==
  ASSUME IInv, NEW t \in Threads, SetEvent(t)
  PROVE  IInv'
<1> USE DEF WaitPoints, SetPoints, ResetPoints
<1>1. TypeOK /\ WaitingCounts /\ NoStrandedWaiter
  BY DEF IInv
<1>2. /\ \A u \in Threads : \/ pc'[u] = pc[u]
                            \/ u = t /\ pc[u] \in {"setEvent", "passOn"} /\ pc'[u] = "idle"
                            \/ pc[u] = "blocked" /\ pc'[u] = "granted"
      /\ pc' \in [Threads -> {"idle"} \union WaitPoints \union SetPoints \union ResetPoints]
      /\ Event' \in BOOLEAN
  <2>1. CASE pc' = [u \in Threads |-> IF u = t THEN "idle"
                                     ELSE IF pc[u] = "blocked" THEN "granted" ELSE pc[u]]
    BY <1>1, <2>1 DEF TypeOK, SetEvent
  <2>2. CASE \E u \in At({"blocked"}) : pc' = [pc EXCEPT ![t] = "idle", ![u] = "granted"]
    BY <1>1, <2>2 DEF TypeOK, SetEvent, At
  <2> QED
    BY <2>1, <2>2 DEF SetEvent
<1>3. Waiting' = Waiting /\ Set' = Set /\ timed' = timed /\ life' = life
  BY DEF SetEvent
<1>4. TypeOK'
  BY <1>1, <1>2, <1>3 DEF TypeOK
<1>5. At(WaitPoints)' = At(WaitPoints)
  BY <1>2 DEF At
<1>6. WaitingCounts'
  BY <1>1, <1>3, <1>5 DEF WaitingCounts
<1>7. NoStrandedWaiter'
  <2>1. At({"kernel", "blocked"})' # {} => At({"kernel", "blocked"}) # {}
    BY <1>2 DEF At
  <2>2. At({"recheck", "takeBack"})' = At({"recheck", "takeBack"})
    BY <1>2 DEF At
  <2> QED
    BY <1>1, <1>3, <2>1, <2>2 DEF NoStrandedWaiter
<1> QED
  BY <1>4, <1>6, <1>7 DEF IInv

LEMMA NextKeepsInvariant == IInv /\ [Next]_vars => IInv'
<1> SUFFICES ASSUME IInv, [Next]_vars PROVE IInv'
  OBVIOUS
<1>1. CASE UNCHANGED vars
  BY <1>1 DEF vars, IInv, TypeOK, WaitingCounts, NoStrandedWaiter, At
<1>2. ASSUME NEW t \in Threads, OneThreadStep(t) PROVE IInv'
  BY <1>2, EveryMoveIsLegal, MoveKeepsInvariant
<1>3. ASSUME NEW t \in Threads, SetEvent(t) PROVE IInv'
  BY <1>3, SetEventKeepsInvariant
<1>4. ASSUME NEW t \in Threads, Release(t) PROVE IInv'
  BY <1>4 DEF Release, IInv, TypeOK, WaitingCounts, NoStrandedWaiter, At
<1> QED
  BY <1>1, <1>2, <1>3, <1>4 DEF Next, Start, Continue, SetStep, OneThreadStep

(* The inductive invariant holds throughout, for any number of threads in   *)
(* set, wait, waitFor and reset at once (41-132), with either kind of event.*)
THEOREM Invariant == Spec => []IInv
<1>1. Init => IInv
  BY InitInv
<1>2. IInv /\ [Next]_vars => IInv'
  BY NextKeepsInvariant
<1> QED
  BY <1>1, <1>2, PTL DEF Spec

(* The state stays well-formed, whatever the threads call.                  *)
THEOREM TypeCorrect == Spec => []TypeOK
<1>1. IInv => TypeOK
  BY DEF IInv
<1> QED
  BY <1>1, Invariant, PTL

(* Waiting is the number of threads inside a wait at all times, so release  *)
(* (line 55) never terminates a process in which nobody waits.              *)
THEOREM CountIsExact == Spec => []WaitingCounts
<1>1. IInv => WaitingCounts
  BY DEF IInv
<1> QED
  BY <1>1, Invariant, PTL

(* No wakeup is lost between the fast path and the kernel: the second look  *)
(* of set (line 119) is enough for any number of threads.                   *)
THEOREM NoLostWakeup == Spec => []NoStrandedWaiter
<1>1. IInv => NoStrandedWaiter
  BY DEF IInv
<1> QED
  BY <1>1, Invariant, PTL

(* The three together: what the runs check of the Windows flag.             *)
THEOREM FlagIsSafe == Spec => []Win32FlagIsSafe
<1>1. IInv => Win32FlagIsSafe
  BY DEF IInv, Win32FlagIsSafe
<1> QED
  BY <1>1, Invariant, PTL
------------------------------------------------------------------------------
In(x, points) == IF x \in points THEN 1 ELSE 0

(* A thread that moves takes its signal along. *)
LEMMA MoveCarries ==
  ASSUME IInv, NEW t \in Threads, NEW from, NEW to, Goto(t, from, to)
  PROVE  /\ Cardinality(At(CarryPoints)) \in Nat /\ Cardinality(At(CarryPoints)') \in Nat
         /\ Cardinality(At(CarryPoints)')
              = Cardinality(At(CarryPoints)) + In(to, CarryPoints) - In(from, CarryPoints)
         /\ from \in CarryPoints => Cardinality(At(CarryPoints)) > 0
<1> DEFINE W == At(CarryPoints)
<1>1. IsFiniteSet(W) /\ Cardinality(W) \in Nat
  BY AtIsFinite, FS_CardinalityType
<1>2. /\ to \in CarryPoints => W' = W \union {t}
      /\ to \notin CarryPoints => W' = W \ {t}
      /\ t \in W <=> from \in CarryPoints
  BY DEF At, Goto, IInv, TypeOK
<1>3. /\ Cardinality(W \union {t}) = IF t \in W THEN Cardinality(W) ELSE Cardinality(W) + 1
      /\ Cardinality(W \ {t}) = IF t \in W THEN Cardinality(W) - 1 ELSE Cardinality(W)
      /\ IsFiniteSet(W \union {t}) /\ IsFiniteSet(W \ {t})
  BY <1>1, FS_AddElement, FS_RemoveElement
<1>4. Cardinality(W') \in Nat /\ Cardinality(W \ {t}) \in Nat
  BY <1>2, <1>3, FS_CardinalityType
<1> QED
  BY <1>1, <1>2, <1>3, <1>4 DEF In

(* What a move does to the abstract flag: where t was and where it is now   *)
(* says whether it waits or sets ...                                        *)
LEMMA MoveFollows ==
  ASSUME IInv, NEW t \in Threads, NEW from, NEW to, Goto(t, from, to), NEW points
  PROVE  /\ t \in At(points) <=> from \in points
         /\ (to \in points <=> from \in points) => At(points)' = At(points)
         /\ to \in points /\ from \notin points => At(points)' = At(points) \union {t}
         /\ to \notin points /\ from \in points => At(points)' = At(points) \ {t}
<1>1. pc[t] = from /\ \A u \in Threads : pc'[u] = IF u = t THEN to ELSE pc[u]
  BY DEF IInv, TypeOK, Goto
<1> QED
  BY <1>1 DEF At

Up(flag) == IF flag THEN 1 ELSE 0

(* ... and Pending follows from Set, Event and the signal it carries.       *)
LEMMA MovePends ==
  ASSUME IInv, NEW t \in Threads, NEW from, NEW to, Goto(t, from, to), Set' \in {0, 1}
  PROVE  /\ Pending \in Nat
         /\ Pending' = Pending + (Set' - Set) + (Up(Event') - Up(Event))
                        + (In(to, CarryPoints) - In(from, CarryPoints))
         /\ Set + Up(Event) + In(from, CarryPoints) <= Pending
<1>1. Set \in {0, 1}
  BY DEF IInv, TypeOK
<1> QED
  BY <1>1, MoveCarries DEF Pending, Up, In

LEMMA WhereIs == \A x :
  /\ x \in WaitPoints <=> \/ x = "exchange" \/ x = "kernel" \/ x = "blocked"
                         \/ x = "granted" \/ x = "timedOut"
  /\ x \in GivePoints <=> x = "store" \/ x = "setEvent"
  /\ x \in ResetPoints <=> x = "resetEvent"
  /\ In(x, CarryPoints) = IF x = "passOn" \/ x = "granted" THEN 1 ELSE 0
BY DEF WaitPoints, GivePoints, ResetPoints, CarryPoints, In

(* A wait maps to a wait: a thread that gets a signal, from Set or from the *)
(* event, carries it until it leaves.                                       *)
LEMMA WaitMaps ==
  ASSUME IInv, ~ManualReset, NEW t \in Threads, WaitStart(t) \/ WaitStep(t)
  PROVE  \/ Signal!CallWait(t) \/ Signal!Limit(t) \/ Signal!Use(t) \/ Signal!TimeOut(t)
         \/ UNCHANGED Signal!vars
<1>1. Set \in {0, 1} /\ Event \in BOOLEAN /\ t \in At({pc[t]})
  BY DEF IInv, TypeOK, At
<1>2. CASE WaitStart(t)
  <2>1. Goto(t, "idle", "exchange") /\ UNCHANGED <<Set, Event>> /\ timed' \in {timed, timed \union {t}}
    BY <1>2 DEF WaitStart, Call
  <2>2. /\ Pending \in Nat /\ Pending' = Pending
        /\ At(GivePoints)' = At(GivePoints)
        /\ At(WaitPoints)' = At(WaitPoints) \union {t}
        /\ At(ResetPoints)' = At(ResetPoints)
        /\ At({"timedOut"})' = At({"timedOut"})
    BY <1>1, <2>1, MoveFollows, MovePends, WhereIs DEF Up
  <2>3. Signal!CallWait(t)
    BY <2>1, <2>2 DEF Signal!CallWait
  <2> QED
    BY <2>3
<1>3. CASE WaitExchange(t) \/ WaitForSingleObject(t)
  <2>1. \/ Goto(t, "exchange", IF Set = 1 THEN "granted" ELSE "kernel") /\ Set' = 0 /\ Event' = Event
        \/ Goto(t, "kernel", "granted") /\ Set' = Set /\ Event /\ ~Event' /\ Event' \in BOOLEAN
        \/ Goto(t, "kernel", "blocked") /\ Set' = Set /\ Event' = Event
    BY <1>3, ManualResetAssumption DEF WaitExchange, WaitForSingleObject, Signalled
  <2>2. timed' = timed
    BY <1>3 DEF WaitExchange, WaitForSingleObject
  <2>3. /\ Pending' = Pending
        /\ At(GivePoints)' = At(GivePoints)
        /\ At(WaitPoints)' = At(WaitPoints)
        /\ At(ResetPoints)' = At(ResetPoints)
        /\ At({"timedOut"})' = At({"timedOut"})
    BY <1>1, <2>1, MoveFollows, MovePends, WhereIs DEF Up
  <2> QED
    BY <2>2, <2>3 DEF Signal!vars
<1>5. CASE WaitTimeout(t)
  <2>1. /\ Goto(t, "blocked", "timedOut")
        /\ t \in timed /\ UNCHANGED <<Set, Event, timed>>
    BY <1>5 DEF WaitTimeout
  <2>2. /\ Pending' = Pending
        /\ At(GivePoints)' = At(GivePoints)
        /\ At(WaitPoints)' = At(WaitPoints)
        /\ At(ResetPoints)' = At(ResetPoints)
        /\ At({"timedOut"})' = At({"timedOut"}) \union {t}
    BY <1>1, <2>1, MoveFollows, MovePends, WhereIs DEF Up
  <2>3. Signal!Limit(t)
    BY <2>1, <2>2 DEF Signal!Limit
  <2> QED
    BY <2>3
<1>4. CASE WaitLeave(t)
  <2>1. UNCHANGED <<Set, Event>> /\ timed' = timed \ {t}
    BY <1>4 DEF WaitLeave
  <2>2. CASE Goto(t, "granted", "idle")
    <3>1. /\ Pending \in Nat /\ Pending > 0 /\ Pending' = Pending - 1
          /\ At(GivePoints)' = At(GivePoints)
          /\ t \in At(WaitPoints) /\ At(WaitPoints)' = At(WaitPoints) \ {t}
          /\ At(ResetPoints)' = At(ResetPoints)
          /\ At({"timedOut"})' = At({"timedOut"}) \ {t} /\ t \notin At({"timedOut"})
      BY <1>1, <2>1, <2>2, MoveFollows, MovePends, WhereIs DEF Up
    <3>2. Signal!Use(t)
      BY <2>1, <3>1 DEF Signal!Use, Signal!Return
    <3> QED
      BY <3>2
  <2>3. CASE Goto(t, "timedOut", "idle")
    <3>1. /\ Pending \in Nat /\ Pending' = Pending
          /\ At(GivePoints)' = At(GivePoints)
          /\ t \in At(WaitPoints) /\ At(WaitPoints)' = At(WaitPoints) \ {t}
          /\ At(ResetPoints)' = At(ResetPoints)
          /\ At({"timedOut"})' = At({"timedOut"}) \ {t} /\ t \in At({"timedOut"})
      BY <1>1, <2>1, <2>3, MoveFollows, MovePends, WhereIs DEF Up
    <3>2. Signal!TimeOut(t)
      BY <2>1, <3>1 DEF Signal!TimeOut, Signal!Return
    <3> QED
      BY <3>2
  <2> QED
    BY <1>4, <2>2, <2>3 DEF WaitLeave
<1> QED
  BY <1>2, <1>3, <1>4, <1>5 DEF WaitStep

(* A set() gives its signal in one step, to Set or to the event; later it   *)
(* may carry the signal from Set to the event, where it can meet another.   *)
LEMMA SetMaps ==
  ASSUME IInv, ~ManualReset, NEW t \in Threads,
         SetStart(t) \/ SetStore(t) \/ SetRecheck(t) \/ SetTakeBack(t)
  PROVE  \/ Signal!CallSet(t) \/ Signal!Signal(t) \/ UNCHANGED Signal!vars
<1>1. Set \in {0, 1} /\ Event \in BOOLEAN
  BY DEF IInv, TypeOK
<1>2. timed' = timed
  BY DEF SetStart, SetStore, SetRecheck, SetTakeBack
<1>3. CASE SetStart(t)
  <2>1. /\ Goto(t, "idle", "setEvent") \/ Goto(t, "idle", "store")
        /\ UNCHANGED <<Set, Event>>
    BY <1>3 DEF SetStart, Call
  <2>2. /\ Pending' = Pending
        /\ At(GivePoints)' = At(GivePoints) \union {t}
        /\ At(WaitPoints)' = At(WaitPoints)
        /\ At(ResetPoints)' = At(ResetPoints)
        /\ At({"timedOut"})' = At({"timedOut"})
    BY <1>1, <2>1, MoveFollows, MovePends, WhereIs DEF Up
  <2>3. Signal!CallSet(t)
    BY <1>2, <2>2 DEF Signal!CallSet
  <2> QED
    BY <2>3
<1>4. CASE SetStore(t)
  <2>1. Goto(t, "store", "recheck") /\ Set' = 1 /\ Event' = Event
    BY <1>4 DEF SetStore
  <2>2. /\ Pending \in Nat /\ Pending' \in {Pending, Pending + 1} \intersect (Nat \ {0})
        /\ t \in At(GivePoints)
        /\ At(GivePoints)' = At(GivePoints) \ {t}
        /\ At(WaitPoints)' = At(WaitPoints)
        /\ At(ResetPoints)' = At(ResetPoints)
        /\ At({"timedOut"})' = At({"timedOut"})
    BY <1>1, <2>1, MoveFollows, MovePends, WhereIs DEF Up
  <2>3. Signal!Signal(t)
    BY <1>2, <2>2 DEF Signal!Signal
  <2> QED
    BY <2>3
<1>5. CASE SetRecheck(t) \/ SetTakeBack(t)
  <2>1. \/ Goto(t, "recheck", IF Waiting > 0 THEN "takeBack" ELSE "idle") /\ UNCHANGED <<Set, Event>>
        \/ /\ Goto(t, "takeBack", IF Set = 1 THEN "passOn" ELSE "idle")
           /\ Set' = 0 /\ Event' = Event
    BY <1>5 DEF SetRecheck, SetTakeBack
  <2>2. /\ Pending' = Pending
        /\ At(GivePoints)' = At(GivePoints)
        /\ At(WaitPoints)' = At(WaitPoints)
        /\ At(ResetPoints)' = At(ResetPoints)
        /\ At({"timedOut"})' = At({"timedOut"})
    BY <1>1, <2>1, MoveFollows, MovePends, WhereIs DEF Up
  <2> QED
    BY <1>2, <2>2 DEF Signal!vars
<1> QED
  BY <1>3, <1>4, <1>5

LEMMA ResetMaps ==
  ASSUME IInv, NEW t \in Threads, ResetStore(t) \/ ResetEvent(t) \/ Release(t)
  PROVE  Signal!Reset \/ UNCHANGED Signal!vars
<1>1. Set \in {0, 1} /\ Event \in BOOLEAN
  BY DEF IInv, TypeOK
<1>2. CASE ResetStore(t)
  <2>1. Goto(t, "idle", "resetEvent") /\ Set' = 0 /\ Event' = Event /\ timed' = timed
    BY <1>2 DEF ResetStore, Call
  <2>2. /\ Pending \in Nat /\ Pending' \in 0 .. Pending
        /\ At(GivePoints)' = At(GivePoints)
        /\ At(WaitPoints)' = At(WaitPoints)
        /\ At(ResetPoints)' = At(ResetPoints) \union {t}
        /\ At({"timedOut"})' = At({"timedOut"})
    BY <1>1, <2>1, MoveFollows, MovePends, WhereIs DEF Up
  <2>3. Signal!Reset
    BY <2>1, <2>2 DEF Signal!Reset
  <2> QED
    BY <2>3
<1>3. CASE ResetEvent(t)
  <2>1. Goto(t, "resetEvent", "idle") /\ Set' = Set /\ timed' = timed
    BY <1>3 DEF ResetEvent
  <2>2. ~Event' /\ Event' \in BOOLEAN
    BY <1>3, Zenon DEF ResetEvent
  <2>3. /\ Pending \in Nat /\ Pending' \in 0 .. Pending
        /\ At(GivePoints)' = At(GivePoints)
        /\ At(WaitPoints)' = At(WaitPoints)
        /\ At({"timedOut"})' = At({"timedOut"})
    BY <1>1, <2>1, <2>2, MoveFollows, MovePends, WhereIs DEF Up
  <2>4. At(ResetPoints) # {}
    BY <2>1 DEF Goto, At, ResetPoints
  <2>5. Signal!Reset
    BY <2>1, <2>3, <2>4 DEF Signal!Reset
  <2> QED
    BY <2>5
<1>4. CASE Release(t)
  BY <1>4 DEF Release, Signal!vars, Pending, At
<1> QED
  BY <1>2, <1>3, <1>4

(* SetEvent moves the thread it lets go, too: the signal goes to it at once.*)
LEMMA SetEventMaps ==
  ASSUME IInv, ~ManualReset, NEW t \in Threads, SetEvent(t)
  PROVE  Signal!Signal(t) \/ Signal!Merge \/ UNCHANGED Signal!vars
<1>1. Set \in {0, 1} /\ Event \in BOOLEAN /\ Set' = Set /\ timed' = timed
  BY DEF IInv, TypeOK, SetEvent
<1> DEFINE from == pc[t]
<1>2. from \in {"setEvent", "passOn"}
  BY DEF SetEvent
<1>3. CASE At({"blocked"}) = {} /\ Event' = TRUE
  <2>1. Goto(t, from, "idle")
    BY <1>2, <1>3 DEF SetEvent, Goto, IInv, TypeOK, At
  <2>2. /\ Pending \in Nat
        /\ from = "setEvent" => Pending' \in {Pending, Pending + 1} \intersect (Nat \ {0})
        /\ from = "passOn" => Pending' = Pending \/ (Pending > 1 /\ Pending' = Pending - 1)
        /\ t \in At(GivePoints) <=> from = "setEvent"
        /\ At(GivePoints)' = At(GivePoints) \ {t}
        /\ At(WaitPoints)' = At(WaitPoints)
        /\ At(ResetPoints)' = At(ResetPoints)
        /\ At({"timedOut"})' = At({"timedOut"})
    BY <1>1, <1>2, <1>3, <2>1, MoveFollows, MovePends, WhereIs DEF Up
  <2>3. CASE from = "setEvent"
    BY <1>1, <2>2, <2>3 DEF Signal!Signal
  <2>4. CASE from = "passOn"
    BY <1>1, <2>2, <2>4 DEF Signal!Merge, Signal!vars
  <2> QED
    BY <1>2, <2>3, <2>4
<1>4. ASSUME NEW u \in At({"blocked"}), pc' = [pc EXCEPT ![t] = "idle", ![u] = "granted"],
             Event' = Event
      PROVE  Signal!Signal(t) \/ UNCHANGED Signal!vars
  <2>1. u \in Threads /\ u # t /\ pc[u] = "blocked"
    BY <1>2 DEF At
  <2>2. \A w \in Threads : pc'[w] = IF w = t THEN "idle" ELSE IF w = u THEN "granted" ELSE pc[w]
    BY <1>4, <2>1 DEF IInv, TypeOK
  <2>3. /\ t \in At(GivePoints) <=> from = "setEvent"
        /\ At(GivePoints)' = At(GivePoints) \ {t}
        /\ At(WaitPoints)' = At(WaitPoints)
        /\ At(ResetPoints)' = At(ResetPoints)
        /\ At({"timedOut"})' = At({"timedOut"})
    BY <1>2, <2>1, <2>2, WhereIs DEF At
  <2> DEFINE W == At(CarryPoints)
  <2>4. IsFiniteSet(W) /\ Cardinality(W) \in Nat
    BY AtIsFinite, FS_CardinalityType
  <2>5. W' = (W \ {t}) \union {u} /\ u \notin W /\ (t \in W <=> from = "passOn")
    BY <1>2, <2>1, <2>2 DEF At, CarryPoints
  <2>6. /\ IsFiniteSet(W \ {t})
        /\ Cardinality(W \ {t}) = IF t \in W THEN Cardinality(W) - 1 ELSE Cardinality(W)
    BY <2>4, FS_RemoveElement
  <2>7. Cardinality(W') = Cardinality(W \ {t}) + 1
    BY <2>5, <2>6, FS_AddElement
  <2>8. /\ from = "setEvent" => Pending' = Pending + 1
        /\ from = "passOn" => Pending' = Pending
        /\ Pending \in Nat
    BY <1>1, <1>2, <1>4, <2>4, <2>5, <2>6, <2>7 DEF Pending
  <2>9. CASE from = "setEvent"
    BY <1>1, <2>3, <2>8, <2>9 DEF Signal!Signal
  <2>10. CASE from = "passOn"
    BY <1>1, <2>3, <2>8, <2>10 DEF Signal!vars
  <2> QED
    BY <1>2, <2>9, <2>10
<1> QED
  BY <1>3, <1>4, ManualResetAssumption DEF SetEvent

(* With a kernel event that resets itself no signal is lost, used twice or  *)
(* made up between Set, the event and the threads (62-123), two become one  *)
(* only in the event, and a waitFor that answers FALSE used none.  How many *)
(* signals there may be is left open: see OneSignal, which does not hold.   *)
THEOREM Refinement == ASSUME ~ManualReset PROVE Spec => SignalsAreConserved
<1>1. Init => Signal!Init
  <2> SUFFICES ASSUME Init PROVE Signal!Init
    OBVIOUS
  <2>1. \A points : "idle" \notin points => At(points) = {}
    BY DEF Init, At
  <2>2. /\ At(CarryPoints) = {} /\ At(GivePoints) = {} /\ At(WaitPoints) = {}
        /\ At(ResetPoints) = {} /\ At({"timedOut"}) = {}
    BY <2>1, Zenon DEF CarryPoints, GivePoints, WaitPoints, ResetPoints
  <2>3. Pending = 0
    BY <2>2, FS_EmptySet DEF Init, Pending
  <2> QED
    BY <2>2, <2>3 DEF Init, Signal!Init
<1>2. IInv /\ [Next]_vars => [Signal!Next]_(Signal!vars)
  <2> SUFFICES ASSUME IInv, [Next]_vars
               PROVE  Signal!Next \/ UNCHANGED Signal!vars
    OBVIOUS
  <2>1. CASE UNCHANGED vars
    BY <2>1 DEF vars, Signal!vars, Pending, At
  <2>2. ASSUME NEW t \in Threads, Start(t) \/ Continue(t)
        PROVE  Signal!Next \/ UNCHANGED Signal!vars
    BY <2>2, WaitMaps, SetMaps, ResetMaps, SetEventMaps
       DEF Start, Continue, SetStep, Signal!Next
  <2> QED
    BY <2>1, <2>2 DEF Next
<1> QED
  BY <1>1, <1>2, Invariant, PTL DEF Spec, SignalsAreConserved, Signal!Spec
=============================================================================
