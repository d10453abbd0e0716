------------------------- MODULE EventFlagStlProofs -------------------------
(***************************************************************************)
(* Proofs about EventFlagStl, for every finite set of threads and every    *)
(* choice of the operations they call.                                     *)
(***************************************************************************)
EXTENDS EventFlagStl, FiniteSetTheorems, TLAPS

(* A released flag stays up and keeps nobody asleep, nobody comes to it any *)
(* more, and whoever is to delete it was the last to leave.                 *)
ReleaseIsFinal ==
  /\ life = "used" => ~Delete /\ At(LeavePoints) = {}
  /\ life # "used" => At({"set", "enter"}) = {}
  /\ Delete => Flag /\ ResetValue /\ At({"waiting"}) = {}
  /\ At({"delete"}) # {} => At({"waiting", "woken", "late"}) = {}
  /\ \A t, u \in At({"delete"}) : t = u

(* The flag comes down with every wait that ends, unless it was made not to *)
(* or was released.                                                         *)
LowersItself == ResetValue = (ManualReset \/ Delete)

(* Time is up only for a thread that waits for a limited time.              *)
LateIsTimed == At({"late"}) \subseteq timed

(* The inductive invariant.  That the object is left when it is deleted     *)
(* needs the exact count, by which a thread knows that it is the last; and  *)
(* that nobody sleeps beside a flag that is up needs it to come down with   *)
(* the wait that it ended.                                                  *)
IInv ==
  /\ TypeOK
  /\ WaitingCounts
  /\ ReleaseIsFinal
  /\ LowersItself
  /\ life = "freed" => At({"delete"} \union WaitPoints) = {}
  /\ LateIsTimed
  /\ ~ManualReset => NoStrandedWaiter

(* Holding on to the object: what Waiting counts. *)
Holding == {"waiting"} \union AwakePoints

LEMMA AtIsFinite == ASSUME Assumptions PROVE \A points : IsFiniteSet(At(points))
<1> TAKE points
<1>1. At(points) \subseteq Threads
  BY DEF At
<1> QED
  BY <1>1, FS_Subset DEF Assumptions

(* What a step does to Waiting when it moves a thread. *)
CountsWith(from, to) ==
  \/ Waiting' = Waiting /\ (from \in Holding <=> to \in Holding)
  \/ Waiting' = Waiting + 1 /\ from \notin Holding /\ to \in Holding
  \/ Waiting' = Waiting - 1 /\ from \in Holding /\ to \notin Holding

(* A move that counts its thread keeps the count. *)
LEMMA MoveKeepsCount ==
  ASSUME Assumptions, TypeOK, WaitingCounts, NEW t \in Threads, NEW to,
         pc' = [pc EXCEPT ![t] = to], CountsWith(pc[t], to)
  PROVE  WaitingCounts' /\ Waiting' \in Nat
<1> DEFINE W == At(Holding)
<1>1. Waiting = Cardinality(W) /\ IsFiniteSet(W)
  BY AtIsFinite DEF WaitingCounts, Holding
<1>2. Cardinality(W) \in Nat
  BY <1>1, FS_CardinalityType
<1>3. /\ to \in Holding => W' = W \union {t}
      /\ to \notin Holding => W' = W \ {t}
      /\ t \in W <=> pc[t] \in Holding
  BY DEF At, TypeOK
<1>4. Waiting' = Cardinality(W')
  <2>1. CASE Waiting' = Waiting /\ (pc[t] \in Holding <=> to \in Holding)
    <3>1. W' = W
      BY <1>3, <2>1
    <3> QED
      BY <3>1, <1>1, <2>1
  <2>2. CASE Waiting' = Waiting + 1 /\ pc[t] \notin Holding /\ to \in Holding
    <3>1. Cardinality(W \union {t}) = Cardinality(W) + 1
      BY <1>1, <1>3, <2>2, FS_AddElement
    <3> QED
      BY <3>1, <1>1, <1>3, <2>2
  <2>3. CASE Waiting' = Waiting - 1 /\ pc[t] \in Holding /\ to \notin Holding
    <3>1. Cardinality(W \ {t}) = Cardinality(W) - 1
      BY <1>1, <1>3, <2>3, FS_RemoveElement
    <3> QED
      BY <3>1, <1>1, <1>3, <2>3
  <2> QED
    BY <2>1, <2>2, <2>3 DEF CountsWith
<1>5. IsFiniteSet(W')
  BY <1>1, <1>3, FS_AddElement, FS_RemoveElement
<1>6. Waiting' \in Nat
  BY <1>4, <1>5, FS_CardinalityType
<1> QED
  BY <1>4, <1>6 DEF WaitingCounts, Holding

(* The thread that counts itself out as the last one leaves nobody behind.  *)
LEMMA LastOneLeaves ==
  ASSUME Assumptions, TypeOK, WaitingCounts, Waiting = 1,
         NEW t \in Threads, pc[t] \in Holding
  PROVE  At(Holding) = {t}
<1>1. IsFiniteSet(At(Holding)) /\ Cardinality(At(Holding)) = 1
  BY AtIsFinite DEF WaitingCounts, Holding
<1>2. PICK u : At(Holding) = {u}
  BY <1>1, FS_Singleton
<1>3. t \in At(Holding)
  BY DEF At
<1> QED
  BY <1>2, <1>3

(* Nobody is counted: nobody holds on to the object.                        *)
LEMMA NobodyHolds ==
  ASSUME Assumptions, TypeOK, WaitingCounts, Waiting = 0
  PROVE  At(Holding) = {}
BY AtIsFinite, FS_EmptySet DEF WaitingCounts, Holding

LEMMA InitInv == ASSUME Assumptions PROVE Init => IInv
<1> SUFFICES ASSUME Init PROVE IInv
  OBVIOUS
<1> USE DEF Init, At, WaitPoints, AwakePoints, LeavePoints
<1>1. TypeOK
  BY DEF TypeOK, Assumptions
<1>2. At({"waiting", "woken", "late"}) = {}
  OBVIOUS
<1>3. WaitingCounts
  BY <1>2, FS_EmptySet DEF WaitingCounts
<1>4. ReleaseIsFinal /\ NoStrandedWaiter
  BY DEF ReleaseIsFinal, NoStrandedWaiter
<1>6. LateIsTimed
  BY DEF LateIsTimed
<1>5. LowersItself
  BY Zenon DEF LowersItself, Assumptions
<1> QED
  BY <1>1, <1>3, <1>4, <1>5, <1>6 DEF IInv

(* A wait ends, whether its thread was counted before (woken) or not.       *)
LEMMA LeaveKeepsInvariant ==
  ASSUME Assumptions, IInv, life # "terminated", NEW t \in Threads, NEW count,
         \/ pc[t] = "enter" /\ ~Delete /\ count = Waiting + 1
         \/ pc[t] \in AwakePoints /\ count = Waiting,
         Flag, Leave(t, count), Reset' = Reset
  PROVE  IInv'
<1> DEFINE to == IF ~Delete THEN "idle" ELSE IF count = 1 THEN "delete" ELSE "terminate"
<1> USE DEF WaitPoints, AwakePoints, LeavePoints, Holding
<1>1. TypeOK /\ WaitingCounts /\ ReleaseIsFinal /\ LowersItself
  BY DEF IInv
<1>2. pc' = [pc EXCEPT ![t] = to] /\ to \in {"idle", "delete", "terminate"}
  BY DEF Leave
<1>3. CountsWith(pc[t], to)
  BY <1>1, <1>2 DEF CountsWith, Leave, TypeOK
<1>4. WaitingCounts' /\ Waiting' \in Nat
  BY <1>1, <1>2, <1>3, MoveKeepsCount
<1>5. TypeOK'
  BY <1>1, <1>2, <1>4 DEF TypeOK, Leave
<1>6. \A u \in Threads : pc'[u] = IF u = t THEN to ELSE pc[u]
  BY <1>1, <1>2 DEF TypeOK
<1>7. to = "delete" => At(Holding) = {t} /\ Delete
  BY <1>1, LastOneLeaves
<1>8. Flag' = ResetValue /\ ResetValue' = ResetValue /\ Delete' = Delete /\ life' = life
  BY DEF Leave
<1>9. ReleaseIsFinal'
  <2>1. (life = "used" => ~Delete /\ At(LeavePoints) = {})'
    BY <1>1, <1>2, <1>6, <1>8 DEF ReleaseIsFinal, At
  <2>2. (life # "used" => At({"set", "enter"}) = {})'
    BY <1>1, <1>2, <1>6, <1>8 DEF ReleaseIsFinal, At
  <2>3. (Delete => Flag /\ ResetValue /\ At({"waiting"}) = {})'
    BY <1>1, <1>2, <1>6, <1>8 DEF ReleaseIsFinal, At
  <2>4. (At({"delete"}) # {} => At({"waiting", "woken", "late"}) = {})'
    BY <1>1, <1>2, <1>6, <1>7 DEF ReleaseIsFinal, At
  <2>5. (\A u, v \in At({"delete"}) : u = v)'
    BY <1>1, <1>2, <1>6, <1>7 DEF ReleaseIsFinal, At
  <2> QED
    BY <2>1, <2>2, <2>3, <2>4, <2>5 DEF ReleaseIsFinal
<1>10. LowersItself'
  BY <1>1, <1>8 DEF LowersItself
<1>11. (life = "freed" => At({"delete"} \union WaitPoints) = {})'
  BY <1>8 DEF IInv, At
<1>12. (~ManualReset => NoStrandedWaiter)'
  BY <1>1, <1>2, <1>6, <1>8 DEF LowersItself, NoStrandedWaiter, ReleaseIsFinal, At
<1>13. LateIsTimed'
  BY <1>2, <1>6 DEF IInv, LateIsTimed, Leave, At
<1> QED
  BY <1>4, <1>5, <1>9, <1>10, <1>11, <1>12, <1>13 DEF IInv

(* A wait goes on: the flag is down, or a reset is carried out.             *)
LEMMA SleepKeepsInvariant ==
  ASSUME Assumptions, IInv, life # "terminated", NEW t \in Threads, NEW count,
         \/ pc[t] = "enter" /\ count = Waiting + 1
         \/ pc[t] \in AwakePoints /\ count = Waiting,
         ~Delete, Sleep(t, count), Flag' = FALSE,
         UNCHANGED <<ResetValue, Delete, Reset>>
  PROVE  IInv'
<1> USE DEF WaitPoints, AwakePoints, LeavePoints, Holding
<1>1. TypeOK /\ WaitingCounts /\ ReleaseIsFinal /\ LowersItself
  BY DEF IInv
<1>2. pc' = [pc EXCEPT ![t] = "waiting"] /\ life' = life /\ timed' = timed /\ Waiting' = count
  BY DEF Sleep
<1>3. CountsWith(pc[t], "waiting")
  BY <1>2 DEF CountsWith
<1>4. WaitingCounts' /\ Waiting' \in Nat
  BY <1>1, <1>2, <1>3, MoveKeepsCount
<1>5. TypeOK'
  BY <1>1, <1>2, <1>4 DEF TypeOK
<1>6. \A u \in Threads : pc'[u] = IF u = t THEN "waiting" ELSE pc[u]
  BY <1>1, <1>2 DEF TypeOK
<1>7. t \notin At({"delete"}) /\ At({"delete"}) = {}
  BY <1>1 DEF ReleaseIsFinal, At
<1>8. ReleaseIsFinal'
  BY <1>1, <1>2, <1>6, <1>7 DEF ReleaseIsFinal, At
<1>9. LowersItself'
  BY <1>1 DEF LowersItself
<1>10. life # "freed"
  BY DEF IInv, At
<1>11. NoStrandedWaiter'
  BY DEF NoStrandedWaiter
<1>12. LateIsTimed'
  BY <1>2, <1>6 DEF IInv, LateIsTimed, At
<1> QED
  BY <1>2, <1>4, <1>5, <1>8, <1>9, <1>10, <1>11, <1>12 DEF IInv

LEMMA EnterKeepsInvariant ==
  ASSUME Assumptions, IInv, life # "terminated", NEW t \in Threads, Enter(t)
  PROVE  IInv'
<1>1. pc[t] = "enter" /\ Reset' = Reset
  BY DEF Enter
<1>2. ~Delete
  BY <1>1 DEF IInv, ReleaseIsFinal, At
<1>3. CASE Flag /\ ~Reset /\ Leave(t, Waiting + 1)
  BY <1>1, <1>2, <1>3, LeaveKeepsInvariant
<1>4. CASE Sleep(t, Waiting + 1) /\ Flag' = FALSE /\ UNCHANGED <<ResetValue, Delete>>
  BY <1>1, <1>2, <1>4, SleepKeepsInvariant
<1> QED
  BY <1>3, <1>4 DEF Enter

LEMMA RelockKeepsInvariant ==
  ASSUME Assumptions, IInv, life # "terminated", NEW t \in Threads, Relock(t)
  PROVE  IInv'
<1>1. pc[t] \in AwakePoints
  BY DEF Relock
<1>2. CASE Flag /\ Leave(t, Waiting) /\ UNCHANGED Reset
  BY <1>1, <1>2, LeaveKeepsInvariant
<1>3. CASE ~Flag /\ Sleep(t, Waiting) /\ UNCHANGED flags
  <2>1. ~Delete
    BY <1>3 DEF IInv, ReleaseIsFinal
  <2>2. Flag' = FALSE
    BY <1>3 DEF flags, IInv, TypeOK
  <2> QED
    BY <1>1, <1>3, <2>1, <2>2, SleepKeepsInvariant DEF flags
<1> QED
  BY <1>2, <1>3 DEF Relock

(* A thread moves between points that are not counted, or from one that is  *)
(* to another, and the flag stays as it is.                                 *)
QuietMove(t, to) ==
  /\ pc' = [pc EXCEPT ![t] = to]
  /\ UNCHANGED <<flags, Waiting, life>>
  /\ timed' \in {timed, timed \union {t}}
  /\ \/ life = "used" /\ pc[t] = "idle" /\ to \in {"idle", "enter", "set"}
     \/ pc[t] \in Holding /\ to \in AwakePoints /\ (to = "late" => t \in timed)

LEMMA QuietMoveKeepsInvariant ==
  ASSUME Assumptions, IInv, NEW t \in Threads, NEW to, QuietMove(t, to)
  PROVE  IInv'
<1> USE DEF WaitPoints, AwakePoints, LeavePoints, Holding
<1>1. TypeOK /\ WaitingCounts /\ ReleaseIsFinal /\ LowersItself
  BY DEF IInv
<1>2. UNCHANGED <<Flag, ResetValue, Reset, Delete, Waiting, life>>
  BY DEF QuietMove, flags
<1>3. WaitingCounts' /\ Waiting' \in Nat
  BY <1>1, <1>2, MoveKeepsCount DEF QuietMove, CountsWith
<1>4. TypeOK'
  BY <1>1, <1>2 DEF TypeOK, QuietMove
<1>5. \A u \in Threads : pc'[u] = IF u = t THEN to ELSE pc[u]
  BY <1>1 DEF TypeOK, QuietMove
<1>6. ReleaseIsFinal'
  BY <1>1, <1>2, <1>5 DEF ReleaseIsFinal, At, QuietMove
<1>7. LowersItself'
  BY <1>1, <1>2 DEF LowersItself
<1>8. (life = "freed" => At({"delete"} \union WaitPoints) = {})'
  BY <1>2, <1>5 DEF IInv, At, QuietMove
<1>9. (~ManualReset => NoStrandedWaiter)'
  BY <1>2, <1>5 DEF IInv, NoStrandedWaiter, At, QuietMove
<1>10. LateIsTimed'
  BY <1>5 DEF IInv, LateIsTimed, At, QuietMove
<1> QED
  BY <1>3, <1>4, <1>6, <1>7, <1>8, <1>9, <1>10 DEF IInv

(* A set() raises the flag and wakes up one of those who sleep, if any.     *)
LEMMA SetKeepsInvariant ==
  ASSUME Assumptions, IInv, NEW t \in Threads, Set(t)
  PROVE  IInv'
<1> USE DEF WaitPoints, AwakePoints, LeavePoints
<1>1. TypeOK /\ WaitingCounts /\ ReleaseIsFinal /\ LowersItself
  BY DEF IInv
<1>2. /\ Flag' = TRUE /\ Reset' = FALSE
      /\ UNCHANGED <<ResetValue, Delete, Waiting, timed, life>>
  BY DEF Set
<1>3. /\ pc' \in [Threads -> {"idle", "set"} \union WaitPoints \union LeavePoints]
      /\ \A u \in Threads : \/ pc'[u] = pc[u] /\ u # t
                            \/ u = t /\ pc[u] = "set" /\ pc'[u] = "idle"
                            \/ pc[u] = "waiting" /\ pc'[u] = "woken"
      /\ At({"waiting"}) # {} => At({"woken"})' # {}
  <2>1. CASE At({"waiting"}) = {} /\ Goto(t, "set", "idle")
    BY <1>1, <2>1 DEF TypeOK, Goto
  <2>2. CASE \E u \in At({"waiting"}) : pc' = [pc EXCEPT ![t] = "idle", ![u] = "woken"]
    BY <1>1, <2>2 DEF TypeOK, Set, At
  <2> QED
    BY <2>1, <2>2 DEF Set
<1>4. life = "used"
  BY <1>1 DEF ReleaseIsFinal, At, Set
<1>5. At({"waiting", "woken", "late"})' = At({"waiting", "woken", "late"})
  BY <1>3 DEF At
<1>6. WaitingCounts' /\ LowersItself'
  BY <1>1, <1>2, <1>5 DEF WaitingCounts, LowersItself
<1>7. TypeOK'
  BY <1>1, <1>2, <1>3 DEF TypeOK
<1>8. ReleaseIsFinal'
  BY <1>1, <1>2, <1>3, <1>4 DEF ReleaseIsFinal, At
<1>9. NoStrandedWaiter'
  BY <1>3 DEF NoStrandedWaiter, At
<1>10. LateIsTimed'
  BY <1>2, <1>3 DEF IInv, LateIsTimed, At
<1> QED
  BY <1>2, <1>4, <1>6, <1>7, <1>8, <1>9, <1>10 DEF IInv

(* A release wakes up everybody, or finds that nobody holds on to the flag. *)
LEMMA ReleaseKeepsInvariant ==
  ASSUME Assumptions, IInv, NEW t \in Threads, Release(t)
  PROVE  IInv'
<1> USE DEF WaitPoints, AwakePoints, LeavePoints
<1>1. TypeOK /\ WaitingCounts /\ ReleaseIsFinal /\ LowersItself
  BY DEF IInv
<1>2. life = "used" /\ At({"set", "enter"}) = {} /\ UNCHANGED <<Waiting, timed>>
  BY DEF Release, Call
<1>3. CASE Waiting > 0
  <2>1. /\ Flag' = TRUE /\ ResetValue' = TRUE /\ Reset' = FALSE /\ Delete' = TRUE
        /\ pc' = [u \in Threads |-> IF pc[u] = "waiting" THEN "woken" ELSE pc[u]]
        /\ life' = "released"
    BY <1>3 DEF Release
  <2>2. At({"waiting", "woken", "late"})' = At({"waiting", "woken", "late"})
    BY <2>1 DEF At
  <2>3. WaitingCounts' /\ LowersItself'
    BY <1>1, <1>2, <2>1, <2>2 DEF WaitingCounts, LowersItself
  <2>4. TypeOK'
    BY <1>1, <1>2, <2>1 DEF TypeOK
  <2>5. ReleaseIsFinal'
    BY <1>1, <1>2, <2>1 DEF ReleaseIsFinal, At
  <2>6. At({"waiting"})' = {}
    BY <2>1 DEF At
  <2> QED
    BY <1>2, <2>1, <2>3, <2>4, <2>5, <2>6 DEF IInv, NoStrandedWaiter, LateIsTimed, At
<1>4. CASE ~(Waiting > 0)
  <2>1. life' = "freed" /\ UNCHANGED <<Flag, ResetValue, Reset, Delete, pc>>
    BY <1>4 DEF Release, flags
  <2>2. At({"waiting", "woken", "late"}) = {}
    BY <1>1, <1>4, NobodyHolds DEF TypeOK, Holding, AwakePoints
  <2>3. WaitingCounts' /\ LowersItself'
    BY <1>1, <1>2, <2>1 DEF WaitingCounts, LowersItself, At
  <2>4. TypeOK'
    BY <1>1, <1>2, <2>1 DEF TypeOK
  <2>5. ReleaseIsFinal' /\ At({"delete"} \union WaitPoints)' = {} /\ NoStrandedWaiter'
    BY <1>1, <1>2, <2>1, <2>2 DEF ReleaseIsFinal, NoStrandedWaiter, At
  <2> QED
    BY <1>2, <2>1, <2>3, <2>4, <2>5 DEF IInv, LateIsTimed, At
<1> QED
  BY <1>3, <1>4

(* The last one out deletes the object.                                     *)
LEMMA DeleteFlagKeepsInvariant ==
  ASSUME Assumptions, IInv, NEW t \in Threads, DeleteFlag(t)
  PROVE  IInv'
<1> USE DEF WaitPoints, AwakePoints, LeavePoints, Holding
<1>1. TypeOK /\ WaitingCounts /\ ReleaseIsFinal /\ LowersItself
  BY DEF IInv
<1>2. /\ pc[t] = "delete" /\ pc' = [pc EXCEPT ![t] = "terminate"] /\ life' = "freed"
      /\ UNCHANGED <<Flag, ResetValue, Reset, Delete, Waiting, timed>>
  BY DEF DeleteFlag, Goto, flags
<1>3. WaitingCounts' /\ Waiting' \in Nat
  BY <1>1, <1>2, MoveKeepsCount DEF CountsWith
<1>4. TypeOK'
  BY <1>1, <1>2 DEF TypeOK
<1>5. \A u \in Threads : pc'[u] = IF u = t THEN "terminate" ELSE pc[u]
  BY <1>1, <1>2 DEF TypeOK
<1>6. life # "used" /\ At({"waiting", "woken", "late"}) = {} /\ At({"delete"}) = {t}
  BY <1>1, <1>2 DEF ReleaseIsFinal, At
<1>7. ReleaseIsFinal' /\ LowersItself'
  BY <1>1, <1>2, <1>5, <1>6 DEF ReleaseIsFinal, LowersItself, At
<1>8. At({"delete"} \union WaitPoints)' = {} /\ NoStrandedWaiter'
  BY <1>1, <1>5, <1>6 DEF ReleaseIsFinal, NoStrandedWaiter, At
<1> QED
  BY <1>2, <1>3, <1>4, <1>5, <1>7, <1>8 DEF IInv, LateIsTimed, At

LEMMA NextKeepsInvariant ==
  ASSUME Assumptions
  PROVE  IInv /\ [Next]_vars => IInv'
<1> SUFFICES ASSUME IInv, [Next]_vars PROVE IInv'
  OBVIOUS
<1>1. CASE UNCHANGED vars
  BY <1>1 DEF vars, IInv, TypeOK, WaitingCounts, ReleaseIsFinal, LowersItself,
              NoStrandedWaiter, LateIsTimed, At
<1>2. ASSUME life # "terminated", NEW t \in Threads, Start(t) \/ WakeUp(t) \/ TimeUp(t) \/ Continue(t)
      PROVE  IInv'
  <2>1. CASE CallWait(t)
    <3>1. QuietMove(t, "enter")
      BY <2>1 DEF CallWait, Call, Goto, QuietMove, IInv, TypeOK
    <3> QED
      BY <3>1, QuietMoveKeepsInvariant
  <2>2. CASE CallSet(t)
    <3>1. QuietMove(t, "set")
      BY <2>2 DEF CallSet, Call, Goto, QuietMove, IInv, TypeOK
    <3> QED
      BY <3>1, QuietMoveKeepsInvariant
  <2>3. CASE DoReset(t)
    BY <2>3 DEF DoReset, Call, Goto, IInv, TypeOK, WaitingCounts, ReleaseIsFinal,
                LowersItself, NoStrandedWaiter, LateIsTimed, At
  <2>4. CASE WakeUp(t)
    <3>1. QuietMove(t, "woken")
      BY <2>4 DEF WakeUp, Goto, QuietMove, IInv, TypeOK, Holding, AwakePoints
    <3> QED
      BY <3>1, QuietMoveKeepsInvariant
  <2>6. CASE TimeUp(t)
    <3>1. QuietMove(t, "late")
      BY <2>6 DEF TimeUp, QuietMove, IInv, TypeOK, Holding, AwakePoints
    <3> QED
      BY <3>1, QuietMoveKeepsInvariant
  <2>5. CASE Terminate(t)
    BY <2>5 DEF Terminate, flags, IInv, TypeOK, WaitingCounts, ReleaseIsFinal,
                LowersItself, NoStrandedWaiter, LateIsTimed, At, LeavePoints
  <2> QED
    BY <1>2, <2>1, <2>2, <2>3, <2>4, <2>5, <2>6, ReleaseKeepsInvariant, EnterKeepsInvariant,
       RelockKeepsInvariant, SetKeepsInvariant, DeleteFlagKeepsInvariant DEF Start, Continue
<1> QED
  BY <1>1, <1>2 DEF Next

(* The inductive invariant holds throughout, for any number of threads in   *)
(* set, wait, waitFor, reset and release at once (136-249).                 *)
THEOREM Invariant == ASSUME Assumptions PROVE Spec => []IInv
<1>1. Init => IInv
  BY InitInv
<1>2. IInv /\ [Next]_vars => IInv'
  BY NextKeepsInvariant
<1> QED
  BY <1>1, <1>2, PTL DEF Spec

(* The count of waiters is exact and the object is only deleted when every  *)
(* thread has left it; a flag that lowers itself strands nobody: release    *)
(* (169-180) and the way out of a wait (197-206), for any number of threads.*)
THEOREM FlagIsSafe == ASSUME Assumptions, ~ManualReset PROVE Spec => []StlFlagIsSafe
<1>1. IInv => StlFlagIsSafe
  <2> SUFFICES ASSUME IInv PROVE StlFlagIsSafe
    OBVIOUS
  <2>1. TypeOK /\ WaitingCounts /\ NoStrandedWaiter
    BY DEF IInv
  <2>2. life = "freed" => At({"set", "delete"} \union WaitPoints) = {}
    BY DEF IInv, ReleaseIsFinal, At
  <2>3. Cardinality(At({"delete"})) <= 1
    <3>1. At({"delete"}) = {} \/ \E t : At({"delete"}) = {t}
      BY DEF IInv, ReleaseIsFinal
    <3>2. Cardinality(At({"delete"})) \in {0, 1}
      BY <3>1, FS_EmptySet, FS_Singleton
    <3> QED
      BY <3>2
  <2> QED
    BY <2>1, <2>2, <2>3 DEF StlFlagIsSafe, FreedIsLeft
<1> QED
  BY <1>1, Invariant, PTL

(* What a wait that ends, and one that goes on, are to the abstract flag.   *)
LEMMA LeaveIsUse ==
  ASSUME Assumptions, ~ManualReset, IInv, NEW t \in Threads, NEW count,
         pc[t] \in WaitPoints, ~Delete, Flag, Leave(t, count), Reset' = Reset
  PROVE  Signal!Use(t)
<1> USE DEF WaitPoints, AwakePoints, LeavePoints
<1>1. Flag' = FALSE
  BY DEF IInv, LowersItself, Leave, TypeOK
<1>2. \A u \in Threads : pc'[u] = IF u = t THEN "idle" ELSE pc[u]
  BY DEF IInv, TypeOK, Leave
<1>3. /\ t \in At(WaitPoints)
      /\ At(WaitPoints)' = At(WaitPoints) \ {t}
      /\ At({"set"})' = At({"set"})
      /\ At({"late"})' = At({"late"}) \ {t}
  BY <1>2 DEF At
<1>4. timed' = timed \ {t}
  BY DEF Leave
<1> QED
  BY <1>1, <1>3, <1>4 DEF Signal!Use, Signal!Return

LEMMA SleepIsReset ==
  ASSUME Assumptions, IInv, NEW t \in Threads, NEW count,
         pc[t] = "enter", ~(Flag /\ ~Reset), Sleep(t, count), Flag' = FALSE, Reset' = Reset
  PROVE  Signal!Reset \/ UNCHANGED Signal!vars
<1> USE DEF WaitPoints, AwakePoints, LeavePoints
<1>1. \A u \in Threads : pc'[u] = IF u = t THEN "waiting" ELSE pc[u]
  BY DEF IInv, TypeOK, Sleep
<1>2. /\ At(WaitPoints)' = At(WaitPoints) /\ At({"set"})' = At({"set"})
      /\ At({"late"})' = At({"late"}) /\ timed' = timed
  BY <1>1 DEF At, Sleep
<1>3. CASE Flag
  <2>1. Reset \in BOOLEAN /\ Reset
    BY <1>3 DEF IInv, TypeOK
  <2> QED
    BY <1>2, <1>3, <2>1 DEF Signal!Reset
<1>4. CASE ~Flag
  BY <1>2, <1>4 DEF Signal!vars
<1> QED
  BY <1>3, <1>4

(* Every step of the flag is a step of the abstract flag, or none.          *)
LEMMA StepIsSignalStep ==
  ASSUME Assumptions, ~ManualReset, IInv, [Next]_vars, life' = "used"
  PROVE  Signal!Next \/ UNCHANGED Signal!vars
<1> USE DEF WaitPoints, AwakePoints, LeavePoints
<1>1. CASE UNCHANGED vars
  BY <1>1 DEF vars, Signal!vars, At
<1>2. ASSUME NEW t \in Threads, Start(t) \/ WakeUp(t) \/ TimeUp(t) \/ Continue(t)
      PROVE  Signal!Next \/ UNCHANGED Signal!vars
  <2> SUFFICES \/ Signal!CallSet(t) \/ Signal!Signal(t) \/ Signal!CallWait(t)
               \/ Signal!Limit(t) \/ Signal!Use(t) \/ Signal!Reset \/ UNCHANGED Signal!vars
    BY DEF Signal!Next
  <2>1. CASE CallWait(t)
    <3>1. \A u \in Threads : pc'[u] = IF u = t THEN "enter" ELSE pc[u]
      BY <2>1 DEF IInv, TypeOK, CallWait, Call, Goto
    <3>2. /\ At(WaitPoints)' = At(WaitPoints) \union {t} /\ At({"set"})' = At({"set"})
          /\ At({"late"})' = At({"late"})
      BY <2>1, <3>1 DEF At, CallWait, Call, Goto
    <3>3. /\ Flag' = Flag /\ Reset' = Reset
          /\ timed' \in {timed, timed \union {t}}
      BY <2>1 DEF CallWait, flags
    <3>4. Signal!CallWait(t)
      BY <3>2, <3>3 DEF Signal!CallWait
    <3> QED
      BY <3>4
  <2>2. CASE CallSet(t)
    <3>1. \A u \in Threads : pc'[u] = IF u = t THEN "set" ELSE pc[u]
      BY <2>2 DEF IInv, TypeOK, CallSet, Call, Goto
    <3>2. /\ At(WaitPoints)' = At(WaitPoints) /\ At({"set"})' = At({"set"}) \union {t}
          /\ At({"late"})' = At({"late"})
      BY <2>2, <3>1 DEF At, CallSet, Call, Goto
    <3>3. Signal!CallSet(t)
      BY <2>2, <3>2 DEF Signal!CallSet, CallSet, flags
    <3> QED
      BY <3>3
  <2>3. CASE DoReset(t)
    <3>1. pc' = pc
      BY <2>3 DEF DoReset, Call, Goto, IInv, TypeOK
    <3>2. /\ At(WaitPoints)' = At(WaitPoints) /\ At({"set"})' = At({"set"})
          /\ At({"late"})' = At({"late"})
      BY <3>1 DEF At
    <3>3. Signal!Reset
      BY <2>3, <3>2 DEF Signal!Reset, DoReset
    <3> QED
      BY <3>3
  <2>4. CASE WakeUp(t)
    <3>1. \A u \in Threads : pc'[u] = IF u = t THEN "woken" ELSE pc[u]
      BY <2>4 DEF IInv, TypeOK, WakeUp, Goto
    <3>2. /\ At(WaitPoints)' = At(WaitPoints) /\ At({"set"})' = At({"set"})
          /\ At({"late"})' = At({"late"})
      BY <2>4, <3>1 DEF At, WakeUp, Goto
    <3> QED
      BY <2>4, <3>2 DEF Signal!vars, WakeUp, flags
  <2>9. CASE TimeUp(t)
    <3>1. \A u \in Threads : pc'[u] = IF u = t THEN "late" ELSE pc[u]
      BY <2>9 DEF IInv, TypeOK, TimeUp
    <3>2. /\ At(WaitPoints)' = At(WaitPoints) /\ At({"set"})' = At({"set"})
          /\ At({"late"})' = At({"late"}) \union {t} /\ t \in timed
      BY <2>9, <3>1 DEF At, TimeUp
    <3>3. Signal!Limit(t)
      BY <2>9, <3>2 DEF Signal!Limit, TimeUp, flags
    <3> QED
      BY <3>3
  <2>5. CASE Set(t)
    <3>1. /\ \A u \in Threads : \/ pc'[u] = pc[u] /\ u # t
                                \/ u = t /\ pc[u] = "set" /\ pc'[u] = "idle"
                                \/ pc[u] = "waiting" /\ pc'[u] = "woken"
      <4>1. CASE At({"waiting"}) = {} /\ Goto(t, "set", "idle")
        BY <4>1 DEF IInv, TypeOK, Goto
      <4>2. CASE \E u \in At({"waiting"}) : pc' = [pc EXCEPT ![t] = "idle", ![u] = "woken"]
        BY <2>5, <4>2 DEF IInv, TypeOK, Set, At
      <4> QED
        BY <2>5, <4>1, <4>2 DEF Set
    <3>2. /\ t \in At({"set"})
          /\ At(WaitPoints)' = At(WaitPoints)
          /\ At({"set"})' = At({"set"}) \ {t}
          /\ At({"late"})' = At({"late"})
      BY <2>5, <3>1 DEF At, Set
    <3>3. Flag' = TRUE /\ Reset' = FALSE /\ timed' = timed
      BY <2>5 DEF Set
    <3>4. (IF Flag THEN 1 ELSE 0)'
                \in {IF Flag THEN 1 ELSE 0, (IF Flag THEN 1 ELSE 0) + 1}
                      \intersect ({0, 1} \ {0})
      <4>1. (IF Flag THEN 1 ELSE 0)' = 1
        BY <3>3
      <4>2. CASE Flag
        BY <3>3, <4>1, <4>2
      <4>3. CASE ~Flag
        BY <3>3, <4>1, <4>3
      <4> QED
        BY <4>2, <4>3
    <3>5. Signal!Signal(t)
      BY <3>2, <3>3, <3>4, Zenon DEF Signal!Signal
    <3> QED
      BY <3>5
  <2>6. CASE Enter(t)
    <3>1. pc[t] = "enter" /\ pc[t] \in WaitPoints /\ ~Delete
      BY <2>6 DEF Enter, IInv, ReleaseIsFinal, At
    <3>2. CASE Flag /\ ~Reset /\ Leave(t, Waiting + 1)
      BY <2>6, <3>1, <3>2, LeaveIsUse DEF Enter
    <3>3. CASE ~(Flag /\ ~Reset) /\ Sleep(t, Waiting + 1) /\ Flag' = FALSE
      <4>1. Reset' = Reset
        BY <2>6 DEF Enter
      <4>2. Signal!Reset \/ UNCHANGED Signal!vars
        <5> HIDE DEF WaitPoints, AwakePoints, LeavePoints
        <5> QED
          BY <3>1, <3>3, <4>1, SleepIsReset
      <4> QED
        BY <4>2
    <3> QED
      BY <2>6, <3>2, <3>3 DEF Enter
  <2>7. CASE Relock(t)
    <3>1. pc[t] \in WaitPoints
      BY <2>7 DEF Relock
    <3>2. CASE Flag /\ Leave(t, Waiting) /\ UNCHANGED Reset
      <4>1. ~Delete
        BY <3>2 DEF Leave, IInv, ReleaseIsFinal
      <4> QED
        BY <3>1, <3>2, <4>1, LeaveIsUse
    <3>3. CASE ~Flag /\ Sleep(t, Waiting) /\ UNCHANGED flags
      <4>1. \A u \in Threads : pc'[u] = IF u = t THEN "waiting" ELSE pc[u]
        BY <3>3 DEF IInv, TypeOK, Sleep
      <4>2. /\ At(WaitPoints)' = At(WaitPoints) /\ At({"set"})' = At({"set"})
            /\ At({"late"})' = At({"late"}) \ {t}
            /\ UNCHANGED <<Flag, Reset, timed>>
        BY <2>7, <3>3, <4>1 DEF At, Relock, Sleep, flags
      <4>3. CASE pc[t] = "late"
        <5>1. t \in timed
          BY <4>3 DEF IInv, LateIsTimed, At
        <5>2. Signal!Limit(t)
          BY <4>2, <5>1 DEF Signal!Limit
        <5> QED
          BY <5>2
      <4>4. CASE pc[t] # "late"
        <5>1. At({"late"})' = At({"late"})
          BY <4>2, <4>4 DEF At
        <5> QED
          BY <4>2, <5>1 DEF Signal!vars
      <4> QED
        BY <4>3, <4>4
    <3> QED
      BY <2>7, <3>2, <3>3 DEF Relock
  <2>8. ~Release(t) /\ ~DeleteFlag(t) /\ ~Terminate(t)
    BY DEF Release, DeleteFlag, Terminate
  <2> QED
    BY <1>2, <2>1, <2>2, <2>3, <2>4, <2>5, <2>6, <2>7, <2>8, <2>9 DEF Start, Continue
<1> QED
  BY <1>1, <1>2 DEF Next

(* A flag that lowers itself implements EventSignal until it is released,   *)
(* with one signal at most (185-250): every wait that returns uses up the   *)
(* signal of a set() of its own, a waitFor that answers FALSE included, and *)
(* setting it several times has no more effect than setting it once.        *)
THEOREM Refinement == ASSUME Assumptions, ~ManualReset PROVE Spec => ImplementsSignal
<1>1. Init => Signal!Init
  BY DEF Init, Signal!Init, At, WaitPoints, AwakePoints
<1>2. IInv /\ [Next]_vars => [life' = "used" => Signal!Next \/ UNCHANGED Signal!vars]_vars
  BY StepIsSignalStep
<1> QED
  BY <1>1, <1>2, Invariant, PTL DEF Spec, ImplementsSignal
=============================================================================
