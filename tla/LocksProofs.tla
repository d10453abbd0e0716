----------------------------- MODULE LocksProofs -----------------------------
(***************************************************************************)
(* Proofs about the locks that MCLocks checks side by side: SharedMutex,   *)
(* for every finite set of threads and every choice of the operations they *)
(* call; and the event flags and the event loop, of which                  *)
(* EventFlagStlProofs, EventFlagWin32Proofs and EventLoopProofs are cited. *)
(***************************************************************************)
EXTENDS MCLocks, FiniteSetTheorems, TLAPS
------------------------------------------------------------------------------
(* The shared mutex. *)

(* The inductive invariant.  Exclusion alone is not inductive: that a drain  *)
(* which reads Sharing = 0 is alone needs SharingCounts, and that a late     *)
(* reader is turned away needs OneOwner.                                     *)
IInv == TypeOK /\ OneOwner /\ SharingCounts /\ Exclusion

(* What one access may do to the invariant: count a thread in or out with   *)
(* Sharing, take or drop the claim with Unique, and enter "unique" only     *)
(* from the claim once no other thread has a share.                         *)
CountsWith(from, to) ==
  \/ Sharing' = Sharing /\ (from \in CountedAt <=> to \in CountedAt)
  \/ Sharing' = Sharing + 1 /\ from \notin CountedAt /\ to \in CountedAt
  \/ Sharing' = Sharing - 1 /\ from \in CountedAt /\ to \notin CountedAt

ClaimsWith(from, to) ==
  \/ Unique' = Unique /\ (from \in OwnerAt <=> to \in OwnerAt)
  \/ Unique = 0 /\ Unique' = 1 /\ from \notin OwnerAt /\ to \in OwnerAt
  \/ Unique' = 0 /\ from \in OwnerAt /\ to \notin OwnerAt

GrantsRightly(t, from, to) ==
  \/ /\ to # "unique"
     /\ to \in SharerAt \union OwnerAt =>
          from \in SharerAt \union OwnerAt \/ Unique = 0
  \/ to = "unique" /\ from \in OwnerAt /\ At(SharerAt) \subseteq {t}

(* The sets of threads at given points are finite. *)
LEMMA AtIsFinite == \A points : IsFiniteSet(At(points))
<1> TAKE points
<1>1. At(points) \subseteq Threads
  BY DEF At
<1> QED
  BY <1>1, ThreadsAssumption, FS_Subset

(* A thread that moves enters or leaves such a set, and nobody else does. *)
LEMMA AtAfterGoto ==
  ASSUME NEW t \in Threads, NEW from, NEW to, NEW points, TypeOK, Goto(t, from, to)
  PROVE  /\ to \in points => At(points)' = At(points) \union {t}
         /\ to \notin points => At(points)' = At(points) \ {t}
         /\ t \in At(points) <=> from \in points
BY DEF At, Goto, TypeOK

(* Sharing = 0 means that no thread is counted, and 1 that only one is. *)
LEMMA NobodyCounted ==
  ASSUME IInv, Sharing = 0
  PROVE  At(CountedAt) = {}
BY AtIsFinite, FS_EmptySet DEF IInv, SharingCounts

LEMMA OnlyOneCounted ==
  ASSUME IInv, Sharing = 1, NEW t \in At(CountedAt)
  PROVE  At(CountedAt) = {t}
<1>1. PICK x : At(CountedAt) = {x}
  BY AtIsFinite, FS_Singleton DEF IInv, SharingCounts
<1> QED
  BY <1>1

LEMMA SharersAreCounted == At(SharerAt) \subseteq At(CountedAt)
BY DEF At, SharerAt, CountedAt

(* Every move that keeps the two words in step with the threads' positions *)
(* and grants the lock rightly preserves the invariant.                    *)
LEMMA MoveKeepsInvariant ==
  ASSUME IInv,
         NEW t \in Threads, NEW from, NEW to \in Holding \union Inside,
         Goto(t, from, to),
         CountsWith(from, to), ClaimsWith(from, to), GrantsRightly(t, from, to)
  PROVE  IInv'
<1> USE DEF IInv
<1>1. TypeOK
  OBVIOUS
<1>2. Sharing \in Nat /\ Unique \in {0, 1} /\ pc[t] = from
  BY <1>1 DEF TypeOK, Goto
<1>3. SharingCounts'
  <2> DEFINE C == At(CountedAt)
  <2>1. IsFiniteSet(C)
    BY AtIsFinite
  <2>2. /\ to \in CountedAt => C' = C \union {t}
        /\ to \notin CountedAt => C' = C \ {t}
        /\ t \in C <=> from \in CountedAt
    BY <1>1, AtAfterGoto
  <2>3. Sharing = Cardinality(C)
    BY DEF SharingCounts
  <2>4. CASE Sharing' = Sharing /\ (from \in CountedAt <=> to \in CountedAt)
    <3>1. C' = C
      BY <2>2, <2>4
    <3> QED
      BY <3>1, <2>3, <2>4 DEF SharingCounts
  <2>5. CASE Sharing' = Sharing + 1 /\ from \notin CountedAt /\ to \in CountedAt
    <3>1. Cardinality(C \union {t}) = Cardinality(C) + 1
      BY <2>1, <2>2, <2>5, FS_AddElement
    <3> QED
      BY <3>1, <2>2, <2>3, <2>5 DEF SharingCounts
  <2>6. CASE Sharing' = Sharing - 1 /\ from \in CountedAt /\ to \notin CountedAt
    <3>1. Cardinality(C \ {t}) = Cardinality(C) - 1
      BY <2>1, <2>2, <2>6, FS_RemoveElement
    <3> QED
      BY <3>1, <2>2, <2>3, <2>6 DEF SharingCounts
  <2> QED
    BY <2>4, <2>5, <2>6 DEF CountsWith
<1>4. Sharing' \in Nat
  <2>1. IsFiniteSet(At(CountedAt)')
    BY AtIsFinite, ThreadsAssumption, FS_Subset DEF At
  <2> QED
    BY <2>1, <1>3, FS_CardinalityType DEF SharingCounts
<1>5. TypeOK'
  BY <1>1, <1>2, <1>4 DEF TypeOK, Goto, ClaimsWith
<1>6. OneOwner'
  <2>1. /\ to \in OwnerAt => At(OwnerAt)' = At(OwnerAt) \union {t}
        /\ to \notin OwnerAt => At(OwnerAt)' = At(OwnerAt) \ {t}
        /\ t \in At(OwnerAt) <=> from \in OwnerAt
    BY <1>1, AtAfterGoto
  <2> QED
    BY <2>1, <1>2 DEF OneOwner, ClaimsWith
<1>7. Exclusion'
  <2> SUFFICES ASSUME NEW a \in Threads, pc'[a] = "unique",
                      NEW u \in Threads, u # a
               PROVE  pc'[u] \notin SharerAt \union OwnerAt
    BY DEF Exclusion, At
  <2>1. "unique" \in OwnerAt
    BY DEF OwnerAt
  <2>2. a \in At(OwnerAt)'
    BY <2>1 DEF At
  <2>3. pc'[u] \notin OwnerAt
    BY <1>6, <2>2 DEF OneOwner, At
  <2>4. \A v \in Threads : v # t => pc'[v] = pc[v]
    BY <1>1 DEF Goto, TypeOK
  <2>5. pc'[t] = to
    BY <1>1 DEF Goto, TypeOK
  <2>6. CASE a = t
    <3>1. At(SharerAt) \subseteq {t}
      BY <2>5, <2>6 DEF GrantsRightly
    <3> QED
      BY <3>1, <2>3, <2>4, <2>6 DEF At
  <2>7. CASE a # t
    <3>1. a \in At({"unique"}) /\ Unique = 1
      BY <2>1, <2>4, <2>7 DEF At, OneOwner
    <3>2. pc[u] \notin SharerAt \union OwnerAt
      BY <3>1 DEF Exclusion
    <3>3. CASE u # t
      BY <3>2, <3>3, <2>4
    <3>4. CASE u = t
      <4>1. from \notin SharerAt \union OwnerAt
        BY <3>2, <3>4, <1>2
      <4> QED
        BY <4>1, <3>1, <3>4, <2>5 DEF GrantsRightly
    <3> QED
      BY <3>3, <3>4
  <2> QED
    BY <2>6, <2>7
<1> QED
  BY <1>3, <1>5, <1>6, <1>7
------------------------------------------------------------------------------
(* The same accesses, seen by the abstract lock: each changes one thing at  *)
(* most of share, claim and exclusiveness of one thread.                    *)
MapsToLock(t, from, to) ==
  LET sameShare == from \in SharerAt <=> to \in SharerAt
      sameClaim == from \in OwnerAt <=> to \in OwnerAt
      notAlone == from # "unique" /\ to # "unique"
  IN \/ sameShare /\ sameClaim /\ (from = "unique" <=> to = "unique")
     \/ /\ sameClaim /\ to # "unique" /\ from \notin SharerAt /\ to \in SharerAt
        /\ from \in OwnerAt \/ Unique = 0
     \/ sameClaim /\ notAlone /\ from \in SharerAt /\ to \notin SharerAt
     \/ sameShare /\ notAlone /\ from \notin OwnerAt /\ to \in OwnerAt /\ Unique = 0
     \/ /\ to = "unique" /\ from # "unique" /\ from \in OwnerAt \ SharerAt
        /\ At(SharerAt) = {}
     \/ /\ to = "unique" /\ from # "unique" /\ from \in OwnerAt \intersect SharerAt
        /\ At(SharerAt) = {t}
     \/ sameShare /\ from \in OwnerAt /\ to \notin OwnerAt

LegalMove(t, from, to) ==
  /\ Goto(t, from, to)
  /\ to \in Holding \union Inside
  /\ CountsWith(from, to)
  /\ ClaimsWith(from, to)
  /\ GrantsRightly(t, from, to)
  /\ MapsToLock(t, from, to)

(* The points, expanded where a step compares two of them. *)
USE DEF Holding, Inside, CountedAt, OwnerAt, SharerAt

(* Every access of every call is such a move. *)
LEMMA EveryAccessIsLegal ==
  ASSUME IInv, NEW t \in Threads, Enter(t) \/ Leave(t) \/ Continue(t)
  PROVE  \E from, to : LegalMove(t, from, to)
<1> USE DEF LegalMove, CountsWith, ClaimsWith, GrantsRightly, MapsToLock
<1>1. Sharing \in Nat /\ Unique \in {0, 1}
  BY DEF IInv, TypeOK
<1>2. Unique = 0 => At(OwnerAt) = {}
  BY <1>1 DEF IInv, OneOwner
<1>3. Sharing = 0 => At(SharerAt) = {}
  BY NobodyCounted, SharersAreCounted
<1>4. \A p \in OwnerAt : pc[t] = p => Unique = 1
  BY DEF IInv, OneOwner, At
<1>5. CASE TryLockStart(t)
  <2>1. LegalMove(t, "idle", IF Unique = 0 THEN "tryLockLoad" ELSE "idle")
    BY <1>1, <1>2, <1>3, <1>4, <1>5 DEF TryLockStart, ExchangeUnique
  <2> QED
    BY <2>1
<1>6. CASE LockStart(t)
  <2>1. LegalMove(t, "idle", "lockExchange")
    BY <1>1, <1>2, <1>3, <1>4, <1>6 DEF LockStart, Branch
  <2> QED
    BY <2>1
<1>7. CASE TryLockSharedStart(t)
  <2>1. LegalMove(t, "idle", "tryLockSharedCheck")
    BY <1>1, <1>2, <1>3, <1>4, <1>7 DEF TryLockSharedStart, Increment
  <2> QED
    BY <2>1
<1>8. CASE LockSharedStart(t)
  <2>1. LegalMove(t, "idle", "lockSharedIncrement")
    BY <1>1, <1>2, <1>3, <1>4, <1>8 DEF LockSharedStart, Branch
  <2> QED
    BY <2>1
<1>9. CASE TryPartialLock(t)
  <2>1. CASE ExchangeUnique(t, "idle", "partial", "idle")
    <3>1. LegalMove(t, "idle", IF Unique = 0 THEN "partial" ELSE "idle")
      BY <1>1, <1>2, <1>4, <2>1 DEF ExchangeUnique
    <3> QED
      BY <3>1
  <2>2. CASE ExchangeUnique(t, "shared", "sharedPartial", "shared")
    <3>1. LegalMove(t, "shared", IF Unique = 0 THEN "sharedPartial" ELSE "shared")
      BY <1>1, <1>2, <1>4, <2>2 DEF ExchangeUnique
    <3> QED
      BY <3>1
  <2> QED
    BY <1>9, <2>1, <2>2 DEF TryPartialLock
<1>10. CASE UpgradeLockStart(t)
  <2>1. LegalMove(t, "shared", "upgradeExchange")
    BY <1>1, <1>2, <1>3, <1>4, <1>10 DEF UpgradeLockStart, Branch
  <2> QED
    BY <2>1
<1>11. CASE CancelPartialLock(t)
  <2>1. CASE StoreUnique0(t, "partial", "idle")
    <3>1. LegalMove(t, "partial", "idle")
      BY <1>1, <1>2, <1>4, <2>1 DEF StoreUnique0
    <3> QED
      BY <3>1
  <2>2. CASE StoreUnique0(t, "sharedPartial", "shared")
    <3>1. LegalMove(t, "sharedPartial", "shared")
      BY <1>1, <1>2, <1>4, <2>2 DEF StoreUnique0
    <3> QED
      BY <3>1
  <2> QED
    BY <1>11, <2>1, <2>2 DEF CancelPartialLock
<1>12. CASE CompletePartialLockStart(t)
  <2>1. LegalMove(t, "partial", "completeDrain")
    BY <1>1, <1>2, <1>3, <1>4, <1>12 DEF CompletePartialLockStart, Branch
  <2> QED
    BY <2>1
<1>13. CASE DowngradeLockStart(t)
  <2>1. CASE Increment(t, "partial", "downgradeStore")
    <3>1. LegalMove(t, "partial", "downgradeStore")
      BY <1>1, <1>2, <1>4, <2>1 DEF Increment
    <3> QED
      BY <3>1
  <2>2. CASE Increment(t, "unique", "downgradeStore")
    <3>1. LegalMove(t, "unique", "downgradeStore")
      BY <1>1, <1>2, <1>4, <2>2 DEF Increment
    <3> QED
      BY <3>1
  <2> QED
    BY <1>13, <2>1, <2>2 DEF DowngradeLockStart
<1>14. CASE Unlock(t)
  <2>1. LegalMove(t, "unique", "idle")
    BY <1>1, <1>2, <1>3, <1>4, <1>14 DEF Unlock, StoreUnique0
  <2> QED
    BY <2>1
<1>15. CASE UnlockShared(t)
  <2>1. CASE Decrement(t, "shared", "idle")
    <3>1. LegalMove(t, "shared", "idle")
      BY <1>1, <1>2, <1>4, <2>1 DEF Decrement
    <3> QED
      BY <3>1
  <2>2. CASE Decrement(t, "sharedPartial", "partial")
    <3>1. LegalMove(t, "sharedPartial", "partial")
      BY <1>1, <1>2, <1>4, <2>2 DEF Decrement
    <3> QED
      BY <3>1
  <2> QED
    BY <1>15, <2>1, <2>2 DEF UnlockShared
<1>16. CASE TryLockLoad(t)
  <2>1. LegalMove(t, "tryLockLoad", IF Sharing = 0 THEN "unique" ELSE "tryLockUndo")
    BY <1>1, <1>2, <1>3, <1>4, <1>16 DEF TryLockLoad, Branch
  <2> QED
    BY <2>1
<1>17. CASE TryLockUndo(t)
  <2>1. LegalMove(t, "tryLockUndo", "idle")
    BY <1>1, <1>2, <1>3, <1>4, <1>17 DEF TryLockUndo, StoreUnique0
  <2> QED
    BY <2>1
<1>18. CASE CompleteDrain(t)
  <2>1. LegalMove(t, "completeDrain", "unique")
    BY <1>1, <1>2, <1>3, <1>4, <1>18 DEF CompleteDrain, SpinUntil0, Branch
  <2> QED
    BY <2>1
<1>19. CASE DowngradeStore(t)
  <2>1. LegalMove(t, "downgradeStore", "shared")
    BY <1>1, <1>2, <1>3, <1>4, <1>19 DEF DowngradeStore, StoreUnique0
  <2> QED
    BY <2>1
<1>20. CASE UpgradeExchange(t)
  <2>1. LegalMove(t, "upgradeExchange", IF Unique = 0 THEN "upgradeDecrement" ELSE "upgradeExchange")
    BY <1>1, <1>2, <1>3, <1>4, <1>20 DEF UpgradeExchange, ExchangeUnique
  <2> QED
    BY <2>1
<1>21. CASE UpgradeDecrement(t)
  <2>1. t \in At(CountedAt)
    BY <1>21 DEF UpgradeDecrement, Decrement, Goto, At
  <2>2. Sharing = 1 => At(CountedAt) = {t}
    BY <2>1, OnlyOneCounted
  <2>3. Sharing = 1 => At(SharerAt) = {t}
    BY <2>2, SharersAreCounted, <1>21 DEF UpgradeDecrement, Decrement, Goto, At
  <2>4. LegalMove(t, "upgradeDecrement", IF Sharing - 1 = 0 THEN "unique" ELSE "upgradeDrain")
    BY <1>1, <1>21, <2>3 DEF UpgradeDecrement, Decrement
  <2> QED
    BY <2>4
<1>22. CASE UpgradeDrain(t)
  <2>1. LegalMove(t, "upgradeDrain", "unique")
    BY <1>1, <1>2, <1>3, <1>4, <1>22 DEF UpgradeDrain, SpinUntil0, Branch
  <2> QED
    BY <2>1
<1>23. CASE LockExchange(t)
  <2>1. LegalMove(t, "lockExchange", IF Unique = 0 THEN "lockDrain" ELSE "lockExchange")
    BY <1>1, <1>2, <1>3, <1>4, <1>23 DEF LockExchange, ExchangeUnique
  <2> QED
    BY <2>1
<1>24. CASE LockDrain(t)
  <2>1. LegalMove(t, "lockDrain", "unique")
    BY <1>1, <1>2, <1>3, <1>4, <1>24 DEF LockDrain, SpinUntil0, Branch
  <2> QED
    BY <2>1
<1>25. CASE TryLockSharedCheck(t)
  <2>1. LegalMove(t, "tryLockSharedCheck", IF Unique = 0 THEN "shared" ELSE "tryLockSharedUndo")
    BY <1>1, <1>2, <1>3, <1>4, <1>25 DEF TryLockSharedCheck, Branch
  <2> QED
    BY <2>1
<1>26. CASE TryLockSharedUndo(t)
  <2>1. LegalMove(t, "tryLockSharedUndo", "idle")
    BY <1>1, <1>2, <1>3, <1>4, <1>26 DEF TryLockSharedUndo, Decrement
  <2> QED
    BY <2>1
<1>27. CASE LockSharedIncrement(t)
  <2>1. LegalMove(t, "lockSharedIncrement", "lockSharedCheck")
    BY <1>1, <1>2, <1>3, <1>4, <1>27 DEF LockSharedIncrement, Increment
  <2> QED
    BY <2>1
<1>28. CASE LockSharedCheck(t)
  <2>1. LegalMove(t, "lockSharedCheck", IF Unique = 0 THEN "shared" ELSE "lockSharedUndo")
    BY <1>1, <1>2, <1>3, <1>4, <1>28 DEF LockSharedCheck, Branch
  <2> QED
    BY <2>1
<1>29. CASE LockSharedUndo(t)
  <2>1. LegalMove(t, "lockSharedUndo", "lockSharedSpin")
    BY <1>1, <1>2, <1>3, <1>4, <1>29 DEF LockSharedUndo, Decrement
  <2> QED
    BY <2>1
<1>30. CASE LockSharedSpin(t)
  <2>1. LegalMove(t, "lockSharedSpin", "lockSharedIncrement")
    BY <1>1, <1>2, <1>3, <1>4, <1>30 DEF LockSharedSpin, SpinUntil0, Branch
  <2> QED
    BY <2>1
<1> QED
  BY <1>5, <1>6, <1>7, <1>8, <1>9, <1>10, <1>11, <1>12, <1>13, <1>14, <1>15,
     <1>16, <1>17, <1>18, <1>19, <1>20, <1>21, <1>22, <1>23, <1>24, <1>25, <1>26,
     <1>27, <1>28, <1>29, <1>30
  DEF Enter, Leave, Continue
------------------------------------------------------------------------------
LEMMA InitInvariant == Init => IInv
<1> SUFFICES ASSUME Init PROVE IInv
  OBVIOUS
<1>1. At(OwnerAt) = {} /\ At(CountedAt) = {} /\ At({"unique"}) = {}
  BY DEF Init, At
<1>2. TypeOK
  BY DEF Init, TypeOK
<1>3. SharingCounts
  BY <1>1, FS_EmptySet DEF Init, SharingCounts
<1>4. OneOwner /\ Exclusion
  BY <1>1 DEF Init, OneOwner, Exclusion
<1> QED
  BY <1>2, <1>3, <1>4 DEF IInv

LEMMA StepKeepsInvariant == IInv /\ [Next]_vars => IInv'
<1> SUFFICES ASSUME IInv, [Next]_vars PROVE IInv'
  OBVIOUS
<1>1. CASE Next
  <2>1. PICK t \in Threads : Enter(t) \/ Leave(t) \/ Continue(t)
    BY <1>1 DEF Next
  <2>2. PICK from, to : LegalMove(t, from, to)
    BY <2>1, EveryAccessIsLegal
  <2> QED
    BY <2>2, MoveKeepsInvariant DEF LegalMove
<1>2. CASE UNCHANGED vars
  BY <1>2 DEF vars, IInv, TypeOK, OneOwner, SharingCounts, Exclusion, At
<1> QED
  BY <1>1, <1>2

(* The invariant holds in every reachable state. *)
THEOREM InductiveInvariant == Spec => []IInv
BY InitInvariant, StepKeepsInvariant, PTL DEF Spec

(* Sharing never goes below 0, Unique stays 0 or 1, and every thread is at  *)
(* a point of the code (atomic_shared_mutex.h:47-48).                       *)
THEOREM TypeCorrect == Spec => []TypeOK
BY InductiveInvariant, PTL DEF IInv

(* Whoever returns from lock, tryLock, completePartialLock or upgradeLock   *)
(* is alone, for any number of threads and any mix of calls.                *)
THEOREM MutualExclusion == Spec => []Exclusion
BY InductiveInvariant, PTL DEF IInv

(* Unique is 1 exactly while one thread owns the claim: the debug breaks of *)
(* unlock, cancelPartialLock and downgradeLock cannot be reached.           *)
THEOREM ClaimIsOwned == Spec => []OneOwner
BY InductiveInvariant, PTL DEF IInv

(* Sharing is the number of threads that hold or try for a share.           *)
THEOREM CountIsExact == Spec => []SharingCounts
BY InductiveInvariant, PTL DEF IInv

(* The counters are exact, for any number of threads: the three above       *)
(* together, which lock, unlock and their shared forms rely on.             *)
THEOREM Counters == Spec => []CountersAreExact
BY InductiveInvariant, PTL DEF IInv, CountersAreExact

(* A claim lets no new sharer in until it is dropped.                       *)
THEOREM ClaimIsBarrier == Spec => ClaimStopsNewSharers
<1> DEFINE Barrier ==
      \A t \in At(OwnerAt) :
        pc'[t] \in OwnerAt =>
          { u \in Threads : pc'[u] \in SharerAt } \subseteq At(SharerAt) \union {t}
<1>1. IInv /\ [Next]_vars => [Barrier]_vars
  <2> SUFFICES ASSUME IInv, Next,
                      NEW t \in At(OwnerAt),
                      NEW u \in Threads, pc'[u] \in SharerAt, u # t
               PROVE  pc[u] \in SharerAt
    BY DEF At
  <2>1. PICK v \in Threads : Enter(v) \/ Leave(v) \/ Continue(v)
    BY DEF Next
  <2>2. PICK from, to : LegalMove(v, from, to)
    BY <2>1, EveryAccessIsLegal
  <2>3. Unique = 1 /\ (u = v => from \notin OwnerAt)
    BY <2>2 DEF LegalMove, Goto, IInv, OneOwner, At
  <2>4. CASE u # v
    BY <2>2, <2>4 DEF LegalMove, Goto, IInv, TypeOK
  <2>5. CASE u = v
    <3>1. pc[u] = from /\ to \in SharerAt
      BY <2>2, <2>5 DEF LegalMove, Goto, IInv, TypeOK
    <3>2. from \in SharerAt
      BY <2>2, <2>3, <2>5, <3>1 DEF LegalMove, MapsToLock
    <3> QED
      BY <3>1, <3>2
  <2> QED
    BY <2>4, <2>5
<1>2. Spec => [][Barrier]_vars
  BY <1>1, InductiveInvariant, PTL DEF Spec
<1> QED
  BY <1>2 DEF ClaimStopsNewSharers

(* A legal move is a step of the abstract lock or leaves it unchanged.      *)
LEMMA MoveIsLockStep ==
  ASSUME IInv, NEW t \in Threads, NEW from, NEW to, LegalMove(t, from, to)
  PROVE  [Lock!Next]_(Lock!vars)
<1> DEFINE S == At(SharerAt)
           O == At(OwnerAt)
           X == At({"unique"})
<1>0. TypeOK /\ Goto(t, from, to)
  BY DEF IInv, LegalMove
<1>1. /\ to \in SharerAt => S' = S \union {t}
      /\ to \notin SharerAt => S' = S \ {t}
      /\ t \in S <=> from \in SharerAt
  BY <1>0, AtAfterGoto
<1>2. /\ to \in OwnerAt => O' = O \union {t}
      /\ to \notin OwnerAt => O' = O \ {t}
      /\ t \in O <=> from \in OwnerAt
  BY <1>0, AtAfterGoto
<1>3. /\ to = "unique" => X' = X \union {t}
      /\ to # "unique" => X' = X \ {t}
      /\ t \in X <=> from = "unique"
  <2> DEFINE alone == {"unique"}
  <2>1. /\ to \in alone => At(alone)' = At(alone) \union {t}
        /\ to \notin alone => At(alone)' = At(alone) \ {t}
        /\ t \in At(alone) <=> from \in alone
    <3> HIDE DEF alone
    <3> QED
      BY <1>0, AtAfterGoto
  <2> QED
    BY <2>1
<1>4. X \subseteq O /\ (\A a, b \in O : a = b) /\ (Unique = 0 => O = {})
  BY DEF IInv, OneOwner, At
<1>5. \/ UNCHANGED <<S, O, X>>
      \/ Lock!Share(t) \/ Lock!Unshare(t) \/ Lock!Claim(t)
      \/ Lock!Complete(t) \/ Lock!Promote(t) \/ Lock!Release(t)
  BY <1>1, <1>2, <1>3, <1>4
  DEF LegalMove, MapsToLock, Lock!Share, Lock!Unshare, Lock!Claim,
      Lock!Complete, Lock!Promote, Lock!Release
<1> QED
  BY <1>5 DEF Lock!Next, Lock!vars

(* The mutex implements the abstract lock: no interleaving of the accesses  *)
(* to its two counters does anything the six operations of SharedLock could *)
(* not do.                                                                  *)
THEOREM Refinement == Spec => ImplementsSharedLock
<1>1. Init => Lock!Init
  BY DEF Init, Lock!Init, At
<1>2. IInv /\ [Next]_vars => [Lock!Next]_(Lock!vars)
  <2> SUFFICES ASSUME IInv, [Next]_vars PROVE [Lock!Next]_(Lock!vars)
    OBVIOUS
  <2>1. CASE Next
    <3>1. PICK t \in Threads : Enter(t) \/ Leave(t) \/ Continue(t)
      BY <2>1 DEF Next
    <3>2. PICK from, to : LegalMove(t, from, to)
      BY <3>1, EveryAccessIsLegal
    <3> QED
      BY <3>2, MoveIsLockStep
  <2>2. CASE UNCHANGED vars
    BY <2>2 DEF vars, Lock!vars, At
  <2> QED
    BY <2>1, <2>2
<1> QED
  BY <1>1, <1>2, InductiveInvariant, PTL DEF Spec, ImplementsSharedLock, Lock!Spec
------------------------------------------------------------------------------
(* The event flags. *)

StlProofs == INSTANCE EventFlagStlProofs WITH
  Threads <- StlThreads, Ops <- FlagOps, ManualReset <- FALSE, InitialState <- TRUE,
  Waiting <- stlWaiting, pc <- stlPc, timed <- stlTimed, life <- stlLife

Win32Proofs == INSTANCE EventFlagWin32Proofs WITH
  Threads <- Win32Threads, Ops <- FlagOps, ManualReset <- FALSE,
  pc <- winPc, timed <- winTimed, life <- winLife

LEMMA StlHolds == StlProofs!Assumptions
BY StlAssumption DEF Stl!Assumptions, StlProofs!Assumptions, Stl!AllOps, StlProofs!AllOps,
   Stl!IsFiniteSet, StlProofs!IsFiniteSet

LEMMA Win32Holds == Win32Proofs!IsFiniteSet(Win32Threads) /\ FlagOps \subseteq Win32Proofs!AllOps
BY Win32Assumption DEF Win32!AllOps, Win32Proofs!AllOps, IsFiniteSet, Win32Proofs!IsFiniteSet

LEMMA SameStl ==
  /\ Stl!Init <=> StlProofs!Init
  /\ Stl!Next <=> StlProofs!Next
  /\ Stl!vars = StlProofs!vars
BY DEF Stl!Next, StlProofs!Next, Stl!Start, StlProofs!Start, Stl!Continue,
       StlProofs!Continue, Stl!CallWait, StlProofs!CallWait, Stl!CallSet,
       StlProofs!CallSet, Stl!DoReset, StlProofs!DoReset, Stl!Release, StlProofs!Release,
       Stl!Enter, StlProofs!Enter, Stl!Relock, StlProofs!Relock, Stl!Set, StlProofs!Set,
       Stl!DeleteFlag, StlProofs!DeleteFlag, Stl!Terminate, StlProofs!Terminate,
       Stl!WakeUp, StlProofs!WakeUp, Stl!TimeUp, StlProofs!TimeUp, Stl!AwakePoints,
       StlProofs!AwakePoints, Stl!Call, StlProofs!Call, Stl!Goto, StlProofs!Goto,
       Stl!Sleep, StlProofs!Sleep, Stl!Leave, StlProofs!Leave, Stl!flags, StlProofs!flags,
       Stl!At, StlProofs!At, Stl!Init, StlProofs!Init, Stl!vars, StlProofs!vars

LEMMA SameWin32 ==
  /\ Win32!Init <=> Win32Proofs!Init
  /\ Win32!Next <=> Win32Proofs!Next
  /\ Win32!vars = Win32Proofs!vars
BY DEF Win32!Next, Win32Proofs!Next, Win32!Start, Win32Proofs!Start, Win32!Continue,
       Win32Proofs!Continue, Win32!WaitStart, Win32Proofs!WaitStart, Win32!SetStart,
       Win32Proofs!SetStart, Win32!ResetStore, Win32Proofs!ResetStore, Win32!Release,
       Win32Proofs!Release, Win32!WaitStep, Win32Proofs!WaitStep, Win32!SetStep,
       Win32Proofs!SetStep, Win32!ResetEvent, Win32Proofs!ResetEvent, Win32!WaitExchange,
       Win32Proofs!WaitExchange, Win32!WaitForSingleObject,
       Win32Proofs!WaitForSingleObject, Win32!WaitTimeout, Win32Proofs!WaitTimeout,
       Win32!WaitLeave, Win32Proofs!WaitLeave, Win32!SetStore, Win32Proofs!SetStore,
       Win32!SetRecheck, Win32Proofs!SetRecheck, Win32!SetTakeBack,
       Win32Proofs!SetTakeBack, Win32!SetEvent, Win32Proofs!SetEvent, Win32!Call,
       Win32Proofs!Call, Win32!Goto, Win32Proofs!Goto, Win32!Signalled,
       Win32Proofs!Signalled, Win32!At, Win32Proofs!At, Win32!Init, Win32Proofs!Init,
       Win32!vars, Win32Proofs!vars, Win32!SetPoints, Win32Proofs!SetPoints,
       Win32!ResetPoints, Win32Proofs!ResetPoints

LEMMA SameStlSafety == Stl!StlFlagIsSafe <=> StlProofs!StlFlagIsSafe
BY DEF Stl!StlFlagIsSafe, StlProofs!StlFlagIsSafe, Stl!TypeOK, StlProofs!TypeOK,
       Stl!WaitingCounts, StlProofs!WaitingCounts, Stl!NoStrandedWaiter,
       StlProofs!NoStrandedWaiter, Stl!FreedIsLeft, StlProofs!FreedIsLeft,
       Stl!Cardinality, StlProofs!Cardinality, Stl!IsFiniteSet, StlProofs!IsFiniteSet,
       Stl!At, StlProofs!At, Stl!WaitPoints, StlProofs!WaitPoints, Stl!AwakePoints,
       StlProofs!AwakePoints, Stl!LeavePoints,
       StlProofs!LeavePoints

LEMMA SameStlSignal ==
  /\ Stl!Signal!Init <=> StlProofs!Signal!Init
  /\ Stl!Signal!Next <=> StlProofs!Signal!Next
  /\ Stl!Signal!vars = StlProofs!Signal!vars
  /\ Stl!Signal!vars' = StlProofs!Signal!vars'
BY DEF Stl!Signal!CallSet, StlProofs!Signal!CallSet, Stl!Signal!Signal,
       StlProofs!Signal!Signal, Stl!Signal!CallWait, StlProofs!Signal!CallWait,
       Stl!Signal!Limit, StlProofs!Signal!Limit,
       Stl!Signal!Use, StlProofs!Signal!Use, Stl!Signal!TimeOut, StlProofs!Signal!TimeOut,
       Stl!Signal!Merge, StlProofs!Signal!Merge, Stl!Signal!Reset, StlProofs!Signal!Reset,
       Stl!Signal!Return, StlProofs!Signal!Return, Stl!Signal!Next, StlProofs!Signal!Next,
       Stl!Signal!Init, StlProofs!Signal!Init, Stl!Signal!vars, StlProofs!Signal!vars,
       Stl!At, StlProofs!At, Stl!WaitPoints, StlProofs!WaitPoints, Stl!AwakePoints,
       StlProofs!AwakePoints

LEMMA SameWin32Signal ==
  /\ Win32!Signal!Init <=> Win32Proofs!Signal!Init
  /\ Win32!Signal!Next <=> Win32Proofs!Signal!Next
  /\ Win32!Signal!vars = Win32Proofs!Signal!vars
  /\ Win32!Signal!vars' = Win32Proofs!Signal!vars'
BY DEF Win32!Signal!CallSet, Win32Proofs!Signal!CallSet, Win32!Signal!Signal,
       Win32Proofs!Signal!Signal, Win32!Signal!CallWait, Win32Proofs!Signal!CallWait,
       Win32!Signal!Limit, Win32Proofs!Signal!Limit,
       Win32!Signal!Use, Win32Proofs!Signal!Use, Win32!Signal!TimeOut,
       Win32Proofs!Signal!TimeOut, Win32!Signal!Merge, Win32Proofs!Signal!Merge,
       Win32!Signal!Reset, Win32Proofs!Signal!Reset, Win32!Signal!Return,
       Win32Proofs!Signal!Return, Win32!Signal!Next, Win32Proofs!Signal!Next,
       Win32!Signal!Init, Win32Proofs!Signal!Init, Win32!Signal!vars,
       Win32Proofs!Signal!vars, Win32!At, Win32Proofs!At, Win32!WaitPoints,
       Win32Proofs!WaitPoints, Win32!ResetPoints, Win32Proofs!ResetPoints,
       Win32!GivePoints, Win32Proofs!GivePoints, Win32!CarryPoints,
       Win32Proofs!CarryPoints, Win32!Pending, Win32Proofs!Pending, Win32!Cardinality,
       Win32Proofs!Cardinality, Win32!IsFiniteSet, Win32Proofs!IsFiniteSet
------------------------------------------------------------------------------
(* A step that is about another lock, or about none, leaves a flag alone. *)
LEMMA EachIsItself == LocksSpec => StlProofs!Spec /\ Win32Proofs!Spec
<1>1. LocksInit => StlProofs!Init /\ Win32Proofs!Init
  BY SameStl, SameWin32 DEF LocksInit
<1>2. [LocksNext]_locksVars => [StlProofs!Next]_(StlProofs!vars)
  BY SameStl DEF LocksNext, MutexNext, Win32Next, StlNext, LoopNext, locksVars, stlVars,
     StlProofs!vars
<1>3. [LocksNext]_locksVars => [Win32Proofs!Next]_(Win32Proofs!vars)
  BY SameWin32 DEF LocksNext, MutexNext, Win32Next, StlNext, LoopNext, locksVars, win32Vars,
     Win32Proofs!vars
<1> QED
  BY <1>1, <1>2, <1>3, PTL DEF LocksSpec, StlProofs!Spec, Win32Proofs!Spec

(* The C++ library's flag, which lowers itself, is safe for any number of   *)
(* threads: its count of waiters is exact, nobody is left asleep beside a   *)
(* signal, and the last to leave a released flag deletes it.                *)
THEOREM StlIsSafe == LocksSpec => []StlFlagIsSafe
<1>1. StlProofs!Spec => []StlProofs!StlFlagIsSafe
  BY StlHolds, StlProofs!FlagIsSafe
<1>2. StlProofs!StlFlagIsSafe => StlFlagIsSafe
  BY SameStlSafety DEF StlFlagIsSafe
<1> QED
  BY <1>1, <1>2, EachIsItself, PTL

(* No signal is lost, used twice or made up by either flag, for any number  *)
(* of threads, and the library's holds one at most; which answers of        *)
(* waitFor used a signal, and that the Windows flag may hold two, is said   *)
(* with BothImplementSignal.                                                *)
THEOREM BothImplement == LocksSpec => BothImplementSignal
<1>1. StlProofs!Spec => StlProofs!ImplementsSignal
  BY StlHolds, StlProofs!Refinement
<1>2. Win32Proofs!Spec => Win32Proofs!SignalsAreConserved
  BY Win32Holds, Win32Proofs!Refinement
<1>3. StlProofs!Signal!Init <=> Stl!Signal!Init
  BY SameStlSignal
<1>4. [stlLife' = "used" => StlProofs!Signal!Next \/ UNCHANGED StlProofs!Signal!vars]_(StlProofs!vars)
      => [stlLife' = "used" => Stl!Signal!Next \/ UNCHANGED Stl!Signal!vars]_(Stl!vars)
  BY SameStlSignal, SameStl DEF Stl!vars, StlProofs!vars
<1>5. Win32Proofs!Signal!Init => Win32!Signal!Init
  BY SameWin32Signal
<1>6. [Win32Proofs!Signal!Next]_(Win32Proofs!Signal!vars) => [Win32!Signal!Next]_(Win32!Signal!vars)
  BY SameWin32Signal
<1> QED
  BY <1>1, <1>2, <1>3, <1>4, <1>5, <1>6, EachIsItself, PTL
     DEF BothImplementSignal, Stl!ImplementsSignal, StlProofs!ImplementsSignal,
         Win32!SignalsAreConserved, Win32Proofs!SignalsAreConserved,
         Win32!Signal!Spec, Win32Proofs!Signal!Spec
------------------------------------------------------------------------------
(* The event loop. *)

LoopProofs == INSTANCE EventLoopProofs WITH
  Stoppers <- {}, Throwing <- {}, MaxThrown <- 0, Flag <- loopFlag, pc <- loopPc

LEMMA LoopHolds == LoopProofs!Assumptions
BY LoopAssumption DEF Loop!Assumptions, LoopProofs!Assumptions, Loop!AllThreads,
   LoopProofs!AllThreads, Loop!LoopThreads, LoopProofs!LoopThreads, Loop!IsFiniteSet,
   LoopProofs!IsFiniteSet

LEMMA SameLoop ==
  /\ Loop!Init <=> LoopProofs!Init
  /\ Loop!Next <=> LoopProofs!Next
  /\ Loop!vars = LoopProofs!vars
BY DEF Loop!Init, LoopProofs!Init, Loop!AllThreads, LoopProofs!AllThreads,
       Loop!LoopThreads, LoopProofs!LoopThreads, Loop!Next, LoopProofs!Next,
       Loop!PostStep, LoopProofs!PostStep, Loop!Push, LoopProofs!Push, Loop!Goto,
       LoopProofs!Goto, Loop!queue, LoopProofs!queue, Loop!runFlags, LoopProofs!runFlags,
       Loop!counts, LoopProofs!counts, Loop!events, LoopProofs!events, Loop!posting,
       LoopProofs!posting, Loop!Construct, LoopProofs!Construct, Loop!Uncount,
       LoopProofs!Uncount, Loop!Wake, LoopProofs!Wake, Loop!AfterWake,
       LoopProofs!AfterWake, Loop!Await, LoopProofs!Await, Loop!Post, LoopProofs!Post,
       Loop!InUse, LoopProofs!InUse, Loop!LoopStep, LoopProofs!LoopStep, Loop!Check,
       LoopProofs!Check, Loop!LoadStopping, LoopProofs!LoadStopping, Loop!Look,
       LoopProofs!Look, Loop!Back, LoopProofs!Back, Loop!StoreRunning,
       LoopProofs!StoreRunning, Loop!CountThread, LoopProofs!CountThread,
       Loop!LoadRunning, LoopProofs!LoadRunning, Loop!LoadQueueItems,
       LoopProofs!LoadQueueItems, Loop!Pop, LoopProofs!Pop, Loop!HeadIsReady,
       LoopProofs!HeadIsReady, Loop!Call, LoopProofs!Call, Loop!Destroy,
       LoopProofs!Destroy, Loop!Discount, LoopProofs!Discount, Loop!CountWaiting,
       LoopProofs!CountWaiting, Loop!WaitFlag, LoopProofs!WaitFlag, Loop!LookForMore,
       LoopProofs!LookForMore, Loop!SignalEnded, LoopProofs!SignalEnded, Loop!CallLoop,
       LoopProofs!CallLoop, Loop!Run, LoopProofs!Run, Loop!At, LoopProofs!At,
       Loop!StopPoints, LoopProofs!StopPoints, Loop!StoreStopping,
       LoopProofs!StoreStopping, Loop!StopStep, LoopProofs!StopStep, Loop!Halt,
       LoopProofs!Halt, Loop!Join, LoopProofs!Join, Loop!Drain, LoopProofs!Drain,
       Loop!WaitLoopEnded, LoopProofs!WaitLoopEnded, Loop!Finish, LoopProofs!Finish,
       Loop!vars, LoopProofs!vars, Loop!Queue!Init, LoopProofs!Queue!Init,
       Loop!Queue!Reserve, LoopProofs!Queue!Reserve, Loop!Queue!Commit,
       LoopProofs!Queue!Commit, Loop!Queue!Take, LoopProofs!Queue!Take, Loop!Queue!Finish,
       LoopProofs!Queue!Finish, Loop!Range, LoopProofs!Range, Loop!Queue!Range,
       LoopProofs!Queue!Range

LEMMA SameLoopPosts ==
  /\ Loop!ItemsCounted <=> LoopProofs!ItemsCounted
  /\ Loop!NoLostPost <=> LoopProofs!NoLostPost
BY DEF Loop!ItemsCounted, LoopProofs!ItemsCounted, Loop!ItemPoints, LoopProofs!ItemPoints,
       Loop!NoLostPost, LoopProofs!NoLostPost, Loop!HeadIsReady, LoopProofs!HeadIsReady,
       Loop!At, LoopProofs!At, Loop!AllThreads, LoopProofs!AllThreads, Loop!LoopThreads,
       LoopProofs!LoopThreads, Loop!Cardinality, LoopProofs!Cardinality,
       Loop!IsFiniteSet, LoopProofs!IsFiniteSet

LEMMA LoopIsItself == LocksSpec => LoopProofs!Spec
<1>1. LocksInit => LoopProofs!Init
  BY SameLoop DEF LocksInit
<1>2. [LocksNext]_locksVars => [LoopProofs!Next]_(LoopProofs!vars)
  BY SameLoop DEF LocksNext, MutexNext, Win32Next, StlNext, LoopNext, locksVars, loopVars,
     LoopProofs!vars, LoopProofs!queue, LoopProofs!runFlags, LoopProofs!counts,
     LoopProofs!events, LoopProofs!posting
<1> QED
  BY <1>1, <1>2, PTL DEF LocksSpec, LoopProofs!Spec

(* With nobody to stop the loop, it is never stopping. *)
LEMMA NobodyStops == LoopProofs!Spec => []~Stopping
<1>1. LoopProofs!Init => ~Stopping
  BY DEF LoopProofs!Init
<1>2. ~Stopping /\ [LoopProofs!Next]_(LoopProofs!vars) => ~Stopping'
  <2> SUFFICES ASSUME ~Stopping, LoopProofs!Next PROVE ~Stopping'
    BY DEF LoopProofs!vars, LoopProofs!runFlags
  <2> USE DEF LoopProofs!Goto, LoopProofs!Look, LoopProofs!runFlags
  <2>1. ASSUME NEW p \in Posters, LoopProofs!PostStep(p) PROVE ~Stopping'
    BY <2>1 DEF LoopProofs!PostStep, LoopProofs!Push, LoopProofs!Construct,
       LoopProofs!Uncount, LoopProofs!Wake, LoopProofs!Await
  <2>2. ASSUME NEW p \in Posters, NEW f \in Functors, LoopProofs!Post(p, f) PROVE ~Stopping'
    BY <2>2 DEF LoopProofs!Post
  <2>3. ASSUME NEW t \in LoopProofs!LoopThreads, LoopProofs!LoopStep(t) PROVE ~Stopping'
    BY <2>3 DEF LoopProofs!LoopStep, LoopProofs!Check, LoopProofs!LoadStopping,
       LoopProofs!Back, LoopProofs!StoreRunning, LoopProofs!CountThread,
       LoopProofs!LoadRunning, LoopProofs!LoadQueueItems, LoopProofs!Pop, LoopProofs!Call,
       LoopProofs!Destroy, LoopProofs!Discount, LoopProofs!CountWaiting,
       LoopProofs!WaitFlag, LoopProofs!LookForMore, LoopProofs!Wake, LoopProofs!SignalEnded
  <2>4. ASSUME NEW t, LoopProofs!CallLoop(t) \/ LoopProofs!Run(t) PROVE ~Stopping'
    BY <2>4 DEF LoopProofs!CallLoop, LoopProofs!Run
  <2> QED
    BY <2>1, <2>2, <2>3, <2>4 DEF LoopProofs!Next
<1> QED
  BY <1>1, <1>2, PTL DEF LoopProofs!Spec

(* QueueItems is exact in a loop whose functors' constructors do not throw, *)
(* for any number of threads and functors, failing ones included.           *)
THEOREM ItemsStayCounted == LocksSpec => []ItemsCounted
<1>1. LoopProofs!Spec => []LoopProofs!ItemsCounted
  BY LoopHolds, LoopProofs!ItemsAreCounted
<1>2. LoopProofs!ItemsCounted => ItemsCounted
  BY SameLoopPosts DEF ItemsCounted
<1> QED
  BY <1>1, <1>2, LoopIsItself, PTL

(* No post is lost in a loop that nobody stops, for any number of threads.  *)
THEOREM PostsStayAwaited == LocksSpec => []NoLostPost
<1>1. LoopProofs!Spec /\ []~Stopping => []LoopProofs!NoLostPost
  BY LoopHolds, LoopProofs!PostsAreNotLost
<1>2. LoopProofs!NoLostPost => NoLostPost
  BY SameLoopPosts DEF NoLostPost
<1> QED
  BY <1>1, <1>2, LoopIsItself, NobodyStops, PTL
=============================================================================
