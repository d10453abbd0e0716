----------------------------- MODULE SharedMutex -----------------------------
(***************************************************************************)
(* sev::AtomicSharedMutex (src/sev/atomic_shared_mutex.h): a spinning      *)
(* reader/writer lock made of two interlocked integers.                    *)
(*                                                                         *)
(*   Unique   0 or 1: one thread has claimed the lock                      *)
(*   Sharing  number of threads that share it, or are finding out whether  *)
(*            they may                                                     *)
(*                                                                         *)
(* Every interlocked access is one step.  A thread's pc is either what it  *)
(* holds between two calls ("idle", "shared", ...) or the access it is     *)
(* about to make inside a call ("lockDrain", ...).                         *)
(***************************************************************************)
EXTENDS Integers, FiniteSets

CONSTANTS
  Threads,   \* the threads that use this mutex
  Ops        \* the operations they call

(* The calls, named as in the code without the SEV_AtomicSharedMutex_ prefix *)
AllOps == { "tryLock", "lock", "unlock", "tryPartialLock", "cancelPartialLock",
            "completePartialLock", "downgradeLock", "upgradeLock",
            "tryLockShared", "lockShared", "unlockShared" }

ASSUME ThreadsAssumption == IsFiniteSet(Threads)
ASSUME OpsAssumption == Ops \subseteq AllOps

VARIABLES
  Unique,
  Sharing,
  pc

vars == <<Unique, Sharing, pc>>

(* What a thread holds between two calls.  "sharedPartial" is a sharer that *)
(* has also claimed the lock, as the queue's writer does before it drops    *)
(* its share.                                                               *)
Holding == { "idle", "shared", "partial", "sharedPartial", "unique" }

Inside == { "tryLockLoad", "tryLockUndo", "lockExchange", "lockDrain",
            "completeDrain", "downgradeStore", "upgradeExchange",
            "upgradeDecrement", "upgradeDrain", "tryLockSharedCheck",
            "tryLockSharedUndo", "lockSharedIncrement", "lockSharedCheck",
            "lockSharedUndo", "lockSharedSpin" }

(* The points at which Sharing counts the thread. *)
CountedAt == { "shared", "sharedPartial", "downgradeStore", "upgradeExchange",
               "upgradeDecrement", "tryLockSharedCheck", "tryLockSharedUndo",
               "lockSharedCheck", "lockSharedUndo" }

(* The points at which the thread is the one that set Unique. *)
OwnerAt == { "partial", "sharedPartial", "unique", "tryLockLoad", "tryLockUndo",
             "lockDrain", "completeDrain", "downgradeStore",
             "upgradeDecrement", "upgradeDrain" }

(* The points at which the thread has been granted a share. *)
SharerAt == { "shared", "sharedPartial", "downgradeStore", "upgradeExchange",
              "upgradeDecrement" }

At(points) == { t \in Threads : pc[t] \in points }

TypeOK ==
  /\ Unique \in {0, 1}
  /\ Sharing \in Nat
  /\ pc \in [Threads -> Holding \union Inside]

Init ==
  /\ Unique = 0
  /\ Sharing = 0
  /\ pc = [t \in Threads |-> "idle"]

Goto(t, from, to) ==
  /\ pc[t] = from
  /\ pc' = [pc EXCEPT ![t] = to]

(* InterlockedExchange(&Unique, 1): to won if it was 0, to lost otherwise. *)
ExchangeUnique(t, from, won, lost) ==
  /\ Goto(t, from, IF Unique = 0 THEN won ELSE lost)
  /\ Unique' = 1
  /\ UNCHANGED Sharing

StoreUnique0(t, from, to) ==
  /\ Goto(t, from, to)
  /\ Unique' = 0
  /\ UNCHANGED Sharing

Increment(t, from, to) ==
  /\ Goto(t, from, to)
  /\ Sharing' = Sharing + 1
  /\ UNCHANGED Unique

Decrement(t, from, to) ==
  /\ Goto(t, from, to)
  /\ Sharing' = Sharing - 1
  /\ UNCHANGED Unique

(* A load that only decides where the thread goes next. *)
Branch(t, from, to) ==
  /\ Goto(t, from, to)
  /\ UNCHANGED <<Unique, Sharing>>

(* A spin loop leaves once the load it repeats returns 0. *)
SpinUntil0(t, word, from, to) ==
  /\ word = 0
  /\ Branch(t, from, to)
------------------------------------------------------------------------------
(* Slip: the exchange's answer is ignored. *)
TryLockStartBlind(t) ==
  /\ "tryLock" \in Ops
  /\ ExchangeUnique(t, "idle", "tryLockLoad", "tryLockUndo")

(* tryLock *)
TryLockStart(t) ==
  /\ "tryLock" \in Ops
  /\ ExchangeUnique(t, "idle", "tryLockLoad", "idle")

TryLockLoad(t) ==
  Branch(t, "tryLockLoad", IF Sharing = 0 THEN "unique" ELSE "tryLockUndo")

TryLockUndo(t) == StoreUnique0(t, "tryLockUndo", "idle")

(* tryPartialLock: by a thread without a share, and by one that has one,    *)
(* as pushFunctorEx calls it.                                               *)
TryPartialLock(t) ==
  /\ "tryPartialLock" \in Ops
  /\ \/ ExchangeUnique(t, "idle", "partial", "idle")
     \/ ExchangeUnique(t, "shared", "sharedPartial", "shared")

CancelPartialLock(t) ==
  /\ "cancelPartialLock" \in Ops
  /\ \/ StoreUnique0(t, "partial", "idle")
     \/ StoreUnique0(t, "sharedPartial", "shared")

CompletePartialLockStart(t) ==
  /\ "completePartialLock" \in Ops
  /\ Branch(t, "partial", "completeDrain")

(* Slip: the wait for the sharers is left out. *)
CompleteDrainNoWait(t) == Branch(t, "completeDrain", "unique")

CompleteDrain(t) == SpinUntil0(t, Sharing, "completeDrain", "unique")

(* Slip: downgrade only drops the claim and never counts the share. *)
DowngradeLockStartUncounted(t) ==
  /\ "downgradeLock" \in Ops
  /\ \/ Branch(t, "partial", "downgradeStore")
     \/ Branch(t, "unique", "downgradeStore")

(* downgradeLock, of a partial or a full unique lock *)
DowngradeLockStart(t) ==
  /\ "downgradeLock" \in Ops
  /\ \/ Increment(t, "partial", "downgradeStore")
     \/ Increment(t, "unique", "downgradeStore")

(* Slip: downgrade forgets to let the other threads in again. *)
DowngradeStoreForgotten(t) == Branch(t, "downgradeStore", "shared")

DowngradeStore(t) == StoreUnique0(t, "downgradeStore", "shared")

(* upgradeLock: spins for the claim while it keeps its share *)
UpgradeLockStart(t) ==
  /\ "upgradeLock" \in Ops
  /\ Branch(t, "shared", "upgradeExchange")

UpgradeExchange(t) ==
  ExchangeUnique(t, "upgradeExchange", "upgradeDecrement", "upgradeExchange")

UpgradeDecrement(t) ==
  Decrement(t, "upgradeDecrement", IF Sharing - 1 = 0 THEN "unique" ELSE "upgradeDrain")

UpgradeDrain(t) == SpinUntil0(t, Sharing, "upgradeDrain", "unique")

(* lock *)
LockStart(t) ==
  /\ "lock" \in Ops
  /\ Branch(t, "idle", "lockExchange")

LockExchange(t) == ExchangeUnique(t, "lockExchange", "lockDrain", "lockExchange")

LockDrain(t) == SpinUntil0(t, Sharing, "lockDrain", "unique")

Unlock(t) ==
  /\ "unlock" \in Ops
  /\ StoreUnique0(t, "unique", "idle")

(* tryLockShared *)
TryLockSharedStart(t) ==
  /\ "tryLockShared" \in Ops
  /\ Increment(t, "idle", "tryLockSharedCheck")

TryLockSharedCheck(t) ==
  Branch(t, "tryLockSharedCheck", IF Unique = 0 THEN "shared" ELSE "tryLockSharedUndo")

(* Slip: the failing path forgets to give the count back. *)
TryLockSharedUndoForgotten(t) == Branch(t, "tryLockSharedUndo", "idle")

TryLockSharedUndo(t) == Decrement(t, "tryLockSharedUndo", "idle")

(* lockShared: counts itself first and looks at Unique afterwards *)
LockSharedStart(t) ==
  /\ "lockShared" \in Ops
  /\ Branch(t, "idle", "lockSharedIncrement")

LockSharedIncrement(t) == Increment(t, "lockSharedIncrement", "lockSharedCheck")

(* Slip: the check is left out. *)
LockSharedCheckSkipped(t) == Branch(t, "lockSharedCheck", "shared")

LockSharedCheck(t) ==
  Branch(t, "lockSharedCheck", IF Unique = 0 THEN "shared" ELSE "lockSharedUndo")

(* Slip: a blocked reader stays counted while it spins. *)
LockSharedUndoWaitsCounted(t) == SpinUntil0(t, Unique, "lockSharedUndo", "lockSharedSpin")

LockSharedUndo(t) == Decrement(t, "lockSharedUndo", "lockSharedSpin")

LockSharedSpin(t) == SpinUntil0(t, Unique, "lockSharedSpin", "lockSharedIncrement")

UnlockShared(t) ==
  /\ "unlockShared" \in Ops
  /\ \/ Decrement(t, "shared", "idle")
     \/ Decrement(t, "sharedPartial", "partial")
------------------------------------------------------------------------------
(* A thread that holds nothing starts a call: never forced to. *)
Enter(t) ==
  \/ TryLockStart(t) \/ LockStart(t) \/ TryLockSharedStart(t) \/ LockSharedStart(t)
  \/ TryPartialLock(t) \/ UpgradeLockStart(t)

(* A call that gives up what the thread holds, or goes on to the end. *)
Leave(t) ==
  \/ CancelPartialLock(t) \/ CompletePartialLockStart(t) \/ DowngradeLockStart(t)
  \/ Unlock(t) \/ UnlockShared(t)

(* The rest of a call. *)
Continue(t) ==
  \/ TryLockLoad(t) \/ TryLockUndo(t)
  \/ CompleteDrain(t)
  \/ DowngradeStore(t)
  \/ UpgradeExchange(t) \/ UpgradeDecrement(t) \/ UpgradeDrain(t)
  \/ LockExchange(t) \/ LockDrain(t)
  \/ TryLockSharedCheck(t) \/ TryLockSharedUndo(t)
  \/ LockSharedIncrement(t) \/ LockSharedCheck(t) \/ LockSharedUndo(t) \/ LockSharedSpin(t)

Next == \E t \in Threads : Enter(t) \/ Leave(t) \/ Continue(t)

Spec == Init /\ [][Next]_vars

(* The scheduler runs every thread, and a thread that holds the lock uses   *)
(* it for a finite time (no caller in src/sev waits for anything while it   *)
(* holds a mutex).                                                          *)
Fairness == \A t \in Threads : WF_vars(Continue(t)) /\ WF_vars(Leave(t))

FairSpec == Spec /\ Fairness
------------------------------------------------------------------------------
(* A thread that was told it has the lock for itself is alone: nobody else  *)
(* holds a share or any part of a claim (tryLock, lock, completePartialLock *)
(* and upgradeLock all return in this state).                               *)
Exclusion ==
  \A t \in At({"unique"}), u \in Threads :
    u # t => pc[u] \notin SharerAt \union OwnerAt

(* Unique is set exactly while one thread owns the claim.  In particular    *)
(* unlock, cancelPartialLock and downgradeLock always find it set: their    *)
(* SEV_DEBUG_BREAK (lines 79, 97, 132) and the SEV_ASSERT of                *)
(* completePartialLock (line 88) cannot fire.                               *)
OneOwner ==
  /\ \A t, u \in At(OwnerAt) : t = u
  /\ Unique = 1 <=> At(OwnerAt) # {}

(* No count is lost or kept on any path, failed and retried attempts        *)
(* included: a drain that waits for Sharing = 0 waits for real threads.     *)
SharingCounts == Sharing = Cardinality(At(CountedAt))

(* Both counters of the mutex say exactly what its threads are at.          *)
CountersAreExact == TypeOK /\ OneOwner /\ SharingCounts

(* The claim is a barrier for readers: while one thread keeps it, the       *)
(* threads with a share only become fewer, its own downgrade aside.         *)
ClaimStopsNewSharers ==
  [][\A t \in At(OwnerAt) :
       pc'[t] \in OwnerAt =>
         { u \in Threads : pc'[u] \in SharerAt } \subseteq At(SharerAt) \union {t}]_vars

(* The abstract lock, read off the threads' positions. *)
Lock == INSTANCE SharedLock WITH
  sharers   <- At(SharerAt),
  claims    <- At(OwnerAt),
  exclusive <- At({"unique"})

(* Every access of the mutex is a step of the abstract lock or invisible.   *)
ImplementsSharedLock == Lock!Spec

(* A thread that has the claim and waits for the sharers to leave is let    *)
(* through, whatever the others do, but for two calls: tryLockShared, which *)
(* readers may repeat without a break so that Sharing is never seen at 0,   *)
(* and upgradeLock, which keeps its share while it waits for the claim (two *)
(* of them at once wait for each other).  The queue makes neither call.     *)
RetryingAt == { "tryLockSharedCheck", "tryLockSharedUndo", "upgradeExchange" }

DrainCompletes ==
  \A t \in Threads :
    pc[t] \in {"lockDrain", "completeDrain", "upgradeDrain"}
      ~> pc[t] = "unique" \/ At(RetryingAt) # {}
=============================================================================
