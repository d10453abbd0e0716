------------------------------- MODULE MCLocks -------------------------------
(***************************************************************************)
(* Where threads wait for each other, side by side: the shared mutex, both *)
(* implementations of the event flag and the event loop, each with its own *)
(* threads.  `lock` says which of them a behaviour is about; the others    *)
(* are never called.                                                       *)
(***************************************************************************)
EXTENDS SharedMutex

CONSTANTS
  Locks,
  FlagOps, Win32Threads, StlThreads,
  Posters, Loopers, Managed, Functors, Invoked, Failing, PushMayFail, None

VARIABLES
  lock,
  Waiting, Set, Event, winPc, winTimed, winLife,
  Flag, ResetValue, Reset, stlWaiting, Delete, stlPc, stlTimed, stlLife,
  fifo, committed, taken, QueueItems, Running, Stopping, ThreadsIn, ThreadsWaiting,
  loopFlag, LoopEndedFlag, loopPc, job, answered, eh

Win32 == INSTANCE EventFlagWin32 WITH
  Threads <- Win32Threads, Ops <- FlagOps, ManualReset <- FALSE,
  pc <- winPc, timed <- winTimed, life <- winLife

Stl == INSTANCE EventFlagStl WITH
  Threads <- StlThreads, Ops <- FlagOps, ManualReset <- FALSE, InitialState <- TRUE,
  Waiting <- stlWaiting, pc <- stlPc, timed <- stlTimed, life <- stlLife

(* Nobody stops it, and no constructor throws. *)
Loop == INSTANCE EventLoop WITH
  Stoppers <- {}, Throwing <- {}, MaxThrown <- 0, Flag <- loopFlag, pc <- loopPc

ASSUME LoopAssumption == Loop!Assumptions
ASSUME StlAssumption == Stl!Assumptions
ASSUME Win32Assumption == IsFiniteSet(Win32Threads) /\ FlagOps \subseteq Win32!AllOps

win32Vars == <<Waiting, Set, Event, winPc, winTimed, winLife>>
stlVars == <<Flag, ResetValue, Reset, stlWaiting, Delete, stlPc, stlTimed, stlLife>>
loopVars == <<fifo, committed, taken, QueueItems, Running, Stopping, ThreadsIn,
              ThreadsWaiting, loopFlag, LoopEndedFlag, loopPc, job, answered, eh>>
locksVars == <<lock, vars, win32Vars, stlVars, loopVars>>

LocksInit == lock \in Locks /\ Init /\ Win32!Init /\ Stl!Init /\ Loop!Init

MutexNext == lock = "mutex" /\ Next /\ UNCHANGED <<lock, win32Vars, stlVars, loopVars>>
Win32Next == lock = "win32" /\ Win32!Next /\ UNCHANGED <<lock, vars, stlVars, loopVars>>
StlNext == lock = "stl" /\ Stl!Next /\ UNCHANGED <<lock, vars, win32Vars, loopVars>>

(* Bound: once a managed thread runs, only one of the posters posts. *)
FewAtWork ==
  \/ \A t \in Managed : loopPc[t] = "unborn"
  \/ \A p \in Posters \ { CHOOSE p \in Posters : TRUE } : loopPc[p] = "idle"

LoopNext ==
  /\ lock = "loop" /\ Loop!Next /\ FewAtWork'
  /\ UNCHANGED <<lock, vars, win32Vars, stlVars>>

LocksNext == MutexNext \/ Win32Next \/ StlNext \/ LoopNext

(* The loop's own fairness, asked for where it is called. *)
LoopFairness ==
  /\ \A p \in Posters : WF_loopVars(lock = "loop" /\ Loop!PostStep(p))
  /\ \A t \in Loop!LoopThreads : WF_loopVars(lock = "loop" /\ Loop!LoopStep(t))
  /\ \A t \in Loopers : WF_loopVars(lock = "loop" /\ Loop!CallLoop(t))

(* A lock that is never called has all its threads outside, so its fairness *)
(* asks for nothing.                                                        *)
LocksSpec ==
  LocksInit /\ [][LocksNext]_locksVars
  /\ Fairness /\ Win32!Fairness /\ Stl!Fairness /\ LoopFairness
------------------------------------------------------------------------------
(* In the C++ library's flag, too, the count of waiters is exact and nobody *)
(* is left asleep beside a signal; and once released it is deleted by the   *)
(* last to leave.                                                           *)
StlFlagIsSafe == Stl!StlFlagIsSafe

(* No signal is lost, used twice or made up by either flag.  The library's  *)
(* holds one signal however often it is set; the Windows flag may hold two  *)
(* (Win32!OneSignal does not hold).  A wait that answers FALSE used no      *)
(* signal on Windows; in the library's flag it did use one.                 *)
BothImplementSignal == Win32!SignalsAreConserved /\ Stl!ImplementsSignal

(* Both wake up somebody who waits while a signal is there.                 *)
SignalsAreSeen == Win32!SetIsSeen /\ Stl!SetIsSeen

(* A flag that is released while threads wait lets all of them out.         *)
ReleaseEnds == Stl!ReleaseEnds

(* In the loop QueueItems counts what is queued and what was just announced *)
(* or popped, over pushes without memory and functors that fail: nobody who *)
(* finds it 0 misses a functor.                                             *)
ItemsCounted == Loop!ItemsCounted

(* No functor is ready with every thread of the loop asleep and nobody      *)
(* about to wake one.                                                       *)
NoLostPost == Loop!NoLostPost

(* What is posted is called, also behind functors that fail, and invoke     *)
(* returns.                                                                 *)
PostedIsCalled == Loop!PostedIsCalled

InvokeReturns == Loop!InvokeReturns
==============================================================================
