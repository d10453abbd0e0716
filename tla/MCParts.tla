------------------------------- MODULE MCParts -------------------------------
(***************************************************************************)
(* The parts of the library that share no state with each other, checked   *)
(* side by side: `part` says which of them a behaviour is about, and the   *)
(* others stay as they are, so that only its own property is asked of it.  *)
(***************************************************************************)
EXTENDS EventFlagWin32, Sequences, TLC

CONSTANTS
  Parts,
  None, Raw, Bad, Empty,
  Rings, RingValues, Mark,              \* RingBuffer
  Capacities, MaxCapacity, MaxSize,
  Slots, Objects,                       \* SharedSingleton
  MapThreads, Values, SwapOperands,     \* BucketMap
  Keys, IndexSize, RootSize, Depth, Nodes,
  Handles, Libraries, Kinds, ErrNos, HandleCells,       \* ExceptionHandle
  MaxStrays,                            \* bound, of both
  Vars, Large, Throwing, Functors, Views,   \* FunctorStorage
  OldExceptions,                        \* OldException
  Chunks,                               \* Crc32
  Posters, Loopers, Managed, Stoppers, Jobs, Spare,     \* EventLoop
  Callers, Data, CallBuffers, MaxPosted     \* LoopCalls

VARIABLES
  part,
  ring, result, ringWild,
  refCount, instance, pointer, slot, alive, strays,
  bucket, buckets, thread, mapLife, written,
  handle, cell, entries, asked, origin, lost, exceptionStrays,
  data, vt, view, queue, popped, functorEnd,
  text, object, said, short, sliced, textEnd,
  alg, left, unrolling, crc, division, size,
  fifo, committed, taken, QueueItems, Running, Stopping, ThreadsIn, ThreadsWaiting,
  Flag, LoopEndedFlag, loopPc, job, answered, eh,
  loop, heap, caller, posted, told, did, callsEnd

Ring == INSTANCE RingBuffer WITH Values <- RingValues, wild <- ringWild

Singleton == INSTANCE SharedSingleton

Map == INSTANCE BucketMap WITH Threads <- MapThreads, life <- mapLife

Handle == INSTANCE ExceptionHandle WITH
  Cells <- HandleCells, strays <- exceptionStrays

Functor == INSTANCE FunctorStorage WITH MaxQueued <- 1, result <- popped, end <- functorEnd

OldException == INSTANCE OldException WITH Objects <- OldExceptions, end <- textEnd

(* Bytes that are zero but for four in a row (or the last), each of its own *)
(* kind, which come at every place of a block, at the end of a loop or      *)
(* after it; and three to go on from.                                       *)
Spot(n, i) == [k \in 1 .. n |-> IF k \in i .. i + 3 THEN {k - i, 7} ELSE {}]

SomeChunks ==
  {<<>>, << {0, 1, 2, 4, 6}, {3, 5, 6}, {0, 5, 6} >>}
    \union { Spot(65, i) : i \in {1, 5, 9, 13, 49, 63, 65} }
    \union { Spot(33, i) : i \in {1, 5, 25, 33} }

Checksum == INSTANCE Crc32 WITH MaxBytes <- 68, Ahead <- 1

(* Functors that fail. *)
Loop == INSTANCE EventLoop WITH
  pc <- loopPc, Functors <- Jobs, Invoked <- {}, Failing <- Jobs, Throwing <- {},
  PushMayFail <- FALSE, MaxThrown <- 0

Calls == INSTANCE LoopCalls WITH Buffers <- CallBuffers, end <- callsEnd

ASSUME RingAssumption == Ring!Assumptions
ASSUME SingletonAssumption == Singleton!Assumptions
ASSUME MapAssumption == Map!Assumptions
ASSUME HandleAssumption == Handle!Assumptions
ASSUME FunctorAssumption == Functor!Assumptions
ASSUME OldExceptionAssumption == OldException!Assumptions
ASSUME ChecksumAssumption == Checksum!Assumptions /\ Checksum!TablesAgree
ASSUME LoopAssumption == Loop!Assumptions
ASSUME CallsAssumption == Calls!Assumptions

ringVars == <<ring, result, ringWild>>
singletonVars == <<refCount, instance, pointer, slot, alive, strays>>
mapVars == <<bucket, buckets, thread, mapLife, written>>
handleVars == <<handle, cell, entries, asked, origin, lost, exceptionStrays>>
functorVars == <<data, vt, view, queue, popped, functorEnd>>
textVars == <<text, object, said, short, sliced, textEnd>>
checksumVars == <<alg, left, unrolling, crc, division, size>>
loopVars == <<fifo, committed, taken, QueueItems, Running, Stopping, ThreadsIn, ThreadsWaiting,
              Flag, LoopEndedFlag, loopPc, job, answered, eh>>
callsVars == <<loop, heap, caller, posted, told, did, callsEnd>>

partsVars == <<part, vars, ringVars, singletonVars, mapVars, handleVars,
               functorVars, textVars, checksumVars, loopVars, callsVars>>

PartsInit ==
  /\ part \in Parts /\ Init
  /\ Ring!Init /\ Singleton!Init /\ Map!Init /\ Handle!Init
  /\ Functor!Init /\ OldException!Init /\ Checksum!Init
  /\ Loop!Init /\ Calls!Init

FlagNext == part = "flag" /\ Next /\ UNCHANGED
  <<part, ringVars, singletonVars, mapVars, handleVars, functorVars,
    textVars, checksumVars, loopVars, callsVars>>
RingNext == part = "ring" /\ Ring!Next /\ UNCHANGED
  <<part, vars, singletonVars, mapVars, handleVars, functorVars,
    textVars, checksumVars, loopVars, callsVars>>
SingletonNext == part = "singleton" /\ Singleton!Next /\ UNCHANGED
  <<part, vars, ringVars, mapVars, handleVars, functorVars,
    textVars, checksumVars, loopVars, callsVars>>
MapNext == part = "map" /\ Map!Next /\ UNCHANGED
  <<part, vars, ringVars, singletonVars, handleVars, functorVars,
    textVars, checksumVars, loopVars, callsVars>>
HandleNext == part = "handle" /\ Handle!Next /\ UNCHANGED
  <<part, vars, ringVars, singletonVars, mapVars, functorVars,
    textVars, checksumVars, loopVars, callsVars>>
FunctorNext == part = "functor" /\ Functor!Next /\ UNCHANGED
  <<part, vars, ringVars, singletonVars, mapVars, handleVars,
    textVars, checksumVars, loopVars, callsVars>>
TextNext == part = "text" /\ OldException!Next /\ UNCHANGED
  <<part, vars, ringVars, singletonVars, mapVars, handleVars,
    functorVars, checksumVars, loopVars, callsVars>>
ChecksumNext == part = "checksum" /\ Checksum!Next /\ UNCHANGED
  <<part, vars, ringVars, singletonVars, mapVars, handleVars,
    functorVars, textVars, loopVars, callsVars>>
(* With threads that stop it there is one managed thread; or there is one to *)
(* spare, and nobody stops the loop: only with two others asleep does a     *)
(* thread wake up somebody.                                                 *)
LoopNext ==
  /\ part \in {"loop", "crowd"} /\ Loop!Next
  /\ part = "loop" => loopPc'[Spare] = "unborn"
  /\ part = "crowd" => \A s \in Stoppers : loopPc'[s] = "idle"
  /\ UNCHANGED <<part, vars, ringVars, singletonVars, mapVars, handleVars,
                 functorVars, textVars, checksumVars, callsVars>>
CallsNext == part = "calls" /\ Calls!Next /\ UNCHANGED
  <<part, vars, ringVars, singletonVars, mapVars, handleVars,
    functorVars, textVars, checksumVars, loopVars>>

PartsNext ==
  \/ FlagNext \/ RingNext \/ SingletonNext \/ MapNext \/ HandleNext
  \/ FunctorNext \/ TextNext \/ ChecksumNext \/ LoopNext \/ CallsNext

PartsSpec == PartsInit /\ [][PartsNext]_partsVars

(* Functors and views have no order. *)
PartsSymmetry == Permutations(Functors) \union Permutations(Views)
------------------------------------------------------------------------------
(* The ring does what a sequence does. *)
RingIsQueue == Ring!RingIsQueue

(* The holders share one object that is alive, and are counted. *)
SingletonIsShared == part = "singleton" => Singleton!SingletonIsShared

(* What was inserted is found, and every bucket is in the tree or in the    *)
(* hands of one thread, and freed by the destructor.                        *)
MapIsSafe == part = "map" => Map!MapIsSafe

(* A handle points to an exception that exists, which comes out at the      *)
(* other end as what went in, whoever captures, adopts and rethrows.        *)
ExceptionsAreKept == part = "handle" => Handle!ExceptionsAreKept

(* A callable is in one place, is destroyed once and not called after it    *)
(* was moved away.                                                          *)
FunctorsAreWhole == part = "functor" => Functor!FunctorsAreWhole

(* The text of an exception is freed once, and what() never says a freed    *)
(* one.                                                                     *)
TextsAreOwned == part = "text" => OldException!TextsAreOwned

(* All the forms compute the same checksum. *)
ChecksumsAgree == part = "checksum" => Checksum!ChecksumsAgree

(* The threads in loop() and those of them that sleep are counted, errors   *)
(* and stops included.                                                      *)
LoopIsCounted == part \in {"loop", "crowd"} => Loop!LoopIsCounted

(* While stop() waits for the threads of the program, the managed ones are  *)
(* gone and no new one starts, also when two threads stop the loop.         *)
ManagedAreJoined == part \in {"loop", "crowd"} => Loop!ManagedAreJoined

(* A C function's error number gets to whoever asked for it, as far as      *)
(* exceptions can tell it, and no way out of a call leaves memory behind.   *)
CallsAreAnswered == part = "calls" => Calls!CallsAreAnswered

(* A functor in the loop's queue has the data that it was posted with.      *)
PostedIsCopied == part = "calls" => Calls!PostedIsCopied
==============================================================================
