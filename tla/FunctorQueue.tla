---------------------------- MODULE FunctorQueue ----------------------------
(***************************************************************************)
(* sev::ConcurrentFunctorQueue (src/sev/concurrent_functor_queue.cpp): an  *)
(* unbounded queue of functors of different sizes, many writers and many   *)
(* readers, laid out in a chain of memory blocks.                          *)
(*                                                                         *)
(* Writers share AtomicWriteSwap and reserve space in the last block by a  *)
(* compare-exchange of PreWriteIdx.  A writer that does not fit claims the *)
(* lock, waits for the other writers to finish and appends a block.        *)
(* Readers pin the first block under DeleteLock, take functors by a        *)
(* compare-exchange of its ReadIdx, and move ReadBlock on when it is used  *)
(* up; the last reader out of an old block recycles it as a spare.         *)
(*                                                                         *)
(* One unit of index is SEV_FUNCTOR_ALIGN bytes; a block has Capacity      *)
(* units for functors.  Every access to shared memory is a step, except    *)
(* that accesses made under a lock that excludes every other access to the *)
(* same words are one step together.  The locks are SharedLock, which      *)
(* SharedMutex implements.                                                 *)
(***************************************************************************)
EXTENDS Integers, FiniteSets, Sequences, SequencesExt

CONSTANTS
  Writers, Readers,   \* threads that push, threads that call and pop
  Blocks,             \* the addresses malloc can return
  Null,               \* the null pointer
  Capacity,           \* units of functor space in a block
  Sizes,              \* functor sizes in units, preamble included
  MaxPush,            \* bound: pushes per writer
  MallocMayFail,      \* malloc may return null before Blocks is used up
  Throwers            \* writers whose functors' copy or move constructor may throw

(* Larger functors are refused at once, before anything is touched (266).  *)
ASSUME SizesAssumption == Sizes \subseteq 1..Capacity
ASSUME CapacityAssumption == Capacity \in Nat \ {0}
ASSUME NullAssumption == Null \notin Blocks
ASSUME ThrowersAssumption == Throwers \subseteq Writers
ASSUME ThreadsAssumption == IsFiniteSet(Writers) /\ IsFiniteSet(Readers)
ASSUME BoundsAssumption == MaxPush \in Nat /\ MallocMayFail \in BOOLEAN

Threads == Writers \union Readers

(* SEV_BLOCK_PREAMBLE_SIZE, BlockSize - SEV_BLOCK_UNPAD and BlockSize       *)
StartIdx   == 1
BlockLimit == StartIdx + Capacity
BlockSize  == BlockLimit + 1

(* A functor is named after the push that made it. *)
Functors == [writer : Writers, nr : 1..MaxPush, size : Sizes, constructed : BOOLEAN]

(* The null pointer is not a functor, and names no push. *)
ASSUME NamesAssumption == Null \notin Functors /\ Null \notin Writers \X (1..MaxPush)

VARIABLES
  heap,        \* blocks that are allocated
  blk,         \* the contents of each block
  ReadBlock, WriteBlock, SpareBlockA, SpareBlockB, PreWriteIdx,
  swapSharers, swapClaims, swapExclusive,   \* AtomicWriteSwap
  delSharers, delClaims, delExclusive,      \* DeleteLock
  wr, rd,      \* the writers' and readers' positions and locals
  fifo,        \* history: reserved places not yet taken, oldest first
  released     \* the queue was destroyed

memory    == <<heap, blk>>
swapVars  == <<swapSharers, swapClaims, swapExclusive>>
delVars   == <<delSharers, delClaims, delExclusive>>
spareVars == <<SpareBlockA, SpareBlockB>>
indexVars == <<WriteBlock, PreWriteIdx>>
vars == <<memory, ReadBlock, indexVars, spareVars, swapVars, delVars,
          wr, rd, fifo, released>>

Swap == INSTANCE SharedLock WITH
  sharers <- swapSharers, claims <- swapClaims, exclusive <- swapExclusive
Del == INSTANCE SharedLock WITH
  sharers <- delSharers, claims <- delClaims, exclusive <- delExclusive

Offsets == StartIdx..(BlockLimit - 1)

(* A functor's place: Vt and Size, and the Ready flag that publishes them. *)
EmptyPlace == [functor |-> Null, ready |-> FALSE]

(* wipeBlock: nothing is ready, nothing was read, no next block. *)
WipedBlock == [NextBlock  |-> Null,
               ReadIdx    |-> StartIdx,
               ReadShared |-> 0,
               NbObjects  |-> 0,
               place      |-> [i \in Offsets |-> EmptyPlace]]

IdleWriter == [pc |-> "idle", nr |-> 0, size |-> 0, idx |-> 0, block |-> Null,
               alloc |-> Null, outOfSpare |-> FALSE]

IdleReader == [pc |-> "idle", block |-> Null, idx |-> 0, old |-> Null, functor |-> Null]

Mask(idx) == idx % BlockSize

(* (idx + blockSize - 1) & ~(blockSize - 1) *)
RoundUp(idx) == ((idx + BlockSize - 1) \div BlockSize) * BlockSize

Full(w) == Mask(wr[w].idx) + wr[w].size > BlockLimit

(* The functor a push under way is about to put into its place. *)
Pushed(w, ok) == [writer |-> w, nr |-> wr[w].nr, size |-> wr[w].size, constructed |-> ok]

Ready(b, i) == i < BlockLimit /\ blk[b].place[i].ready

(* SEV_ConcurrentFunctorQueue_init: one block in use and two spares, either *)
(* of which may be missing.                                                 *)
Init ==
  /\ \E first \in Blocks :
       /\ ReadBlock = first
       /\ WriteBlock = first
       /\ \E a, b \in (Blocks \ {first}) \union {Null} :
            /\ a = b => a = Null
            /\ SpareBlockA = a
            /\ SpareBlockB = b
            /\ heap = {first, a, b} \ {Null}
            /\ Null \in {a, b} => MallocMayFail \/ heap = Blocks
  /\ blk = [b \in Blocks |-> WipedBlock]
  /\ PreWriteIdx = StartIdx
  /\ Swap!Init
  /\ Del!Init
  /\ wr = [w \in Writers |-> IdleWriter]
  /\ rd = [r \in Readers |-> IdleReader]
  /\ fifo = <<>>
  /\ released = FALSE

(* A writer's step leaves the readers' side alone, and the other way round. *)
WriterFrame == UNCHANGED <<ReadBlock, delVars, rd, released>>
ReaderFrame == UNCHANGED <<indexVars, swapVars, wr, released>>

WriterGoto(w, from, to) == wr[w].pc = from /\ wr' = [wr EXCEPT ![w].pc = to] /\ WriterFrame
ReaderGoto(r, from, to) == rd[r].pc = from /\ rd' = [rd EXCEPT ![r].pc = to] /\ ReaderFrame

WriterIn(w, from, locals) == wr[w].pc = from /\ wr' = [wr EXCEPT ![w] = locals] /\ WriterFrame
ReaderIn(r, from, locals) == rd[r].pc = from /\ rd' = [rd EXCEPT ![r] = locals] /\ ReaderFrame

(* malloc and initBlock, and malloc returning null.  There is no more memory *)
(* than Blocks.                                                             *)
Malloc(b) ==
  /\ b \in Blocks \ heap
  /\ heap' = heap \union {b}

MallocFails ==
  /\ MallocMayFail \/ heap = Blocks
  /\ UNCHANGED heap

(* free; what a freed block contains cannot be seen any more. *)
Free(b) ==
  /\ heap' = heap \ {b}
  /\ blk' = [blk EXCEPT ![b] = WipedBlock]

(* SEV_AtomicSharedMutex_downgradeLock of AtomicWriteSwap: Share and then   *)
(* Release; nobody can tell the point in between from the one before.       *)
DowngradeSwap(w) ==
  /\ w \in swapClaims
  /\ swapSharers' = swapSharers \union {w}
  /\ swapClaims' = swapClaims \ {w}
  /\ swapExclusive' = swapExclusive \ {w}
------------------------------------------------------------------------------
(* pushFunctorEx *)
Push(w) ==
  /\ ~released
  /\ wr[w].nr < MaxPush
  /\ \E n \in Sizes :
       WriterIn(w, "idle", [wr[w] EXCEPT !.pc = "lockShared", !.nr = @ + 1, !.size = n])
  /\ UNCHANGED <<memory, indexVars, spareVars, swapVars, fifo>>

(* 297, 422 *)
WriterLockShared(w) ==
  /\ WriterGoto(w, "lockShared", "loadIdx")
  /\ Swap!Share(w)
  /\ UNCHANGED <<memory, indexVars, spareVars, fifo>>

(* 301-303, 423-425, 440: WriteBlock cannot change while w has a share. *)
LoadPreWriteIdx(w) ==
  /\ WriterIn(w, "loadIdx", [wr[w] EXCEPT !.idx = PreWriteIdx, !.block = WriteBlock,
                                          !.pc = "checkFit"])
  /\ UNCHANGED <<memory, indexVars, spareVars, swapVars, fifo>>

(* Slip: the block limit is not compared. *)
CheckFitOnlyLock(w) ==
  /\ WriterGoto(w, "checkFit",
                IF swapClaims # {} THEN "tryPartialLock" ELSE "compareExchange")
  /\ UNCHANGED <<memory, indexVars, spareVars, swapVars, fifo>>

(* 321 *)
CheckFit(w) ==
  /\ WriterGoto(w, "checkFit",
                IF Full(w) \/ swapClaims # {} THEN "tryPartialLock" ELSE "compareExchange")
  /\ UNCHANGED <<memory, indexVars, spareVars, swapVars, fifo>>

(* 325 *)
TryPartialLock(w) ==
  /\ \/ WriterGoto(w, "tryPartialLock", "dropShare") /\ Swap!Claim(w)
     \/ /\ WriterGoto(w, "tryPartialLock", "backOff")
        /\ swapClaims # {} /\ UNCHANGED swapVars
  /\ UNCHANGED <<memory, indexVars, spareVars, fifo>>

(* 418: another thread is allocating *)
BackOff(w) ==
  /\ WriterGoto(w, "backOff", "lockShared")
  /\ Swap!Unshare(w)
  /\ UNCHANGED <<memory, indexVars, spareVars, fifo>>

(* 327 *)
DropShare(w) ==
  /\ WriterGoto(w, "dropShare", "takeSpareA")
  /\ Swap!Unshare(w)
  /\ UNCHANGED <<memory, indexVars, spareVars, fifo>>

(* 351 *)
TakeSpareA(w) ==
  /\ WriterIn(w, "takeSpareA",
       [wr[w] EXCEPT !.alloc = SpareBlockA,
                     !.pc = IF SpareBlockA = Null THEN "takeSpareB" ELSE "drain"])
  /\ SpareBlockA' = Null
  /\ UNCHANGED <<memory, indexVars, SpareBlockB, swapVars, fifo>>

(* 354, 370 *)
TakeSpareB(w) ==
  /\ WriterIn(w, "takeSpareB",
       [wr[w] EXCEPT !.alloc = SpareBlockB,
                     !.outOfSpare = SpareBlockB # Null,
                     !.pc = IF SpareBlockB = Null THEN "malloc" ELSE "drain"])
  /\ SpareBlockB' = Null
  /\ UNCHANGED <<memory, indexVars, SpareBlockA, swapVars, fifo>>

(* 357-366: on failure the lock is downgraded and the push returns ENOMEM. *)
MallocBlock(w) ==
  /\ \/ \E b \in Blocks :
          /\ Malloc(b)
          /\ WriterIn(w, "malloc", [wr[w] EXCEPT !.alloc = b, !.pc = "drain"])
          /\ UNCHANGED swapVars
     \/ /\ MallocFails
        /\ WriterGoto(w, "malloc", "unlockShared")
        /\ DowngradeSwap(w)
  /\ UNCHANGED <<blk, indexVars, spareVars, fifo>>

(* Slip: the pending writers are not waited for. *)
DrainNoWait(w) ==
  /\ WriterGoto(w, "drain", "appendBlock")
  /\ UNCHANGED <<memory, indexVars, spareVars, swapVars, fifo>>

(* 385 *)
Drain(w) ==
  /\ WriterGoto(w, "drain", "appendBlock")
  /\ Swap!Complete(w)
  /\ UNCHANGED <<memory, indexVars, spareVars, fifo>>

(* 392-404: alone, so the writer's words and NextBlock change in one step.  *)
(* The push gets the first place of the new block.                          *)
AppendBlock(w) ==
  LET new == wr[w].alloc
      allocIdx == RoundUp(wr[w].idx) + StartIdx
  IN /\ WriterIn(w, "appendBlock", [wr[w] EXCEPT !.idx = allocIdx, !.block = new,
                                                 !.alloc = Null, !.pc = "downgrade"])
     /\ WriteBlock' = new
     /\ PreWriteIdx' = allocIdx + wr[w].size
     /\ blk' = [blk EXCEPT ![wr[w].block].NextBlock = new]
     /\ fifo' = Append(fifo, <<w, wr[w].nr>>)
     /\ UNCHANGED <<heap, spareVars, swapVars>>

(* Slip: the claim is left behind. *)
DowngradeForgotten(w) ==
  /\ WriterGoto(w, "downgrade", "construct")
  /\ swapSharers' = swapSharers \union {w}
  /\ UNCHANGED <<memory, indexVars, spareVars, swapClaims, swapExclusive, fifo>>

(* 408 *)
Downgrade(w) ==
  /\ WriterGoto(w, "downgrade", "construct")
  /\ DowngradeSwap(w)
  /\ UNCHANGED <<memory, indexVars, spareVars, fifo>>

(* Slip: the index is stored without the comparison. *)
StorePreWriteIdx(w) ==
  /\ WriterGoto(w, "compareExchange", "construct")
  /\ PreWriteIdx' = wr[w].idx + wr[w].size
  /\ fifo' = Append(fifo, <<w, wr[w].nr>>)
  /\ UNCHANGED <<memory, WriteBlock, spareVars, swapVars>>

(* 436-448 *)
CompareExchangePreWriteIdx(w) ==
  /\ \/ /\ PreWriteIdx = wr[w].idx
        /\ PreWriteIdx' = wr[w].idx + wr[w].size
        /\ fifo' = Append(fifo, <<w, wr[w].nr>>)
        /\ WriterGoto(w, "compareExchange", "construct")
     \/ /\ PreWriteIdx # wr[w].idx
        /\ WriterGoto(w, "compareExchange", "loadIdx")
        /\ UNCHANGED <<PreWriteIdx, fifo>>
  /\ UNCHANGED <<memory, WriteBlock, spareVars, swapVars>>

(* 453-474: the place is filled; when the constructor throws it is filled   *)
(* with something that is no functor.                                       *)
Construct(w) ==
  /\ WriterGoto(w, "construct", "commit")
  /\ \E ok \in IF w \in Throwers THEN BOOLEAN ELSE {TRUE} :
       blk' = [blk EXCEPT ![wr[w].block].NbObjects = @ + 1,
                          ![wr[w].block].place[Mask(wr[w].idx)].functor = Pushed(w, ok)]
  /\ UNCHANGED <<heap, indexVars, spareVars, swapVars, fifo>>

(* Slip: a constructor that throws leaves the place uncommitted. *)
CommitUnlessThrown(w) ==
  LET b == wr[w].block
      i == Mask(wr[w].idx)
  IN /\ WriterGoto(w, "commit", "unlockShared")
     /\ blk' = [blk EXCEPT ![b].place[i].ready = blk[b].place[i].functor.constructed]
     /\ UNCHANGED <<heap, indexVars, spareVars, swapVars, fifo>>

(* 466-471: on the way out, thrown or not *)
Commit(w) ==
  /\ WriterGoto(w, "commit", "unlockShared")
  /\ blk' = [blk EXCEPT ![wr[w].block].place[Mask(wr[w].idx)].ready = TRUE]
  /\ UNCHANGED <<heap, indexVars, spareVars, swapVars, fifo>>

Returned(w) == [IdleWriter EXCEPT !.nr = wr[w].nr]

(* 299 *)
WriterUnlockShared(w) ==
  /\ WriterIn(w, "unlockShared", IF wr[w].outOfSpare
                                 THEN [Returned(w) EXCEPT !.pc = "refill"]
                                 ELSE Returned(w))
  /\ Swap!Unshare(w)
  /\ UNCHANGED <<memory, indexVars, spareVars, fifo>>

(* 274-278: a spare is allocated outside of the lock, if none came back. *)
Refill(w) ==
  /\ \/ /\ IF SpareBlockB = Null THEN MallocFails ELSE UNCHANGED heap
        /\ WriterIn(w, "refill", Returned(w))
     \/ /\ SpareBlockB = Null
        /\ \E b \in Blocks :
             /\ WriterIn(w, "refill", [wr[w] EXCEPT !.alloc = b, !.pc = "refillB"])
             /\ Malloc(b)
  /\ UNCHANGED <<blk, indexVars, spareVars, swapVars, fifo>>

(* Slip: a plain store instead of the compare-exchange. *)
RefillBStore(w) ==
  /\ WriterIn(w, "refillB", Returned(w))
  /\ SpareBlockB' = wr[w].alloc
  /\ UNCHANGED <<memory, indexVars, SpareBlockA, swapVars, fifo>>

(* 280 *)
RefillB(w) ==
  /\ \/ /\ SpareBlockB = Null /\ SpareBlockB' = wr[w].alloc
        /\ WriterIn(w, "refillB", Returned(w))
     \/ /\ SpareBlockB # Null /\ UNCHANGED SpareBlockB
        /\ WriterGoto(w, "refillB", "refillA")
  /\ UNCHANGED <<memory, indexVars, SpareBlockA, swapVars, fifo>>

(* 283-285 *)
RefillA(w) ==
  /\ WriterIn(w, "refillA", Returned(w))
  /\ \/ SpareBlockA = Null /\ SpareBlockA' = wr[w].alloc /\ UNCHANGED memory
     \/ SpareBlockA # Null /\ Free(wr[w].alloc) /\ UNCHANGED SpareBlockA
  /\ UNCHANGED <<indexVars, SpareBlockB, swapVars, fifo>>
------------------------------------------------------------------------------
(* tryCallAndPopFunctorEx *)
Pop(r) ==
  /\ ~released
  /\ ReaderGoto(r, "idle", "lockShared")
  /\ UNCHANGED <<memory, ReadBlock, spareVars, delVars, fifo>>

(* Slip: the block is looked up while another reader may be moving on. *)
EnterBlockUnlocked(r) ==
  /\ ReaderIn(r, "lockShared", [rd[r] EXCEPT !.block = ReadBlock, !.pc = "pin"])
  /\ delSharers' = delSharers \union {r}
  /\ UNCHANGED <<memory, ReadBlock, spareVars, delClaims, delExclusive, fifo>>

(* 515-516: ReadBlock cannot change while r has a share of DeleteLock. *)
EnterBlock(r) ==
  /\ ReaderIn(r, "lockShared", [rd[r] EXCEPT !.block = ReadBlock, !.pc = "pin"])
  /\ Del!Share(r)
  /\ UNCHANGED <<memory, ReadBlock, spareVars, fifo>>

(* 518-519 *)
PinBlock(r) ==
  /\ ReaderGoto(r, "pin", "loadReadIdx")
  /\ blk' = [blk EXCEPT ![rd[r].block].ReadShared = @ + 1]
  /\ Del!Unshare(r)
  /\ UNCHANGED <<heap, ReadBlock, spareVars, fifo>>

(* 521, 608; after 608 the block left behind is recycled first. *)
LoadReadIdx(r) ==
  /\ ReaderIn(r, "loadReadIdx",
       [rd[r] EXCEPT !.idx = blk[rd[r].block].ReadIdx,
                     !.pc = IF rd[r].old = Null THEN "checkReady" ELSE "recycleB"])
  /\ UNCHANGED <<memory, ReadBlock, spareVars, delVars, fifo>>

(* 568 *)
CheckReady(r) ==
  /\ ReaderGoto(r, "checkReady",
                IF Ready(rd[r].block, rd[r].idx) THEN "compareExchange" ELSE "checkNext")
  /\ UNCHANGED <<memory, ReadBlock, spareVars, delVars, fifo>>

(* Slip: the block is left without a second look at the flag. *)
CheckNextOnce(r) ==
  /\ ReaderGoto(r, "checkNext",
                IF blk[rd[r].block].NextBlock = Null THEN "leave" ELSE "lock")
  /\ UNCHANGED <<memory, ReadBlock, spareVars, delVars, fifo>>

(* 572; without a next block the pop returns ENODATA (632). *)
CheckNext(r) ==
  /\ ReaderGoto(r, "checkNext",
                IF blk[rd[r].block].NextBlock = Null THEN "leave" ELSE "recheckReady")
  /\ UNCHANGED <<memory, ReadBlock, spareVars, delVars, fifo>>

(* 575 *)
RecheckReady(r) ==
  /\ ReaderGoto(r, "recheckReady",
                IF Ready(rd[r].block, rd[r].idx) THEN "checkReady" ELSE "lock")
  /\ UNCHANGED <<memory, ReadBlock, spareVars, delVars, fifo>>

(* 589, in two steps: the claim, then the wait for the sharers *)
ReaderLock(r) ==
  /\ ReaderGoto(r, "lock", "lockDrain")
  /\ Del!Claim(r)
  /\ UNCHANGED <<memory, ReadBlock, spareVars, fifo>>

ReaderLockDrain(r) ==
  /\ ReaderGoto(r, "lockDrain", "advance")
  /\ Del!Complete(r)
  /\ UNCHANGED <<memory, ReadBlock, spareVars, fifo>>

(* A reader moves its pin and keeps the old block if keep says so (590-610). *)
AdvanceTo(r, new, pins, keep) ==
  /\ ReaderIn(r, "advance", [rd[r] EXCEPT !.block = new, !.pc = "loadReadIdx",
                                          !.old = IF keep THEN rd[r].block ELSE Null])
  /\ ReadBlock' = new
  /\ blk' = pins
  /\ Del!Release(r)
  /\ UNCHANGED <<heap, spareVars, fifo>>

(* Whoever comes first moves ReadBlock on, the others follow it. *)
NextReadBlock(r) ==
  IF ReadBlock = rd[r].block THEN blk[ReadBlock].NextBlock ELSE ReadBlock

(* Slip: the new block is entered without being counted. *)
AdvanceUncounted(r) ==
  AdvanceTo(r, NextReadBlock(r), [blk EXCEPT ![rd[r].block].ReadShared = @ - 1],
            blk[rd[r].block].ReadShared = 1)

(* Slip: the block left behind is recycled whoever else is in it. *)
AdvanceRecyclesAlways(r) ==
  AdvanceTo(r, NextReadBlock(r),
            [blk EXCEPT ![NextReadBlock(r)].ReadShared = @ + 1,
                        ![rd[r].block].ReadShared = @ - 1],
            TRUE)

(* 590-607: alone under DeleteLock; the last to leave the old block keeps it *)
Advance(r) ==
  AdvanceTo(r, NextReadBlock(r),
            [blk EXCEPT ![NextReadBlock(r)].ReadShared = @ + 1,
                        ![rd[r].block].ReadShared = @ - 1],
            blk[rd[r].block].ReadShared = 1)

(* Where the reader goes once the old block is dealt with: back to the loop *)
(* (629), or out of the call when fin1 recycled the block it had pinned.    *)
Recycled(r) ==
  IF rd[r].block = Null THEN IdleReader
                        ELSE [rd[r] EXCEPT !.old = Null, !.pc = "checkReady"]

OfferSpareB(r) ==
  \/ /\ SpareBlockB = Null /\ SpareBlockB' = rd[r].old
     /\ ReaderIn(r, "recycleB", Recycled(r))
  \/ /\ SpareBlockB # Null /\ UNCHANGED SpareBlockB
     /\ ReaderGoto(r, "recycleB", "recycleA")

(* Slip: wipeBlockOnly, which leaves the Ready flags (cf. 550, 618). *)
RecycleBUnwiped(r) ==
  /\ OfferSpareB(r)
  /\ blk' = [blk EXCEPT ![rd[r].old] = [WipedBlock EXCEPT !.place = blk[rd[r].old].place]]
  /\ UNCHANGED <<heap, ReadBlock, SpareBlockA, delVars, fifo>>

(* 619-620, 551-552: wiped while no other thread can see it, then offered *)
RecycleB(r) ==
  /\ OfferSpareB(r)
  /\ blk' = [blk EXCEPT ![rd[r].old] = WipedBlock]
  /\ UNCHANGED <<heap, ReadBlock, SpareBlockA, delVars, fifo>>

(* Slip: a block no spare place is left for is forgotten. *)
RecycleALeaks(r) ==
  /\ ReaderIn(r, "recycleA", Recycled(r))
  /\ SpareBlockA' = IF SpareBlockA = Null THEN rd[r].old ELSE SpareBlockA
  /\ UNCHANGED <<memory, ReadBlock, SpareBlockB, delVars, fifo>>

(* 623-625, 555-557 *)
RecycleA(r) ==
  /\ ReaderIn(r, "recycleA", Recycled(r))
  /\ \/ SpareBlockA = Null /\ SpareBlockA' = rd[r].old /\ UNCHANGED memory
     \/ SpareBlockA # Null /\ Free(rd[r].old) /\ UNCHANGED SpareBlockA
  /\ UNCHANGED <<ReadBlock, SpareBlockB, delVars, fifo>>

(* 637-646: the functor's own Size moves the index on. *)
CompareExchangeReadIdx(r) ==
  LET b == rd[r].block
      i == rd[r].idx
      f == blk[b].place[i].functor
  IN /\ rd[r].pc = "compareExchange"
     /\ \/ /\ blk[b].ReadIdx = i
           /\ blk' = [blk EXCEPT ![b].ReadIdx = i + f.size]
           /\ ReaderIn(r, "compareExchange", [rd[r] EXCEPT !.functor = f, !.pc = "call"])
           /\ fifo' = Tail(fifo)
        \/ /\ blk[b].ReadIdx # i
           /\ ReaderIn(r, "compareExchange",
                       [rd[r] EXCEPT !.idx = blk[b].ReadIdx, !.pc = "checkReady"])
           /\ UNCHANGED <<blk, fifo>>
     /\ UNCHANGED <<heap, ReadBlock, spareVars, delVars>>

(* 656-668: called, and destroyed in its place whatever the call does *)
CallAndDestroy(r) ==
  /\ ReaderIn(r, "call", [rd[r] EXCEPT !.functor = Null, !.pc = "leave"])
  /\ blk' = [blk EXCEPT ![rd[r].block].NbObjects = @ - 1]
  /\ UNCHANGED <<heap, ReadBlock, spareVars, delVars, fifo>>

LeaveBlock(r, keep) ==
  /\ ReaderIn(r, "leave", IF keep
                          THEN [IdleReader EXCEPT !.old = rd[r].block, !.pc = "recycleB"]
                          ELSE IdleReader)
  /\ delClaims = {}
  /\ blk' = [blk EXCEPT ![rd[r].block].ReadShared = @ - 1]
  /\ UNCHANGED <<heap, ReadBlock, spareVars, delVars, fifo>>

(* Slip: the block is recycled by whoever leaves last, current or not. *)
LeaveRecyclesCurrent(r) == LeaveBlock(r, blk[rd[r].block].ReadShared = 1)

(* 530-537, fin1: a share of DeleteLock is taken and given back around two  *)
(* accesses that no other sharer can tell apart.                            *)
Leave(r) == LeaveBlock(r, ReadBlock # rd[r].block /\ blk[rd[r].block].ReadShared = 1)
------------------------------------------------------------------------------
(* The blocks that are reached from ReadBlock by NextBlock: those that are  *)
(* in every set that ReadBlock is in and that NextBlock does not lead out of. *)
Linked(S) == ReadBlock \in S /\ \A b \in S : blk[b].NextBlock \in S \union {Null}

Chain == IF released THEN {} ELSE { b \in Blocks : \A S \in SUBSET Blocks : Linked(S) => b \in S }

(* The places of functors of block b that nobody has taken. *)
Unread(b) == { i \in Offsets : i >= blk[b].ReadIdx /\ blk[b].place[i].ready }

Covers(b, i, j) == i <= j /\ j < i + blk[b].place[i].functor.size

(* The functors release destroys in block b: from ReadIdx on, until a place *)
(* is not ready (199-206).                                                  *)
Walked(b) ==
  { i \in Unread(b) :
      \A j \in blk[b].ReadIdx..i : \E k \in Unread(b) : Covers(b, k, j) }

Id(f) == <<f.writer, f.nr>>

(* SEV_ConcurrentFunctorQueue_release, called when no thread uses the queue *)
(* any more.                                                                *)
Release ==
  LET destroyed == UNION { { Id(blk[b].place[i].functor) : i \in Walked(b) } : b \in Chain }
  IN /\ ~released
     /\ \A w \in Writers : wr[w].pc = "idle"
     /\ \A r \in Readers : rd[r].pc = "idle"
     /\ released' = TRUE
     /\ heap' = heap \ (Chain \union {SpareBlockA, SpareBlockB})
     /\ fifo' = SetToSeq(Range(fifo) \ destroyed)
     /\ UNCHANGED <<blk, ReadBlock, indexVars, spareVars, swapVars, delVars, wr, rd>>

(* Nothing happens to a queue that was destroyed. *)
Over == released /\ UNCHANGED vars

WriterStep(w) ==
  \/ WriterLockShared(w) \/ LoadPreWriteIdx(w) \/ CheckFit(w) \/ TryPartialLock(w)
  \/ BackOff(w) \/ DropShare(w) \/ TakeSpareA(w) \/ TakeSpareB(w) \/ MallocBlock(w)
  \/ Drain(w) \/ AppendBlock(w) \/ Downgrade(w) \/ CompareExchangePreWriteIdx(w)
  \/ Construct(w) \/ Commit(w) \/ WriterUnlockShared(w)
  \/ Refill(w) \/ RefillB(w) \/ RefillA(w)

ReaderStep(r) ==
  \/ EnterBlock(r) \/ PinBlock(r) \/ LoadReadIdx(r) \/ CheckReady(r) \/ CheckNext(r)
  \/ RecheckReady(r) \/ ReaderLock(r) \/ ReaderLockDrain(r) \/ Advance(r)
  \/ RecycleB(r) \/ RecycleA(r) \/ CompareExchangeReadIdx(r) \/ CallAndDestroy(r)
  \/ Leave(r)

Next ==
  \/ \E w \in Writers : Push(w) \/ WriterStep(w)
  \/ \E r \in Readers : Pop(r) \/ ReaderStep(r)
  \/ Release
  \/ Over

Spec == Init /\ [][Next]_vars

(* Every thread inside a call is scheduled, and readers poll again. *)
Fairness ==
  /\ \A w \in Writers : WF_vars(WriterStep(w))
  /\ \A r \in Readers : WF_vars(Pop(r) \/ ReaderStep(r))

FairSpec == Spec /\ Fairness
------------------------------------------------------------------------------
(* A reader's pin, counted in ReadShared. *)
PinnedAt == { "loadReadIdx", "checkReady", "checkNext", "recheckReady", "lock", "lockDrain",
              "advance", "recycleA", "recycleB", "compareExchange", "call", "leave" }
Pinned(b) == { r \in Readers : rd[r].block = b /\ rd[r].pc \in PinnedAt }

(* A writer's place, from its reservation to its commit. *)
Writing == { w \in Writers : wr[w].pc \in {"downgrade", "construct", "commit"} }
PlaceOf(w) == Mask(wr[w].idx)..(Mask(wr[w].idx) + wr[w].size - 1)

TypeOK ==
  /\ heap \subseteq Blocks
  /\ {ReadBlock, WriteBlock} \subseteq Blocks
  /\ {SpareBlockA, SpareBlockB} \subseteq Blocks \union {Null}
  /\ PreWriteIdx \in Nat
  /\ Swap!TypeOK /\ Del!TypeOK
  /\ \A b \in Blocks :
       /\ blk[b].NextBlock \in Blocks \union {Null}
       /\ blk[b].ReadIdx \in StartIdx..BlockLimit
       /\ blk[b].ReadShared \in 0..Cardinality(Readers)
       /\ blk[b].NbObjects \in 0..Capacity
       /\ \A i \in Offsets : blk[b].place[i].ready \in BOOLEAN
                             /\ blk[b].place[i].functor \in Functors \union {Null}
  /\ released \in BOOLEAN

(* Every allocated block has exactly one owner: the chain, a spare pointer, *)
(* a writer that is adding it, a reader that is recycling it, or the        *)
(* readers still inside after ReadBlock moved on.  So no block is leaked,   *)
(* freed or reused while a thread can reach it.                             *)
Retired(chain) ==
  { rd[r].block : r \in { r \in Readers : rd[r].pc \in PinnedAt } } \ (chain \union {Null})

Owners ==
  ({"chain", "spareA", "spareB", "retired"} \X {Null})
    \union ({"writer"} \X Writers) \union ({"reader"} \X Readers)

Owned(chain) ==
  [o \in Owners |->
     CASE o[1] = "chain"   -> chain
       [] o[1] = "spareA"  -> {SpareBlockA} \ {Null}
       [] o[1] = "spareB"  -> {SpareBlockB} \ {Null}
       [] o[1] = "retired" -> Retired(chain)
       [] o[1] = "writer"  -> {wr[o[2]].alloc} \ {Null}
       [] o[1] = "reader"  -> {rd[o[2]].old} \ {Null}]

EveryBlockHasOneOwner ==
  LET owned == Owned(Chain)
  IN ~released =>
       \A b \in Blocks :
         Cardinality({ o \in DOMAIN owned : b \in owned[o] }) = IF b \in heap THEN 1 ELSE 0

(* Whoever uses a block's memory uses a block that is in the chain or       *)
(* pinned: a reader that still has it is counted in it, and a reader that   *)
(* is about to count itself cannot be overtaken by the block's recycling.   *)
PinsProtect ==
  /\ \A b \in heap : blk[b].ReadShared = Cardinality(Pinned(b))
  /\ \A r \in Readers : rd[r].pc = "pin" => rd[r].block = ReadBlock
  /\ \A w \in Writing : wr[w].block = WriteBlock /\ WriteBlock \in Chain

(* No two writers are given overlapping places, nor a place that is already *)
(* taken, nor one beyond the block (asserts 459 and 468).                   *)
PlacesAreExclusive ==
  /\ \A w \in Writing :
       /\ PlaceOf(w) \subseteq Offsets
       /\ \A i \in Offsets :
            blk[wr[w].block].place[i].ready =>
              i + blk[wr[w].block].place[i].functor.size <= Mask(wr[w].idx)
              \/ i >= Mask(wr[w].idx) + wr[w].size
  /\ \A v, w \in Writing : v # w => PlaceOf(v) \intersect PlaceOf(w) = {}

(* A block that is added was wiped (asserts 379-382), and it is linked in   *)
(* behind the block all writers agree on, once, at the same index whatever  *)
(* PreWriteIdx the allocating writer remembers (asserts 389, 392, 403).     *)
AppendsAgree ==
  \A w \in Writers :
    /\ wr[w].pc \in {"drain", "appendBlock"} => blk[wr[w].alloc] = WipedBlock
    /\ wr[w].pc = "appendBlock" =>
         /\ wr[w].block = WriteBlock
         /\ blk[WriteBlock].NextBlock = Null
         /\ RoundUp(wr[w].idx) = RoundUp(PreWriteIdx)

(* The block a reader recycles is used up: every functor in it was taken,   *)
(* called and destroyed (asserts 541-548, 614-616).                         *)
RecycledIsUsedUp ==
  \A r \in Readers :
    rd[r].old # Null =>
      LET b == rd[r].old
      IN rd[r].pc # "recycleA" =>
           blk[b].NbObjects = 0 /\ Unread(b) = {} /\ blk[b].ReadShared = 0

(* Releasing the queue destroys what is left in it and frees every block.   *)
ReleaseLeavesNothing == released => heap = {} /\ fifo = <<>>

(* The abstract queue, read off the blocks. *)
Abstract == INSTANCE FunctorFifo WITH
  Functors  <- Writers \X (1..MaxPush),
  None      <- Null,
  committed <- UNION { { Id(blk[b].place[i].functor) : i \in Unread(b) } : b \in Chain },
  taken     <- [r \in Readers |-> IF rd[r].functor = Null THEN Null ELSE Id(rd[r].functor)]

(* Functors are taken in the order of their reservations, once each, after  *)
(* their commit, and none is lost when blocks are left or recycled.         *)
ImplementsFifo == Abstract!Spec

(* SEV_ASSERT(idx == PreWriteIdx) of line 331, made after the partial lock. *)
AssertIdxIsCurrent ==
  \A w \in Writers : wr[w].pc = "takeSpareA" => wr[w].idx = PreWriteIdx

(* A push always returns: the claim is granted, the drain ends, and a       *)
(* failed compare-exchange is due to another push that went through.        *)
PushReturns(w) == wr[w].pc # "idle" ~> wr[w].pc = "idle"

(* With readers polling, everything that was pushed is taken.               *)
EverythingIsTaken(w) ==
  \A n \in 1..MaxPush : <<w, n>> \in Range(fifo) ~> <<w, n>> \notin Range(fifo)
=============================================================================
