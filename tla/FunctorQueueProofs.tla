------------------------- MODULE FunctorQueueProofs -------------------------
(***************************************************************************)
(* Proofs about FunctorQueue, for any number of writers, readers and       *)
(* blocks, any block size and functor sizes, and malloc that may fail.     *)
(***************************************************************************)
EXTENDS FunctorQueue, FiniteSetTheorems, TLAPS

WriterPoints ==
  { "idle", "lockShared", "loadIdx", "checkFit", "tryPartialLock", "backOff", "compareExchange",
    "dropShare", "takeSpareA", "takeSpareB", "malloc", "drain", "appendBlock", "downgrade",
    "construct", "commit", "unlockShared", "refill", "refillB", "refillA" }

ReaderPoints == PinnedAt \union { "idle", "lockShared", "pin" }

WriterRecords ==
  [pc : WriterPoints, nr : 0..MaxPush, size : Nat, idx : Nat, block : Blocks \union {Null},
   alloc : Blocks \union {Null}, outOfSpare : BOOLEAN]

ReaderRecords ==
  [pc : ReaderPoints, block : Blocks \union {Null}, idx : Nat, old : Blocks \union {Null},
   functor : Functors \union {Null}]

Places == [functor : Functors \union {Null}, ready : BOOLEAN]

BlockRecords ==
  [NextBlock : Blocks \union {Null}, ReadIdx : StartIdx..BlockLimit, ReadShared : Int,
   NbObjects : Int, place : [Offsets -> Places]]

Types ==
  /\ heap \subseteq Blocks
  /\ ReadBlock \in Blocks /\ WriteBlock \in Blocks
  /\ SpareBlockA \in Blocks \union {Null} /\ SpareBlockB \in Blocks \union {Null}
  /\ blk \in [Blocks -> BlockRecords]
  /\ PreWriteIdx \in Nat
  /\ wr \in [Writers -> WriterRecords]
  /\ rd \in [Readers -> ReaderRecords]
  /\ released \in BOOLEAN

(* Nobody uses a queue that was destroyed. *)
ReleasedIsIdle == released =>
  (\A w \in Writers : wr[w].pc = "idle") /\ (\A r \in Readers : rd[r].pc = "idle")

(* Where a thread has which lock. *)
SharePoints ==
  { "loadIdx", "checkFit", "tryPartialLock", "backOff", "compareExchange", "dropShare",
    "construct", "commit", "unlockShared" }
ClaimPoints ==
  { "dropShare", "takeSpareA", "takeSpareB", "malloc", "drain", "appendBlock", "downgrade" }
AlonePoints == { "appendBlock", "downgrade" }

SwapLocks ==
  /\ swapSharers = { w \in Writers : wr[w].pc \in SharePoints }
  /\ swapClaims = { w \in Writers : wr[w].pc \in ClaimPoints }
  /\ swapExclusive = { w \in Writers : wr[w].pc \in AlonePoints }
  /\ \A v, w \in swapClaims : v = w
  /\ swapExclusive # {} => swapSharers = {}

DelLocks ==
  /\ delSharers = { r \in Readers : rd[r].pc = "pin" }
  /\ delClaims = { r \in Readers : rd[r].pc \in {"lockDrain", "advance"} }
  /\ delExclusive = { r \in Readers : rd[r].pc = "advance" }
  /\ \A q, r \in delClaims : q = r
  /\ delExclusive # {} => delSharers = {}

(* What a writer knows of its own push. *)
WriterLocals == \A w \in Writers :
  /\ wr[w].pc # "idle" => wr[w].nr \in 1..MaxPush
  /\ wr[w].pc \notin { "idle", "refill", "refillB", "refillA" } => wr[w].size \in Sizes
  /\ wr[w].alloc # Null <=> wr[w].pc \in { "drain", "appendBlock", "refillB", "refillA" }
  /\ wr[w].pc = "compareExchange" => ~Full(w)

(* Between loading PreWriteIdx and commit, a writer's block is WriteBlock,  *)
(* and its index one of that block.                                         *)
LoadedPoints ==
  { "checkFit", "tryPartialLock", "compareExchange", "dropShare", "takeSpareA", "takeSpareB",
    "malloc", "drain", "appendBlock", "downgrade", "construct", "commit" }
PlacedPoints == { "downgrade", "construct", "commit" }

WriterView ==
  /\ Mask(PreWriteIdx) >= StartIdx
  /\ \A w \in Writers : wr[w].pc \in LoadedPoints =>
       /\ wr[w].block = WriteBlock
       /\ Mask(wr[w].idx) >= StartIdx
       /\ wr[w].idx - Mask(wr[w].idx) = PreWriteIdx - Mask(PreWriteIdx)
       /\ wr[w].idx <= PreWriteIdx
       /\ wr[w].pc \in PlacedPoints => wr[w].idx + wr[w].size <= PreWriteIdx

(* What a reader knows of its own call. *)
ReaderLocals == \A r \in Readers :
  /\ rd[r].pc \notin { "idle", "lockShared", "recycleB", "recycleA" } => rd[r].block # Null
  /\ rd[r].pc \in { "recycleB", "recycleA" } => rd[r].old # Null
  /\ rd[r].old # Null => rd[r].pc \in { "loadReadIdx", "recycleB", "recycleA" }
  /\ rd[r].pc = "pin" => rd[r].block = ReadBlock

(* The chain goes from ReadBlock to WriteBlock, and joins nowhere; no       *)
(* reader is in one of its blocks but the first.                            *)
ChainOK ==
  /\ WriteBlock \in Chain
  /\ \A b \in Chain : blk[b].NextBlock = Null <=> b = WriteBlock
  /\ \A b \in Chain : blk[b].NextBlock # ReadBlock
  /\ \A b, c \in Chain : blk[b].NextBlock = blk[c].NextBlock => b = c
  /\ \A r \in Readers : rd[r].pc \in PinnedAt /\ rd[r].block \in Chain => rd[r].block = ReadBlock

(* EveryBlockHasOneOwner, without counting: a block in use is in the chain  *)
(* or has readers inside.                                                   *)
Used == Chain \union Retired(Chain)

OneOwner ==
  /\ Used \subseteq heap
  /\ SpareBlockA # Null =>
       SpareBlockA \in heap \ Used /\ SpareBlockA # SpareBlockB
  /\ SpareBlockB # Null => SpareBlockB \in heap \ Used
  /\ \A w \in Writers : wr[w].alloc # Null =>
       /\ wr[w].alloc \in heap \ (Used \union {SpareBlockA, SpareBlockB})
       /\ \A v \in Writers : v # w => wr[v].alloc # wr[w].alloc
       /\ \A r \in Readers : rd[r].old # wr[w].alloc
  /\ \A r \in Readers : rd[r].old # Null =>
       /\ rd[r].old \in heap \ (Used \union {SpareBlockA, SpareBlockB})
       /\ \A q \in Readers : q # r => rd[q].old # rd[r].old
  /\ \A b \in heap :
       \/ b \in Used \/ b = SpareBlockA \/ b = SpareBlockB
       \/ \E w \in Writers : b = wr[w].alloc
       \/ \E r \in Readers : b = rd[r].old

(* What nobody uses is wiped. *)
SparesAreWiped ==
  /\ \A b \in Blocks \ heap : blk[b] = WipedBlock
  /\ SpareBlockA # Null => blk[SpareBlockA] = WipedBlock
  /\ SpareBlockB # Null => blk[SpareBlockB] = WipedBlock
  /\ \A w \in Writers : wr[w].alloc # Null => blk[wr[w].alloc] = WipedBlock
  /\ \A r \in Readers : rd[r].pc = "recycleA" => blk[rd[r].old] = WipedBlock

PinsCounted == \A b \in Blocks : blk[b].ReadShared = Cardinality(Pinned(b))

(* The places of a block that hold a functor, and those being filled. *)
ReadyAt(b) == { i \in Offsets : blk[b].place[i].ready }
Size(b, i) == blk[b].place[i].functor.size
Start(w) == Mask(wr[w].idx)

ReadyApart == \A b \in Blocks :
  /\ \A i \in ReadyAt(b) :
       /\ blk[b].place[i].functor \in Functors
       /\ i + Size(b, i) <= BlockLimit
       /\ b = WriteBlock => i + Size(b, i) <= Mask(PreWriteIdx)
  /\ \A i, j \in ReadyAt(b) : i < j => i + Size(b, i) <= j

WritingApart ==
  /\ \A w \in Writing, i \in ReadyAt(WriteBlock) :
       i + Size(WriteBlock, i) <= Start(w) \/ Start(w) + wr[w].size <= i
  /\ \A v, w \in Writing : v # w =>
       Start(v) + wr[v].size <= Start(w) \/ Start(w) + wr[w].size <= Start(v)
  /\ \A w \in Writing : blk[WriteBlock].ReadIdx <= Start(w)
  /\ \A w \in Writers : wr[w].pc = "commit" =>
       /\ blk[WriteBlock].place[Start(w)].functor \in Functors
       /\ Size(WriteBlock, Start(w)) = wr[w].size

(* Where a place ends another starts, or nothing follows.                   *)
Starts(b) == ReadyAt(b) \union { Start(w) : w \in { w \in Writing : b = WriteBlock } }

IsEnd(b, x) ==
  \/ x = StartIdx
  \/ \E i \in ReadyAt(b) : x = i + Size(b, i)

Follows(b, x) ==
  \/ x \in Starts(b)
  \/ b = WriteBlock /\ x = Mask(PreWriteIdx)
  \/ b # WriteBlock /\ \A s \in Starts(b) : s < x

Tiled ==
  /\ \A b \in Blocks : \A x \in StartIdx..BlockLimit : IsEnd(b, x) => Follows(b, x)
  /\ \A w \in Writing : Follows(WriteBlock, Start(w) + wr[w].size)
  /\ \A b \in Blocks : IsEnd(b, blk[b].ReadIdx)

(* A reader's index is ReadIdx or what ReadIdx has passed.                  *)
ReadPoints ==
  { "checkReady", "checkNext", "recheckReady", "lock", "lockDrain", "advance",
    "recycleB", "recycleA", "compareExchange", "call" }

ReadersFollow ==
  /\ \A r \in Readers : rd[r].pc \in ReadPoints /\ rd[r].block # Null =>
       /\ rd[r].idx \in StartIdx..blk[rd[r].block].ReadIdx
       /\ rd[r].idx < blk[rd[r].block].ReadIdx => rd[r].idx \in ReadyAt(rd[r].block)
       /\ rd[r].pc \in { "compareExchange", "call" } => rd[r].idx \in ReadyAt(rd[r].block)
       /\ rd[r].pc = "call" => rd[r].idx < blk[rd[r].block].ReadIdx
  /\ \A q, r \in Readers :
       rd[q].pc = "call" /\ rd[r].pc = "call" /\ q # r /\ rd[q].block = rd[r].block =>
         rd[q].idx # rd[r].idx

(* A block is left when its places are used up and another follows.         *)
UsedUp ==
  /\ \A r \in Readers :
       /\ rd[r].pc \in { "recheckReady", "lock", "lockDrain", "advance" } =>
            blk[rd[r].block].NextBlock # Null
       /\ rd[r].pc \in { "lock", "lockDrain", "advance" } => Unread(rd[r].block) = {}
       /\ rd[r].old # Null => Unread(rd[r].old) = {}
  /\ \A b \in Retired(Chain) : Unread(b) = {}

(* The functors in a block: unread, being committed, or being called.       *)
Live(b) ==
  Unread(b)
    \union { Start(w) : w \in { w \in Writers : wr[w].pc = "commit" /\ wr[w].block = b } }
    \union { rd[r].idx : r \in { r \in Readers : rd[r].pc = "call" /\ rd[r].block = b } }

ObjectsCounted == \A b \in Blocks : blk[b].NbObjects = Cardinality(Live(b))

(* What holds until the queue is destroyed. *)
InUseInv == ~released => ChainOK /\ OneOwner /\ SparesAreWiped /\ UsedUp

(* The inductive invariant. *)
IInv ==
  /\ Types /\ ReleasedIsIdle /\ SwapLocks /\ DelLocks
  /\ WriterLocals /\ WriterView /\ ReaderLocals
  /\ InUseInv
  /\ PinsCounted
  /\ ReadyApart /\ WritingApart /\ Tiled /\ ReadersFollow
  /\ ObjectsCounted

------------------------------------------------------------------------------
(* An index is the start of its block's numbers and the offset in the block. *)
LEMMA MaskIs ==
  ASSUME NEW x \in Nat
  PROVE  /\ Mask(x) \in 0..BlockLimit
         /\ \E k \in Nat : x = k * BlockSize + Mask(x)
<1>1. BlockSize \in Nat /\ BlockSize > 0 /\ BlockLimit = BlockSize - 1
  BY CapacityAssumption DEF BlockSize, BlockLimit, StartIdx
<1>2. /\ (x % BlockSize) \in 0..BlockSize - 1
      /\ (x \div BlockSize) \in Nat
      /\ x = (x \div BlockSize) * BlockSize + (x % BlockSize)
  BY <1>1, Z3
<1> QED
  BY <1>1, <1>2 DEF Mask

LEMMA MaskOf ==
  ASSUME NEW k \in Nat, NEW m \in 0..BlockLimit
  PROVE  Mask(k * BlockSize + m) = m
<1>1. BlockSize \in Nat /\ BlockSize > 0 /\ BlockLimit = BlockSize - 1
  BY CapacityAssumption DEF BlockSize, BlockLimit, StartIdx
<1>2. (k * BlockSize + m) % BlockSize = m
  BY <1>1, Z3
<1> QED
  BY <1>2 DEF Mask

LEMMA RoundUpIs ==
  ASSUME NEW k \in Nat, NEW m \in StartIdx..BlockLimit
  PROVE  RoundUp(k * BlockSize + m) = (k + 1) * BlockSize
<1>1. BlockSize \in Nat /\ BlockSize > 0 /\ BlockLimit = BlockSize - 1 /\ StartIdx = 1
  BY CapacityAssumption DEF BlockSize, BlockLimit, StartIdx
<1>2. (k * BlockSize + m + BlockSize - 1) \div BlockSize = k + 1
  BY <1>1, Z3
<1> QED
  BY <1>2 DEF RoundUp

LEMMA Numbers ==
  /\ StartIdx = 1 /\ Capacity \in Nat \ {0} /\ Offsets = 1..Capacity
  /\ BlockLimit = Capacity + 1 /\ BlockSize = Capacity + 2
  /\ \A n \in Sizes : n \in 1..Capacity
BY CapacityAssumption, SizesAssumption DEF StartIdx, BlockLimit, BlockSize, Offsets

(* What a reservation and an appended block do to the index. *)
LEMMA MaskAdds ==
  ASSUME NEW x \in Nat, NEW n \in Nat, Mask(x) + n <= BlockLimit
  PROVE  Mask(x + n) = Mask(x) + n
<1>1. PICK k \in Nat : x = k * BlockSize + Mask(x)
  BY MaskIs
<1>2. Mask(x) \in Nat /\ BlockLimit \in Nat
  <2>1. Mask(x) \in 0..BlockLimit
    BY MaskIs
  <2> QED
    BY <2>1, Numbers
<1>3. Mask(x) + n \in 0..BlockLimit
  BY <1>2
<1>4. Mask(k * BlockSize + (Mask(x) + n)) = Mask(x) + n
  BY <1>3, MaskOf
<1>5. k * BlockSize \in Nat
  BY Numbers, Z3
<1>6. x + n = k * BlockSize + (Mask(x) + n)
  BY <1>1, <1>2, <1>5
<1> QED
  BY <1>4, <1>6

LEMMA RoundUpAdds ==
  ASSUME NEW x \in Nat, Mask(x) >= StartIdx
  PROVE  /\ RoundUp(x) = x - Mask(x) + BlockSize
         /\ RoundUp(x) \in Nat
         /\ Mask(RoundUp(x) + StartIdx) = StartIdx
<1>1. PICK k \in Nat : x = k * BlockSize + Mask(x)
  BY MaskIs
<1>2. Mask(x) \in StartIdx..BlockLimit
  <2>1. Mask(x) \in 0..BlockLimit
    BY MaskIs
  <2> QED
    BY <2>1, Numbers
<1>3. RoundUp(x) = (k + 1) * BlockSize
  <2>1. RoundUp(k * BlockSize + Mask(x)) = (k + 1) * BlockSize
    BY <1>2, RoundUpIs
  <2> QED
    BY <1>1, <2>1
<1>4. (k + 1) * BlockSize = k * BlockSize + BlockSize /\ k * BlockSize \in Nat
  BY Numbers, Z3
<1>5. Mask((k + 1) * BlockSize + StartIdx) = StartIdx
  <2>1. StartIdx \in 0..BlockLimit /\ k + 1 \in Nat
    BY Numbers
  <2> QED
    BY <2>1, MaskOf
<1>6. x - Mask(x) + BlockSize = (k + 1) * BlockSize
  BY <1>1, <1>2, <1>4, Numbers
<1> QED
  BY <1>3, <1>4, <1>5, <1>6, Numbers

------------------------------------------------------------------------------
(* The types of the fields. *)
LEMMA Fields ==
  ASSUME Types
  PROVE  /\ \A w \in Writers :
              /\ wr[w].pc \in WriterPoints /\ wr[w].nr \in 0..MaxPush
              /\ wr[w].size \in Nat /\ wr[w].idx \in Nat
              /\ wr[w].block \in Blocks \union {Null} /\ wr[w].alloc \in Blocks \union {Null}
              /\ wr[w].outOfSpare \in BOOLEAN
         /\ \A r \in Readers :
              /\ rd[r].pc \in ReaderPoints /\ rd[r].idx \in Nat
              /\ rd[r].block \in Blocks \union {Null} /\ rd[r].old \in Blocks \union {Null}
              /\ rd[r].functor \in Functors \union {Null}
         /\ \A b \in Blocks :
              /\ blk[b].NextBlock \in Blocks \union {Null}
              /\ blk[b].ReadIdx \in StartIdx..BlockLimit
              /\ blk[b].ReadShared \in Int /\ blk[b].NbObjects \in Int
              /\ \A i \in Offsets :
                   /\ blk[b].place[i].functor \in Functors \union {Null}
                   /\ blk[b].place[i].ready \in BOOLEAN
<1>1. \A w \in Writers : wr[w] \in WriterRecords
  BY DEF Types
<1>2. \A r \in Readers : rd[r] \in ReaderRecords
  BY DEF Types
<1>3. \A b \in Blocks : blk[b] \in BlockRecords
  BY DEF Types
<1>4. \A b \in Blocks, i \in Offsets : blk[b].place[i] \in Places
  BY <1>3 DEF BlockRecords
<1>5. \A w \in Writers : wr[w].outOfSpare \in BOOLEAN
  BY <1>1, Zenon DEF WriterRecords
<1>6. \A b \in Blocks, i \in Offsets : blk[b].place[i].ready \in BOOLEAN
  BY <1>4, Zenon DEF Places
<1> QED
  BY <1>1, <1>2, <1>3, <1>4, <1>5, <1>6 DEF WriterRecords, ReaderRecords, BlockRecords, Places

(* The ways in which the steps change a thread's locals, and a block.       *)
LEMMA WriterShapes ==
  ASSUME Types, NEW w \in Writers, NEW p \in WriterPoints
  PROVE  /\ \A new \in WriterRecords : wr' = [wr EXCEPT ![w] = new] => wr' \in [Writers -> WriterRecords]
         /\ \A a \in Blocks \union {Null} : [wr[w] EXCEPT !.alloc = a, !.pc = p] \in WriterRecords
         /\ \A a \in Blocks \union {Null}, o \in BOOLEAN :
              [wr[w] EXCEPT !.alloc = a, !.outOfSpare = o, !.pc = p] \in WriterRecords
         /\ \A i \in Nat, b \in Blocks : [wr[w] EXCEPT !.idx = i, !.block = b, !.pc = p] \in WriterRecords
         /\ \A i \in Nat, b \in Blocks :
              [wr[w] EXCEPT !.idx = i, !.block = b, !.alloc = Null, !.pc = p] \in WriterRecords
         /\ \A k \in 0..MaxPush, n \in Nat :
              [wr[w] EXCEPT !.pc = p, !.nr = k, !.size = n] \in WriterRecords
         /\ Returned(w) \in WriterRecords /\ [Returned(w) EXCEPT !.pc = p] \in WriterRecords
         /\ wr' = [wr EXCEPT ![w].pc = p] => wr' \in [Writers -> WriterRecords]
<1>1. wr[w] \in WriterRecords /\ wr \in [Writers -> WriterRecords]
  BY DEF Types
<1>2. \A new \in WriterRecords : wr' = [wr EXCEPT ![w] = new] => wr' \in [Writers -> WriterRecords]
  BY <1>1 DEF WriterRecords
<1>3. \A a \in Blocks \union {Null} : [wr[w] EXCEPT !.alloc = a, !.pc = p] \in WriterRecords
  BY <1>1 DEF WriterRecords
<1>4. \A a \in Blocks \union {Null}, o \in BOOLEAN :
       [wr[w] EXCEPT !.alloc = a, !.outOfSpare = o, !.pc = p] \in WriterRecords
  BY <1>1 DEF WriterRecords
<1>5. \A i \in Nat, b \in Blocks : [wr[w] EXCEPT !.idx = i, !.block = b, !.pc = p] \in WriterRecords
  BY <1>1 DEF WriterRecords
<1>6. \A i \in Nat, b \in Blocks :
       [wr[w] EXCEPT !.idx = i, !.block = b, !.alloc = Null, !.pc = p] \in WriterRecords
  BY <1>1 DEF WriterRecords
<1>7. \A k \in 0..MaxPush, n \in Nat :
       [wr[w] EXCEPT !.pc = p, !.nr = k, !.size = n] \in WriterRecords
  BY <1>1 DEF WriterRecords
<1>8. wr' = [wr EXCEPT ![w].pc = p] => wr' \in [Writers -> WriterRecords]
  BY <1>1 DEF WriterRecords
<1>9. Returned(w) \in WriterRecords /\ [Returned(w) EXCEPT !.pc = p] \in WriterRecords
  BY <1>1, Zenon DEF WriterRecords, Returned, IdleWriter, WriterPoints
<1> QED
  BY <1>2, <1>3, <1>4, <1>5, <1>6, <1>7, <1>8, <1>9, Zenon

LEMMA ReaderShapes ==
  ASSUME Types, NEW r \in Readers, NEW p \in ReaderPoints
  PROVE  /\ \A new \in ReaderRecords : rd' = [rd EXCEPT ![r] = new] => rd' \in [Readers -> ReaderRecords]
         /\ \A b \in Blocks : [rd[r] EXCEPT !.block = b, !.pc = p] \in ReaderRecords
         /\ \A i \in Nat : [rd[r] EXCEPT !.idx = i, !.pc = p] \in ReaderRecords
         /\ \A f \in Functors \union {Null} : [rd[r] EXCEPT !.functor = f, !.pc = p] \in ReaderRecords
         /\ \A b \in Blocks, o \in Blocks \union {Null} :
              [rd[r] EXCEPT !.block = b, !.pc = p, !.old = o] \in ReaderRecords
         /\ [rd[r] EXCEPT !.old = Null, !.pc = p] \in ReaderRecords /\ IdleReader \in ReaderRecords
         /\ \A b \in Blocks : [IdleReader EXCEPT !.old = b, !.pc = p] \in ReaderRecords
         /\ rd' = [rd EXCEPT ![r].pc = p] => rd' \in [Readers -> ReaderRecords]
<1>1. rd[r] \in ReaderRecords /\ rd \in [Readers -> ReaderRecords]
  BY DEF Types
<1>2. \A new \in ReaderRecords : rd' = [rd EXCEPT ![r] = new] => rd' \in [Readers -> ReaderRecords]
  BY <1>1 DEF ReaderRecords, IdleReader
<1>3. \A b \in Blocks : [rd[r] EXCEPT !.block = b, !.pc = p] \in ReaderRecords
  BY <1>1 DEF ReaderRecords, IdleReader
<1>4. \A i \in Nat : [rd[r] EXCEPT !.idx = i, !.pc = p] \in ReaderRecords
  BY <1>1 DEF ReaderRecords, IdleReader
<1>5. \A f \in Functors \union {Null} : [rd[r] EXCEPT !.functor = f, !.pc = p] \in ReaderRecords
  BY <1>1 DEF ReaderRecords, IdleReader
<1>6. \A b \in Blocks, o \in Blocks \union {Null} :
       [rd[r] EXCEPT !.block = b, !.pc = p, !.old = o] \in ReaderRecords
  BY <1>1 DEF ReaderRecords, IdleReader
<1>7. [rd[r] EXCEPT !.old = Null, !.pc = p] \in ReaderRecords
  BY <1>1 DEF ReaderRecords, IdleReader
<1>10. IdleReader \in ReaderRecords
  BY DEF ReaderRecords, IdleReader, ReaderPoints
<1>8. \A b \in Blocks : [IdleReader EXCEPT !.old = b, !.pc = p] \in ReaderRecords
  BY <1>1 DEF ReaderRecords, IdleReader
<1>9. rd' = [rd EXCEPT ![r].pc = p] => rd' \in [Readers -> ReaderRecords]
  BY <1>1 DEF ReaderRecords, IdleReader
<1> QED
  BY <1>2, <1>3, <1>4, <1>5, <1>6, <1>7, <1>8, <1>9, <1>10, Zenon

LEMMA BlockShapes ==
  ASSUME Types, NEW b \in Blocks
  PROVE  /\ \A n \in Blocks \union {Null} : [blk EXCEPT ![b].NextBlock = n] \in [Blocks -> BlockRecords]
         /\ \A i \in StartIdx..BlockLimit : [blk EXCEPT ![b].ReadIdx = i] \in [Blocks -> BlockRecords]
         /\ \A n \in Int : [blk EXCEPT ![b].ReadShared = n] \in [Blocks -> BlockRecords]
         /\ \A c \in Blocks :
              [blk EXCEPT ![c].ReadShared = @ + 1, ![b].ReadShared = @ - 1] \in [Blocks -> BlockRecords]
         /\ \A n \in Int : [blk EXCEPT ![b].NbObjects = n] \in [Blocks -> BlockRecords]
         /\ \A f \in Functors, i \in Nat, n \in Int :
              [blk EXCEPT ![b].NbObjects = n, ![b].place[i].functor = f] \in [Blocks -> BlockRecords]
         /\ \A i \in Nat : [blk EXCEPT ![b].place[i].ready = TRUE] \in [Blocks -> BlockRecords]
<1>1. blk[b] \in BlockRecords /\ blk \in [Blocks -> BlockRecords]
  BY DEF Types
<1>2. \A n \in Blocks \union {Null} : [blk EXCEPT ![b].NextBlock = n] \in [Blocks -> BlockRecords]
  BY <1>1 DEF BlockRecords, Places
<1>3. \A i \in StartIdx..BlockLimit : [blk EXCEPT ![b].ReadIdx = i] \in [Blocks -> BlockRecords]
  BY <1>1 DEF BlockRecords, Places
<1>4. \A n \in Int : [blk EXCEPT ![b].ReadShared = n] \in [Blocks -> BlockRecords]
  BY <1>1 DEF BlockRecords, Places
<1>5. \A n \in Int : [blk EXCEPT ![b].NbObjects = n] \in [Blocks -> BlockRecords]
  BY <1>1 DEF BlockRecords, Places
<1>6. ASSUME NEW f \in Functors, NEW i \in Nat, NEW n \in Int
      PROVE  [blk EXCEPT ![b].NbObjects = n, ![b].place[i].functor = f] \in [Blocks -> BlockRecords]
  <2> DEFINE place == [blk[b].place EXCEPT ![i].functor = f]
             new   == [blk[b] EXCEPT !.NbObjects = n, !.place = place]
  <2>1. place \in [Offsets -> Places]
    BY <1>1 DEF BlockRecords, Places
  <2>2. new \in BlockRecords
    <3> HIDE DEF place
    <3> QED
      BY <1>1, <2>1 DEF BlockRecords
  <2>3. [blk EXCEPT ![b] = new] \in [Blocks -> BlockRecords]
    BY <1>1, <2>2
  <2>4. [blk EXCEPT ![b].NbObjects = n, ![b].place[i].functor = f] = [blk EXCEPT ![b] = new]
    BY <1>1 DEF BlockRecords
  <2> QED
    BY <2>3, <2>4
<1>7. ASSUME NEW i \in Nat
      PROVE  [blk EXCEPT ![b].place[i].ready = TRUE] \in [Blocks -> BlockRecords]
  <2> DEFINE place == [blk[b].place EXCEPT ![i].ready = TRUE]
             new   == [blk[b] EXCEPT !.place = place]
  <2>1. place \in [Offsets -> Places]
    BY <1>1 DEF BlockRecords, Places
  <2>2. new \in BlockRecords
    <3> HIDE DEF place
    <3> QED
      BY <1>1, <2>1 DEF BlockRecords
  <2>3. [blk EXCEPT ![b] = new] \in [Blocks -> BlockRecords]
    BY <1>1, <2>2
  <2>4. [blk EXCEPT ![b].place[i].ready = TRUE] = [blk EXCEPT ![b] = new]
    BY <1>1 DEF BlockRecords
  <2> QED
    BY <2>3, <2>4
<1>8. \A c \in Blocks :
        [blk EXCEPT ![c].ReadShared = @ + 1, ![b].ReadShared = @ - 1] \in [Blocks -> BlockRecords]
  BY <1>1 DEF BlockRecords
<1> QED
  BY <1>2, <1>3, <1>4, <1>5, <1>6, <1>7, <1>8

LEMMA WipedIsBlock == WipedBlock \in BlockRecords
BY Numbers DEF WipedBlock, BlockRecords, Places, EmptyPlace

LEMMA TypesOfWriters ==
  ASSUME IInv, NEW w \in Writers, Push(w) \/ WriterStep(w) PROVE Types'
<1> USE DEF IInv
<1>1. ASSUME Push(w) PROVE Types'
  <2>1. \A n \in Sizes : n \in Nat
    BY Numbers
  <2>2. wr[w].nr + 1 \in 0..MaxPush
    <3>1. wr[w].nr \in 0..MaxPush
      BY Fields
    <3>2. wr[w].nr < MaxPush
      BY <1>1, Zenon DEF Push
    <3> QED
      BY <3>1, <3>2, BoundsAssumption
  <2>3. wr' \in [Writers -> WriterRecords]
    <3>1. PICK n \in Sizes :
            wr' = [wr EXCEPT ![w] = [wr[w] EXCEPT !.pc = "lockShared", !.nr = @ + 1, !.size = n]]
      BY <1>1, Zenon DEF Push, WriterIn
    <3>2. [wr[w] EXCEPT !.pc = "lockShared", !.nr = wr[w].nr + 1, !.size = n] \in WriterRecords
      <4>1. "lockShared" \in WriterPoints
        BY DEF WriterPoints
      <4> QED
        BY <2>1, <2>2, <4>1, WriterShapes, Zenon
    <3> QED
      BY <3>1, <3>2, WriterShapes, Zenon DEF WriterPoints
  <2> QED
    BY <1>1, <2>1, <2>2, <2>3, Zenon
       DEF Push, WriterIn, WriterFrame, delVars, memory, indexVars, spareVars, swapVars,
           Types
<1>2. ASSUME WriterLockShared(w) PROVE Types'
  <2>1. wr' \in [Writers -> WriterRecords]
    BY <1>2, WriterShapes, Zenon
       DEF WriterLockShared, WriterGoto, WriterPoints
  <2> QED
    BY <1>2, <2>1
       DEF WriterLockShared, WriterGoto, WriterFrame, delVars, memory, indexVars,
           spareVars, Types
<1>3. ASSUME LoadPreWriteIdx(w) PROVE Types'
  <2>1. wr' \in [Writers -> WriterRecords]
    BY <1>3, WriterShapes, Fields, Zenon
       DEF LoadPreWriteIdx, WriterIn, WriterPoints, Types
  <2> QED
    BY <1>3, <2>1
       DEF LoadPreWriteIdx, WriterIn, WriterFrame, delVars, memory, indexVars, spareVars,
           swapVars, Types
<1>4. ASSUME CheckFit(w) PROVE Types'
  <2>1. wr' \in [Writers -> WriterRecords]
    BY <1>4, WriterShapes, Zenon
       DEF CheckFit, WriterGoto, WriterPoints
  <2> QED
    BY <1>4, <2>1
       DEF CheckFit, WriterGoto, WriterFrame, delVars, memory, indexVars, spareVars,
           swapVars, Types
<1>5. ASSUME TryPartialLock(w) PROVE Types'
  <2>1. wr' \in [Writers -> WriterRecords]
    BY <1>5, WriterShapes, Zenon
       DEF TryPartialLock, WriterGoto, WriterPoints
  <2> QED
    BY <1>5, <2>1
       DEF TryPartialLock, WriterGoto, WriterFrame, delVars, swapVars, memory, indexVars,
           spareVars, Types
<1>6. ASSUME BackOff(w) PROVE Types'
  <2>1. wr' \in [Writers -> WriterRecords]
    BY <1>6, WriterShapes, Zenon
       DEF BackOff, WriterGoto, WriterPoints
  <2> QED
    BY <1>6, <2>1
       DEF BackOff, WriterGoto, WriterFrame, delVars, memory, indexVars, spareVars, Types
<1>7. ASSUME DropShare(w) PROVE Types'
  <2>1. wr' \in [Writers -> WriterRecords]
    BY <1>7, WriterShapes, Zenon
       DEF DropShare, WriterGoto, WriterPoints
  <2> QED
    BY <1>7, <2>1
       DEF DropShare, WriterGoto, WriterFrame, delVars, memory, indexVars, spareVars, Types
<1>8. ASSUME TakeSpareA(w) PROVE Types'
  <2>1. wr' \in [Writers -> WriterRecords]
    BY <1>8, WriterShapes, Fields, Zenon
       DEF TakeSpareA, WriterIn, WriterPoints, Types
  <2> QED
    BY <1>8, <2>1
       DEF TakeSpareA, WriterIn, WriterFrame, delVars, memory, indexVars, swapVars, Types
<1>9. ASSUME TakeSpareB(w) PROVE Types'
  <2>1. wr' \in [Writers -> WriterRecords]
    BY <1>9, WriterShapes, Fields, Zenon
       DEF TakeSpareB, WriterIn, WriterPoints, Types
  <2> QED
    BY <1>9, <2>1
       DEF TakeSpareB, WriterIn, WriterFrame, delVars, memory, indexVars, swapVars, Types
<1>10. ASSUME MallocBlock(w) PROVE Types'
  <2>1. wr' \in [Writers -> WriterRecords]
    BY <1>10, WriterShapes, Zenon
       DEF MallocBlock, Malloc, WriterIn, MallocFails, WriterGoto, DowngradeSwap,
           WriterPoints, Types
  <2> QED
    BY <1>10, <2>1, Zenon
       DEF MallocBlock, Malloc, WriterIn, WriterFrame, delVars, swapVars, MallocFails,
           WriterGoto, DowngradeSwap, indexVars, spareVars, Types
<1>11. ASSUME Drain(w) PROVE Types'
  <2>1. wr' \in [Writers -> WriterRecords]
    BY <1>11, WriterShapes, Zenon
       DEF Drain, WriterGoto, WriterPoints
  <2> QED
    BY <1>11, <2>1
       DEF Drain, WriterGoto, WriterFrame, delVars, memory, indexVars, spareVars, Types
<1>12. ASSUME AppendBlock(w) PROVE Types'
  <2>1. /\ RoundUp(wr[w].idx) + StartIdx \in Nat
        /\ RoundUp(wr[w].idx) + StartIdx + wr[w].size \in Nat
        /\ wr[w].alloc \in Blocks /\ wr[w].block \in Blocks
    <3>1. wr[w].idx \in Nat /\ Mask(wr[w].idx) >= StartIdx /\ wr[w].size \in Nat
          /\ wr[w].block = WriteBlock /\ wr[w].alloc # Null
          /\ wr[w].alloc \in Blocks \union {Null}
      BY <1>12, Fields DEF AppendBlock, WriterIn, WriterLocals, WriterView, LoadedPoints
    <3>2. RoundUp(wr[w].idx) \in Nat
      BY <3>1, RoundUpAdds
    <3>3. StartIdx \in Nat
      BY Numbers
    <3>4. wr[w].alloc \in Blocks /\ wr[w].block \in Blocks
      BY <3>1 DEF Types
    <3> QED
      BY <3>1, <3>2, <3>3, <3>4
  <2>2. wr' \in [Writers -> WriterRecords]
    BY <1>12, <2>1, WriterShapes, Zenon DEF AppendBlock, WriterIn, WriterPoints
  <2>3. blk' \in [Blocks -> BlockRecords]
    BY <1>12, <2>1, BlockShapes DEF AppendBlock
  <2> QED
    BY <1>12, <2>1, <2>2, <2>3
       DEF AppendBlock, WriterIn, WriterFrame, delVars, spareVars, swapVars, Types
<1>13. ASSUME Downgrade(w) PROVE Types'
  <2>1. wr' \in [Writers -> WriterRecords]
    BY <1>13, WriterShapes, Zenon
       DEF Downgrade, WriterGoto, DowngradeSwap, WriterPoints
  <2> QED
    BY <1>13, <2>1
       DEF Downgrade, WriterGoto, WriterFrame, delVars, DowngradeSwap, memory, indexVars,
           spareVars, Types
<1>14. ASSUME CompareExchangePreWriteIdx(w) PROVE Types'
  <2>1. wr' \in [Writers -> WriterRecords]
    BY <1>14, WriterShapes, Zenon DEF CompareExchangePreWriteIdx, WriterGoto, WriterPoints
  <2>2. wr[w].idx + wr[w].size \in Nat
    BY Fields
  <2> QED
    BY <1>14, <2>1, <2>2
       DEF CompareExchangePreWriteIdx, WriterGoto, WriterFrame, delVars, memory, spareVars,
           swapVars, Types
<1>15. ASSUME Construct(w) PROVE Types'
  <2>1. wr[w].block \in Blocks /\ wr[w].size \in Sizes /\ wr[w].nr \in 1..MaxPush
    <3>1. wr[w].pc = "construct"
      BY <1>15 DEF Construct, WriterGoto
    <3> QED
      BY <3>1 DEF WriterLocals, WriterView, LoadedPoints, Types
  <2>2. /\ \A ok \in BOOLEAN : Pushed(w, ok) \in Functors
        /\ blk[wr[w].block].NbObjects + 1 \in Int
        /\ Mask(wr[w].idx) \in Nat
    <3>1. \A ok \in BOOLEAN : Pushed(w, ok) \in Functors
      BY <2>1, Zenon DEF Pushed, Functors
    <3>2. blk[wr[w].block].NbObjects \in Int /\ wr[w].idx \in Nat
      BY <2>1, Fields
    <3>3. Mask(wr[w].idx) \in 0..BlockLimit
      BY <3>2, MaskIs
    <3> QED
      BY <3>1, <3>2, <3>3, Numbers
  <2>3. wr' \in [Writers -> WriterRecords]
    BY <1>15, WriterShapes, ZenonT(30) DEF Construct, WriterGoto, WriterPoints
  <2>4. blk' \in [Blocks -> BlockRecords]
    <3>1. PICK ok \in BOOLEAN :
            blk' = [blk EXCEPT ![wr[w].block].NbObjects = @ + 1,
                               ![wr[w].block].place[Mask(wr[w].idx)].functor = Pushed(w, ok)]
      BY <1>15, Zenon DEF Construct
    <3>2. Pushed(w, ok) \in Functors
      BY <2>2
    <3> HIDE DEF Pushed
    <3> QED
      BY <2>1, <2>2, <3>1, <3>2, BlockShapes
  <2> QED
    BY <1>15, <2>1, <2>2, <2>3, <2>4
       DEF Construct, WriterGoto, WriterFrame, delVars, indexVars, spareVars, swapVars,
           Types
<1>16. ASSUME Commit(w) PROVE Types'
  <2>1. wr[w].block \in Blocks /\ Mask(wr[w].idx) \in Nat
    <3>1. wr[w].pc = "commit" /\ wr[w].idx \in Nat
      BY <1>16, Fields DEF Commit, WriterGoto
    <3>2. Mask(wr[w].idx) \in 0..BlockLimit
      BY <3>1, MaskIs
    <3>3. wr[w].block \in Blocks
      BY <3>1 DEF WriterView, LoadedPoints, Types
    <3> QED
      BY <3>2, <3>3, Numbers, SMTT(20)
  <2>2. wr' \in [Writers -> WriterRecords]
    BY <1>16, WriterShapes, ZenonT(30) DEF Commit, WriterGoto, WriterPoints
  <2>3. blk' \in [Blocks -> BlockRecords]
    BY <1>16, <2>1, BlockShapes DEF Commit
  <2> QED
    BY <1>16, <2>1, <2>2, <2>3
       DEF Commit, WriterGoto, WriterFrame, delVars, indexVars, spareVars, swapVars, Types
<1>17. ASSUME WriterUnlockShared(w) PROVE Types'
  <2>1. wr' \in [Writers -> WriterRecords]
    BY <1>17, WriterShapes, Zenon
       DEF WriterUnlockShared, WriterIn, WriterPoints
  <2> QED
    BY <1>17, <2>1
       DEF WriterUnlockShared, WriterIn, WriterFrame, delVars, memory, indexVars,
           spareVars, Types
<1>18. ASSUME Refill(w) PROVE Types'
  <2>1. wr' \in [Writers -> WriterRecords]
    BY <1>18, WriterShapes, Zenon DEF Refill, WriterIn, WriterPoints, Malloc
  <2> QED
    BY <1>18, <2>1, Zenon
       DEF Refill, MallocFails, WriterIn, WriterFrame, delVars, Malloc, indexVars,
           spareVars, swapVars, Types
<1>19. ASSUME RefillB(w) PROVE Types'
  <2>1. wr' \in [Writers -> WriterRecords]
    BY <1>19, WriterShapes, Zenon DEF RefillB, WriterIn, WriterGoto, WriterPoints
  <2>2. wr[w].alloc \in Blocks \union {Null}
    BY Fields
  <2> QED
    BY <1>19, <2>1, <2>2
       DEF RefillB, WriterIn, WriterFrame, delVars, WriterGoto, memory, indexVars,
           swapVars, Types
<1>20. ASSUME RefillA(w) PROVE Types'
  <2>1. wr' \in [Writers -> WriterRecords]
    BY <1>20, WriterShapes, Zenon DEF RefillA, WriterIn, WriterPoints
  <2>2. wr[w].alloc \in Blocks \union {Null}
    BY Fields
  <2>3. blk' \in [Blocks -> BlockRecords]
    BY <1>20, WipedIsBlock DEF RefillA, Free, memory, Types
  <2> QED
    BY <1>20, <2>1, <2>2, <2>3
       DEF RefillA, WriterIn, WriterFrame, delVars, memory, Free, indexVars, swapVars, Types
<1> QED
  BY <1>1, <1>2, <1>3, <1>4, <1>5, <1>6, <1>7, <1>8, <1>9, <1>10, <1>11, <1>12, <1>13, <1>14,
     <1>15, <1>16, <1>17, <1>18, <1>19, <1>20 DEF WriterStep

LEMMA TypesOfReaders ==
  ASSUME IInv, NEW r \in Readers, Pop(r) \/ ReaderStep(r) PROVE Types'
<1> USE DEF IInv
<1>1. ASSUME Pop(r) PROVE Types'
  <2>1. rd' \in [Readers -> ReaderRecords]
    BY <1>1, ReaderShapes, Zenon
       DEF Pop, ReaderGoto, ReaderPoints, PinnedAt
  <2> QED
    BY <1>1, <2>1
       DEF Pop, ReaderGoto, ReaderFrame, indexVars, swapVars, memory, spareVars, delVars,
           Types
<1>2. ASSUME EnterBlock(r) PROVE Types'
  <2>1. rd' \in [Readers -> ReaderRecords]
    BY <1>2, ReaderShapes, Fields, Zenon
       DEF EnterBlock, ReaderIn, ReaderPoints, PinnedAt, Types
  <2> QED
    BY <1>2, <2>1
       DEF EnterBlock, ReaderIn, ReaderFrame, indexVars, swapVars, memory, spareVars, Types
<1>3. ASSUME PinBlock(r) PROVE Types'
  <2>1. rd[r].block \in Blocks /\ blk[rd[r].block].ReadShared + 1 \in Int
    BY <1>3, Fields DEF PinBlock, ReaderGoto, ReaderLocals
  <2>2. rd' \in [Readers -> ReaderRecords]
    BY <1>3, ReaderShapes, Zenon DEF PinBlock, ReaderGoto, ReaderPoints, PinnedAt
  <2>3. blk' \in [Blocks -> BlockRecords]
    BY <1>3, <2>1, BlockShapes DEF PinBlock
  <2> QED
    BY <1>3, <2>1, <2>2, <2>3
       DEF PinBlock, ReaderGoto, ReaderFrame, indexVars, swapVars, spareVars, Types
<1>4. ASSUME LoadReadIdx(r) PROVE Types'
  <2>1. blk[rd[r].block].ReadIdx \in Nat
    BY <1>4, Fields, Numbers DEF LoadReadIdx, ReaderIn, ReaderLocals
  <2>2. rd' \in [Readers -> ReaderRecords]
    BY <1>4, <2>1, ReaderShapes, Zenon DEF LoadReadIdx, ReaderIn, ReaderPoints, PinnedAt
  <2> QED
    BY <1>4, <2>1, <2>2
       DEF LoadReadIdx, ReaderIn, ReaderFrame, indexVars, swapVars, memory, spareVars,
           delVars, Types
<1>5. ASSUME CheckReady(r) PROVE Types'
  <2>1. rd' \in [Readers -> ReaderRecords]
    BY <1>5, ReaderShapes, Zenon
       DEF CheckReady, ReaderGoto, ReaderPoints, PinnedAt
  <2> QED
    BY <1>5, <2>1
       DEF CheckReady, ReaderGoto, ReaderFrame, indexVars, swapVars, memory, spareVars,
           delVars, Types
<1>6. ASSUME CheckNext(r) PROVE Types'
  <2>1. rd' \in [Readers -> ReaderRecords]
    BY <1>6, ReaderShapes, Zenon
       DEF CheckNext, ReaderGoto, ReaderPoints, PinnedAt
  <2> QED
    BY <1>6, <2>1
       DEF CheckNext, ReaderGoto, ReaderFrame, indexVars, swapVars, memory, spareVars,
           delVars, Types
<1>7. ASSUME RecheckReady(r) PROVE Types'
  <2>1. rd' \in [Readers -> ReaderRecords]
    BY <1>7, ReaderShapes, Zenon
       DEF RecheckReady, ReaderGoto, ReaderPoints, PinnedAt
  <2> QED
    BY <1>7, <2>1
       DEF RecheckReady, ReaderGoto, ReaderFrame, indexVars, swapVars, memory, spareVars,
           delVars, Types
<1>8. ASSUME ReaderLock(r) PROVE Types'
  <2>1. rd' \in [Readers -> ReaderRecords]
    BY <1>8, ReaderShapes, Zenon
       DEF ReaderLock, ReaderGoto, ReaderPoints, PinnedAt
  <2> QED
    BY <1>8, <2>1
       DEF ReaderLock, ReaderGoto, ReaderFrame, indexVars, swapVars, memory, spareVars,
           Types
<1>9. ASSUME ReaderLockDrain(r) PROVE Types'
  <2>1. rd' \in [Readers -> ReaderRecords]
    BY <1>9, ReaderShapes, Zenon
       DEF ReaderLockDrain, ReaderGoto, ReaderPoints, PinnedAt
  <2> QED
    BY <1>9, <2>1
       DEF ReaderLockDrain, ReaderGoto, ReaderFrame, indexVars, swapVars, memory,
           spareVars, Types
<1>10. ASSUME Advance(r) PROVE Types'
  <2>1. rd[r].block \in Blocks /\ NextReadBlock(r) \in Blocks
    <3>1. rd[r].block \in Blocks /\ blk[rd[r].block].NextBlock # Null
      BY <1>10, Fields DEF Advance, AdvanceTo, ReaderIn, ReaderLocals, InUseInv, UsedUp,
         ReleasedIsIdle
    <3>2. ReadBlock \in Blocks
      BY DEF Types
    <3>3. blk[rd[r].block].NextBlock \in Blocks
      BY <3>1, Fields
    <3> QED
      BY <3>1, <3>2, <3>3 DEF NextReadBlock
  <2>2. rd' \in [Readers -> ReaderRecords]
    BY <1>10, <2>1, ReaderShapes, Zenon DEF Advance, AdvanceTo, ReaderIn, ReaderPoints, PinnedAt
  <2>3. blk' \in [Blocks -> BlockRecords]
    BY <1>10, <2>1, BlockShapes DEF Advance, AdvanceTo
  <2> QED
    BY <1>10, <2>1, <2>2, <2>3
       DEF Advance, AdvanceTo, ReaderIn, ReaderFrame, indexVars, swapVars, spareVars, Types
<1>11. ASSUME RecycleB(r) PROVE Types'
  <2>1. Recycled(r) \in ReaderRecords
    BY <1>11, ReaderShapes, Zenon DEF Recycled, ReaderPoints, PinnedAt
  <2>2. rd' \in [Readers -> ReaderRecords]
    BY <1>11, <2>1, ReaderShapes, Zenon DEF RecycleB, OfferSpareB, ReaderIn, ReaderGoto,
       ReaderPoints, PinnedAt
  <2>3. blk' \in [Blocks -> BlockRecords] /\ rd[r].old \in Blocks \union {Null}
    BY <1>11, Fields, WipedIsBlock DEF RecycleB, Types
  <2> QED
    BY <1>11, <2>1, <2>2, <2>3
       DEF RecycleB, OfferSpareB, ReaderIn, ReaderFrame, indexVars, swapVars, ReaderGoto,
           delVars, Types
<1>12. ASSUME RecycleA(r) PROVE Types'
  <2>1. Recycled(r) \in ReaderRecords
    BY <1>12, ReaderShapes DEF Recycled, ReaderPoints, PinnedAt
  <2>2. rd' \in [Readers -> ReaderRecords]
    BY <1>12, <2>1, ReaderShapes, Zenon DEF RecycleA, ReaderIn, ReaderPoints
  <2>3. blk' \in [Blocks -> BlockRecords] /\ rd[r].old \in Blocks \union {Null}
    BY <1>12, Fields, WipedIsBlock, SMTT(20) DEF RecycleA, Free, memory, Types
  <2> QED
    BY <1>12, <2>1, <2>2, <2>3
       DEF RecycleA, ReaderIn, ReaderFrame, indexVars, swapVars, memory, Free, delVars,
           Types
<1>13. ASSUME CompareExchangeReadIdx(r) PROVE Types'
  <2>1. rd[r].block \in Blocks /\ rd[r].idx \in ReadyAt(rd[r].block)
    BY <1>13, Fields, ZenonT(30) DEF CompareExchangeReadIdx, ReaderLocals, ReadersFollow, ReadPoints
  <2>2. /\ blk[rd[r].block].place[rd[r].idx].functor \in Functors
        /\ rd[r].idx + blk[rd[r].block].place[rd[r].idx].functor.size \in StartIdx..BlockLimit
        /\ blk[rd[r].block].ReadIdx \in Nat
    <3>1. /\ blk[rd[r].block].place[rd[r].idx].functor \in Functors
          /\ rd[r].idx + Size(rd[r].block, rd[r].idx) <= BlockLimit
      BY <2>1, SMTT(20) DEF ReadyApart
    <3>2. rd[r].idx \in 1..Capacity /\ Size(rd[r].block, rd[r].idx) \in 1..Capacity
      BY <2>1, <3>1, Numbers DEF ReadyAt, Functors, Size
    <3>3. blk[rd[r].block].ReadIdx \in StartIdx..BlockLimit
      BY <2>1, Fields
    <3>4. rd[r].idx + Size(rd[r].block, rd[r].idx) \in StartIdx..BlockLimit /\ blk[rd[r].block].ReadIdx \in Nat
      BY <3>1, <3>2, <3>3, Numbers
    <3> QED
      BY <3>1, <3>4 DEF Size
  <2>3. rd' \in [Readers -> ReaderRecords]
    BY <1>13, <2>2, ReaderShapes, Zenon DEF CompareExchangeReadIdx, ReaderIn, ReaderPoints, PinnedAt
  <2>4. blk' \in [Blocks -> BlockRecords]
    <3>1. \/ blk' = blk
          \/ blk' = [blk EXCEPT ![rd[r].block].ReadIdx =
                       rd[r].idx + blk[rd[r].block].place[rd[r].idx].functor.size]
      BY <1>13 DEF CompareExchangeReadIdx
    <3>2. blk \in [Blocks -> BlockRecords]
      BY DEF Types
    <3> DEFINE next == rd[r].idx + blk[rd[r].block].place[rd[r].idx].functor.size
    <3>3. [blk EXCEPT ![rd[r].block].ReadIdx = next] \in [Blocks -> BlockRecords]
      <4> HIDE DEF next
      <4>1. next \in StartIdx..BlockLimit
        BY <2>2 DEF next
      <4> QED
        BY <2>1, <4>1, BlockShapes, SMTT(20)
    <3> QED
      BY <3>1, <3>2, <3>3
  <2> QED
    BY <1>13, <2>1, <2>2, <2>3, <2>4
       DEF CompareExchangeReadIdx, ReaderIn, ReaderFrame, indexVars, swapVars, spareVars,
           delVars, Types
<1>14. ASSUME CallAndDestroy(r) PROVE Types'
  <2>1. rd[r].block \in Blocks /\ blk[rd[r].block].NbObjects - 1 \in Int
    BY <1>14, Fields DEF CallAndDestroy, ReaderIn, ReaderLocals
  <2>2. rd' \in [Readers -> ReaderRecords]
    BY <1>14, ReaderShapes, Zenon DEF CallAndDestroy, ReaderIn, ReaderPoints, PinnedAt
  <2>3. blk' \in [Blocks -> BlockRecords]
    BY <1>14, <2>1, BlockShapes DEF CallAndDestroy
  <2> QED
    BY <1>14, <2>1, <2>2, <2>3
       DEF CallAndDestroy, ReaderIn, ReaderFrame, indexVars, swapVars, spareVars, delVars,
           Types
<1>15. ASSUME Leave(r) PROVE Types'
  <2>1. rd[r].block \in Blocks /\ blk[rd[r].block].ReadShared - 1 \in Int
    BY <1>15, Fields DEF Leave, LeaveBlock, ReaderIn, ReaderLocals
  <2>2. rd' \in [Readers -> ReaderRecords]
    BY <1>15, <2>1, ReaderShapes, Zenon DEF Leave, LeaveBlock, ReaderIn, ReaderPoints, PinnedAt
  <2>3. blk' \in [Blocks -> BlockRecords]
    BY <1>15, <2>1, BlockShapes DEF Leave, LeaveBlock
  <2> QED
    BY <1>15, <2>1, <2>2, <2>3
       DEF Leave, LeaveBlock, ReaderIn, ReaderFrame, indexVars, swapVars, spareVars,
           delVars, Types
<1> QED
  BY <1>1, <1>2, <1>3, <1>4, <1>5, <1>6, <1>7, <1>8, <1>9, <1>10, <1>11, <1>12, <1>13, <1>14,
     <1>15 DEF ReaderStep

------------------------------------------------------------------------------
(* The steps, field by field. *)
SamePush(w) == wr'[w].nr = wr[w].nr /\ wr'[w].size = wr[w].size
SameIndex(w) == wr'[w].idx = wr[w].idx /\ wr'[w].block = wr[w].block
SameAlloc(w) == wr'[w].alloc = wr[w].alloc

SameBlock(r) == rd'[r].block = rd[r].block
SameIdx(r) == rd'[r].idx = rd[r].idx
SameOld(r) == rd'[r].old = rd[r].old
SameFunctor(r) == rd'[r].functor = rd[r].functor

IsRecycled(r) ==
  /\ rd'[r].old = Null /\ SameBlock(r)
  /\ IF rd[r].block = Null
     THEN rd'[r].pc = "idle" /\ rd'[r].functor = Null
     ELSE rd'[r].pc = "checkReady" /\ SameIdx(r) /\ SameFunctor(r)

LEMMA PushIs ==
  ASSUME Types, NEW w \in Writers, Push(w)
  PROVE  /\ wr[w].pc = "idle"
         /\ wr'[w].pc = "lockShared"
         /\ wr[w].nr < MaxPush /\ wr'[w].nr = wr[w].nr + 1 /\ wr'[w].size \in Sizes
         /\ SameIndex(w)
         /\ SameAlloc(w)
         /\ UNCHANGED <<heap, blk, WriteBlock, PreWriteIdx, SpareBlockA, SpareBlockB,
                        swapSharers, swapClaims, swapExclusive>>
<1>1. wr[w] \in WriterRecords /\ wr \in [Writers -> WriterRecords]
  BY DEF Types
<1> QED
  BY <1>1
     DEF Push, WriterIn, delVars, memory, indexVars, spareVars, swapVars, SamePush,
         SameIndex, SameAlloc, WriterRecords

LEMMA WriterLockSharedIs ==
  ASSUME Types, NEW w \in Writers, WriterLockShared(w)
  PROVE  /\ wr[w].pc = "lockShared"
         /\ wr'[w].pc = "loadIdx"
         /\ SamePush(w)
         /\ SameIndex(w)
         /\ SameAlloc(w)
         /\ w \notin swapSharers /\ swapClaims \subseteq {w}
         /\ swapSharers' = swapSharers \union {w} /\ swapClaims' = swapClaims
         /\ swapExclusive' = swapExclusive \ {w}
         /\ UNCHANGED <<heap, blk, WriteBlock, PreWriteIdx, SpareBlockA, SpareBlockB>>
<1>1. wr[w] \in WriterRecords /\ wr \in [Writers -> WriterRecords]
  BY DEF Types
<1> QED
  BY <1>1
     DEF WriterLockShared, WriterGoto, delVars, Swap!Share, memory, indexVars, spareVars,
         SamePush, SameIndex, SameAlloc, WriterRecords

LEMMA LoadPreWriteIdxIs ==
  ASSUME Types, NEW w \in Writers, LoadPreWriteIdx(w)
  PROVE  /\ wr[w].pc = "loadIdx"
         /\ wr'[w].pc = "checkFit"
         /\ SamePush(w)
         /\ wr'[w].idx = PreWriteIdx /\ wr'[w].block = WriteBlock
         /\ SameAlloc(w)
         /\ UNCHANGED <<heap, blk, WriteBlock, PreWriteIdx, SpareBlockA, SpareBlockB,
                        swapSharers, swapClaims, swapExclusive>>
<1>1. wr[w] \in WriterRecords /\ wr \in [Writers -> WriterRecords]
  BY DEF Types
<1> QED
  BY <1>1
     DEF LoadPreWriteIdx, WriterIn, delVars, memory, indexVars, spareVars, swapVars,
         SamePush, SameIndex, SameAlloc, WriterRecords

LEMMA CheckFitIs ==
  ASSUME Types, NEW w \in Writers, CheckFit(w)
  PROVE  /\ wr[w].pc = "checkFit"
         /\ \/ wr'[w].pc = "tryPartialLock"
            \/ wr'[w].pc = "compareExchange" /\ ~Full(w)
         /\ SamePush(w)
         /\ SameIndex(w)
         /\ SameAlloc(w)
         /\ UNCHANGED <<heap, blk, WriteBlock, PreWriteIdx, SpareBlockA, SpareBlockB,
                        swapSharers, swapClaims, swapExclusive>>
<1>1. wr[w] \in WriterRecords /\ wr \in [Writers -> WriterRecords]
  BY DEF Types
<1>2. CASE Full(w) \/ swapClaims # {}
  <2>1. WriterGoto(w, "checkFit", "tryPartialLock") /\ UNCHANGED <<heap, blk, indexVars, spareVars, swapVars>>
    BY <1>2 DEF CheckFit, delVars, memory, indexVars, spareVars, swapVars
  <2> QED
    BY <1>1, <2>1
       DEF indexVars, spareVars, swapVars, WriterGoto, SamePush, SameIndex, SameAlloc, WriterRecords
<1>3. CASE ~(Full(w) \/ swapClaims # {})
  <2>1. WriterGoto(w, "checkFit", "compareExchange") /\ UNCHANGED <<heap, blk, indexVars, spareVars, swapVars>>
    BY <1>3 DEF CheckFit, delVars, memory, indexVars, spareVars, swapVars
  <2> QED
    BY <1>1, <1>3, <2>1
       DEF indexVars, spareVars, swapVars, WriterGoto, SamePush, SameIndex, SameAlloc, WriterRecords
<1> QED
  BY <1>2, <1>3

LEMMA TryPartialLockIs ==
  ASSUME Types, NEW w \in Writers, TryPartialLock(w)
  PROVE  /\ wr[w].pc = "tryPartialLock"
         /\ \/ /\ wr'[w].pc = "dropShare" /\ swapClaims = {} /\ swapClaims' = {w}
               /\ UNCHANGED <<swapSharers, swapExclusive>>
            \/ /\ wr'[w].pc = "backOff"
               /\ UNCHANGED <<swapSharers, swapClaims, swapExclusive>>
         /\ SamePush(w)
         /\ SameIndex(w)
         /\ SameAlloc(w)
         /\ UNCHANGED <<heap, blk, WriteBlock, PreWriteIdx, SpareBlockA, SpareBlockB>>
<1>1. wr[w] \in WriterRecords /\ wr \in [Writers -> WriterRecords]
  BY DEF Types
<1> QED
  BY <1>1
     DEF TryPartialLock, WriterGoto, delVars, Swap!Claim, swapVars, memory, indexVars,
         spareVars, SamePush, SameIndex, SameAlloc, WriterRecords

LEMMA BackOffIs ==
  ASSUME Types, NEW w \in Writers, BackOff(w)
  PROVE  /\ wr[w].pc = "backOff"
         /\ wr'[w].pc = "lockShared"
         /\ SamePush(w)
         /\ SameIndex(w)
         /\ SameAlloc(w)
         /\ w \in swapSharers
         /\ swapSharers' = swapSharers \ {w}
         /\ UNCHANGED <<swapClaims, swapExclusive, heap, blk, WriteBlock, PreWriteIdx,
                        SpareBlockA, SpareBlockB>>
<1>1. wr[w] \in WriterRecords /\ wr \in [Writers -> WriterRecords]
  BY DEF Types
<1> QED
  BY <1>1
     DEF BackOff, WriterGoto, delVars, Swap!Unshare, memory, indexVars, spareVars,
         SamePush, SameIndex, SameAlloc, WriterRecords

LEMMA DropShareIs ==
  ASSUME Types, NEW w \in Writers, DropShare(w)
  PROVE  /\ wr[w].pc = "dropShare"
         /\ wr'[w].pc = "takeSpareA"
         /\ SamePush(w)
         /\ SameIndex(w)
         /\ SameAlloc(w)
         /\ w \in swapSharers
         /\ swapSharers' = swapSharers \ {w}
         /\ UNCHANGED <<swapClaims, swapExclusive, heap, blk, WriteBlock, PreWriteIdx,
                        SpareBlockA, SpareBlockB>>
<1>1. wr[w] \in WriterRecords /\ wr \in [Writers -> WriterRecords]
  BY DEF Types
<1> QED
  BY <1>1
     DEF DropShare, WriterGoto, delVars, Swap!Unshare, memory, indexVars, spareVars,
         SamePush, SameIndex, SameAlloc, WriterRecords

LEMMA TakeSpareAIs ==
  ASSUME Types, NEW w \in Writers, TakeSpareA(w)
  PROVE  /\ wr[w].pc = "takeSpareA"
         /\ wr'[w].pc = IF SpareBlockA = Null THEN "takeSpareB" ELSE "drain"
         /\ SamePush(w)
         /\ SameIndex(w)
         /\ wr'[w].alloc = SpareBlockA /\ SpareBlockA' = Null /\ SpareBlockB' = SpareBlockB
         /\ UNCHANGED <<heap, blk, WriteBlock, PreWriteIdx, swapSharers, swapClaims,
                        swapExclusive>>
<1>1. wr[w] \in WriterRecords /\ wr \in [Writers -> WriterRecords]
  BY DEF Types
<1> QED
  BY <1>1
     DEF TakeSpareA, WriterIn, delVars, memory, indexVars, swapVars, SamePush, SameIndex,
         SameAlloc, WriterRecords

LEMMA TakeSpareBIs ==
  ASSUME Types, NEW w \in Writers, TakeSpareB(w)
  PROVE  /\ wr[w].pc = "takeSpareB"
         /\ wr'[w].pc = IF SpareBlockB = Null THEN "malloc" ELSE "drain"
         /\ SamePush(w)
         /\ SameIndex(w)
         /\ wr'[w].alloc = SpareBlockB /\ SpareBlockB' = Null /\ SpareBlockA' = SpareBlockA
         /\ UNCHANGED <<heap, blk, WriteBlock, PreWriteIdx, swapSharers, swapClaims,
                        swapExclusive>>
<1>1. wr[w] \in WriterRecords /\ wr \in [Writers -> WriterRecords]
  BY DEF Types
<1> QED
  BY <1>1
     DEF TakeSpareB, WriterIn, delVars, memory, indexVars, swapVars, SamePush, SameIndex,
         SameAlloc, WriterRecords

LEMMA MallocBlockIs ==
  ASSUME Types, NEW w \in Writers, MallocBlock(w)
  PROVE  /\ wr[w].pc = "malloc"
         /\ \/ /\ wr'[w].pc = "drain"
               /\ wr'[w].alloc \in Blocks \ heap /\ heap' = heap \union {wr'[w].alloc}
               /\ UNCHANGED <<swapSharers, swapClaims, swapExclusive>>
            \/ /\ wr'[w].pc = "unlockShared" /\ SameAlloc(w) /\ heap' = heap
               /\ swapSharers' = swapSharers \union {w} /\ swapClaims' = swapClaims \ {w} /\ swapExclusive' = swapExclusive \ {w}
         /\ SamePush(w)
         /\ SameIndex(w)
         /\ UNCHANGED <<WriteBlock, PreWriteIdx, SpareBlockA, SpareBlockB, blk>>
<1>1. wr[w] \in WriterRecords /\ wr \in [Writers -> WriterRecords]
  BY DEF Types
<1>2. ASSUME NEW b \in Blocks, Malloc(b), UNCHANGED <<swapSharers, swapClaims, swapExclusive>>,
             WriterIn(w, "malloc", [wr[w] EXCEPT !.alloc = b, !.pc = "drain"])
      PROVE  /\ wr[w].pc = "malloc" /\ wr'[w].pc = "drain"
             /\ wr'[w].alloc \in Blocks \ heap /\ heap' = heap \union {wr'[w].alloc}
             /\ SamePush(w) /\ SameIndex(w)
  BY <1>1, <1>2 DEF Malloc, WriterIn, SamePush, SameIndex, WriterRecords
<1>3. ASSUME MallocFails, WriterGoto(w, "malloc", "unlockShared"), DowngradeSwap(w)
      PROVE  /\ wr[w].pc = "malloc" /\ wr'[w].pc = "unlockShared" /\ heap' = heap
             /\ SamePush(w) /\ SameIndex(w) /\ SameAlloc(w)
  BY <1>1, <1>3 DEF MallocFails, WriterGoto, SamePush, SameIndex, SameAlloc, WriterRecords
<1> QED
  BY <1>2, <1>3, Zenon DEF MallocBlock, swapVars, indexVars, spareVars, DowngradeSwap

LEMMA DrainIs ==
  ASSUME Types, NEW w \in Writers, Drain(w)
  PROVE  /\ wr[w].pc = "drain"
         /\ wr'[w].pc = "appendBlock"
         /\ SamePush(w)
         /\ SameIndex(w)
         /\ SameAlloc(w)
         /\ w \in swapClaims /\ swapSharers = {} /\ swapExclusive' = {w}
         /\ UNCHANGED <<swapSharers, swapClaims, heap, blk, WriteBlock, PreWriteIdx,
                        SpareBlockA, SpareBlockB>>
<1>1. wr[w] \in WriterRecords /\ wr \in [Writers -> WriterRecords]
  BY DEF Types
<1> QED
  BY <1>1
     DEF Drain, WriterGoto, delVars, Swap!Complete, memory, indexVars, spareVars, SamePush,
         SameIndex, SameAlloc, WriterRecords

LEMMA AppendBlockIs ==
  ASSUME Types, NEW w \in Writers, AppendBlock(w)
  PROVE  /\ wr[w].pc = "appendBlock"
         /\ wr'[w].pc = "downgrade"
         /\ SamePush(w)
         /\ wr'[w].idx = RoundUp(wr[w].idx) + StartIdx /\ wr'[w].block = wr[w].alloc
         /\ wr'[w].alloc = Null
         /\ WriteBlock' = wr[w].alloc /\ PreWriteIdx' = RoundUp(wr[w].idx) + StartIdx + wr[w].size
         /\ blk' = [blk EXCEPT ![wr[w].block].NextBlock = wr[w].alloc]
         /\ UNCHANGED <<SpareBlockA, SpareBlockB, swapSharers, swapClaims,
                        swapExclusive, heap>>
<1>1. wr[w] \in WriterRecords /\ wr \in [Writers -> WriterRecords]
  BY DEF Types
<1> QED
  BY <1>1
     DEF AppendBlock, WriterIn, delVars, spareVars, swapVars, SamePush, SameIndex,
         SameAlloc, WriterRecords

LEMMA DowngradeIs ==
  ASSUME Types, NEW w \in Writers, Downgrade(w)
  PROVE  /\ wr[w].pc = "downgrade"
         /\ wr'[w].pc = "construct"
         /\ SamePush(w)
         /\ SameIndex(w)
         /\ SameAlloc(w)
         /\ swapSharers' = swapSharers \union {w} /\ swapClaims' = swapClaims \ {w} /\ swapExclusive' = swapExclusive \ {w}
         /\ UNCHANGED <<heap, blk, WriteBlock, PreWriteIdx, SpareBlockA, SpareBlockB>>
<1>1. wr[w] \in WriterRecords /\ wr \in [Writers -> WriterRecords]
  BY DEF Types
<1> QED
  BY <1>1
     DEF Downgrade, WriterGoto, delVars, DowngradeSwap, memory, indexVars, spareVars,
         SamePush, SameIndex, SameAlloc, WriterRecords

LEMMA CompareExchangePreWriteIdxIs ==
  ASSUME Types, NEW w \in Writers, CompareExchangePreWriteIdx(w)
  PROVE  /\ wr[w].pc = "compareExchange"
         /\ \/ /\ wr'[w].pc = "construct" /\ PreWriteIdx = wr[w].idx
               /\ PreWriteIdx' = wr[w].idx + wr[w].size
            \/ /\ wr'[w].pc = "loadIdx" /\ PreWriteIdx' = PreWriteIdx
         /\ SamePush(w)
         /\ SameIndex(w)
         /\ SameAlloc(w)
         /\ UNCHANGED <<heap, blk, SpareBlockA, SpareBlockB, swapSharers, swapClaims,
                        swapExclusive, WriteBlock>>
<1>1. wr[w] \in WriterRecords /\ wr \in [Writers -> WriterRecords]
  BY DEF Types
<1> QED
  BY <1>1
     DEF CompareExchangePreWriteIdx, WriterGoto, delVars, memory, spareVars, swapVars,
         SamePush, SameIndex, SameAlloc, WriterRecords

LEMMA ConstructIs ==
  ASSUME Types, NEW w \in Writers, Construct(w)
  PROVE  /\ wr[w].pc = "construct"
         /\ wr'[w].pc = "commit"
         /\ SamePush(w)
         /\ SameIndex(w)
         /\ SameAlloc(w)
         /\ \E ok \in BOOLEAN :
              blk' = [blk EXCEPT ![wr[w].block].NbObjects = @ + 1,
                                 ![wr[w].block].place[Mask(wr[w].idx)].functor = Pushed(w, ok)]
         /\ UNCHANGED <<WriteBlock, PreWriteIdx, SpareBlockA, SpareBlockB, swapSharers,
                        swapClaims, swapExclusive, heap>>
<1>1. wr[w] \in WriterRecords /\ wr \in [Writers -> WriterRecords]
  BY DEF Types
<1> QED
  BY <1>1
     DEF Construct, WriterGoto, delVars, indexVars, spareVars, swapVars, SamePush,
         SameIndex, SameAlloc, WriterRecords

LEMMA CommitIs ==
  ASSUME Types, NEW w \in Writers, Commit(w)
  PROVE  /\ wr[w].pc = "commit"
         /\ wr'[w].pc = "unlockShared"
         /\ SamePush(w)
         /\ SameIndex(w)
         /\ SameAlloc(w)
         /\ blk' = [blk EXCEPT ![wr[w].block].place[Mask(wr[w].idx)].ready = TRUE]
         /\ UNCHANGED <<WriteBlock, PreWriteIdx, SpareBlockA, SpareBlockB, swapSharers,
                        swapClaims, swapExclusive, heap>>
<1>1. wr[w] \in WriterRecords /\ wr \in [Writers -> WriterRecords]
  BY DEF Types
<1> QED
  BY <1>1
     DEF Commit, WriterGoto, delVars, indexVars, spareVars, swapVars, SamePush, SameIndex,
         SameAlloc, WriterRecords

LEMMA WriterUnlockSharedIs ==
  ASSUME Types, NEW w \in Writers, WriterUnlockShared(w)
  PROVE  /\ wr[w].pc = "unlockShared"
         /\ wr'[w].pc \in {"refill", "idle"}
         /\ wr'[w].nr = wr[w].nr /\ wr'[w].alloc = Null
         /\ w \in swapSharers
         /\ swapSharers' = swapSharers \ {w}
         /\ UNCHANGED <<swapClaims, swapExclusive, heap, blk, WriteBlock, PreWriteIdx,
                        SpareBlockA, SpareBlockB>>
<1>1. wr[w] \in WriterRecords /\ wr \in [Writers -> WriterRecords]
  BY DEF Types
<1> QED
  BY <1>1
     DEF WriterUnlockShared, WriterIn, delVars, Returned, IdleWriter, Swap!Unshare, memory,
         indexVars, spareVars, SamePush, SameIndex, SameAlloc, WriterRecords

LEMMA RefillIs ==
  ASSUME Types, NEW w \in Writers, Refill(w)
  PROVE  /\ wr[w].pc = "refill"
         /\ \/ wr'[w].pc = "idle" /\ wr'[w].alloc = Null /\ heap' = heap
            \/ /\ wr'[w].pc = "refillB"
               /\ wr'[w].alloc \in Blocks \ heap /\ heap' = heap \union {wr'[w].alloc}
         /\ wr'[w].nr = wr[w].nr
         /\ UNCHANGED <<WriteBlock, PreWriteIdx, SpareBlockA, SpareBlockB, swapSharers,
                        swapClaims, swapExclusive, blk>>
<1>1. wr[w] \in WriterRecords /\ wr \in [Writers -> WriterRecords]
  BY DEF Types
<1>2. ASSUME NEW b \in Blocks, Malloc(b),
             WriterIn(w, "refill", [wr[w] EXCEPT !.alloc = b, !.pc = "refillB"])
      PROVE  /\ wr[w].pc = "refill" /\ wr'[w].pc = "refillB" /\ wr'[w].nr = wr[w].nr
             /\ wr'[w].alloc \in Blocks \ heap /\ heap' = heap \union {wr'[w].alloc}
  BY <1>1, <1>2 DEF Malloc, WriterIn, WriterRecords
<1>3. ASSUME WriterIn(w, "refill", Returned(w))
      PROVE  /\ wr[w].pc = "refill" /\ wr'[w].pc = "idle" /\ wr'[w].alloc = Null
             /\ wr'[w].nr = wr[w].nr
  BY <1>1, <1>3 DEF WriterIn, Returned, IdleWriter, WriterRecords
<1> QED
  BY <1>2, <1>3, Zenon DEF Refill, MallocFails, swapVars, indexVars, spareVars

LEMMA RefillBIs ==
  ASSUME Types, NEW w \in Writers, RefillB(w)
  PROVE  /\ wr[w].pc = "refillB"
         /\ \/ /\ wr'[w].pc = "idle" /\ wr'[w].alloc = Null
               /\ SpareBlockB = Null /\ SpareBlockB' = wr[w].alloc
            \/ wr'[w].pc = "refillA" /\ SameAlloc(w) /\ SpareBlockB' = SpareBlockB
         /\ wr'[w].nr = wr[w].nr
         /\ UNCHANGED <<heap, blk, WriteBlock, PreWriteIdx, swapSharers, swapClaims,
                        swapExclusive, SpareBlockA>>
<1>1. wr[w] \in WriterRecords /\ wr \in [Writers -> WriterRecords]
  BY DEF Types
<1> QED
  BY <1>1
     DEF RefillB, WriterIn, delVars, Returned, IdleWriter, WriterGoto, memory, indexVars,
         swapVars, SamePush, SameIndex, SameAlloc, WriterRecords

LEMMA RefillAIs ==
  ASSUME Types, NEW w \in Writers, RefillA(w)
  PROVE  /\ wr[w].pc = "refillA"
         /\ wr'[w].pc = "idle" /\ wr'[w].alloc = Null /\ wr'[w].nr = wr[w].nr
         /\ \/ /\ SpareBlockA = Null /\ SpareBlockA' = wr[w].alloc
               /\ UNCHANGED <<heap, blk>>
            \/ /\ SpareBlockA' = SpareBlockA /\ heap' = heap \ {wr[w].alloc}
               /\ blk' = [blk EXCEPT ![wr[w].alloc] = WipedBlock]
         /\ UNCHANGED <<WriteBlock, PreWriteIdx, swapSharers, swapClaims,
                        swapExclusive, SpareBlockB>>
<1>1. wr[w] \in WriterRecords /\ wr \in [Writers -> WriterRecords]
  BY DEF Types
<1> QED
  BY <1>1
     DEF RefillA, WriterIn, delVars, Returned, IdleWriter, memory, Free, indexVars,
         swapVars, SamePush, SameIndex, SameAlloc, WriterRecords

LEMMA PopIs ==
  ASSUME Types, NEW r \in Readers, Pop(r)
  PROVE  /\ rd[r].pc = "idle"
         /\ rd'[r].pc = "lockShared"
         /\ SameBlock(r)
         /\ SameIdx(r)
         /\ SameOld(r)
         /\ SameFunctor(r)
         /\ UNCHANGED <<heap, blk, SpareBlockA, SpareBlockB, delSharers, delClaims,
                        delExclusive, ReadBlock>>
<1>1. rd[r] \in ReaderRecords /\ rd \in [Readers -> ReaderRecords]
  BY DEF Types
<1> QED
  BY <1>1
     DEF Pop, ReaderGoto, indexVars, swapVars, memory, spareVars, delVars, SameBlock,
         SameIdx, SameOld, SameFunctor, ReaderRecords

LEMMA EnterBlockIs ==
  ASSUME Types, NEW r \in Readers, EnterBlock(r)
  PROVE  /\ rd[r].pc = "lockShared"
         /\ rd'[r].pc = "pin"
         /\ rd'[r].block = ReadBlock
         /\ SameIdx(r)
         /\ SameOld(r)
         /\ SameFunctor(r)
         /\ delClaims \subseteq {r}
         /\ delSharers' = delSharers \union {r} /\ delClaims' = delClaims /\ delExclusive' = delExclusive \ {r}
         /\ UNCHANGED <<heap, blk, SpareBlockA, SpareBlockB, ReadBlock>>
<1>1. rd[r] \in ReaderRecords /\ rd \in [Readers -> ReaderRecords]
  BY DEF Types
<1> QED
  BY <1>1
     DEF EnterBlock, ReaderIn, indexVars, swapVars, Del!Share, memory, spareVars,
         SameBlock, SameIdx, SameOld, SameFunctor, ReaderRecords

LEMMA PinBlockIs ==
  ASSUME Types, NEW r \in Readers, PinBlock(r)
  PROVE  /\ rd[r].pc = "pin"
         /\ rd'[r].pc = "loadReadIdx"
         /\ SameBlock(r)
         /\ SameIdx(r)
         /\ SameOld(r)
         /\ SameFunctor(r)
         /\ delSharers' = delSharers \ {r} /\ UNCHANGED <<delClaims, delExclusive>>
         /\ blk' = [blk EXCEPT ![rd[r].block].ReadShared = @ + 1]
         /\ UNCHANGED <<SpareBlockA, SpareBlockB, heap, ReadBlock>>
<1>1. rd[r] \in ReaderRecords /\ rd \in [Readers -> ReaderRecords]
  BY DEF Types
<1> QED
  BY <1>1
     DEF PinBlock, ReaderGoto, indexVars, swapVars, Del!Unshare, spareVars, SameBlock,
         SameIdx, SameOld, SameFunctor, ReaderRecords

LEMMA LoadReadIdxIs ==
  ASSUME Types, NEW r \in Readers, LoadReadIdx(r)
  PROVE  /\ rd[r].pc = "loadReadIdx"
         /\ rd'[r].pc = IF rd[r].old = Null THEN "checkReady" ELSE "recycleB"
         /\ SameBlock(r)
         /\ rd'[r].idx = blk[rd[r].block].ReadIdx
         /\ SameOld(r)
         /\ SameFunctor(r)
         /\ UNCHANGED <<heap, blk, SpareBlockA, SpareBlockB, delSharers, delClaims,
                        delExclusive, ReadBlock>>
<1>1. rd[r] \in ReaderRecords /\ rd \in [Readers -> ReaderRecords]
  BY DEF Types
<1> QED
  BY <1>1
     DEF LoadReadIdx, ReaderIn, indexVars, swapVars, memory, spareVars, delVars, SameBlock,
         SameIdx, SameOld, SameFunctor, ReaderRecords

LEMMA CheckReadyIs ==
  ASSUME Types, NEW r \in Readers, CheckReady(r)
  PROVE  /\ rd[r].pc = "checkReady"
         /\ \/ rd'[r].pc = "compareExchange" /\ Ready(rd[r].block, rd[r].idx)
            \/ rd'[r].pc = "checkNext"
         /\ SameBlock(r)
         /\ SameIdx(r)
         /\ SameOld(r)
         /\ SameFunctor(r)
         /\ UNCHANGED <<heap, blk, SpareBlockA, SpareBlockB, delSharers, delClaims,
                        delExclusive, ReadBlock>>
<1>1. rd[r] \in ReaderRecords /\ rd \in [Readers -> ReaderRecords]
  BY DEF Types
<1> QED
  BY <1>1
     DEF CheckReady, ReaderGoto, indexVars, swapVars, memory, spareVars, delVars,
         SameBlock, SameIdx, SameOld, SameFunctor, ReaderRecords

LEMMA CheckNextIs ==
  ASSUME Types, NEW r \in Readers, CheckNext(r)
  PROVE  /\ rd[r].pc = "checkNext"
         /\ \/ rd'[r].pc = "leave"
            \/ rd'[r].pc = "recheckReady" /\ blk[rd[r].block].NextBlock # Null
         /\ SameBlock(r)
         /\ SameIdx(r)
         /\ SameOld(r)
         /\ SameFunctor(r)
         /\ UNCHANGED <<heap, blk, SpareBlockA, SpareBlockB, delSharers, delClaims,
                        delExclusive, ReadBlock>>
<1>1. rd[r] \in ReaderRecords /\ rd \in [Readers -> ReaderRecords]
  BY DEF Types
<1>2. CASE blk[rd[r].block].NextBlock = Null
  <2>1. ReaderGoto(r, "checkNext", "leave") /\ UNCHANGED <<heap, blk, ReadBlock, spareVars, delVars>>
    BY <1>2 DEF CheckNext, indexVars, swapVars, memory, spareVars, delVars
  <2> QED
    BY <1>1, <2>1
       DEF spareVars, delVars, ReaderGoto, SameBlock, SameIdx, SameOld, SameFunctor, ReaderRecords
<1>3. CASE ~(blk[rd[r].block].NextBlock = Null)
  <2>1. ReaderGoto(r, "checkNext", "recheckReady") /\ UNCHANGED <<heap, blk, ReadBlock, spareVars, delVars>>
    BY <1>3 DEF CheckNext, indexVars, swapVars, memory, spareVars, delVars
  <2> QED
    BY <1>1, <1>3, <2>1
       DEF spareVars, delVars, ReaderGoto, SameBlock, SameIdx, SameOld, SameFunctor, ReaderRecords
<1> QED
  BY <1>2, <1>3

LEMMA RecheckReadyIs ==
  ASSUME Types, NEW r \in Readers, RecheckReady(r)
  PROVE  /\ rd[r].pc = "recheckReady"
         /\ \/ rd'[r].pc = "checkReady"
            \/ rd'[r].pc = "lock" /\ ~Ready(rd[r].block, rd[r].idx)
         /\ SameBlock(r)
         /\ SameIdx(r)
         /\ SameOld(r)
         /\ SameFunctor(r)
         /\ UNCHANGED <<heap, blk, SpareBlockA, SpareBlockB, delSharers, delClaims,
                        delExclusive, ReadBlock>>
<1>1. rd[r] \in ReaderRecords /\ rd \in [Readers -> ReaderRecords]
  BY DEF Types
<1>2. CASE Ready(rd[r].block, rd[r].idx)
  <2>1. ReaderGoto(r, "recheckReady", "checkReady") /\ UNCHANGED <<heap, blk, ReadBlock, spareVars, delVars>>
    BY <1>2 DEF RecheckReady, indexVars, swapVars, memory, spareVars, delVars
  <2> QED
    BY <1>1, <2>1
       DEF spareVars, delVars, ReaderGoto, SameBlock, SameIdx, SameOld, SameFunctor, ReaderRecords
<1>3. CASE ~(Ready(rd[r].block, rd[r].idx))
  <2>1. ReaderGoto(r, "recheckReady", "lock") /\ UNCHANGED <<heap, blk, ReadBlock, spareVars, delVars>>
    BY <1>3 DEF RecheckReady, indexVars, swapVars, memory, spareVars, delVars
  <2> QED
    BY <1>1, <1>3, <2>1
       DEF spareVars, delVars, ReaderGoto, SameBlock, SameIdx, SameOld, SameFunctor, ReaderRecords
<1> QED
  BY <1>2, <1>3

LEMMA ReaderLockIs ==
  ASSUME Types, NEW r \in Readers, ReaderLock(r)
  PROVE  /\ rd[r].pc = "lock"
         /\ rd'[r].pc = "lockDrain"
         /\ SameBlock(r)
         /\ SameIdx(r)
         /\ SameOld(r)
         /\ SameFunctor(r)
         /\ delClaims = {} /\ delClaims' = {r} /\ UNCHANGED <<delSharers, delExclusive>>
         /\ UNCHANGED <<heap, blk, SpareBlockA, SpareBlockB, ReadBlock>>
<1>1. rd[r] \in ReaderRecords /\ rd \in [Readers -> ReaderRecords]
  BY DEF Types
<1> QED
  BY <1>1
     DEF ReaderLock, ReaderGoto, indexVars, swapVars, Del!Claim, memory, spareVars,
         SameBlock, SameIdx, SameOld, SameFunctor, ReaderRecords

LEMMA ReaderLockDrainIs ==
  ASSUME Types, NEW r \in Readers, ReaderLockDrain(r)
  PROVE  /\ rd[r].pc = "lockDrain"
         /\ rd'[r].pc = "advance"
         /\ SameBlock(r)
         /\ SameIdx(r)
         /\ SameOld(r)
         /\ SameFunctor(r)
         /\ delSharers = {} /\ delExclusive' = {r} /\ UNCHANGED <<delSharers, delClaims>>
         /\ UNCHANGED <<heap, blk, SpareBlockA, SpareBlockB, ReadBlock>>
<1>1. rd[r] \in ReaderRecords /\ rd \in [Readers -> ReaderRecords]
  BY DEF Types
<1> QED
  BY <1>1
     DEF ReaderLockDrain, ReaderGoto, indexVars, swapVars, Del!Complete, memory, spareVars,
         SameBlock, SameIdx, SameOld, SameFunctor, ReaderRecords

LEMMA AdvanceIs ==
  ASSUME Types, NEW r \in Readers, Advance(r)
  PROVE  /\ rd[r].pc = "advance"
         /\ rd'[r].pc = "loadReadIdx"
         /\ rd'[r].block = NextReadBlock(r) /\ ReadBlock' = NextReadBlock(r)
         /\ rd'[r].old = IF blk[rd[r].block].ReadShared = 1 THEN rd[r].block ELSE Null
         /\ SameIdx(r)
         /\ SameFunctor(r)
         /\ blk' = [blk EXCEPT ![NextReadBlock(r)].ReadShared = @ + 1, ![rd[r].block].ReadShared = @ - 1]
         /\ delClaims' = delClaims \ {r} /\ delExclusive' = delExclusive \ {r} /\ delSharers' = delSharers
         /\ UNCHANGED <<SpareBlockA, SpareBlockB, heap>>
<1>1. rd[r] \in ReaderRecords /\ rd \in [Readers -> ReaderRecords]
  BY DEF Types
<1> QED
  BY <1>1
     DEF Advance, AdvanceTo, ReaderIn, indexVars, swapVars, Del!Release, spareVars,
         SameBlock, SameIdx, SameOld, SameFunctor, ReaderRecords

LEMMA RecycleBIs ==
  ASSUME Types, NEW r \in Readers, RecycleB(r)
  PROVE  /\ rd[r].pc = "recycleB"
         /\ \/ SpareBlockB = Null /\ SpareBlockB' = rd[r].old /\ IsRecycled(r)
            \/ /\ SpareBlockB # Null /\ SpareBlockB' = SpareBlockB
               /\ rd'[r].pc = "recycleA" /\ SameBlock(r) /\ SameOld(r) /\ SameIdx(r) /\ SameFunctor(r)
         /\ blk' = [blk EXCEPT ![rd[r].old] = WipedBlock]
         /\ UNCHANGED <<delSharers, delClaims, delExclusive, SpareBlockA, heap,
                        ReadBlock>>
<1>1. rd[r] \in ReaderRecords /\ rd \in [Readers -> ReaderRecords]
  BY DEF Types
<1>2. ASSUME ReaderIn(r, "recycleB", Recycled(r))
      PROVE  rd[r].pc = "recycleB" /\ IsRecycled(r)
  BY <1>1, <1>2
     DEF ReaderIn, Recycled, IdleReader, IsRecycled, SameBlock, SameIdx, SameFunctor, ReaderRecords
<1>3. ASSUME ReaderGoto(r, "recycleB", "recycleA")
      PROVE  /\ rd[r].pc = "recycleB" /\ rd'[r].pc = "recycleA"
             /\ SameBlock(r) /\ SameOld(r) /\ SameIdx(r) /\ SameFunctor(r)
  BY <1>1, <1>3 DEF ReaderGoto, SameBlock, SameOld, SameIdx, SameFunctor, ReaderRecords
<1> QED
  BY <1>2, <1>3 DEF RecycleB, OfferSpareB, delVars

LEMMA RecycleAIs ==
  ASSUME Types, NEW r \in Readers, RecycleA(r)
  PROVE  /\ rd[r].pc = "recycleA"
         /\ \/ SpareBlockA = Null /\ SpareBlockA' = rd[r].old /\ UNCHANGED <<heap, blk>>
            \/ /\ SpareBlockA' = SpareBlockA /\ heap' = heap \ {rd[r].old}
               /\ blk' = [blk EXCEPT ![rd[r].old] = WipedBlock]
         /\ IsRecycled(r)
         /\ UNCHANGED <<delSharers, delClaims, delExclusive, SpareBlockB, ReadBlock>>
<1>1. rd[r] \in ReaderRecords /\ rd \in [Readers -> ReaderRecords]
  BY DEF Types
<1> QED
  BY <1>1, SMTT(20)
     DEF RecycleA, ReaderIn, indexVars, swapVars, Recycled, IdleReader, memory, Free,
         delVars, SameBlock, SameIdx, SameOld, SameFunctor, IsRecycled, ReaderRecords

LEMMA CompareExchangeReadIdxIs ==
  ASSUME Types, NEW r \in Readers, CompareExchangeReadIdx(r)
  PROVE  /\ rd[r].pc = "compareExchange"
         /\ \/ /\ rd'[r].pc = "call" /\ rd'[r].idx = rd[r].idx /\ rd[r].idx = blk[rd[r].block].ReadIdx
               /\ rd'[r].functor = blk[rd[r].block].place[rd[r].idx].functor
               /\ blk' = [blk EXCEPT ![rd[r].block].ReadIdx =
                            rd[r].idx + blk[rd[r].block].place[rd[r].idx].functor.size]
            \/ /\ rd'[r].pc = "checkReady" /\ rd'[r].idx = blk[rd[r].block].ReadIdx /\ SameFunctor(r)
               /\ blk' = blk
         /\ SameBlock(r)
         /\ SameOld(r)
         /\ UNCHANGED <<SpareBlockA, SpareBlockB, delSharers, delClaims, delExclusive,
                        heap, ReadBlock>>
<1>1. rd[r] \in ReaderRecords /\ rd \in [Readers -> ReaderRecords]
  BY DEF Types
<1> DEFINE f == blk[rd[r].block].place[rd[r].idx].functor
<1> HIDE DEF f
<1>2. ASSUME ReaderIn(r, "compareExchange", [rd[r] EXCEPT !.functor = f, !.pc = "call"])
      PROVE  /\ rd'[r].pc = "call" /\ rd'[r].idx = rd[r].idx /\ rd'[r].functor = f
             /\ SameBlock(r) /\ SameOld(r)
  BY <1>1, <1>2 DEF ReaderIn, SameBlock, SameOld, ReaderRecords
<1>3. ASSUME ReaderIn(r, "compareExchange",
                      [rd[r] EXCEPT !.idx = blk[rd[r].block].ReadIdx, !.pc = "checkReady"])
      PROVE  /\ rd'[r].pc = "checkReady" /\ rd'[r].idx = blk[rd[r].block].ReadIdx
             /\ SameFunctor(r) /\ SameBlock(r) /\ SameOld(r)
  BY <1>1, <1>3 DEF ReaderIn, SameFunctor, SameBlock, SameOld, ReaderRecords
<1> QED
  BY <1>2, <1>3 DEF CompareExchangeReadIdx, delVars, spareVars, f

LEMMA CallAndDestroyIs ==
  ASSUME Types, NEW r \in Readers, CallAndDestroy(r)
  PROVE  /\ rd[r].pc = "call"
         /\ rd'[r].pc = "leave"
         /\ rd'[r].functor = Null
         /\ SameBlock(r)
         /\ SameIdx(r)
         /\ SameOld(r)
         /\ blk' = [blk EXCEPT ![rd[r].block].NbObjects = @ - 1]
         /\ UNCHANGED <<SpareBlockA, SpareBlockB, delSharers, delClaims, delExclusive,
                        heap, ReadBlock>>
<1>1. rd[r] \in ReaderRecords /\ rd \in [Readers -> ReaderRecords]
  BY DEF Types
<1> QED
  BY <1>1
     DEF CallAndDestroy, ReaderIn, indexVars, swapVars, spareVars, delVars, SameBlock,
         SameIdx, SameOld, SameFunctor, ReaderRecords

LEMMA LeaveIs ==
  ASSUME Types, NEW r \in Readers, Leave(r)
  PROVE  /\ rd[r].pc = "leave"
         /\ \/ /\ ReadBlock # rd[r].block /\ blk[rd[r].block].ReadShared = 1
               /\ rd'[r].pc = "recycleB" /\ rd'[r].old = rd[r].block
            \/ /\ ~(ReadBlock # rd[r].block /\ blk[rd[r].block].ReadShared = 1)
               /\ rd'[r].pc = "idle" /\ rd'[r].old = Null
         /\ rd'[r].block = Null /\ rd'[r].functor = Null
         /\ blk' = [blk EXCEPT ![rd[r].block].ReadShared = @ - 1]
         /\ UNCHANGED <<SpareBlockA, SpareBlockB, delSharers, delClaims, delExclusive,
                        heap, ReadBlock>>
<1>1. rd[r] \in ReaderRecords /\ rd \in [Readers -> ReaderRecords]
  BY DEF Types
<1> QED
  BY <1>1
     DEF Leave, LeaveBlock, ReaderIn, indexVars, swapVars, IdleReader, spareVars, delVars,
         SameBlock, SameIdx, SameOld, SameFunctor, ReaderRecords

------------------------------------------------------------------------------
(* What the steps of one side leave alone. *)
OnlyWriter(w) ==
  /\ ~released /\ ~released'
  /\ UNCHANGED <<ReadBlock, delSharers, delClaims, delExclusive, rd>>
  /\ \A v \in Writers : v # w => wr'[v] = wr[v]

OnlyReader(r) ==
  /\ ~released /\ ~released'
  /\ UNCHANGED <<WriteBlock, PreWriteIdx, swapSharers, swapClaims, swapExclusive, wr>>
  /\ \A q \in Readers : q # r => rd'[q] = rd[q]

LEMMA WriterFrames ==
  ASSUME Types, ReleasedIsIdle, NEW w \in Writers, Push(w) \/ WriterStep(w)
  PROVE  OnlyWriter(w)
<1>1. wr \in [Writers -> WriterRecords] /\ released \in BOOLEAN
  BY DEF Types
<1>2. ASSUME Push(w) PROVE OnlyWriter(w)
  <2>1. (\E new : WriterIn(w, "idle", new))
    BY <1>2, Zenon DEF Push
  <2>2. wr[w].pc = "idle" /\ WriterFrame /\ (\E new : wr' = [wr EXCEPT ![w] = new])
    BY <2>1, Zenon DEF WriterIn, WriterGoto
  <2>3. \A v \in Writers : v # w => wr'[v] = wr[v]
    BY <1>1, <2>2
  <2>4. ~released
    BY <1>2, Zenon DEF Push
  <2> QED
    BY <1>1, <2>2, <2>3, <2>4 DEF WriterFrame, delVars, OnlyWriter
<1>3. ASSUME WriterLockShared(w) PROVE OnlyWriter(w)
  BY <1>1, <1>3, Zenon
     DEF WriterLockShared, WriterGoto, WriterFrame, delVars, OnlyWriter, ReleasedIsIdle
<1>4. ASSUME LoadPreWriteIdx(w) PROVE OnlyWriter(w)
  BY <1>1, <1>4, Zenon
     DEF LoadPreWriteIdx, WriterIn, WriterFrame, delVars, OnlyWriter, ReleasedIsIdle
<1>5. ASSUME CheckFit(w) PROVE OnlyWriter(w)
  BY <1>1, <1>5, Zenon
     DEF CheckFit, WriterGoto, WriterFrame, delVars, OnlyWriter, ReleasedIsIdle
<1>6. ASSUME TryPartialLock(w) PROVE OnlyWriter(w)
  BY <1>1, <1>6
     DEF TryPartialLock, WriterGoto, WriterFrame, delVars, OnlyWriter, ReleasedIsIdle
<1>7. ASSUME BackOff(w) PROVE OnlyWriter(w)
  BY <1>1, <1>7, Zenon
     DEF BackOff, WriterGoto, WriterFrame, delVars, OnlyWriter, ReleasedIsIdle
<1>8. ASSUME DropShare(w) PROVE OnlyWriter(w)
  BY <1>1, <1>8, Zenon
     DEF DropShare, WriterGoto, WriterFrame, delVars, OnlyWriter, ReleasedIsIdle
<1>9. ASSUME TakeSpareA(w) PROVE OnlyWriter(w)
  BY <1>1, <1>9, Zenon
     DEF TakeSpareA, WriterIn, WriterFrame, delVars, OnlyWriter, ReleasedIsIdle
<1>10. ASSUME TakeSpareB(w) PROVE OnlyWriter(w)
  BY <1>1, <1>10, Zenon
     DEF TakeSpareB, WriterIn, WriterFrame, delVars, OnlyWriter, ReleasedIsIdle
<1>11. ASSUME MallocBlock(w) PROVE OnlyWriter(w)
  <2>1. (\E new : WriterIn(w, "malloc", new)) \/ WriterGoto(w, "malloc", "unlockShared")
    BY <1>11, Zenon DEF MallocBlock
  <2>2. wr[w].pc = "malloc" /\ WriterFrame /\ (\E new : wr' = [wr EXCEPT ![w] = new])
    BY <2>1, Zenon DEF WriterIn, WriterGoto
  <2>3. \A v \in Writers : v # w => wr'[v] = wr[v]
    BY <1>1, <2>2
  <2>4. ~released
    BY <1>1, <2>2 DEF ReleasedIsIdle
  <2> QED
    BY <1>1, <2>2, <2>3, <2>4 DEF WriterFrame, delVars, OnlyWriter
<1>12. ASSUME Drain(w) PROVE OnlyWriter(w)
  BY <1>1, <1>12, Zenon
     DEF Drain, WriterGoto, WriterFrame, delVars, OnlyWriter, ReleasedIsIdle
<1>13. ASSUME AppendBlock(w) PROVE OnlyWriter(w)
  BY <1>1, <1>13, Zenon
     DEF AppendBlock, WriterIn, WriterFrame, delVars, OnlyWriter, ReleasedIsIdle
<1>14. ASSUME Downgrade(w) PROVE OnlyWriter(w)
  BY <1>1, <1>14, Zenon
     DEF Downgrade, WriterGoto, WriterFrame, delVars, OnlyWriter, ReleasedIsIdle
<1>15. ASSUME CompareExchangePreWriteIdx(w) PROVE OnlyWriter(w)
  BY <1>1, <1>15
     DEF CompareExchangePreWriteIdx, WriterGoto, WriterFrame, delVars, OnlyWriter,
         ReleasedIsIdle
<1>16. ASSUME Construct(w) PROVE OnlyWriter(w)
  BY <1>1, <1>16, Zenon
     DEF Construct, WriterGoto, WriterFrame, delVars, OnlyWriter, ReleasedIsIdle
<1>17. ASSUME Commit(w) PROVE OnlyWriter(w)
  BY <1>1, <1>17, Zenon
     DEF Commit, WriterGoto, WriterFrame, delVars, OnlyWriter, ReleasedIsIdle
<1>18. ASSUME WriterUnlockShared(w) PROVE OnlyWriter(w)
  BY <1>1, <1>18, Zenon
     DEF WriterUnlockShared, WriterIn, WriterFrame, delVars, OnlyWriter, ReleasedIsIdle
<1>19. ASSUME Refill(w) PROVE OnlyWriter(w)
  <2>1. (\E new : WriterIn(w, "refill", new))
    BY <1>19, Zenon DEF Refill
  <2>2. wr[w].pc = "refill" /\ WriterFrame /\ (\E new : wr' = [wr EXCEPT ![w] = new])
    BY <2>1, Zenon DEF WriterIn, WriterGoto
  <2>3. \A v \in Writers : v # w => wr'[v] = wr[v]
    BY <1>1, <2>2
  <2>4. ~released
    BY <1>1, <2>2 DEF ReleasedIsIdle
  <2> QED
    BY <1>1, <2>2, <2>3, <2>4 DEF WriterFrame, delVars, OnlyWriter
<1>20. ASSUME RefillB(w) PROVE OnlyWriter(w)
  BY <1>1, <1>20
     DEF RefillB, WriterIn, WriterFrame, delVars, WriterGoto, OnlyWriter, ReleasedIsIdle
<1>21. ASSUME RefillA(w) PROVE OnlyWriter(w)
  BY <1>1, <1>21, Zenon
     DEF RefillA, WriterIn, WriterFrame, delVars, OnlyWriter, ReleasedIsIdle
<1> QED
  BY <1>2, <1>3, <1>4, <1>5, <1>6, <1>7, <1>8, <1>9, <1>10, <1>11, <1>12, <1>13, <1>14, <1>15,
     <1>16, <1>17, <1>18, <1>19, <1>20, <1>21 DEF WriterStep

LEMMA ReaderFrames ==
  ASSUME Types, ReleasedIsIdle, NEW r \in Readers, Pop(r) \/ ReaderStep(r)
  PROVE  OnlyReader(r)
<1>1. rd \in [Readers -> ReaderRecords] /\ released \in BOOLEAN
  BY DEF Types
<1>2. ASSUME Pop(r) PROVE OnlyReader(r)
  BY <1>1, <1>2, Zenon
     DEF Pop, ReaderGoto, ReaderFrame, swapVars, indexVars, OnlyReader, ReleasedIsIdle
<1>3. ASSUME EnterBlock(r) PROVE OnlyReader(r)
  BY <1>1, <1>3, Zenon
     DEF EnterBlock, ReaderIn, ReaderFrame, swapVars, indexVars, OnlyReader, ReleasedIsIdle
<1>4. ASSUME PinBlock(r) PROVE OnlyReader(r)
  BY <1>1, <1>4, Zenon
     DEF PinBlock, ReaderGoto, ReaderFrame, swapVars, indexVars, OnlyReader, ReleasedIsIdle
<1>5. ASSUME LoadReadIdx(r) PROVE OnlyReader(r)
  BY <1>1, <1>5, Zenon
     DEF LoadReadIdx, ReaderIn, ReaderFrame, swapVars, indexVars, OnlyReader, ReleasedIsIdle
<1>6. ASSUME CheckReady(r) PROVE OnlyReader(r)
  BY <1>1, <1>6, Zenon
     DEF CheckReady, ReaderGoto, ReaderFrame, swapVars, indexVars, OnlyReader,
         ReleasedIsIdle
<1>7. ASSUME CheckNext(r) PROVE OnlyReader(r)
  BY <1>1, <1>7, Zenon
     DEF CheckNext, ReaderGoto, ReaderFrame, swapVars, indexVars, OnlyReader, ReleasedIsIdle
<1>8. ASSUME RecheckReady(r) PROVE OnlyReader(r)
  BY <1>1, <1>8, Zenon
     DEF RecheckReady, ReaderGoto, ReaderFrame, swapVars, indexVars, OnlyReader,
         ReleasedIsIdle
<1>9. ASSUME ReaderLock(r) PROVE OnlyReader(r)
  BY <1>1, <1>9, Zenon
     DEF ReaderLock, ReaderGoto, ReaderFrame, swapVars, indexVars, OnlyReader,
         ReleasedIsIdle
<1>10. ASSUME ReaderLockDrain(r) PROVE OnlyReader(r)
  BY <1>1, <1>10, Zenon
     DEF ReaderLockDrain, ReaderGoto, ReaderFrame, swapVars, indexVars, OnlyReader,
         ReleasedIsIdle
<1>11. ASSUME Advance(r) PROVE OnlyReader(r)
  BY <1>1, <1>11, Zenon
     DEF Advance, AdvanceTo, ReaderIn, ReaderFrame, swapVars, indexVars, OnlyReader,
         ReleasedIsIdle
<1>12. ASSUME RecycleB(r) PROVE OnlyReader(r)
  BY <1>1, <1>12
     DEF RecycleB, OfferSpareB, ReaderIn, ReaderFrame, swapVars, ReaderGoto, indexVars,
         OnlyReader, ReleasedIsIdle
<1>13. ASSUME RecycleA(r) PROVE OnlyReader(r)
  BY <1>1, <1>13, Zenon
     DEF RecycleA, ReaderIn, ReaderFrame, swapVars, indexVars, OnlyReader, ReleasedIsIdle
<1>14. ASSUME CompareExchangeReadIdx(r) PROVE OnlyReader(r)
  BY <1>1, <1>14
     DEF CompareExchangeReadIdx, ReaderIn, ReaderFrame, swapVars, indexVars, OnlyReader,
         ReleasedIsIdle
<1>15. ASSUME CallAndDestroy(r) PROVE OnlyReader(r)
  BY <1>1, <1>15, Zenon
     DEF CallAndDestroy, ReaderIn, ReaderFrame, swapVars, indexVars, OnlyReader,
         ReleasedIsIdle
<1>16. ASSUME Leave(r) PROVE OnlyReader(r)
  BY <1>1, <1>16, Zenon
     DEF Leave, LeaveBlock, ReaderIn, ReaderFrame, swapVars, indexVars, OnlyReader,
         ReleasedIsIdle
<1> QED
  BY <1>2, <1>3, <1>4, <1>5, <1>6, <1>7, <1>8, <1>9, <1>10, <1>11, <1>12, <1>13, <1>14, <1>15,
     <1>16 DEF ReaderStep

------------------------------------------------------------------------------
(* Who has which lock, and what a thread knows by itself. *)
LEMMA SwapLocksStay ==
  ASSUME IInv, NEW w \in Writers, Push(w) \/ WriterStep(w)
  PROVE  SwapLocks'
<1>1. OnlyWriter(w)
  BY WriterFrames DEF IInv
<1>2. Types /\ SwapLocks
  BY DEF IInv
<1>10. ASSUME Push(w) PROVE SwapLocks'
  BY <1>1, <1>2, <1>10, PushIs
     DEF OnlyWriter, SwapLocks, SharePoints, ClaimPoints, AlonePoints
<1>11. ASSUME WriterLockShared(w) PROVE SwapLocks'
  BY <1>1, <1>2, <1>11, WriterLockSharedIs
     DEF OnlyWriter, SwapLocks, SharePoints, ClaimPoints, AlonePoints
<1>12. ASSUME LoadPreWriteIdx(w) PROVE SwapLocks'
  BY <1>1, <1>2, <1>12, LoadPreWriteIdxIs
     DEF OnlyWriter, SwapLocks, SharePoints, ClaimPoints, AlonePoints
<1>13. ASSUME CheckFit(w) PROVE SwapLocks'
  BY <1>1, <1>2, <1>13, CheckFitIs
     DEF OnlyWriter, SwapLocks, SharePoints, ClaimPoints, AlonePoints
<1>14. ASSUME TryPartialLock(w) PROVE SwapLocks'
  BY <1>1, <1>2, <1>14, TryPartialLockIs
     DEF OnlyWriter, SwapLocks, SharePoints, ClaimPoints, AlonePoints
<1>15. ASSUME BackOff(w) PROVE SwapLocks'
  BY <1>1, <1>2, <1>15, BackOffIs
     DEF OnlyWriter, SwapLocks, SharePoints, ClaimPoints, AlonePoints
<1>16. ASSUME DropShare(w) PROVE SwapLocks'
  BY <1>1, <1>2, <1>16, DropShareIs
     DEF OnlyWriter, SwapLocks, SharePoints, ClaimPoints, AlonePoints
<1>17. ASSUME TakeSpareA(w) PROVE SwapLocks'
  BY <1>1, <1>2, <1>17, TakeSpareAIs
     DEF OnlyWriter, SwapLocks, SharePoints, ClaimPoints, AlonePoints
<1>18. ASSUME TakeSpareB(w) PROVE SwapLocks'
  BY <1>1, <1>2, <1>18, TakeSpareBIs
     DEF OnlyWriter, SwapLocks, SharePoints, ClaimPoints, AlonePoints
<1>19. ASSUME MallocBlock(w) PROVE SwapLocks'
  BY <1>1, <1>2, <1>19, MallocBlockIs
     DEF OnlyWriter, SwapLocks, SharePoints, ClaimPoints, AlonePoints
<1>20. ASSUME Drain(w) PROVE SwapLocks'
  BY <1>1, <1>2, <1>20, DrainIs
     DEF OnlyWriter, SwapLocks, SharePoints, ClaimPoints, AlonePoints
<1>21. ASSUME AppendBlock(w) PROVE SwapLocks'
  BY <1>1, <1>2, <1>21, AppendBlockIs, ZenonT(30)
     DEF OnlyWriter, SwapLocks, SharePoints, ClaimPoints, AlonePoints
<1>22. ASSUME Downgrade(w) PROVE SwapLocks'
  BY <1>1, <1>2, <1>22, DowngradeIs
     DEF OnlyWriter, SwapLocks, SharePoints, ClaimPoints, AlonePoints
<1>23. ASSUME CompareExchangePreWriteIdx(w) PROVE SwapLocks'
  BY <1>1, <1>2, <1>23, CompareExchangePreWriteIdxIs
     DEF OnlyWriter, SwapLocks, SharePoints, ClaimPoints, AlonePoints
<1>24. ASSUME Construct(w) PROVE SwapLocks'
  BY <1>1, <1>2, <1>24, ConstructIs, Zenon
     DEF OnlyWriter, SwapLocks, SharePoints, ClaimPoints, AlonePoints
<1>25. ASSUME Commit(w) PROVE SwapLocks'
  BY <1>1, <1>2, <1>25, CommitIs, Zenon
     DEF OnlyWriter, SwapLocks, SharePoints, ClaimPoints, AlonePoints
<1>26. ASSUME WriterUnlockShared(w) PROVE SwapLocks'
  BY <1>1, <1>2, <1>26, WriterUnlockSharedIs
     DEF OnlyWriter, SwapLocks, SharePoints, ClaimPoints, AlonePoints
<1>27. ASSUME Refill(w) PROVE SwapLocks'
  BY <1>1, <1>2, <1>27, RefillIs
     DEF OnlyWriter, SwapLocks, SharePoints, ClaimPoints, AlonePoints
<1>28. ASSUME RefillB(w) PROVE SwapLocks'
  BY <1>1, <1>2, <1>28, RefillBIs
     DEF OnlyWriter, SwapLocks, SharePoints, ClaimPoints, AlonePoints
<1>29. ASSUME RefillA(w) PROVE SwapLocks'
  BY <1>1, <1>2, <1>29, RefillAIs
     DEF OnlyWriter, SwapLocks, SharePoints, ClaimPoints, AlonePoints
<1> QED
  BY <1>10, <1>11, <1>12, <1>13, <1>14, <1>15, <1>16, <1>17, <1>18, <1>19, <1>20, <1>21, <1>22,
     <1>23, <1>24, <1>25, <1>26, <1>27, <1>28, <1>29 DEF WriterStep

LEMMA DelLocksStay ==
  ASSUME IInv, NEW r \in Readers, Pop(r) \/ ReaderStep(r)
  PROVE  DelLocks'
<1>1. OnlyReader(r)
  BY ReaderFrames DEF IInv
<1>2. Types /\ DelLocks
  BY DEF IInv
<1>10. ASSUME Pop(r) PROVE DelLocks'
  BY <1>1, <1>2, <1>10, PopIs
     DEF OnlyReader, DelLocks
<1>11. ASSUME EnterBlock(r) PROVE DelLocks'
  BY <1>1, <1>2, <1>11, EnterBlockIs
     DEF OnlyReader, DelLocks
<1>12. ASSUME PinBlock(r) PROVE DelLocks'
  BY <1>1, <1>2, <1>12, PinBlockIs, Zenon
     DEF OnlyReader, DelLocks
<1>13. ASSUME LoadReadIdx(r) PROVE DelLocks'
  BY <1>1, <1>2, <1>13, LoadReadIdxIs
     DEF OnlyReader, DelLocks
<1>14. ASSUME CheckReady(r) PROVE DelLocks'
  BY <1>1, <1>2, <1>14, CheckReadyIs
     DEF OnlyReader, DelLocks
<1>15. ASSUME CheckNext(r) PROVE DelLocks'
  BY <1>1, <1>2, <1>15, CheckNextIs
     DEF OnlyReader, DelLocks
<1>16. ASSUME RecheckReady(r) PROVE DelLocks'
  BY <1>1, <1>2, <1>16, RecheckReadyIs
     DEF OnlyReader, DelLocks
<1>17. ASSUME ReaderLock(r) PROVE DelLocks'
  BY <1>1, <1>2, <1>17, ReaderLockIs
     DEF OnlyReader, DelLocks
<1>18. ASSUME ReaderLockDrain(r) PROVE DelLocks'
  BY <1>1, <1>2, <1>18, ReaderLockDrainIs
     DEF OnlyReader, DelLocks
<1>19. ASSUME Advance(r) PROVE DelLocks'
  <2>1. /\ rd[r].pc = "advance" /\ rd'[r].pc = "loadReadIdx"
        /\ delClaims' = delClaims \ {r} /\ delExclusive' = delExclusive \ {r} /\ delSharers' = delSharers
    BY <1>19, <1>2, AdvanceIs
  <2> QED
    BY <1>1, <1>2, <2>1 DEF OnlyReader, DelLocks
<1>20. ASSUME RecycleB(r) PROVE DelLocks'
  <2>1. /\ rd[r].pc = "recycleB" /\ rd'[r].pc \in {"recycleA", "checkReady", "idle"}
        /\ UNCHANGED <<delSharers, delClaims, delExclusive>>
    BY <1>20, <1>2, RecycleBIs DEF IsRecycled
  <2> QED
    BY <1>1, <1>2, <2>1 DEF OnlyReader, DelLocks
<1>21. ASSUME RecycleA(r) PROVE DelLocks'
  <2>1. /\ rd[r].pc = "recycleA" /\ rd'[r].pc \in {"checkReady", "idle"}
        /\ UNCHANGED <<delSharers, delClaims, delExclusive>>
    BY <1>21, <1>2, RecycleAIs DEF IsRecycled
  <2> QED
    BY <1>1, <1>2, <2>1 DEF OnlyReader, DelLocks
<1>22. ASSUME CompareExchangeReadIdx(r) PROVE DelLocks'
  <2>1. /\ rd[r].pc = "compareExchange" /\ rd'[r].pc \in {"call", "checkReady"}
        /\ UNCHANGED <<delSharers, delClaims, delExclusive>>
    BY <1>22, <1>2, CompareExchangeReadIdxIs
  <2> QED
    BY <1>1, <1>2, <2>1 DEF OnlyReader, DelLocks
<1>23. ASSUME CallAndDestroy(r) PROVE DelLocks'
  BY <1>1, <1>2, <1>23, CallAndDestroyIs, Zenon
     DEF OnlyReader, DelLocks
<1>24. ASSUME Leave(r) PROVE DelLocks'
  BY <1>1, <1>2, <1>24, LeaveIs
     DEF OnlyReader, DelLocks
<1> QED
  BY <1>10, <1>11, <1>12, <1>13, <1>14, <1>15, <1>16, <1>17, <1>18, <1>19, <1>20, <1>21, <1>22,
     <1>23, <1>24 DEF ReaderStep

LEMMA WriterLocalsStay ==
  ASSUME IInv, NEW w \in Writers, Push(w) \/ WriterStep(w)
  PROVE  WriterLocals'
<1>1. OnlyWriter(w)
  BY WriterFrames DEF IInv
<1>2. Types /\ WriterLocals
  BY DEF IInv
<1>10. ASSUME Push(w) PROVE WriterLocals'
  <2>1. wr[w].nr \in 0..MaxPush
    BY <1>2, Fields
  <2>2. wr'[w].nr \in 1..MaxPush
    BY <1>10, <1>2, <2>1, PushIs, BoundsAssumption
  <2> QED
    BY <1>1, <1>2, <1>10, <2>2, PushIs DEF OnlyWriter, WriterLocals, SamePush, SameIndex,
       SameAlloc, Full
<1>11. ASSUME WriterLockShared(w) PROVE WriterLocals'
  BY <1>1, <1>2, <1>11, WriterLockSharedIs
     DEF OnlyWriter, WriterLocals, SamePush, SameIndex, SameAlloc, Full
<1>12. ASSUME LoadPreWriteIdx(w) PROVE WriterLocals'
  BY <1>1, <1>2, <1>12, LoadPreWriteIdxIs
     DEF OnlyWriter, WriterLocals, SamePush, SameIndex, SameAlloc, Full
<1>13. ASSUME CheckFit(w) PROVE WriterLocals'
  BY <1>1, <1>2, <1>13, CheckFitIs
     DEF OnlyWriter, WriterLocals, SamePush, SameIndex, SameAlloc, Full
<1>14. ASSUME TryPartialLock(w) PROVE WriterLocals'
  BY <1>1, <1>2, <1>14, TryPartialLockIs
     DEF OnlyWriter, WriterLocals, SamePush, SameIndex, SameAlloc, Full
<1>15. ASSUME BackOff(w) PROVE WriterLocals'
  BY <1>1, <1>2, <1>15, BackOffIs
     DEF OnlyWriter, WriterLocals, SamePush, SameIndex, SameAlloc, Full
<1>16. ASSUME DropShare(w) PROVE WriterLocals'
  BY <1>1, <1>2, <1>16, DropShareIs
     DEF OnlyWriter, WriterLocals, SamePush, SameIndex, SameAlloc, Full
<1>17. ASSUME TakeSpareA(w) PROVE WriterLocals'
  BY <1>1, <1>2, <1>17, TakeSpareAIs
     DEF OnlyWriter, WriterLocals, SamePush, SameIndex, SameAlloc, Full
<1>18. ASSUME TakeSpareB(w) PROVE WriterLocals'
  BY <1>1, <1>2, <1>18, TakeSpareBIs
     DEF OnlyWriter, WriterLocals, SamePush, SameIndex, SameAlloc, Full
<1>19. ASSUME MallocBlock(w) PROVE WriterLocals'
  BY <1>1, <1>2, <1>19, MallocBlockIs, NullAssumption
     DEF OnlyWriter, WriterLocals, SamePush, SameIndex, SameAlloc, Full
<1>20. ASSUME Drain(w) PROVE WriterLocals'
  BY <1>1, <1>2, <1>20, DrainIs
     DEF OnlyWriter, WriterLocals, SamePush, SameIndex, SameAlloc, Full
<1>21. ASSUME AppendBlock(w) PROVE WriterLocals'
  BY <1>1, <1>2, <1>21, AppendBlockIs
     DEF OnlyWriter, WriterLocals, SamePush, SameIndex, SameAlloc, Full
<1>22. ASSUME Downgrade(w) PROVE WriterLocals'
  BY <1>1, <1>2, <1>22, DowngradeIs
     DEF OnlyWriter, WriterLocals, SamePush, SameIndex, SameAlloc, Full
<1>23. ASSUME CompareExchangePreWriteIdx(w) PROVE WriterLocals'
  BY <1>1, <1>2, <1>23, CompareExchangePreWriteIdxIs
     DEF OnlyWriter, WriterLocals, SamePush, SameIndex, SameAlloc, Full
<1>24. ASSUME Construct(w) PROVE WriterLocals'
  BY <1>1, <1>2, <1>24, ConstructIs, ZenonT(30)
     DEF OnlyWriter, WriterLocals, SamePush, SameIndex, SameAlloc, Full
<1>25. ASSUME Commit(w) PROVE WriterLocals'
  BY <1>1, <1>2, <1>25, CommitIs, Zenon
     DEF OnlyWriter, WriterLocals, SamePush, SameIndex, SameAlloc, Full
<1>26. ASSUME WriterUnlockShared(w) PROVE WriterLocals'
  BY <1>1, <1>2, <1>26, WriterUnlockSharedIs
     DEF OnlyWriter, WriterLocals, SamePush, SameIndex, SameAlloc, Full
<1>27. ASSUME Refill(w) PROVE WriterLocals'
  BY <1>1, <1>2, <1>27, RefillIs, NullAssumption
     DEF OnlyWriter, WriterLocals, SamePush, SameIndex, SameAlloc, Full
<1>28. ASSUME RefillB(w) PROVE WriterLocals'
  BY <1>1, <1>2, <1>28, RefillBIs
     DEF OnlyWriter, WriterLocals, SamePush, SameIndex, SameAlloc, Full
<1>29. ASSUME RefillA(w) PROVE WriterLocals'
  BY <1>1, <1>2, <1>29, RefillAIs
     DEF OnlyWriter, WriterLocals, SamePush, SameIndex, SameAlloc, Full
<1> QED
  BY <1>10, <1>11, <1>12, <1>13, <1>14, <1>15, <1>16, <1>17, <1>18, <1>19, <1>20, <1>21, <1>22,
     <1>23, <1>24, <1>25, <1>26, <1>27, <1>28, <1>29 DEF WriterStep

LEMMA AdvanceGoesOn ==
  ASSUME IInv, NEW r \in Readers, Advance(r)
  PROVE  rd[r].block \in Blocks /\ NextReadBlock(r) \in Blocks /\ NextReadBlock(r) # rd[r].block
<1>1. Types /\ ReaderLocals /\ rd[r].pc = "advance" /\ ~released
  BY AdvanceIs DEF IInv, ReleasedIsIdle
<1>2. rd[r].block \in Blocks /\ blk[rd[r].block].NextBlock # Null
  BY <1>1, Fields DEF ReaderLocals, IInv, InUseInv, UsedUp
<1>3. ReadBlock \in Blocks /\ blk[rd[r].block].NextBlock \in Blocks
  BY <1>1, <1>2, Fields DEF Types
<1>4. ReadBlock \in Chain
  BY <1>1, <1>3 DEF Chain, Linked
<1>5. ReadBlock = rd[r].block => blk[ReadBlock].NextBlock # ReadBlock
  BY <1>1, <1>4 DEF IInv, InUseInv, ChainOK
<1> QED
  BY <1>2, <1>3, <1>5 DEF NextReadBlock

LEMMA ReaderLocalsStay ==
  ASSUME IInv, NEW r \in Readers, Pop(r) \/ ReaderStep(r)
  PROVE  ReaderLocals'
<1>1. OnlyReader(r)
  BY ReaderFrames DEF IInv
<1>2. Types /\ ReaderLocals
  BY DEF IInv
<1>10. ASSUME Pop(r) PROVE ReaderLocals'
  BY <1>1, <1>2, <1>10, PopIs
     DEF OnlyReader, ReaderLocals, SameBlock, SameOld, IsRecycled
<1>11. ASSUME EnterBlock(r) PROVE ReaderLocals'
  BY <1>1, <1>2, <1>11, EnterBlockIs, NullAssumption DEF Types, OnlyReader, ReaderLocals,
     SameBlock, SameOld
<1>12. ASSUME PinBlock(r) PROVE ReaderLocals'
  <2>1. /\ rd[r].pc = "pin" /\ rd'[r].pc = "loadReadIdx"
        /\ SameBlock(r) /\ SameOld(r) /\ ReadBlock' = ReadBlock
    BY <1>12, <1>2, PinBlockIs
  <2> QED
    BY <1>1, <1>2, <2>1 DEF OnlyReader, ReaderLocals, SameBlock, SameOld
<1>13. ASSUME LoadReadIdx(r) PROVE ReaderLocals'
  BY <1>1, <1>2, <1>13, LoadReadIdxIs
     DEF OnlyReader, ReaderLocals, SameBlock, SameOld, IsRecycled
<1>14. ASSUME CheckReady(r) PROVE ReaderLocals'
  BY <1>1, <1>2, <1>14, CheckReadyIs
     DEF OnlyReader, ReaderLocals, SameBlock, SameOld, IsRecycled
<1>15. ASSUME CheckNext(r) PROVE ReaderLocals'
  BY <1>1, <1>2, <1>15, CheckNextIs
     DEF OnlyReader, ReaderLocals, SameBlock, SameOld, IsRecycled
<1>16. ASSUME RecheckReady(r) PROVE ReaderLocals'
  BY <1>1, <1>2, <1>16, RecheckReadyIs
     DEF OnlyReader, ReaderLocals, SameBlock, SameOld, IsRecycled
<1>17. ASSUME ReaderLock(r) PROVE ReaderLocals'
  BY <1>1, <1>2, <1>17, ReaderLockIs
     DEF OnlyReader, ReaderLocals, SameBlock, SameOld, IsRecycled
<1>18. ASSUME ReaderLockDrain(r) PROVE ReaderLocals'
  BY <1>1, <1>2, <1>18, ReaderLockDrainIs
     DEF OnlyReader, ReaderLocals, SameBlock, SameOld, IsRecycled
<1>19. ASSUME Advance(r) PROVE ReaderLocals'
  <2>1. rd[r].pc = "advance" /\ rd'[r].pc = "loadReadIdx" /\ rd'[r].block = NextReadBlock(r)
    BY <1>19, <1>2, AdvanceIs
  <2>2. NextReadBlock(r) # Null
    BY <1>19, AdvanceGoesOn, NullAssumption
  <2>3. \A q \in Readers : rd[q].pc # "pin"
    BY <2>1 DEF IInv, DelLocks
  <2> QED
    BY <1>1, <1>2, <2>1, <2>2, <2>3 DEF OnlyReader, ReaderLocals
<1>20. ASSUME RecycleB(r) PROVE ReaderLocals'
  BY <1>1, <1>2, <1>20, RecycleBIs
     DEF OnlyReader, ReaderLocals, SameBlock, SameOld, IsRecycled
<1>21. ASSUME RecycleA(r) PROVE ReaderLocals'
  BY <1>1, <1>2, <1>21, RecycleAIs
     DEF OnlyReader, ReaderLocals, SameBlock, SameOld, IsRecycled
<1>22. ASSUME CompareExchangeReadIdx(r) PROVE ReaderLocals'
  <2>1. /\ rd[r].pc = "compareExchange" /\ rd'[r].pc \in {"call", "checkReady"}
        /\ SameBlock(r) /\ SameOld(r) /\ ReadBlock' = ReadBlock
    BY <1>22, <1>2, CompareExchangeReadIdxIs
  <2> QED
    BY <1>1, <1>2, <2>1, SMTT(20) DEF OnlyReader, ReaderLocals, SameBlock, SameOld
<1>23. ASSUME CallAndDestroy(r) PROVE ReaderLocals'
  <2>1. /\ rd[r].pc = "call" /\ rd'[r].pc = "leave"
        /\ SameBlock(r) /\ SameOld(r) /\ ReadBlock' = ReadBlock
    BY <1>23, <1>2, CallAndDestroyIs
  <2> QED
    BY <1>1, <1>2, <2>1 DEF OnlyReader, ReaderLocals, SameBlock, SameOld
<1>24. ASSUME Leave(r) PROVE ReaderLocals'
  BY <1>1, <1>2, <1>24, LeaveIs
     DEF OnlyReader, ReaderLocals, SameBlock, SameOld, IsRecycled
<1> QED
  BY <1>10, <1>11, <1>12, <1>13, <1>14, <1>15, <1>16, <1>17, <1>18, <1>19, <1>20, <1>21, <1>22,
     <1>23, <1>24 DEF ReaderStep

------------------------------------------------------------------------------
(* The index of a writer and PreWriteIdx. *)
(* A writer that waits for nobody is the only one with an index loaded.     *)
LEMMA AloneIsAlone ==
  ASSUME IInv, NEW w \in Writers, wr[w].pc \in AlonePoints
  PROVE  \A v \in Writers : v # w => wr[v].pc \notin LoadedPoints
<1>1. SwapLocks
  BY DEF IInv
<1>2. w \in swapExclusive /\ w \in swapClaims /\ swapSharers = {}
  BY <1>1 DEF SwapLocks, AlonePoints, ClaimPoints
<1>3. ASSUME NEW v \in Writers, wr[v].pc \in LoadedPoints PROVE v = w
  <2>1. v \in swapSharers \/ v \in swapClaims
    BY <1>1, <1>3 DEF SwapLocks, LoadedPoints, SharePoints, ClaimPoints
  <2> QED
    BY <1>1, <1>2, <2>1 DEF SwapLocks
<1> QED
  BY <1>3

LEMMA WriterViewStays ==
  ASSUME IInv, NEW w \in Writers, Push(w) \/ WriterStep(w)
  PROVE  WriterView'
<1>1. OnlyWriter(w)
  BY WriterFrames DEF IInv
<1>2. Types /\ WriterView
  BY DEF IInv
<1>10. ASSUME Push(w) PROVE WriterView'
  BY <1>1, <1>2, <1>10, PushIs
     DEF OnlyWriter, WriterView, LoadedPoints, PlacedPoints, SamePush, SameIndex
<1>11. ASSUME WriterLockShared(w) PROVE WriterView'
  BY <1>1, <1>2, <1>11, WriterLockSharedIs
     DEF OnlyWriter, WriterView, LoadedPoints, PlacedPoints, SamePush, SameIndex
<1>12. ASSUME LoadPreWriteIdx(w) PROVE WriterView'
  BY <1>1, <1>2, <1>12, LoadPreWriteIdxIs DEF Types, OnlyWriter, WriterView, LoadedPoints,
     PlacedPoints
<1>13. ASSUME CheckFit(w) PROVE WriterView'
  BY <1>1, <1>2, <1>13, CheckFitIs
     DEF OnlyWriter, WriterView, LoadedPoints, PlacedPoints, SamePush, SameIndex
<1>14. ASSUME TryPartialLock(w) PROVE WriterView'
  BY <1>1, <1>2, <1>14, TryPartialLockIs
     DEF OnlyWriter, WriterView, LoadedPoints, PlacedPoints, SamePush, SameIndex
<1>15. ASSUME BackOff(w) PROVE WriterView'
  BY <1>1, <1>2, <1>15, BackOffIs
     DEF OnlyWriter, WriterView, LoadedPoints, PlacedPoints, SamePush, SameIndex
<1>16. ASSUME DropShare(w) PROVE WriterView'
  BY <1>1, <1>2, <1>16, DropShareIs
     DEF OnlyWriter, WriterView, LoadedPoints, PlacedPoints, SamePush, SameIndex
<1>17. ASSUME TakeSpareA(w) PROVE WriterView'
  BY <1>1, <1>2, <1>17, TakeSpareAIs
     DEF OnlyWriter, WriterView, LoadedPoints, PlacedPoints, SamePush, SameIndex
<1>18. ASSUME TakeSpareB(w) PROVE WriterView'
  BY <1>1, <1>2, <1>18, TakeSpareBIs
     DEF OnlyWriter, WriterView, LoadedPoints, PlacedPoints, SamePush, SameIndex
<1>19. ASSUME MallocBlock(w) PROVE WriterView'
  BY <1>1, <1>2, <1>19, MallocBlockIs
     DEF OnlyWriter, WriterView, LoadedPoints, PlacedPoints, SamePush, SameIndex
<1>20. ASSUME Drain(w) PROVE WriterView'
  BY <1>1, <1>2, <1>20, DrainIs
     DEF OnlyWriter, WriterView, LoadedPoints, PlacedPoints, SamePush, SameIndex
<1>21. ASSUME AppendBlock(w) PROVE WriterView'
  <2>1. /\ wr[w].pc = "appendBlock" /\ wr'[w].pc = "downgrade" /\ wr'[w].size = wr[w].size
        /\ wr'[w].idx = RoundUp(wr[w].idx) + StartIdx /\ wr'[w].block = wr[w].alloc
        /\ WriteBlock' = wr[w].alloc /\ PreWriteIdx' = RoundUp(wr[w].idx) + StartIdx + wr[w].size
    BY <1>21, <1>2, AppendBlockIs DEF SamePush
  <2>2. \A v \in Writers : v # w => wr[v].pc \notin LoadedPoints
    BY <2>1, AloneIsAlone DEF AlonePoints
  <2>3. wr[w].idx \in Nat /\ Mask(wr[w].idx) >= StartIdx /\ wr[w].size \in Sizes
    BY <1>2, <2>1, Fields DEF WriterView, LoadedPoints, IInv, WriterLocals
  <2>4. RoundUp(wr[w].idx) \in Nat /\ Mask(RoundUp(wr[w].idx) + StartIdx) = StartIdx
    BY <2>3, RoundUpAdds
  <2>5. /\ StartIdx = 1 /\ wr[w].size \in Nat /\ StartIdx + wr[w].size <= BlockLimit
        /\ BlockLimit \in Nat
    BY <2>3, Numbers
  <2> DEFINE new == RoundUp(wr[w].idx) + StartIdx
  <2>6. new \in Nat /\ Mask(new) = StartIdx
    BY <2>4, <2>5
  <2>7. Mask(new + wr[w].size) = StartIdx + wr[w].size
    <3> HIDE DEF new
    <3> QED
      BY <2>5, <2>6, MaskAdds
  <2>8. wr'[w].idx = new /\ PreWriteIdx' = new + wr[w].size
    BY <2>1, <2>4, <2>5
  <2> HIDE DEF new
  <2>9. \A v \in Writers : wr'[v].pc \in LoadedPoints => v = w
    BY <1>1, <2>2 DEF OnlyWriter
  <2> QED
    BY <2>1, <2>5, <2>6, <2>7, <2>8, <2>9 DEF WriterView
<1>22. ASSUME Downgrade(w) PROVE WriterView'
  BY <1>1, <1>2, <1>22, DowngradeIs
     DEF OnlyWriter, WriterView, LoadedPoints, PlacedPoints, SamePush, SameIndex
<1>23. ASSUME CompareExchangePreWriteIdx(w) PROVE WriterView'
  <2>1. /\ wr[w].pc = "compareExchange" /\ SamePush(w) /\ SameIndex(w) /\ WriteBlock' = WriteBlock
        /\ \/ /\ wr'[w].pc = "construct" /\ PreWriteIdx = wr[w].idx
              /\ PreWriteIdx' = wr[w].idx + wr[w].size
           \/ wr'[w].pc = "loadIdx" /\ PreWriteIdx' = PreWriteIdx
    BY <1>23, <1>2, CompareExchangePreWriteIdxIs
  <2>2. CASE wr'[w].pc = "construct"
    <3>1. /\ PreWriteIdx \in Nat /\ wr[w].size \in Nat
          /\ \A v \in Writers : wr[v].idx \in Nat /\ wr[v].size \in Nat
      BY <1>2, Fields DEF Types
    <3>2. Mask(PreWriteIdx) + wr[w].size <= BlockLimit
      <4>1. ~(Mask(PreWriteIdx) + wr[w].size > BlockLimit)
        BY <1>2, <2>1, <2>2 DEF IInv, WriterLocals, Full
      <4>2. Mask(PreWriteIdx) \in 0..BlockLimit
        BY <3>1, MaskIs
      <4>3. BlockLimit \in Int
        BY Numbers
      <4> QED
        BY <3>1, <4>1, <4>2, <4>3
    <3>3. Mask(PreWriteIdx') = Mask(PreWriteIdx) + wr[w].size /\ PreWriteIdx' = PreWriteIdx + wr[w].size
      BY <2>1, <2>2, <3>1, <3>2, MaskAdds
    <3>4. Mask(PreWriteIdx) \in Int /\ StartIdx \in Int /\ \A v \in Writers : Mask(wr[v].idx) \in Int
      <4>1. \A x \in Nat : Mask(x) \in 0..BlockLimit
        BY MaskIs
      <4>2. StartIdx \in Int /\ BlockLimit \in Int
        BY Numbers
      <4> QED
        BY <3>1, <4>1, <4>2
    <3>5. Mask(PreWriteIdx') >= StartIdx
      BY <1>2, <3>1, <3>3, <3>4 DEF WriterView
    <3>6. ASSUME NEW v \in Writers, wr'[v].pc \in LoadedPoints
          PROVE  /\ wr'[v].block = WriteBlock'
                 /\ Mask(wr'[v].idx) >= StartIdx
                 /\ wr'[v].idx - Mask(wr'[v].idx) = PreWriteIdx' - Mask(PreWriteIdx')
                 /\ wr'[v].idx <= PreWriteIdx'
                 /\ wr'[v].pc \in PlacedPoints => wr'[v].idx + wr'[v].size <= PreWriteIdx'
      <4>1. /\ wr[v].pc \in LoadedPoints
            /\ wr'[v].block = wr[v].block /\ wr'[v].idx = wr[v].idx /\ wr'[v].size = wr[v].size
        BY <1>1, <2>1, <2>2, <3>6 DEF OnlyWriter, SamePush, SameIndex, LoadedPoints
      <4>2. /\ wr[v].block = WriteBlock /\ Mask(wr[v].idx) >= StartIdx
            /\ wr[v].idx - Mask(wr[v].idx) = PreWriteIdx - Mask(PreWriteIdx)
            /\ wr[v].idx <= PreWriteIdx
        BY <1>2, <4>1 DEF WriterView
      <4>3. wr'[v].pc \in PlacedPoints => wr[v].idx + wr[v].size <= PreWriteIdx'
        <5>1. CASE v = w
          BY <2>1, <2>2, <5>1, <3>1
        <5>2. CASE v # w
          <6>1. wr'[v].pc \in PlacedPoints => wr[v].idx + wr[v].size <= PreWriteIdx
            BY <1>1, <1>2, <4>1, <5>2 DEF OnlyWriter, WriterView
          <6> QED
            BY <3>1, <3>3, <6>1
        <5> QED
          BY <5>1, <5>2
      <4> QED
        BY <2>1, <3>1, <3>3, <3>4, <4>1, <4>2, <4>3
    <3> QED
      BY <3>5, <3>6 DEF WriterView
  <2>3. CASE wr'[w].pc # "construct"
    BY <1>1, <1>2, <2>1, <2>3 DEF OnlyWriter, WriterView, LoadedPoints, PlacedPoints
  <2> QED
    BY <2>2, <2>3
<1>24. ASSUME Construct(w) PROVE WriterView'
  <2>1. /\ wr[w].pc = "construct" /\ wr'[w].pc = "commit" /\ SamePush(w) /\ SameIndex(w)
        /\ WriteBlock' = WriteBlock /\ PreWriteIdx' = PreWriteIdx
    BY <1>24, <1>2, ConstructIs
  <2> QED
    BY <1>1, <1>2, <2>1 DEF OnlyWriter, WriterView, LoadedPoints, PlacedPoints, SamePush, SameIndex
<1>25. ASSUME Commit(w) PROVE WriterView'
  <2>1. /\ wr[w].pc = "commit" /\ wr'[w].pc = "unlockShared" /\ SamePush(w) /\ SameIndex(w)
        /\ WriteBlock' = WriteBlock /\ PreWriteIdx' = PreWriteIdx
    BY <1>25, <1>2, CommitIs
  <2> QED
    BY <1>1, <1>2, <2>1 DEF OnlyWriter, WriterView, LoadedPoints, PlacedPoints, SamePush, SameIndex
<1>26. ASSUME WriterUnlockShared(w) PROVE WriterView'
  BY <1>1, <1>2, <1>26, WriterUnlockSharedIs
     DEF OnlyWriter, WriterView, LoadedPoints, PlacedPoints, SamePush, SameIndex
<1>27. ASSUME Refill(w) PROVE WriterView'
  BY <1>1, <1>2, <1>27, RefillIs
     DEF OnlyWriter, WriterView, LoadedPoints, PlacedPoints, SamePush, SameIndex
<1>28. ASSUME RefillB(w) PROVE WriterView'
  BY <1>1, <1>2, <1>28, RefillBIs
     DEF OnlyWriter, WriterView, LoadedPoints, PlacedPoints, SamePush, SameIndex
<1>29. ASSUME RefillA(w) PROVE WriterView'
  BY <1>1, <1>2, <1>29, RefillAIs
     DEF OnlyWriter, WriterView, LoadedPoints, PlacedPoints, SamePush, SameIndex
<1> QED
  BY <1>10, <1>11, <1>12, <1>13, <1>14, <1>15, <1>16, <1>17, <1>18, <1>19, <1>20, <1>21, <1>22,
     <1>23, <1>24, <1>25, <1>26, <1>27, <1>28, <1>29 DEF WriterStep

------------------------------------------------------------------------------
(* The chain, as a set of first block and next pointers. *)
Links(first, next, S) == first \in S /\ \A b \in S : next[b] \in S \union {Null}

Reach(first, next) ==
  { b \in Blocks : \A S \in SUBSET Blocks : Links(first, next, S) => b \in S }

NextOf(m) == [b \in Blocks |-> m[b].NextBlock]

(* The chain is the least set that is linked. *)
LEMMA ReachIs ==
  ASSUME NEW first \in Blocks, NEW next \in [Blocks -> Blocks \union {Null}]
  PROVE  /\ Links(first, next, Reach(first, next))
         /\ Reach(first, next) \subseteq Blocks
         /\ \A S \in SUBSET Blocks : Links(first, next, S) => Reach(first, next) \subseteq S
<1>1. Reach(first, next) \subseteq Blocks
  BY DEF Reach
<1>2. \A S \in SUBSET Blocks : Links(first, next, S) => Reach(first, next) \subseteq S
  BY DEF Reach
<1>3. first \in Reach(first, next)
  BY DEF Reach, Links
<1>4. ASSUME NEW b \in Reach(first, next), next[b] # Null PROVE next[b] \in Reach(first, next)
  <2>1. b \in Blocks /\ next[b] \in Blocks
    BY <1>1, <1>4
  <2>2. ASSUME NEW S \in SUBSET Blocks, Links(first, next, S) PROVE next[b] \in S
    BY <1>2, <1>4, <2>2 DEF Links
  <2> QED
    BY <2>1, <2>2 DEF Reach
<1> QED
  BY <1>1, <1>2, <1>3, <1>4 DEF Links

(* What is not in the chain does not matter. *)
LEMMA ReachStays ==
  ASSUME NEW first \in Blocks, NEW next \in [Blocks -> Blocks \union {Null}],
         NEW new \in [Blocks -> Blocks \union {Null}],
         \A b \in Reach(first, next) : new[b] = next[b]
  PROVE  Reach(first, new) = Reach(first, next)
<1>1. Links(first, new, Reach(first, next))
  BY ReachIs DEF Links
<1>2. Reach(first, new) \subseteq Reach(first, next)
  BY <1>1, ReachIs
<1>3. Links(first, next, Reach(first, new))
  BY <1>2, ReachIs DEF Links
<1>4. Reach(first, next) \subseteq Reach(first, new)
  BY <1>3, ReachIs
<1> QED
  BY <1>2, <1>4

(* A block is linked in behind the last one. *)
LEMMA ReachGrows ==
  ASSUME NEW first \in Blocks, NEW next \in [Blocks -> Blocks \union {Null}],
         NEW new \in [Blocks -> Blocks \union {Null}],
         NEW last \in Reach(first, next), next[last] = Null,
         NEW b \in Blocks \ Reach(first, next), next[b] = Null,
         new[last] = b, \A c \in Blocks : c # last => new[c] = next[c]
  PROVE  Reach(first, new) = Reach(first, next) \union {b}
<1> DEFINE old == Reach(first, next)
<1>1. old \subseteq Blocks /\ Links(first, next, old)
  BY ReachIs
<1>2. Links(first, new, old \union {b})
  <2>1. first \in old \union {b}
    BY <1>1 DEF Links
  <2>2. ASSUME NEW c \in old \union {b} PROVE new[c] \in old \union {b} \union {Null}
    <3>1. CASE c = last
      BY <3>1
    <3>2. CASE c # last
      <4>1. new[c] = next[c]
        BY <1>1, <2>2, <3>2
      <4>2. next[c] \in old \union {Null}
        BY <1>1, <2>2 DEF Links
      <4> QED
        BY <4>1, <4>2
    <3> QED
      BY <3>1, <3>2
  <2> HIDE DEF old
  <2> QED
    BY <2>1, <2>2 DEF Links
<1>3. Reach(first, new) \subseteq old \union {b}
  <2>1. old \union {b} \in SUBSET Blocks
    BY <1>1
  <2> QED
    BY <1>2, <2>1, ReachIs
<1>4. ASSUME NEW S \in SUBSET Blocks, Links(first, new, S) PROVE old \union {b} \subseteq S
  <2>1. Links(first, next, S)
    <3>1. ASSUME NEW c \in S PROVE next[c] \in S \union {Null}
      BY <1>4, <3>1 DEF Links
    <3> QED
      BY <1>4, <3>1 DEF Links
  <2>2. old \subseteq S
    BY <2>1, ReachIs
  <2>3. last \in S /\ last \in Blocks
    BY <2>2, <1>1
  <2>4. b \in S
    BY <1>4, <2>3, NullAssumption DEF Links
  <2> QED
    BY <2>2, <2>4
<1>5. Links(first, new, Reach(first, new)) /\ Reach(first, new) \in SUBSET Blocks
  BY ReachIs
<1>6. old \union {b} \subseteq Reach(first, new)
  BY <1>4, <1>5
<1> QED
  BY <1>3, <1>6

(* The chain begins one block later. *)
LEMMA ReachShrinks ==
  ASSUME NEW first \in Blocks, NEW next \in [Blocks -> Blocks \union {Null}],
         next[first] \in Blocks, next[first] # first,
         \A c \in Reach(first, next) : next[c] # first
  PROVE  Reach(next[first], next) = Reach(first, next) \ {first}
<1> DEFINE old == Reach(first, next)
           rest == Reach(next[first], next)
<1>1. old \subseteq Blocks /\ Links(first, next, old)
  BY ReachIs
<1>2. rest \subseteq Blocks /\ Links(next[first], next, rest)
  BY ReachIs
<1>3. Links(next[first], next, old \ {first})
  <2>1. next[first] \in old
    BY <1>1, NullAssumption DEF Links
  <2> QED
    BY <1>1, <2>1, NullAssumption DEF Links
<1>4. rest \subseteq old \ {first}
  <2>1. old \ {first} \in SUBSET Blocks
    BY <1>1
  <2> QED
    BY <1>3, <2>1, ReachIs
<1>5. Links(first, next, rest \union {first})
  BY <1>2 DEF Links
<1>6. old \subseteq rest \union {first}
  <2>1. rest \union {first} \in SUBSET Blocks
    BY <1>2
  <2> QED
    BY <1>5, <2>1, ReachIs
<1> QED
  BY <1>4, <1>6

LEMMA ChainIs == Chain = IF released THEN {} ELSE Reach(ReadBlock, NextOf(blk))
<1>1. ASSUME NEW S \in SUBSET Blocks PROVE Linked(S) <=> Links(ReadBlock, NextOf(blk), S)
    BY DEF Linked, Links, NextOf
<1> QED
    BY <1>1 DEF Chain, Reach

LEMMA NextChainIs == Chain' = IF released' THEN {} ELSE Reach(ReadBlock', NextOf(blk'))
<1>1. ASSUME NEW S \in SUBSET Blocks PROVE Linked(S)' <=> Links(ReadBlock', NextOf(blk'), S)
    BY DEF Linked, Links, NextOf
<1> QED
    BY <1>1 DEF Chain, Reach

LEMMA NextOfIs == Types => NextOf(blk) \in [Blocks -> Blocks \union {Null}]
  BY Fields DEF NextOf

LEMMA NextNextOfIs ==
  ASSUME Types' PROVE NextOf(blk') \in [Blocks -> Blocks \union {Null}]
<1>1. \A b \in Blocks : blk'[b] \in BlockRecords
  BY DEF Types
<1>2. \A b \in Blocks : blk'[b].NextBlock \in Blocks \union {Null}
  BY <1>1 DEF BlockRecords
<1> QED
  BY <1>2 DEF NextOf

(* The chain begins with ReadBlock and leads nowhere else. *)
LEMMA ChainFacts ==
  ASSUME Types, ~released
  PROVE  /\ Chain \subseteq Blocks /\ ReadBlock \in Chain
         /\ \A b \in Chain : blk[b].NextBlock \in Chain \union {Null}
<1>1. ReadBlock \in Blocks /\ NextOf(blk) \in [Blocks -> Blocks \union {Null}]
  BY NextOfIs DEF Types
<1>2. Chain = Reach(ReadBlock, NextOf(blk))
  BY ChainIs
<1>3. Chain \subseteq Blocks /\ Links(ReadBlock, NextOf(blk), Chain)
  BY <1>1, <1>2, ReachIs
<1>4. \A b \in Blocks : NextOf(blk)[b] = blk[b].NextBlock
  BY DEF NextOf
<1> QED
  BY <1>3, <1>4 DEF Links

(* A step that changes no next pointer of the chain leaves the chain alone. *)
LEMMA ChainStays ==
  ASSUME Types, Types', ~released, ~released', ReadBlock' = ReadBlock,
         \A b \in Chain : blk'[b].NextBlock = blk[b].NextBlock
  PROVE  Chain' = Chain
<1>1. /\ ReadBlock \in Blocks /\ NextOf(blk) \in [Blocks -> Blocks \union {Null}]
      /\ NextOf(blk') \in [Blocks -> Blocks \union {Null}]
  BY NextOfIs, NextNextOfIs DEF Types
<1>2. Chain = Reach(ReadBlock, NextOf(blk)) /\ Chain' = Reach(ReadBlock, NextOf(blk'))
  BY ChainIs, NextChainIs
<1>3. \A b \in Chain : NextOf(blk')[b] = NextOf(blk)[b]
  BY ChainFacts DEF NextOf
<1> QED
  BY <1>1, <1>2, <1>3, ReachStays

------------------------------------------------------------------------------
(* Most steps change no block, no place that is being written, and no pin.  *)
InBlock(r, b) == rd[r].block = b /\ rd[r].pc \in PinnedAt
SamePin(r) == \A b \in Blocks : InBlock(r, b)' <=> InBlock(r, b)

QuietWriter(w) ==
  /\ OnlyWriter(w) /\ UNCHANGED <<blk, WriteBlock, PreWriteIdx>>
  /\ wr'[w].pc \in PlacedPoints <=> wr[w].pc \in PlacedPoints
  /\ wr[w].pc \in PlacedPoints => SamePush(w) /\ SameIndex(w)
  /\ wr[w].pc # "commit" /\ wr'[w].pc # "commit"

QuietReader(r) ==
  /\ OnlyReader(r) /\ UNCHANGED <<blk, ReadBlock>>
  /\ SamePin(r)
  /\ rd[r].pc # "call" /\ rd'[r].pc # "call"

Reserve(w) == CompareExchangePreWriteIdx(w) /\ wr'[w].pc = "construct"
Take(r) == CompareExchangeReadIdx(r) /\ rd'[r].pc = "call"

LEMMA WriterKinds ==
  ASSUME IInv, NEW w \in Writers, Push(w) \/ WriterStep(w)
  PROVE  QuietWriter(w) \/ AppendBlock(w) \/ Reserve(w) \/ Construct(w) \/ Commit(w)
<1>1. OnlyWriter(w)
  BY WriterFrames DEF IInv
<1>2. Types
  BY DEF IInv
<1>10. ASSUME Push(w) PROVE QuietWriter(w)
  BY <1>1, <1>2, <1>10, PushIs DEF QuietWriter, PlacedPoints, Reserve
<1>11. ASSUME WriterLockShared(w) PROVE QuietWriter(w)
  BY <1>1, <1>2, <1>11, WriterLockSharedIs DEF QuietWriter, PlacedPoints, Reserve
<1>12. ASSUME LoadPreWriteIdx(w) PROVE QuietWriter(w)
  BY <1>1, <1>2, <1>12, LoadPreWriteIdxIs DEF QuietWriter, PlacedPoints, Reserve
<1>13. ASSUME CheckFit(w) PROVE QuietWriter(w)
  BY <1>1, <1>2, <1>13, CheckFitIs DEF QuietWriter, PlacedPoints, Reserve
<1>14. ASSUME TryPartialLock(w) PROVE QuietWriter(w)
  BY <1>1, <1>2, <1>14, TryPartialLockIs DEF QuietWriter, PlacedPoints, Reserve
<1>15. ASSUME BackOff(w) PROVE QuietWriter(w)
  BY <1>1, <1>2, <1>15, BackOffIs DEF QuietWriter, PlacedPoints, Reserve
<1>16. ASSUME DropShare(w) PROVE QuietWriter(w)
  BY <1>1, <1>2, <1>16, DropShareIs DEF QuietWriter, PlacedPoints, Reserve
<1>17. ASSUME TakeSpareA(w) PROVE QuietWriter(w)
  BY <1>1, <1>2, <1>17, TakeSpareAIs DEF QuietWriter, PlacedPoints, Reserve
<1>18. ASSUME TakeSpareB(w) PROVE QuietWriter(w)
  BY <1>1, <1>2, <1>18, TakeSpareBIs DEF QuietWriter, PlacedPoints, Reserve
<1>19. ASSUME MallocBlock(w) PROVE QuietWriter(w)
  BY <1>1, <1>2, <1>19, MallocBlockIs DEF QuietWriter, PlacedPoints, Reserve
<1>20. ASSUME Drain(w) PROVE QuietWriter(w)
  BY <1>1, <1>2, <1>20, DrainIs DEF QuietWriter, PlacedPoints, Reserve
<1>21. ASSUME Downgrade(w) PROVE QuietWriter(w)
  BY <1>1, <1>2, <1>21, DowngradeIs DEF QuietWriter, PlacedPoints, Reserve
<1>22. ASSUME WriterUnlockShared(w) PROVE QuietWriter(w)
  BY <1>1, <1>2, <1>22, WriterUnlockSharedIs DEF QuietWriter, PlacedPoints, Reserve
<1>23. ASSUME Refill(w) PROVE QuietWriter(w)
  BY <1>1, <1>2, <1>23, RefillIs DEF QuietWriter, PlacedPoints, Reserve
<1>24. ASSUME RefillB(w) PROVE QuietWriter(w)
  BY <1>1, <1>2, <1>24, RefillBIs DEF QuietWriter, PlacedPoints, Reserve
<1>25. ASSUME RefillA(w) PROVE QuietWriter(w)
  <2>1. wr[w].alloc # Null /\ blk[wr[w].alloc] = WipedBlock
    BY <1>1, <1>2, <1>25, RefillAIs DEF IInv, WriterLocals, InUseInv, SparesAreWiped, OnlyWriter
  <2>2. blk' = blk
    BY <1>2, <1>25, <2>1, RefillAIs DEF Types
  <2> QED
    BY <1>1, <1>2, <1>25, <2>2, RefillAIs DEF QuietWriter, PlacedPoints
<1>26. ASSUME CompareExchangePreWriteIdx(w) PROVE QuietWriter(w) \/ Reserve(w)
  BY <1>1, <1>2, <1>26, CompareExchangePreWriteIdxIs DEF QuietWriter, PlacedPoints, Reserve
<1> QED
  BY <1>10, <1>11, <1>12, <1>13, <1>14, <1>15, <1>16, <1>17, <1>18, <1>19, <1>20, <1>21, <1>22,
     <1>23, <1>24, <1>25, <1>26 DEF WriterStep

LEMMA ReaderKinds ==
  ASSUME IInv, NEW r \in Readers, Pop(r) \/ ReaderStep(r)
  PROVE  \/ QuietReader(r) \/ PinBlock(r) \/ Advance(r) \/ RecycleB(r) \/ Take(r)
         \/ CallAndDestroy(r) \/ Leave(r)
<1>1. OnlyReader(r)
  BY ReaderFrames DEF IInv
<1>2. Types
  BY DEF IInv
<1>10. ASSUME Pop(r) PROVE QuietReader(r)
  BY <1>1, <1>2, <1>10, PopIs
     DEF QuietReader, SamePin, InBlock, PinnedAt, SameBlock, Take
<1>11. ASSUME EnterBlock(r) PROVE QuietReader(r)
  BY <1>1, <1>2, <1>11, EnterBlockIs
     DEF QuietReader, SamePin, InBlock, PinnedAt, SameBlock, Take
<1>12. ASSUME LoadReadIdx(r) PROVE QuietReader(r)
  BY <1>1, <1>2, <1>12, LoadReadIdxIs
     DEF QuietReader, SamePin, InBlock, PinnedAt, SameBlock, Take
<1>13. ASSUME CheckReady(r) PROVE QuietReader(r)
  BY <1>1, <1>2, <1>13, CheckReadyIs
     DEF QuietReader, SamePin, InBlock, PinnedAt, SameBlock, Take
<1>14. ASSUME CheckNext(r) PROVE QuietReader(r)
  BY <1>1, <1>2, <1>14, CheckNextIs
     DEF QuietReader, SamePin, InBlock, PinnedAt, SameBlock, Take
<1>15. ASSUME RecheckReady(r) PROVE QuietReader(r)
  BY <1>1, <1>2, <1>15, RecheckReadyIs
     DEF QuietReader, SamePin, InBlock, PinnedAt, SameBlock, Take
<1>16. ASSUME ReaderLock(r) PROVE QuietReader(r)
  BY <1>1, <1>2, <1>16, ReaderLockIs
     DEF QuietReader, SamePin, InBlock, PinnedAt, SameBlock, Take
<1>17. ASSUME ReaderLockDrain(r) PROVE QuietReader(r)
  BY <1>1, <1>2, <1>17, ReaderLockDrainIs
     DEF QuietReader, SamePin, InBlock, PinnedAt, SameBlock, Take
<1>18. ASSUME RecycleA(r) PROVE QuietReader(r)
  <2>1. blk[rd[r].old] = WipedBlock
    BY <1>1, <1>2, <1>18, RecycleAIs DEF IInv, InUseInv, SparesAreWiped, OnlyReader
  <2>2. blk' = blk
    BY <1>2, <1>18, <2>1, RecycleAIs DEF Types
  <2> QED
    BY <1>1, <1>2, <1>18, <2>2, RecycleAIs, NullAssumption
       DEF QuietReader, SamePin, InBlock, PinnedAt, SameBlock, IsRecycled
<1>19. ASSUME CompareExchangeReadIdx(r) PROVE QuietReader(r) \/ Take(r)
  BY <1>1, <1>2, <1>19, CompareExchangeReadIdxIs
     DEF QuietReader, SamePin, InBlock, PinnedAt, SameBlock, Take
<1> QED
  BY <1>10, <1>11, <1>12, <1>13, <1>14, <1>15, <1>16, <1>17, <1>18, <1>19 DEF ReaderStep

------------------------------------------------------------------------------
(* What the other steps do to the blocks. *)
SameNext == \A b \in Blocks : blk'[b].NextBlock = blk[b].NextBlock
SameReadIdx == \A b \in Blocks : blk'[b].ReadIdx = blk[b].ReadIdx
SamePins == \A b \in Blocks : blk'[b].ReadShared = blk[b].ReadShared
SameObjects == \A b \in Blocks : blk'[b].NbObjects = blk[b].NbObjects
SamePlaces == \A b \in Blocks : blk'[b].place = blk[b].place

LEMMA AppendBlockDoes ==
  ASSUME Types, NEW w \in Writers, AppendBlock(w)
  PROVE  /\ SameReadIdx /\ SamePins /\ SameObjects /\ SamePlaces
         /\ \A b \in Blocks :
              blk'[b].NextBlock = IF b = wr[w].block THEN wr[w].alloc ELSE blk[b].NextBlock
<1>1. blk \in [Blocks -> BlockRecords] /\ \A b \in Blocks : blk[b] \in BlockRecords
  BY DEF Types
<1>2. blk' = [blk EXCEPT ![wr[w].block].NextBlock = wr[w].alloc]
  BY AppendBlockIs
<1> QED
  BY <1>1, <1>2 DEF BlockRecords, SameReadIdx, SamePins, SameObjects, SamePlaces

LEMMA PinBlockDoes ==
  ASSUME Types, NEW r \in Readers, PinBlock(r)
  PROVE  /\ SameNext /\ SameReadIdx /\ SameObjects /\ SamePlaces
         /\ \A b \in Blocks : blk'[b].ReadShared =
              IF b = rd[r].block THEN blk[b].ReadShared + 1 ELSE blk[b].ReadShared
<1>1. blk \in [Blocks -> BlockRecords] /\ \A b \in Blocks : blk[b] \in BlockRecords
  BY DEF Types
<1>2. blk' = [blk EXCEPT ![rd[r].block].ReadShared = @ + 1]
  BY PinBlockIs
<1> QED
  BY <1>1, <1>2 DEF BlockRecords, SameNext, SameReadIdx, SameObjects, SamePlaces

LEMMA LeaveDoes ==
  ASSUME Types, NEW r \in Readers, Leave(r)
  PROVE  /\ SameNext /\ SameReadIdx /\ SameObjects /\ SamePlaces
         /\ \A b \in Blocks : blk'[b].ReadShared =
              IF b = rd[r].block THEN blk[b].ReadShared - 1 ELSE blk[b].ReadShared
<1>1. blk \in [Blocks -> BlockRecords] /\ \A b \in Blocks : blk[b] \in BlockRecords
  BY DEF Types
<1>2. blk' = [blk EXCEPT ![rd[r].block].ReadShared = @ - 1]
  BY LeaveIs
<1> QED
  BY <1>1, <1>2 DEF BlockRecords, SameNext, SameReadIdx, SameObjects, SamePlaces

LEMMA AdvanceDoes ==
  ASSUME IInv, NEW r \in Readers, Advance(r)
  PROVE  /\ SameNext /\ SameReadIdx /\ SameObjects /\ SamePlaces
         /\ \A b \in Blocks : blk'[b].ReadShared =
              IF b = rd[r].block THEN blk[b].ReadShared - 1
              ELSE IF b = NextReadBlock(r) THEN blk[b].ReadShared + 1
              ELSE blk[b].ReadShared
<1>1. Types
  BY DEF IInv
<1>2. blk \in [Blocks -> BlockRecords] /\ \A b \in Blocks : blk[b] \in BlockRecords
  BY <1>1 DEF Types
<1> DEFINE new == NextReadBlock(r)
<1>3. blk' = [blk EXCEPT ![new].ReadShared = @ + 1, ![rd[r].block].ReadShared = @ - 1]
  BY <1>1, AdvanceIs
<1>4. new \in Blocks /\ rd[r].block \in Blocks /\ new # rd[r].block
  BY AdvanceGoesOn
<1> HIDE DEF new
<1>5. /\ SameNext /\ SameReadIdx /\ SameObjects /\ SamePlaces
      /\ \A b \in Blocks : blk'[b].ReadShared =
           IF b = rd[r].block THEN blk[b].ReadShared - 1
           ELSE IF b = new THEN blk[b].ReadShared + 1
           ELSE blk[b].ReadShared
  BY <1>2, <1>3, <1>4 DEF BlockRecords, SameNext, SameReadIdx, SameObjects, SamePlaces
<1> QED
  BY <1>5 DEF new

LEMMA CallAndDestroyDoes ==
  ASSUME Types, NEW r \in Readers, CallAndDestroy(r)
  PROVE  /\ SameNext /\ SameReadIdx /\ SamePins /\ SamePlaces
         /\ \A b \in Blocks : blk'[b].NbObjects =
              IF b = rd[r].block THEN blk[b].NbObjects - 1 ELSE blk[b].NbObjects
<1>1. blk \in [Blocks -> BlockRecords] /\ \A b \in Blocks : blk[b] \in BlockRecords
  BY DEF Types
<1>2. blk' = [blk EXCEPT ![rd[r].block].NbObjects = @ - 1]
  BY CallAndDestroyIs
<1> QED
  BY <1>1, <1>2 DEF BlockRecords, SameNext, SameReadIdx, SamePins, SamePlaces

LEMMA TakeDoes ==
  ASSUME Types, NEW r \in Readers, Take(r)
  PROVE  /\ SameNext /\ SamePins /\ SameObjects /\ SamePlaces
         /\ \A b \in Blocks : blk'[b].ReadIdx =
              IF b = rd[r].block THEN rd[r].idx + Size(b, rd[r].idx) ELSE blk[b].ReadIdx
<1>1. blk \in [Blocks -> BlockRecords] /\ \A b \in Blocks : blk[b] \in BlockRecords
  BY SMTT(20) DEF Types
<1>2. blk' = [blk EXCEPT ![rd[r].block].ReadIdx = rd[r].idx + Size(rd[r].block, rd[r].idx)]
  BY CompareExchangeReadIdxIs DEF Take, Size
<1> HIDE DEF Size
<1> QED
  BY <1>1, <1>2 DEF BlockRecords, SameNext, SamePins, SameObjects, SamePlaces

LEMMA RecycleBDoes ==
  ASSUME Types, NEW r \in Readers, RecycleB(r)
  PROVE  \A b \in Blocks : blk'[b] = IF b = rd[r].old THEN WipedBlock ELSE blk[b]
<1>1. blk \in [Blocks -> BlockRecords]
  BY DEF Types
<1> QED
  BY <1>1, RecycleBIs

(* A writer's place is inside of the block, and before PreWriteIdx. *)
LEMMA PlacesFit ==
  ASSUME IInv, NEW w \in Writers, wr[w].pc \in PlacedPoints
  PROVE  /\ wr[w].block = WriteBlock /\ WriteBlock \in Blocks
         /\ wr[w].size \in 1..Capacity /\ wr[w].size \in Sizes
         /\ Start(w) \in Offsets /\ Start(w) \in Int
         /\ Start(w) + wr[w].size <= Mask(PreWriteIdx)
         /\ Start(w) + wr[w].size <= BlockLimit
<1>1. /\ wr[w].pc \in LoadedPoints
      /\ wr[w].pc \notin { "idle", "refill", "refillB", "refillA" }
  BY DEF PlacedPoints, LoadedPoints
<1>2. Types /\ WriterView /\ WriterLocals
  BY DEF IInv
<1>3. /\ wr[w].block = WriteBlock /\ WriteBlock \in Blocks /\ Mask(wr[w].idx) >= StartIdx
      /\ wr[w].idx - Mask(wr[w].idx) = PreWriteIdx - Mask(PreWriteIdx)
      /\ wr[w].idx + wr[w].size <= PreWriteIdx
  BY <1>1, <1>2 DEF WriterView, Types
<1>4. wr[w].idx \in Nat /\ PreWriteIdx \in Nat
  BY <1>2, Fields DEF Types
<1>5. Mask(wr[w].idx) \in 0..BlockLimit /\ Mask(PreWriteIdx) \in 0..BlockLimit
  BY <1>4, MaskIs
<1>6. wr[w].size \in Sizes
  BY <1>1, <1>2 DEF WriterLocals
<1>7. wr[w].size \in 1..Capacity
  BY <1>6, Numbers
<1>8. Capacity \in Nat /\ StartIdx = 1 /\ BlockLimit = Capacity + 1 /\ Offsets = 1..Capacity
  BY Numbers
<1>9. /\ Mask(wr[w].idx) + wr[w].size <= Mask(PreWriteIdx)
      /\ Mask(wr[w].idx) + wr[w].size <= BlockLimit
      /\ Mask(wr[w].idx) \in 1..Capacity
  BY <1>3, <1>4, <1>5, <1>7, <1>8
<1> QED
  BY <1>3, <1>6, <1>7, <1>8, <1>9 DEF Start

(* A functor is put into its place, which does not make it ready. *)
LEMMA ConstructDoes ==
  ASSUME IInv, NEW w \in Writers, Construct(w)
  PROVE  /\ SameNext /\ SameReadIdx /\ SamePins
         /\ wr[w].block = WriteBlock /\ Start(w) \in Offsets
         /\ \A b \in Blocks : blk'[b].NbObjects =
              IF b = wr[w].block THEN blk[b].NbObjects + 1 ELSE blk[b].NbObjects
         /\ \A b \in Blocks, i \in Offsets : blk'[b].place[i].ready = blk[b].place[i].ready
         /\ \A b \in Blocks, i \in Offsets : b # wr[w].block \/ i # Start(w) =>
              blk'[b].place[i].functor = blk[b].place[i].functor
         /\ blk'[wr[w].block].place[Start(w)].functor \in Functors
         /\ blk'[wr[w].block].place[Start(w)].functor.size = wr[w].size
<1>1. Types /\ wr[w].pc = "construct" /\ wr[w].pc \in PlacedPoints
  BY ConstructIs DEF IInv, PlacedPoints
<1>2. wr[w].block = WriteBlock /\ WriteBlock \in Blocks /\ Start(w) \in Offsets /\ wr[w].size \in Sizes
  BY <1>1, PlacesFit
<1>3. blk \in [Blocks -> BlockRecords] /\ \A b \in Blocks : blk[b] \in BlockRecords
  BY <1>1 DEF Types
<1>4. PICK ok \in BOOLEAN :
        blk' = [blk EXCEPT ![wr[w].block].NbObjects = @ + 1,
                           ![wr[w].block].place[Start(w)].functor = Pushed(w, ok)]
  BY <1>1, ConstructIs DEF Start
<1>5. Pushed(w, ok) \in Functors /\ Pushed(w, ok).size = wr[w].size
  <2>1. wr[w].nr \in 1..MaxPush
    BY <1>1 DEF IInv, WriterLocals
  <2>2. Pushed(w, ok) \in Functors
    BY <1>2, <2>1, Zenon DEF Pushed, Functors
  <2> QED
    BY <2>2 DEF Pushed
<1> DEFINE f == Pushed(w, ok)
           b0 == wr[w].block
           s == Start(w)
           place == [blk[b0].place EXCEPT ![s] = [blk[b0].place[s] EXCEPT !.functor = f]]
<1>6. f \in Functors /\ f.size = wr[w].size /\ b0 \in Blocks /\ s \in Offsets
  BY <1>2, <1>5
<1>7. blk' = [blk EXCEPT ![b0].NbObjects = @ + 1, ![b0].place[s].functor = f]
  BY <1>4
<1> HIDE DEF f, b0, s
<1>8. blk[b0].place \in [Offsets -> Places] /\ blk[b0].place[s] \in Places
  BY <1>3, <1>6 DEF BlockRecords
<1>9. /\ \A i \in Offsets : i # s => place[i] = blk[b0].place[i]
      /\ place[s].functor = f /\ place[s].ready = blk[b0].place[s].ready
  BY <1>6, <1>8 DEF Places
<1>10. /\ blk'[b0] = [blk[b0] EXCEPT !.NbObjects = @ + 1, !.place = place]
       /\ \A b \in Blocks : b # b0 => blk'[b] = blk[b]
  BY <1>3, <1>6, <1>7 DEF BlockRecords
<1> HIDE DEF place
<1>11. /\ blk'[b0].NbObjects = blk[b0].NbObjects + 1 /\ blk'[b0].place = place
       /\ blk'[b0].NextBlock = blk[b0].NextBlock /\ blk'[b0].ReadIdx = blk[b0].ReadIdx
       /\ blk'[b0].ReadShared = blk[b0].ReadShared
  BY <1>3, <1>6, <1>10 DEF BlockRecords
<1>12. SameNext /\ SameReadIdx /\ SamePins
  BY <1>10, <1>11 DEF SameNext, SameReadIdx, SamePins
<1>13. /\ \A b \in Blocks : blk'[b].NbObjects =
            IF b = b0 THEN blk[b].NbObjects + 1 ELSE blk[b].NbObjects
       /\ \A b \in Blocks, i \in Offsets : blk'[b].place[i].ready = blk[b].place[i].ready
       /\ \A b \in Blocks, i \in Offsets : b # b0 \/ i # s =>
            blk'[b].place[i].functor = blk[b].place[i].functor
       /\ blk'[b0].place[s].functor = f
  BY <1>9, <1>10, <1>11
<1> QED
  BY <1>2, <1>6, <1>12, <1>13 DEF b0, s

LEMMA CommitDoes ==
  ASSUME IInv, NEW w \in Writers, Commit(w)
  PROVE  /\ SameNext /\ SameReadIdx /\ SamePins /\ SameObjects
         /\ wr[w].block = WriteBlock /\ Start(w) \in Offsets
         /\ \A b \in Blocks, i \in Offsets :
              blk'[b].place[i].ready =
                IF b = wr[w].block /\ i = Start(w) THEN TRUE ELSE blk[b].place[i].ready
         /\ \A b \in Blocks, i \in Offsets :
              blk'[b].place[i].functor = blk[b].place[i].functor
<1>1. Types /\ wr[w].pc = "commit" /\ wr[w].pc \in PlacedPoints
  BY CommitIs DEF IInv, PlacedPoints
<1>2. wr[w].block = WriteBlock /\ WriteBlock \in Blocks /\ Start(w) \in Offsets
  BY <1>1, PlacesFit
<1>3. blk \in [Blocks -> BlockRecords] /\ \A b \in Blocks : blk[b] \in BlockRecords
  BY <1>1 DEF Types
<1> DEFINE b0 == wr[w].block
           s == Start(w)
           place == [blk[b0].place EXCEPT ![s] = [blk[b0].place[s] EXCEPT !.ready = TRUE]]
<1>6. b0 \in Blocks /\ s \in Offsets
  BY <1>2, SMTT(20)
<1>7. blk' = [blk EXCEPT ![b0].place[s].ready = TRUE]
  BY <1>1, CommitIs DEF Start
<1> HIDE DEF b0, s
<1>8. blk[b0].place \in [Offsets -> Places] /\ blk[b0].place[s] \in Places
  BY <1>3, <1>6 DEF BlockRecords
<1>9. /\ \A i \in Offsets : i # s => place[i] = blk[b0].place[i]
      /\ place[s].functor = blk[b0].place[s].functor /\ place[s].ready = TRUE
  BY <1>6, <1>8 DEF Places
<1>10. /\ blk'[b0] = [blk[b0] EXCEPT !.place = place]
       /\ \A b \in Blocks : b # b0 => blk'[b] = blk[b]
  BY <1>3, <1>6, <1>7 DEF BlockRecords
<1> HIDE DEF place
<1>11. /\ blk'[b0].NbObjects = blk[b0].NbObjects /\ blk'[b0].place = place
       /\ blk'[b0].NextBlock = blk[b0].NextBlock /\ blk'[b0].ReadIdx = blk[b0].ReadIdx
       /\ blk'[b0].ReadShared = blk[b0].ReadShared
  BY <1>3, <1>6, <1>10 DEF BlockRecords
<1>12. SameNext /\ SameReadIdx /\ SamePins /\ SameObjects
  BY <1>10, <1>11 DEF SameNext, SameReadIdx, SamePins, SameObjects
<1>13. /\ \A b \in Blocks, i \in Offsets : b # b0 \/ i # s => blk'[b].place[i] = blk[b].place[i]
       /\ blk'[b0].place[s].functor = blk[b0].place[s].functor
       /\ blk'[b0].place[s].ready = TRUE
  BY <1>9, <1>10, <1>11
<1> QED
  BY <1>2, <1>6, <1>12, <1>13 DEF b0, s

------------------------------------------------------------------------------
(* Which blocks are in the chain, and which are in use. *)
LEMMA RetiredIs ==
  ASSUME Types
  PROVE  \A b : b \in Retired(Chain) <=> b \in Blocks \ Chain /\ \E r \in Readers : InBlock(r, b)
<1>1. \A r \in Readers : rd[r].block \in Blocks \union {Null}
  BY Fields
<1> QED
  BY <1>1, NullAssumption DEF Retired, InBlock

LEMMA NextRetiredIs ==
  ASSUME Types'
  PROVE  \A b : b \in Retired(Chain)' <=>
           b \in Blocks \ Chain' /\ \E r \in Readers : rd'[r].block = b /\ rd'[r].pc \in PinnedAt
<1>1. \A r \in Readers : rd'[r].block \in Blocks \union {Null}
  BY DEF Types, ReaderRecords
<1> QED
  BY <1>1, NullAssumption DEF Retired

LEMMA UsedStays ==
  ASSUME Types, Types', Chain' = Chain, \A r \in Readers : SamePin(r)
  PROVE  Used' = Used
<1>1. \A b : b \in Retired(Chain)' <=> b \in Retired(Chain)
  BY RetiredIs, NextRetiredIs DEF SamePin, InBlock
<1> QED
  BY <1>1 DEF Used

(* A block in use belongs to nobody else, and a reader's block is in use.   *)
LEMMA UsedBlocks ==
  ASSUME IInv, ~released
  PROVE  /\ Used \subseteq heap /\ heap \subseteq Blocks /\ Chain \subseteq Used
         /\ ReadBlock \in Chain /\ WriteBlock \in Chain
         /\ SpareBlockA \notin Used /\ SpareBlockB \notin Used
         /\ \A w \in Writers : wr[w].alloc \notin Used
         /\ \A r \in Readers : rd[r].old \notin Used
         /\ \A r \in Readers, b \in Blocks : InBlock(r, b) => b \in Used
<1>1. Types /\ OneOwner /\ ChainOK
  BY DEF IInv, InUseInv
<1>2. Used \subseteq heap /\ heap \subseteq Blocks /\ Null \notin Used
  BY <1>1, NullAssumption DEF OneOwner, Types
<1>3. Chain \subseteq Used /\ \A r \in Readers, b \in Blocks : InBlock(r, b) => b \in Used
  BY <1>1, RetiredIs DEF Used
<1>4. SpareBlockA \notin Used /\ SpareBlockB \notin Used
  BY <1>1, <1>2 DEF OneOwner
<1>5. /\ \A w \in Writers : wr[w].alloc \notin Used
      /\ \A r \in Readers : rd[r].old \notin Used
  BY <1>1, <1>2 DEF OneOwner
<1> QED
  BY <1>1, <1>2, <1>3, <1>4, <1>5, ChainFacts DEF ChainOK

(* A reader is alone in its block if it counts one reader there. *)
LEMMA AloneInBlock ==
  ASSUME IInv, NEW r \in Readers, NEW b \in Blocks, InBlock(r, b)
  PROVE  blk[b].ReadShared = 1 <=> \A q \in Readers : InBlock(q, b) => q = r
<1>1. IsFiniteSet(Pinned(b)) /\ r \in Pinned(b)
  <2>1. Pinned(b) \subseteq Readers
    BY DEF Pinned
  <2>2. IsFiniteSet(Pinned(b))
    BY <2>1, FS_Subset, ThreadsAssumption
  <2> QED
    BY <2>2 DEF Pinned, InBlock
<1>2. blk[b].ReadShared = Cardinality(Pinned(b))
  BY DEF IInv, PinsCounted
<1>3. Cardinality(Pinned(b)) = 1 <=> \E q : Pinned(b) = {q}
  BY <1>1, FS_Singleton
<1>4. \A q : q \in Pinned(b) <=> q \in Readers /\ InBlock(q, b)
  BY DEF Pinned, InBlock
<1>5. (\E q : Pinned(b) = {q}) <=> \A q \in Pinned(b) : q = r
  BY <1>1
<1> QED
  BY <1>2, <1>3, <1>4, <1>5

LEMMA WritersUse ==
  ASSUME IInv, Types', NEW w \in Writers, Push(w) \/ WriterStep(w), ~AppendBlock(w)
  PROVE  Chain' = Chain /\ Used' = Used /\ SameNext /\ WriteBlock' = WriteBlock
<1>1. Types /\ OnlyWriter(w)
  BY WriterFrames DEF IInv
<1>2. SameNext
  <2>1. QuietWriter(w) \/ Reserve(w) => blk' = blk
    BY <1>1, CompareExchangePreWriteIdxIs DEF QuietWriter, Reserve
  <2> QED
    BY <2>1, WriterKinds, ConstructDoes, CommitDoes DEF SameNext
<1>3. Chain' = Chain
  BY <1>1, <1>2, ChainStays, ChainFacts DEF OnlyWriter, SameNext
<1>4. \A r \in Readers : SamePin(r)
  BY <1>1 DEF OnlyWriter, SamePin, InBlock
<1>5. WriteBlock' = WriteBlock
  BY <1>1, WriterKinds, CompareExchangePreWriteIdxIs, ConstructIs, CommitIs DEF QuietWriter, Reserve
<1> QED
  BY <1>1, <1>2, <1>3, <1>4, <1>5, UsedStays

LEMMA AppendBlockUses ==
  ASSUME IInv, Types', NEW w \in Writers, AppendBlock(w), OnlyWriter(w)
  PROVE  /\ wr[w].alloc \in Blocks /\ wr[w].alloc \notin Used
         /\ wr[w].block = WriteBlock /\ blk[wr[w].alloc] = WipedBlock
         /\ Chain' = Chain \union {wr[w].alloc}
         /\ Used' = Used \union {wr[w].alloc}
<1> DEFINE new == wr[w].alloc
<1>1. Types /\ ~released /\ ~released' /\ ReadBlock' = ReadBlock /\ rd' = rd
  BY DEF IInv, OnlyWriter
<1>2. wr[w].pc = "appendBlock"
  BY <1>1, AppendBlockIs
<1>3. new \in Blocks /\ new # Null
  BY <1>1, <1>2, Fields DEF IInv, WriterLocals
<1>4. wr[w].block = WriteBlock
  BY <1>2 DEF IInv, WriterView, LoadedPoints
<1>5. new \notin Used /\ Chain \subseteq Used /\ Chain \subseteq Blocks /\ WriteBlock \in Chain
  BY <1>1, UsedBlocks
<1>6. blk[new] = WipedBlock /\ blk[WriteBlock].NextBlock = Null
  BY <1>1, <1>3, <1>5 DEF IInv, InUseInv, SparesAreWiped, ChainOK
<1>7. \A b \in Blocks : blk'[b].NextBlock = IF b = WriteBlock THEN new ELSE blk[b].NextBlock
  BY <1>1, <1>4, AppendBlockDoes
<1> HIDE DEF new
<1>8. Chain' = Chain \union {new}
  <2> DEFINE next == NextOf(blk)
             after == NextOf(blk')
  <2>1. next \in [Blocks -> Blocks \union {Null}] /\ after \in [Blocks -> Blocks \union {Null}]
    BY <1>1, NextOfIs, NextNextOfIs
  <2>2. Chain = Reach(ReadBlock, next) /\ Chain' = Reach(ReadBlock, after)
    BY <1>1, ChainIs, NextChainIs
  <2>3. \A b \in Blocks : next[b] = blk[b].NextBlock /\ after[b] = blk'[b].NextBlock
    BY DEF NextOf
  <2>4. blk[new].NextBlock = Null
    BY <1>6 DEF WipedBlock
  <2>5. ReadBlock \in Blocks
    BY <1>1 DEF Types
  <2>6. /\ WriteBlock \in Reach(ReadBlock, next) /\ next[WriteBlock] = Null
        /\ new \in Blocks \ Reach(ReadBlock, next) /\ next[new] = Null
        /\ after[WriteBlock] = new
        /\ \A c \in Blocks : c # WriteBlock => after[c] = next[c]
    BY <1>3, <1>5, <1>6, <1>7, <2>2, <2>3, <2>4
  <2> HIDE DEF next, after
  <2>7. Reach(ReadBlock, after) = Reach(ReadBlock, next) \union {new}
    BY <2>1, <2>5, <2>6, ReachGrows
  <2> QED
    BY <2>2, <2>7
<1>9. \A b : b \in Retired(Chain)' <=> b \in Retired(Chain)
  <2>1. \A r \in Readers : ~InBlock(r, new)
    BY <1>1, <1>3, <1>5, UsedBlocks
  <2> QED
    BY <1>1, <1>8, <2>1, RetiredIs, NextRetiredIs DEF InBlock
<1> QED
  BY <1>3, <1>4, <1>5, <1>6, <1>8, <1>9 DEF Used, new

LEMMA ReadersUse ==
  ASSUME IInv, Types', NEW r \in Readers, Pop(r) \/ ReaderStep(r), ~Advance(r), ~Leave(r)
  PROVE  /\ Chain' = Chain /\ Used' = Used /\ ReadBlock' = ReadBlock
         /\ \A b \in Chain : blk'[b].NextBlock = blk[b].NextBlock
         /\ PinBlock(r) \/ SamePin(r)
<1>1. Types /\ OnlyReader(r)
  BY ReaderFrames DEF IInv
<1>2. /\ ReadBlock' = ReadBlock
      /\ \A b \in Chain : blk'[b].NextBlock = blk[b].NextBlock
  <2>1. Chain \subseteq Blocks /\ rd[r].old \notin Chain
    BY <1>1, UsedBlocks, ChainFacts DEF OnlyReader
  <2>2. CASE QuietReader(r)
    BY <2>2 DEF QuietReader
  <2>3. CASE PinBlock(r)
    BY <1>1, <2>1, <2>3, PinBlockIs, PinBlockDoes DEF SameNext
  <2>4. CASE RecycleB(r)
    BY <1>1, <2>1, <2>4, RecycleBIs, RecycleBDoes
  <2>5. CASE Take(r)
    BY <1>1, <2>1, <2>5, CompareExchangeReadIdxIs, TakeDoes DEF SameNext, Take
  <2>6. CASE CallAndDestroy(r)
    BY <1>1, <2>1, <2>6, CallAndDestroyIs, CallAndDestroyDoes DEF SameNext
  <2> QED
    BY <2>2, <2>3, <2>4, <2>5, <2>6, ReaderKinds
<1>3. Chain' = Chain
  BY <1>1, <1>2, ChainStays DEF OnlyReader
<1>4. SamePin(r) \/ PinBlock(r)
  <2>1. RecycleB(r) => SamePin(r)
    BY <1>1, RecycleBIs, NullAssumption DEF SamePin, InBlock, IsRecycled, SameBlock, PinnedAt
  <2>2. Take(r) => SamePin(r)
    BY <1>1, CompareExchangeReadIdxIs DEF Take, SamePin, InBlock, SameBlock, PinnedAt
  <2>3. CallAndDestroy(r) => SamePin(r)
    BY <1>1, CallAndDestroyIs DEF SamePin, InBlock, SameBlock, PinnedAt
  <2> QED
    BY <2>1, <2>2, <2>3, ReaderKinds DEF QuietReader
<1>5. \A q \in Readers : q # r => SamePin(q)
  BY <1>1 DEF OnlyReader, SamePin, InBlock
<1>6. CASE SamePin(r)
  BY <1>1, <1>2, <1>3, <1>5, <1>6, UsedStays
<1>7. CASE PinBlock(r)
  <2>1. rd[r].pc = "pin" /\ rd'[r].block = ReadBlock /\ ReadBlock \in Chain
    BY <1>1, <1>7, PinBlockIs, UsedBlocks DEF IInv, ReaderLocals, SameBlock, OnlyReader
  <2>2. ~(rd[r].pc \in PinnedAt)
    BY <2>1 DEF PinnedAt
  <2>3. \A b : b \in Retired(Chain)' <=> b \in Retired(Chain)
    BY <1>1, <1>3, <2>1, <2>2, RetiredIs, NextRetiredIs DEF InBlock, OnlyReader
  <2> QED
    BY <1>2, <1>3, <1>7, <2>3 DEF Used
<1> QED
  BY <1>2, <1>3, <1>4, <1>6, <1>7

(* Where a reader goes that moves on, and which block it leaves.            *)
LEMMA AdvanceUses ==
  ASSUME IInv, Types', NEW r \in Readers, Advance(r)
  PROVE  /\ InBlock(r, rd[r].block) /\ rd[r].block \in Blocks /\ rd[r].block \in Used
         /\ Chain' = Chain \ {rd[r].block}
         /\ ReadBlock' \in Chain'
         /\ (\A q \in Readers : InBlock(q, rd[r].block) => q = r) <=> blk[rd[r].block].ReadShared = 1
         /\ Used' = IF blk[rd[r].block].ReadShared = 1 THEN Used \ {rd[r].block} ELSE Used
<1>1. Types /\ OnlyReader(r)
  BY ReaderFrames DEF IInv, ReaderStep
<1> DEFINE b == rd[r].block
<1>2. /\ rd[r].pc = "advance" /\ rd'[r].pc = "loadReadIdx"
      /\ rd'[r].block = NextReadBlock(r) /\ ReadBlock' = NextReadBlock(r)
  BY <1>1, AdvanceIs
<1>3. b \in Blocks /\ NextReadBlock(r) \in Blocks /\ NextReadBlock(r) # b
  BY AdvanceGoesOn
<1>4. InBlock(r, b)
  BY <1>2 DEF InBlock, PinnedAt
<1>5. b \in Used /\ ReadBlock \in Chain /\ Chain \subseteq Used /\ Used \subseteq Blocks
  BY <1>1, <1>3, <1>4, UsedBlocks DEF OnlyReader
<1>6. b \in Chain => b = ReadBlock
  BY <1>1, <1>2, <1>4 DEF IInv, InUseInv, ChainOK, OnlyReader, InBlock
<1>7. (\A q \in Readers : InBlock(q, b) => q = r) <=> blk[b].ReadShared = 1
  BY <1>3, <1>4, AloneInBlock
<1>8. \A c \in Blocks : blk'[c].NextBlock = blk[c].NextBlock
  BY AdvanceDoes DEF SameNext
<1>9. Chain' = Chain \ {b} /\ ReadBlock' \in Chain'
  <2> DEFINE next == NextOf(blk)
  <2>1. next \in [Blocks -> Blocks \union {Null}] /\ ReadBlock \in Blocks
    BY <1>1, NextOfIs DEF Types
  <2>2. NextOf(blk') = next
    BY <1>8 DEF NextOf
  <2>3. Chain = Reach(ReadBlock, next) /\ Chain' = Reach(ReadBlock', next)
    BY <1>1, <2>2, ChainIs, NextChainIs DEF OnlyReader
  <2>4. \A c \in Blocks : next[c] = blk[c].NextBlock
    BY DEF NextOf
  <2>5. \A c \in Chain : blk[c].NextBlock # ReadBlock
    BY <1>1 DEF IInv, InUseInv, ChainOK, OnlyReader
  <2>6. ReadBlock' \in Blocks
    BY <1>2, <1>3
  <2> HIDE DEF next, b
  <2>7. ReadBlock' \in Reach(ReadBlock', next)
    BY <2>1, <2>6, ReachIs DEF Links
  <2>8. CASE ReadBlock = b
    <3>1. ReadBlock' = next[ReadBlock]
      BY <1>2, <1>3, <2>1, <2>4, <2>8 DEF NextReadBlock, b
    <3>2. next[ReadBlock] \in Blocks /\ next[ReadBlock] # ReadBlock
      BY <1>2, <1>3, <2>8, <3>1
    <3>3. \A c \in Reach(ReadBlock, next) : next[c] # ReadBlock
      BY <1>5, <2>3, <2>4, <2>5
    <3>4. Reach(next[ReadBlock], next) = Reach(ReadBlock, next) \ {ReadBlock}
      BY <2>1, <3>2, <3>3, ReachShrinks
    <3> QED
      BY <2>3, <2>7, <2>8, <3>1, <3>4
  <2>9. CASE ReadBlock # b
    <3>1. ReadBlock' = ReadBlock
      BY <1>2, <2>9 DEF NextReadBlock, b
    <3> QED
      BY <1>6, <2>3, <2>7, <2>9, <3>1
  <2> QED
    BY <2>8, <2>9
<1>10. \A c : c \in Retired(Chain)' <=>
         c \in Blocks \ Chain' /\ \E q \in Readers : q # r /\ InBlock(q, c)
  <2>1. \A q \in Readers : q # r => rd'[q] = rd[q]
    BY <1>1 DEF OnlyReader
  <2>2. rd'[r].block \in Chain'
    BY <1>2, <1>9
  <2> HIDE DEF b
  <2> QED
    BY <2>1, <2>2, NextRetiredIs DEF InBlock
<1>11. ASSUME NEW c PROVE c \in Used' <=> c \in Used /\ (c = b => blk[b].ReadShared # 1)
  <2>1. c \in Used' <=> c \in Chain' \/ (c \in Blocks /\ \E q \in Readers : q # r /\ InBlock(q, c))
    BY <1>5, <1>9, <1>10 DEF Used
  <2>2. c \in Used <=> c \in Chain \/ (c \in Blocks /\ \E q \in Readers : InBlock(q, c))
    BY <1>1, RetiredIs DEF Used
  <2>3. CASE c = b
    BY <1>3, <1>4, <1>5, <1>7, <1>9, <2>1, <2>2, <2>3
  <2>4. CASE c # b
    <3>1. ~InBlock(r, c)
      BY <2>4 DEF InBlock
    <3> QED
      BY <1>9, <2>1, <2>2, <2>4, <3>1
  <2> QED
    BY <2>3, <2>4
<1>12. Used' = IF blk[b].ReadShared = 1 THEN Used \ {b} ELSE Used
  <2> HIDE DEF b
  <2> QED
    BY <1>11
<1> QED
  BY <1>3, <1>4, <1>5, <1>7, <1>9, <1>12

LEMMA LeaveUses ==
  ASSUME IInv, Types', NEW r \in Readers, Leave(r)
  PROVE  /\ InBlock(r, rd[r].block) /\ rd[r].block \in Blocks /\ rd[r].block \in Used
         /\ Chain' = Chain
         /\ (\A q \in Readers : InBlock(q, rd[r].block) => q = r) <=> blk[rd[r].block].ReadShared = 1
         /\ Used' = IF rd'[r].pc = "recycleB" THEN Used \ {rd[r].block} ELSE Used
         /\ rd'[r].pc = "recycleB" => rd[r].block \notin Chain
<1>1. Types /\ OnlyReader(r)
  BY ReaderFrames DEF IInv, ReaderStep
<1> DEFINE b == rd[r].block
<1>2. /\ rd[r].pc = "leave" /\ rd'[r].block = Null /\ ReadBlock' = ReadBlock
      /\ IF ReadBlock # b /\ blk[b].ReadShared = 1
         THEN rd'[r].pc = "recycleB" ELSE rd'[r].pc = "idle"
  BY <1>1, LeaveIs
<1>3. b \in Blocks /\ InBlock(r, b)
  BY <1>1, <1>2, Fields DEF IInv, ReaderLocals, InBlock, PinnedAt
<1>4. b \in Used /\ Chain \subseteq Used /\ Used \subseteq Blocks
  BY <1>1, <1>3, UsedBlocks DEF OnlyReader
<1>5. b \in Chain => b = ReadBlock
  BY <1>1, <1>2, <1>3 DEF IInv, InUseInv, ChainOK, OnlyReader, InBlock
<1>6. (\A q \in Readers : InBlock(q, b) => q = r) <=> blk[b].ReadShared = 1
  BY <1>3, AloneInBlock
<1>7. Chain' = Chain /\ ReadBlock \in Chain
  <2>1. Chain \subseteq Blocks /\ ReadBlock \in Chain
    BY <1>1, ChainFacts DEF OnlyReader
  <2>2. \A c \in Chain : blk'[c].NextBlock = blk[c].NextBlock
    BY <1>1, <2>1, LeaveDoes DEF SameNext
  <2> QED
    BY <1>1, <1>2, <2>1, <2>2, ChainStays DEF OnlyReader
<1>8. \A c : c \in Retired(Chain)' <=>
         c \in Blocks \ Chain /\ \E q \in Readers : q # r /\ InBlock(q, c)
  <2>1. \A q \in Readers : q # r => rd'[q] = rd[q]
    BY <1>1 DEF OnlyReader
  <2>2. rd'[r].block \notin Blocks
    BY <1>2, NullAssumption
  <2> HIDE DEF b
  <2> QED
    BY <1>7, <2>1, <2>2, NextRetiredIs DEF InBlock
<1>9. ASSUME NEW c PROVE c \in Used' <=> c \in Used /\ (c = b => rd'[r].pc # "recycleB")
  <2>1. c \in Used' <=> c \in Chain \/ (c \in Blocks /\ \E q \in Readers : q # r /\ InBlock(q, c))
    BY <1>4, <1>7, <1>8 DEF Used
  <2>2. c \in Used <=> c \in Chain \/ (c \in Blocks /\ \E q \in Readers : InBlock(q, c))
    BY <1>1, RetiredIs DEF Used
  <2>3. CASE c = b
    BY <1>2, <1>3, <1>4, <1>5, <1>6, <1>7, <2>1, <2>2, <2>3
  <2>4. CASE c # b
    <3>1. ~InBlock(r, c)
      BY <2>4 DEF InBlock
    <3> QED
      BY <2>1, <2>2, <2>4, <3>1
  <2> QED
    BY <2>3, <2>4
<1>10. Used' = IF rd'[r].pc = "recycleB" THEN Used \ {b} ELSE Used
  <2> HIDE DEF b
  <2> QED
    BY <1>9
<1>11. rd'[r].pc = "recycleB" => b \notin Chain
  BY <1>2, <1>5
<1> QED
  BY <1>3, <1>4, <1>6, <1>7, <1>10, <1>11

------------------------------------------------------------------------------
(* The chain stays a list, from ReadBlock to WriteBlock.                    *)
LEMMA ChainOKForWriters ==
  ASSUME IInv, Types', NEW w \in Writers, Push(w) \/ WriterStep(w)
  PROVE  ChainOK'
<1>1. Types /\ OnlyWriter(w) /\ ~released
  BY WriterFrames DEF IInv, OnlyWriter
<1>2. ChainOK
  BY <1>1 DEF IInv, InUseInv
<1>3. /\ Chain \subseteq Blocks /\ ReadBlock \in Chain /\ WriteBlock \in Chain /\ Chain \subseteq Used
      /\ \A b \in Chain : blk[b].NextBlock \in Chain \union {Null}
      /\ \A r \in Readers, b \in Blocks : InBlock(r, b) => b \in Used
  BY <1>1, UsedBlocks, ChainFacts
<1>4. CASE ~AppendBlock(w)
  <2>1. Chain' = Chain /\ SameNext /\ WriteBlock' = WriteBlock /\ ReadBlock' = ReadBlock /\ rd' = rd
    BY <1>1, <1>4, WritersUse DEF OnlyWriter
  <2> QED
    BY <1>2, <1>3, <2>1 DEF ChainOK, SameNext
<1>5. CASE AppendBlock(w)
  <2> DEFINE new == wr[w].alloc
  <2>1. /\ new \in Blocks /\ new \notin Used /\ blk[new] = WipedBlock
        /\ wr[w].block = WriteBlock /\ Chain' = Chain \union {new}
    BY <1>1, <1>5, AppendBlockUses
  <2>2. WriteBlock' = new /\ ReadBlock' = ReadBlock /\ rd' = rd
    BY <1>1, <1>5, AppendBlockIs DEF OnlyWriter
  <2>3. \A b \in Blocks : blk'[b].NextBlock = IF b = WriteBlock THEN new ELSE blk[b].NextBlock
    BY <1>1, <1>5, <2>1, AppendBlockDoes
  <2>4. blk[new].NextBlock = Null /\ new # Null
    BY <2>1, NullAssumption DEF WipedBlock
  <2> HIDE DEF new
  <2>5. /\ blk'[new].NextBlock = Null /\ blk'[WriteBlock].NextBlock = new
        /\ \A b \in Chain : b # WriteBlock =>
             blk'[b].NextBlock = blk[b].NextBlock /\ blk[b].NextBlock \in Chain
    BY <1>2, <1>3, <2>1, <2>3, <2>4 DEF ChainOK
  <2>6. new \notin Chain
    BY <1>3, <2>1
  <2>7. \A b \in Chain' : blk'[b].NextBlock = Null <=> b = WriteBlock'
    BY <1>3, <2>1, <2>2, <2>4, <2>5, NullAssumption
  <2>8. \A b \in Chain' : blk'[b].NextBlock # ReadBlock'
    BY <1>2, <1>3, <2>1, <2>2, <2>5, <2>6, NullAssumption DEF ChainOK
  <2>9. \A b, c \in Chain' : blk'[b].NextBlock = blk'[c].NextBlock => b = c
    BY <1>2, <1>3, <2>1, <2>5, <2>6, NullAssumption DEF ChainOK
  <2>10. \A r \in Readers : rd'[r].pc \in PinnedAt /\ rd'[r].block \in Chain' => rd'[r].block = ReadBlock'
    BY <1>2, <1>3, <2>1, <2>2 DEF ChainOK, InBlock
  <2> QED
    BY <2>1, <2>2, <2>7, <2>8, <2>9, <2>10 DEF ChainOK
<1> QED
  BY <1>4, <1>5

LEMMA ChainOKForReaders ==
  ASSUME IInv, Types', NEW r \in Readers, Pop(r) \/ ReaderStep(r)
  PROVE  ChainOK'
<1>1. Types /\ OnlyReader(r) /\ ~released
  BY ReaderFrames DEF IInv, OnlyReader
<1>2. ChainOK /\ UsedUp
  BY <1>1 DEF IInv, InUseInv
<1>3. /\ Chain \subseteq Blocks /\ ReadBlock \in Chain /\ WriteBlock \in Chain
      /\ WriteBlock' = WriteBlock /\ \A q \in Readers : q # r => rd'[q] = rd[q]
  BY <1>1, UsedBlocks, ChainFacts DEF OnlyReader
<1>4. CASE ~Advance(r)
  <2>1. /\ Chain' = Chain /\ ReadBlock' = ReadBlock
        /\ \A b \in Chain : blk'[b].NextBlock = blk[b].NextBlock
    BY <1>1, <1>3, <1>4, ReadersUse, LeaveUses, LeaveIs, LeaveDoes DEF SameNext
  <2>2. rd'[r].pc \in PinnedAt /\ rd'[r].block \in Chain => rd'[r].block = ReadBlock
    <3>1. CASE PinBlock(r)
      BY <1>1, <3>1, PinBlockIs DEF IInv, ReaderLocals, SameBlock
    <3>2. CASE SamePin(r)
      BY <1>2, <1>3, <3>2 DEF SamePin, InBlock, ChainOK
    <3>3. CASE Leave(r)
      BY <1>1, <1>3, <3>3, LeaveIs, NullAssumption
    <3> QED
      BY <1>4, <3>1, <3>2, <3>3, ReadersUse
  <2> QED
    BY <1>2, <1>3, <2>1, <2>2 DEF ChainOK
<1>5. CASE Advance(r)
  <2> DEFINE b == rd[r].block
  <2>1. Chain' = Chain \ {b} /\ ReadBlock' \in Chain' /\ b \in Blocks
    BY <1>5, AdvanceUses
  <2>2. /\ rd[r].pc = "advance" /\ rd'[r].block = ReadBlock'
        /\ ReadBlock' = IF ReadBlock = b THEN blk[ReadBlock].NextBlock ELSE ReadBlock
    BY <1>1, <1>5, AdvanceIs DEF NextReadBlock
  <2>3. \A c \in Blocks : blk'[c].NextBlock = blk[c].NextBlock
    BY <1>5, AdvanceDoes DEF SameNext
  <2>4. blk[b].NextBlock # Null
    BY <1>2, <2>2 DEF UsedUp
  <2> HIDE DEF b
  <2>5. WriteBlock' \in Chain'
    BY <1>2, <1>3, <2>1, <2>4 DEF ChainOK
  <2>6. \A c \in Chain' : blk'[c].NextBlock = Null <=> c = WriteBlock'
    BY <1>2, <1>3, <2>1, <2>3 DEF ChainOK
  <2>7. \A c \in Chain' : blk'[c].NextBlock # ReadBlock'
    BY <1>2, <1>3, <2>1, <2>2, <2>3 DEF ChainOK
  <2>8. \A c, d \in Chain' : blk'[c].NextBlock = blk'[d].NextBlock => c = d
    BY <1>2, <1>3, <2>1, <2>3 DEF ChainOK
  <2>9. \A q \in Readers : rd'[q].pc \in PinnedAt /\ rd'[q].block \in Chain' => rd'[q].block = ReadBlock'
    BY <1>2, <1>3, <2>1, <2>2 DEF ChainOK
  <2> QED
    BY <2>5, <2>6, <2>7, <2>8, <2>9 DEF ChainOK
<1> QED
  BY <1>4, <1>5

------------------------------------------------------------------------------
(* A block changes hands, and nothing is lost. *)
SameOwners(w) == UNCHANGED <<heap, SpareBlockA, SpareBlockB>> /\ SameAlloc(w)
TakesA(w) ==
  /\ wr[w].alloc = Null /\ wr'[w].alloc = SpareBlockA /\ SpareBlockA' = Null
  /\ UNCHANGED <<heap, SpareBlockB>>
TakesB(w) ==
  /\ wr[w].alloc = Null /\ wr'[w].alloc = SpareBlockB /\ SpareBlockB' = Null
  /\ UNCHANGED <<heap, SpareBlockA>>
Allocates(w) ==
  /\ wr[w].alloc = Null /\ wr'[w].alloc \in Blocks \ heap /\ heap' = heap \union {wr'[w].alloc}
  /\ UNCHANGED <<SpareBlockA, SpareBlockB>>
GivesA(w) ==
  /\ wr[w].alloc # Null /\ wr'[w].alloc = Null /\ SpareBlockA = Null /\ SpareBlockA' = wr[w].alloc
  /\ UNCHANGED <<heap, SpareBlockB>>
GivesB(w) ==
  /\ wr[w].alloc # Null /\ wr'[w].alloc = Null /\ SpareBlockB = Null /\ SpareBlockB' = wr[w].alloc
  /\ UNCHANGED <<heap, SpareBlockA>>
Frees(w) ==
  /\ wr[w].alloc # Null /\ wr'[w].alloc = Null /\ heap' = heap \ {wr[w].alloc}
  /\ UNCHANGED <<SpareBlockA, SpareBlockB>>

LEMMA WriterOwnerKinds ==
  ASSUME IInv, NEW w \in Writers, Push(w) \/ WriterStep(w)
  PROVE  \/ AppendBlock(w) \/ SameOwners(w) \/ TakesA(w) \/ TakesB(w) \/ Allocates(w)
         \/ GivesA(w) \/ GivesB(w) \/ Frees(w)
<1>1. Types /\ wr[w].pc \in WriterPoints
  BY Fields DEF IInv
<1>2. wr[w].alloc # Null <=> wr[w].pc \in { "drain", "appendBlock", "refillB", "refillA" }
  BY DEF IInv, WriterLocals
<1>10. ASSUME Push(w) PROVE SameOwners(w)
  BY <1>1, <1>2, <1>10, PushIs DEF SameOwners, SameAlloc
<1>11. ASSUME WriterLockShared(w) PROVE SameOwners(w)
  BY <1>1, <1>2, <1>11, WriterLockSharedIs DEF SameOwners, SameAlloc
<1>12. ASSUME LoadPreWriteIdx(w) PROVE SameOwners(w)
  BY <1>1, <1>2, <1>12, LoadPreWriteIdxIs DEF SameOwners, SameAlloc
<1>13. ASSUME CheckFit(w) PROVE SameOwners(w)
  BY <1>1, <1>2, <1>13, CheckFitIs DEF SameOwners, SameAlloc
<1>14. ASSUME TryPartialLock(w) PROVE SameOwners(w)
  BY <1>1, <1>2, <1>14, TryPartialLockIs DEF SameOwners, SameAlloc
<1>15. ASSUME BackOff(w) PROVE SameOwners(w)
  BY <1>1, <1>2, <1>15, BackOffIs DEF SameOwners, SameAlloc
<1>16. ASSUME DropShare(w) PROVE SameOwners(w)
  BY <1>1, <1>2, <1>16, DropShareIs DEF SameOwners, SameAlloc
<1>17. ASSUME TakeSpareA(w) PROVE TakesA(w)
  BY <1>1, <1>2, <1>17, TakeSpareAIs DEF TakesA
<1>18. ASSUME TakeSpareB(w) PROVE TakesB(w)
  BY <1>1, <1>2, <1>18, TakeSpareBIs DEF TakesB
<1>19. ASSUME MallocBlock(w) PROVE Allocates(w) \/ SameOwners(w)
  BY <1>1, <1>2, <1>19, MallocBlockIs DEF Allocates, SameOwners, SameAlloc
<1>20. ASSUME Drain(w) PROVE SameOwners(w)
  BY <1>1, <1>2, <1>20, DrainIs DEF SameOwners, SameAlloc
<1>21. ASSUME Downgrade(w) PROVE SameOwners(w)
  BY <1>1, <1>2, <1>21, DowngradeIs DEF SameOwners, SameAlloc
<1>22. ASSUME CompareExchangePreWriteIdx(w) PROVE SameOwners(w)
  BY <1>1, <1>2, <1>22, CompareExchangePreWriteIdxIs DEF SameOwners, SameAlloc
<1>23. ASSUME Construct(w) PROVE SameOwners(w)
  BY <1>1, <1>2, <1>23, ConstructIs DEF SameOwners, SameAlloc
<1>24. ASSUME Commit(w) PROVE SameOwners(w)
  BY <1>1, <1>2, <1>24, CommitIs DEF SameOwners, SameAlloc
<1>25. ASSUME WriterUnlockShared(w) PROVE SameOwners(w)
  BY <1>1, <1>2, <1>25, WriterUnlockSharedIs DEF SameOwners, SameAlloc
<1>26. ASSUME Refill(w) PROVE Allocates(w) \/ SameOwners(w)
  BY <1>1, <1>2, <1>26, RefillIs DEF Allocates, SameOwners, SameAlloc
<1>27. ASSUME RefillB(w) PROVE GivesB(w) \/ SameOwners(w)
  BY <1>1, <1>2, <1>27, RefillBIs DEF GivesB, SameOwners, SameAlloc
<1>28. ASSUME RefillA(w) PROVE GivesA(w) \/ Frees(w)
  BY <1>1, <1>2, <1>28, RefillAIs DEF GivesA, Frees
<1> QED
  BY <1>10, <1>11, <1>12, <1>13, <1>14, <1>15, <1>16, <1>17, <1>18, <1>19, <1>20, <1>21, <1>22,
     <1>23, <1>24, <1>25, <1>26, <1>27, <1>28 DEF WriterStep

SameOlds(r) == UNCHANGED <<heap, SpareBlockA, SpareBlockB>> /\ SameOld(r) /\ Used' = Used
KeepsOld(r) ==
  /\ rd[r].old = Null /\ rd'[r].old = rd[r].block /\ rd[r].block \in Used
  /\ Used' = Used \ {rd[r].block}
  /\ UNCHANGED <<heap, SpareBlockA, SpareBlockB>>
OffersA(r) ==
  /\ rd[r].old # Null /\ rd'[r].old = Null /\ SpareBlockA = Null /\ SpareBlockA' = rd[r].old
  /\ Used' = Used /\ UNCHANGED <<heap, SpareBlockB>>
OffersB(r) ==
  /\ rd[r].old # Null /\ rd'[r].old = Null /\ SpareBlockB = Null /\ SpareBlockB' = rd[r].old
  /\ Used' = Used /\ UNCHANGED <<heap, SpareBlockA>>
FreesOld(r) ==
  /\ rd[r].old # Null /\ rd'[r].old = Null /\ heap' = heap \ {rd[r].old}
  /\ Used' = Used /\ UNCHANGED <<SpareBlockA, SpareBlockB>>

LEMMA ReaderOwnerKinds ==
  ASSUME IInv, Types', NEW r \in Readers, Pop(r) \/ ReaderStep(r)
  PROVE  SameOlds(r) \/ KeepsOld(r) \/ OffersA(r) \/ OffersB(r) \/ FreesOld(r)
<1>1. Types /\ rd[r].pc \in ReaderPoints
  BY Fields DEF IInv
<1>2. /\ rd[r].pc \in { "recycleB", "recycleA" } => rd[r].old # Null
      /\ rd[r].old # Null => rd[r].pc \in { "loadReadIdx", "recycleB", "recycleA" }
  BY DEF IInv, ReaderLocals
<1>3. Advance(r) \/ Leave(r) \/ Used' = Used
  BY ReadersUse
<1>10. ASSUME Pop(r) PROVE SameOlds(r)
  <2>1. Used' = Used
    BY <1>1, <1>3, <1>10, PopIs, AdvanceIs, LeaveIs
  <2> QED
    BY <1>1, <1>2, <1>10, <2>1, PopIs DEF SameOlds, SameOld
<1>11. ASSUME EnterBlock(r) PROVE SameOlds(r)
  <2>1. Used' = Used
    BY <1>1, <1>3, <1>11, EnterBlockIs, AdvanceIs, LeaveIs
  <2> QED
    BY <1>1, <1>2, <1>11, <2>1, EnterBlockIs DEF SameOlds, SameOld
<1>12. ASSUME PinBlock(r) PROVE SameOlds(r)
  <2>1. Used' = Used
    BY <1>1, <1>3, <1>12, PinBlockIs, AdvanceIs, LeaveIs
  <2> QED
    BY <1>1, <1>2, <1>12, <2>1, PinBlockIs DEF SameOlds, SameOld
<1>13. ASSUME LoadReadIdx(r) PROVE SameOlds(r)
  <2>1. Used' = Used
    BY <1>1, <1>3, <1>13, LoadReadIdxIs, AdvanceIs, LeaveIs
  <2> QED
    BY <1>1, <1>2, <1>13, <2>1, LoadReadIdxIs DEF SameOlds, SameOld
<1>14. ASSUME CheckReady(r) PROVE SameOlds(r)
  <2>1. Used' = Used
    BY <1>1, <1>3, <1>14, CheckReadyIs, AdvanceIs, LeaveIs
  <2> QED
    BY <1>1, <1>2, <1>14, <2>1, CheckReadyIs DEF SameOlds, SameOld
<1>15. ASSUME CheckNext(r) PROVE SameOlds(r)
  <2>1. Used' = Used
    BY <1>1, <1>3, <1>15, CheckNextIs, AdvanceIs, LeaveIs
  <2> QED
    BY <1>1, <1>2, <1>15, <2>1, CheckNextIs DEF SameOlds, SameOld
<1>16. ASSUME RecheckReady(r) PROVE SameOlds(r)
  <2>1. Used' = Used
    BY <1>1, <1>3, <1>16, RecheckReadyIs, AdvanceIs, LeaveIs
  <2> QED
    BY <1>1, <1>2, <1>16, <2>1, RecheckReadyIs DEF SameOlds, SameOld
<1>17. ASSUME ReaderLock(r) PROVE SameOlds(r)
  <2>1. Used' = Used
    BY <1>1, <1>3, <1>17, ReaderLockIs, AdvanceIs, LeaveIs
  <2> QED
    BY <1>1, <1>2, <1>17, <2>1, ReaderLockIs DEF SameOlds, SameOld
<1>18. ASSUME ReaderLockDrain(r) PROVE SameOlds(r)
  <2>1. Used' = Used
    BY <1>1, <1>3, <1>18, ReaderLockDrainIs, AdvanceIs, LeaveIs
  <2> QED
    BY <1>1, <1>2, <1>18, <2>1, ReaderLockDrainIs DEF SameOlds, SameOld
<1>19. ASSUME Advance(r) PROVE SameOlds(r) \/ KeepsOld(r)
  <2>1. /\ rd[r].pc = "advance" /\ rd[r].block \in Used
        /\ rd'[r].old = IF blk[rd[r].block].ReadShared = 1 THEN rd[r].block ELSE Null
        /\ Used' = IF blk[rd[r].block].ReadShared = 1 THEN Used \ {rd[r].block} ELSE Used
        /\ UNCHANGED <<heap, SpareBlockA, SpareBlockB>>
    BY <1>1, <1>19, AdvanceIs, AdvanceUses
  <2> QED
    BY <1>2, <2>1 DEF SameOlds, KeepsOld, SameOld
<1>20. ASSUME RecycleB(r) PROVE OffersB(r) \/ SameOlds(r)
  <2>1. Used' = Used
    BY <1>1, <1>3, <1>20, RecycleBIs, AdvanceIs, LeaveIs
  <2> QED
    BY <1>1, <1>2, <1>20, <2>1, RecycleBIs DEF SameOlds, OffersB, SameOld, IsRecycled
<1>21. ASSUME RecycleA(r) PROVE OffersA(r) \/ FreesOld(r)
  <2>1. Used' = Used
    BY <1>1, <1>3, <1>21, RecycleAIs, AdvanceIs, LeaveIs
  <2> QED
    BY <1>1, <1>2, <1>21, <2>1, RecycleAIs DEF OffersA, FreesOld, IsRecycled
<1>22. ASSUME CompareExchangeReadIdx(r) PROVE SameOlds(r)
  <2>1. Used' = Used
    BY <1>1, <1>3, <1>22, CompareExchangeReadIdxIs, AdvanceIs, LeaveIs
  <2> QED
    BY <1>1, <1>2, <1>22, <2>1, CompareExchangeReadIdxIs DEF SameOlds, SameOld
<1>23. ASSUME CallAndDestroy(r) PROVE SameOlds(r)
  <2>1. Used' = Used
    BY <1>1, <1>3, <1>23, CallAndDestroyIs, AdvanceIs, LeaveIs
  <2> QED
    BY <1>1, <1>2, <1>23, <2>1, CallAndDestroyIs DEF SameOlds, SameOld
<1>24. ASSUME Leave(r) PROVE SameOlds(r) \/ KeepsOld(r)
  <2>1. /\ rd[r].pc = "leave" /\ rd[r].block \in Used
        /\ rd'[r].old = IF rd'[r].pc = "recycleB" THEN rd[r].block ELSE Null
        /\ Used' = IF rd'[r].pc = "recycleB" THEN Used \ {rd[r].block} ELSE Used
        /\ UNCHANGED <<heap, SpareBlockA, SpareBlockB>>
    BY <1>1, <1>24, LeaveIs, LeaveUses
  <2> QED
    BY <1>2, <2>1 DEF SameOlds, KeepsOld, SameOld
<1> QED
  BY <1>10, <1>11, <1>12, <1>13, <1>14, <1>15, <1>16, <1>17, <1>18, <1>19, <1>20, <1>21, <1>22,
     <1>23, <1>24 DEF ReaderStep

(* Every block keeps its one owner, or changes hands. *)
LEMMA OneOwnerForWriters ==
  ASSUME IInv, Types', NEW w \in Writers, Push(w) \/ WriterStep(w)
  PROVE  OneOwner'
<1>1. Types /\ OnlyWriter(w) /\ ~released
  BY WriterFrames DEF IInv, OnlyWriter
<1>2. OneOwner
  BY <1>1 DEF IInv, InUseInv
<1>3. rd' = rd /\ \A v \in Writers : v # w => wr'[v] = wr[v]
  BY <1>1 DEF OnlyWriter
<1>4. /\ heap \subseteq Blocks /\ Used \subseteq heap /\ Null \notin heap
      /\ \A v \in Writers : wr[v].alloc \in Blocks \union {Null}
  BY <1>1, UsedBlocks, Fields, NullAssumption
<1>5. AppendBlock(w) \/ Used' = Used
  BY WritersUse
<1>10. CASE AppendBlock(w)
  <2>1. /\ UNCHANGED <<heap, SpareBlockA, SpareBlockB>> /\ wr'[w].alloc = Null
        /\ Used' = Used \union {wr[w].alloc} /\ wr[w].alloc # Null
    BY <1>1, <1>10, AppendBlockIs, AppendBlockUses, NullAssumption
  <2> QED
    BY <1>2, <1>3, <1>4, <2>1 DEF OneOwner
<1>11. CASE SameOwners(w) /\ Used' = Used
  BY <1>2, <1>3, <1>4, <1>11 DEF OneOwner, SameOwners, SameAlloc
<1>12. CASE TakesA(w) /\ Used' = Used
  BY <1>2, <1>3, <1>4, <1>12 DEF OneOwner, TakesA
<1>13. CASE TakesB(w) /\ Used' = Used
  BY <1>2, <1>3, <1>4, <1>13 DEF OneOwner, TakesB
<1>14. CASE Allocates(w) /\ Used' = Used
  BY <1>2, <1>3, <1>4, <1>14 DEF OneOwner, Allocates
<1>15. CASE GivesA(w) /\ Used' = Used
  BY <1>2, <1>3, <1>4, <1>15 DEF OneOwner, GivesA
<1>16. CASE GivesB(w) /\ Used' = Used
  BY <1>2, <1>3, <1>4, <1>16 DEF OneOwner, GivesB
<1>17. CASE Frees(w) /\ Used' = Used
  BY <1>2, <1>3, <1>4, <1>17 DEF OneOwner, Frees
<1> QED
  BY <1>5, <1>10, <1>11, <1>12, <1>13, <1>14, <1>15, <1>16, <1>17, WriterOwnerKinds

LEMMA OneOwnerForReaders ==
  ASSUME IInv, Types', NEW r \in Readers, Pop(r) \/ ReaderStep(r)
  PROVE  OneOwner'
<1>1. Types /\ OnlyReader(r) /\ ~released
  BY ReaderFrames DEF IInv, OnlyReader
<1>2. OneOwner
  BY <1>1 DEF IInv, InUseInv
<1>3. wr' = wr /\ \A q \in Readers : q # r => rd'[q] = rd[q]
  BY <1>1 DEF OnlyReader
<1>4. /\ heap \subseteq Blocks /\ Used \subseteq heap /\ Null \notin heap
      /\ \A q \in Readers : rd[q].old \in Blocks \union {Null}
  BY <1>1, UsedBlocks, Fields, NullAssumption
<1>10. CASE SameOlds(r)
  BY <1>2, <1>3, <1>4, <1>10 DEF OneOwner, SameOlds, SameOld
<1>11. CASE KeepsOld(r)
  BY <1>2, <1>3, <1>4, <1>11 DEF OneOwner, KeepsOld
<1>12. CASE OffersA(r)
  BY <1>2, <1>3, <1>4, <1>12 DEF OneOwner, OffersA
<1>13. CASE OffersB(r)
  BY <1>2, <1>3, <1>4, <1>13 DEF OneOwner, OffersB
<1>14. CASE FreesOld(r)
  BY <1>2, <1>3, <1>4, <1>14 DEF OneOwner, FreesOld
<1> QED
  BY <1>10, <1>11, <1>12, <1>13, <1>14, ReaderOwnerKinds

------------------------------------------------------------------------------
(* Only blocks in use are written to, and one that is being wiped.          *)
LEMMA WritersTouch ==
  ASSUME IInv, NEW w \in Writers, Push(w) \/ WriterStep(w)
  PROVE  \A b \in Blocks \ Used : blk'[b] = blk[b]
<1>1. Types /\ OnlyWriter(w) /\ ~released
  BY WriterFrames DEF IInv, OnlyWriter
<1>2. WriteBlock \in Used
  BY <1>1, UsedBlocks
<1>3. blk \in [Blocks -> BlockRecords]
  BY <1>1 DEF Types
<1>4. CASE QuietWriter(w)
  BY <1>4 DEF QuietWriter
<1>5. CASE AppendBlock(w)
  <2>1. wr[w].pc = "appendBlock" /\ blk' = [blk EXCEPT ![wr[w].block].NextBlock = wr[w].alloc]
    BY <1>1, <1>5, AppendBlockIs
  <2>2. wr[w].block = WriteBlock
    BY <2>1 DEF IInv, WriterView, LoadedPoints
  <2> QED
    BY <1>2, <1>3, <2>1, <2>2
<1>6. CASE Reserve(w)
  BY <1>1, <1>6, CompareExchangePreWriteIdxIs DEF Reserve
<1>7. CASE Construct(w)
  <2>1. PICK ok \in BOOLEAN :
          blk' = [blk EXCEPT ![wr[w].block].NbObjects = @ + 1,
                             ![wr[w].block].place[Mask(wr[w].idx)].functor = Pushed(w, ok)]
    BY <1>1, <1>7, ConstructIs
  <2>2. wr[w].block = WriteBlock
    BY <1>7, ConstructDoes
  <2> QED
    BY <1>2, <1>3, <2>1, <2>2, SMTT(20)
<1>8. CASE Commit(w)
  <2>1. blk' = [blk EXCEPT ![wr[w].block].place[Mask(wr[w].idx)].ready = TRUE]
    BY <1>1, <1>8, CommitIs
  <2>2. wr[w].block = WriteBlock
    BY <1>8, CommitDoes
  <2> QED
    BY <1>2, <1>3, <2>1, <2>2, SMTT(20)
<1> QED
  BY <1>4, <1>5, <1>6, <1>7, <1>8, WriterKinds

LEMMA ReadersTouch ==
  ASSUME IInv, NEW r \in Readers, Pop(r) \/ ReaderStep(r)
  PROVE  \A b \in Blocks \ Used :
           blk'[b] = IF RecycleB(r) /\ b = rd[r].old THEN WipedBlock ELSE blk[b]
<1>1. Types /\ OnlyReader(r) /\ ~released
  BY ReaderFrames DEF IInv, OnlyReader
<1>2. /\ ReadBlock \in Used
      /\ \A b \in Blocks : InBlock(r, b) => b \in Used
      /\ \A b \in Used : blk[b].NextBlock # Null /\ b = ReadBlock => blk[b].NextBlock \in Used
  BY <1>1, UsedBlocks, ChainFacts
<1>3. blk \in [Blocks -> BlockRecords] /\ rd[r].block \in Blocks \union {Null}
  BY <1>1, Fields DEF Types
<1>4. rd[r].pc \in PinnedAt => rd[r].block \in Used \/ rd[r].block = Null
  BY <1>2, <1>3 DEF InBlock
<1>5. CASE QuietReader(r)
  <2>1. RecycleB(r) => blk' = [blk EXCEPT ![rd[r].old] = WipedBlock]
    BY <1>1, RecycleBIs
  <2> QED
    BY <1>3, <1>5, <2>1 DEF QuietReader
<1>6. CASE PinBlock(r)
  <2>1. /\ rd[r].pc = "pin" /\ rd[r].block = ReadBlock
        /\ blk' = [blk EXCEPT ![rd[r].block].ReadShared = @ + 1]
    BY <1>1, <1>6, PinBlockIs DEF IInv, ReaderLocals
  <2>2. ~RecycleB(r)
    BY <1>1, <2>1, RecycleBIs
  <2> QED
    BY <1>2, <1>3, <2>1, <2>2
<1>7. CASE Advance(r)
  <2> DEFINE new == NextReadBlock(r)
  <2>1. /\ rd[r].pc = "advance"
        /\ blk' = [blk EXCEPT ![new].ReadShared = @ + 1, ![rd[r].block].ReadShared = @ - 1]
    BY <1>1, <1>7, AdvanceIs
  <2>2. rd[r].block \in Used /\ new \in Used
    <3>1. rd[r].block \in Blocks /\ new \in Blocks
      BY <1>7, AdvanceGoesOn
    <3>2. rd[r].block \in Used
      BY <1>2, <2>1, <3>1 DEF InBlock, PinnedAt
    <3> QED
      BY <1>2, <3>1, <3>2, NullAssumption DEF NextReadBlock
  <2>3. ~RecycleB(r)
    BY <1>1, <2>1, RecycleBIs
  <2> HIDE DEF new
  <2> QED
    BY <1>3, <2>1, <2>2, <2>3
<1>8. CASE RecycleB(r)
  BY <1>1, <1>8, RecycleBDoes
<1>9. CASE Take(r)
  <2>1. rd[r].pc = "compareExchange" /\ rd[r].pc \in PinnedAt
    BY <1>1, <1>9, CompareExchangeReadIdxIs DEF Take, PinnedAt
  <2>2. PICK i : blk' = [blk EXCEPT ![rd[r].block].ReadIdx = i]
    BY <1>1, <1>9, CompareExchangeReadIdxIs DEF Take
  <2>3. ~RecycleB(r)
    BY <1>1, <2>1, RecycleBIs
  <2> QED
    BY <1>3, <1>4, <2>1, <2>2, <2>3, NullAssumption
<1>10. CASE CallAndDestroy(r)
  <2>1. /\ rd[r].pc = "call" /\ rd[r].pc \in PinnedAt
        /\ blk' = [blk EXCEPT ![rd[r].block].NbObjects = @ - 1]
    BY <1>1, <1>10, CallAndDestroyIs DEF PinnedAt
  <2>2. ~RecycleB(r)
    BY <1>1, <2>1, RecycleBIs
  <2> QED
    BY <1>3, <1>4, <2>1, <2>2, NullAssumption
<1>11. CASE Leave(r)
  <2>1. /\ rd[r].pc = "leave" /\ rd[r].pc \in PinnedAt
        /\ blk' = [blk EXCEPT ![rd[r].block].ReadShared = @ - 1]
    BY <1>1, <1>11, LeaveIs DEF PinnedAt
  <2>2. ~RecycleB(r)
    BY <1>1, <2>1, RecycleBIs
  <2> QED
    BY <1>3, <1>4, <2>1, <2>2, NullAssumption
<1> QED
  BY <1>5, <1>6, <1>7, <1>8, <1>9, <1>10, <1>11, ReaderKinds

LEMMA WipedForWriters ==
  ASSUME IInv, Types', NEW w \in Writers, Push(w) \/ WriterStep(w)
  PROVE  SparesAreWiped'
<1>1. Types /\ OnlyWriter(w) /\ ~released
  BY WriterFrames DEF IInv, OnlyWriter
<1>2. SparesAreWiped /\ OneOwner
  BY <1>1 DEF IInv, InUseInv
<1>3. rd' = rd /\ \A v \in Writers : v # w => wr'[v] = wr[v]
  BY <1>1 DEF OnlyWriter
<1>4. /\ heap \subseteq Blocks /\ Used \subseteq heap /\ Null \notin heap
      /\ \A v \in Writers : wr[v].alloc \in Blocks \union {Null}
      /\ \A r \in Readers : rd[r].pc = "recycleA" => rd[r].old # Null
  BY <1>1, UsedBlocks, Fields, NullAssumption DEF IInv, ReaderLocals
<1>5. \A b \in Blocks \ Used : blk'[b] = blk[b]
  BY WritersTouch
<1>6. /\ SpareBlockA # Null => blk'[SpareBlockA] = WipedBlock
      /\ SpareBlockB # Null => blk'[SpareBlockB] = WipedBlock
      /\ \A v \in Writers : wr[v].alloc # Null => blk'[wr[v].alloc] = WipedBlock
      /\ \A r \in Readers : rd[r].pc = "recycleA" => blk'[rd[r].old] = WipedBlock
      /\ \A b \in Blocks \ heap : blk'[b] = WipedBlock
  BY <1>2, <1>4, <1>5 DEF SparesAreWiped, OneOwner
<1>7. CASE AppendBlock(w)
  <2>1. UNCHANGED <<heap, SpareBlockA, SpareBlockB>> /\ wr'[w].alloc = Null
    BY <1>1, <1>7, AppendBlockIs
  <2> QED
    BY <1>3, <1>6, <2>1 DEF SparesAreWiped
<1>10. CASE SameOwners(w)
  BY <1>3, <1>6, <1>10 DEF SparesAreWiped, SameOwners, SameAlloc
<1>11. CASE TakesA(w)
  BY <1>3, <1>6, <1>11 DEF SparesAreWiped, TakesA
<1>12. CASE TakesB(w)
  BY <1>3, <1>6, <1>12 DEF SparesAreWiped, TakesB
<1>13. CASE Allocates(w)
  BY <1>3, <1>6, <1>13 DEF SparesAreWiped, Allocates
<1>14. CASE GivesA(w)
  BY <1>3, <1>6, <1>14 DEF SparesAreWiped, GivesA
<1>15. CASE GivesB(w)
  BY <1>3, <1>6, <1>15 DEF SparesAreWiped, GivesB
<1>16. CASE Frees(w)
  BY <1>3, <1>6, <1>16 DEF SparesAreWiped, Frees
<1> QED
  BY <1>7, <1>10, <1>11, <1>12, <1>13, <1>14, <1>15, <1>16, WriterOwnerKinds

LEMMA WipedForReaders ==
  ASSUME IInv, Types', NEW r \in Readers, Pop(r) \/ ReaderStep(r)
  PROVE  SparesAreWiped'
<1>1. Types /\ OnlyReader(r) /\ ~released
  BY ReaderFrames DEF IInv, OnlyReader
<1>2. SparesAreWiped /\ OneOwner
  BY <1>1 DEF IInv, InUseInv
<1>3. wr' = wr /\ \A q \in Readers : q # r => rd'[q] = rd[q]
  BY <1>1 DEF OnlyReader
<1>4. /\ heap \subseteq Blocks /\ Used \subseteq heap /\ Null \notin heap
      /\ \A q \in Readers : rd[q].old \in Blocks \union {Null}
      /\ \A q \in Readers : rd[q].pc = "recycleA" => rd[q].old # Null
  BY <1>1, UsedBlocks, Fields, NullAssumption DEF IInv, ReaderLocals
<1>5. \A b \in Blocks \ Used :
        blk'[b] = IF RecycleB(r) /\ b = rd[r].old THEN WipedBlock ELSE blk[b]
  BY ReadersTouch
<1>6. /\ SpareBlockA # Null => blk'[SpareBlockA] = WipedBlock
      /\ SpareBlockB # Null => blk'[SpareBlockB] = WipedBlock
      /\ \A w \in Writers : wr[w].alloc # Null => blk'[wr[w].alloc] = WipedBlock
      /\ \A q \in Readers : rd[q].pc = "recycleA" => blk'[rd[q].old] = WipedBlock
      /\ \A b \in Blocks \ heap : blk'[b] = WipedBlock
  BY <1>2, <1>4, <1>5 DEF SparesAreWiped, OneOwner
(* What r itself gives away or keeps for its next step was wiped. *)
<1>7. /\ RecycleB(r) => blk'[rd[r].old] = WipedBlock
      /\ rd'[r].pc = "recycleA" => RecycleB(r) /\ rd'[r].old = rd[r].old
      /\ OffersA(r) \/ FreesOld(r) \/ OffersB(r) => blk'[rd[r].old] = WipedBlock
  <2>1. RecycleB(r) => blk'[rd[r].old] = WipedBlock
    <3>1. RecycleB(r) => rd[r].old \in Blocks
      BY <1>1, <1>4, RecycleBIs DEF IInv, ReaderLocals
    <3> QED
      BY <1>1, <3>1, RecycleBDoes
  <2>2. rd'[r].pc = "recycleA" => RecycleB(r) /\ rd'[r].old = rd[r].old
    <3>1. ASSUME rd'[r].pc = "recycleA" PROVE RecycleB(r)
      BY <1>1, <3>1, PopIs, EnterBlockIs, PinBlockIs, LoadReadIdxIs, CheckReadyIs, CheckNextIs,
         RecheckReadyIs, ReaderLockIs, ReaderLockDrainIs, AdvanceIs, RecycleAIs,
         CompareExchangeReadIdxIs, CallAndDestroyIs, LeaveIs, Zenon DEF ReaderStep, IsRecycled
    <3> QED
      BY <1>1, <3>1, RecycleBIs, SMTT(20) DEF IsRecycled, SameOld
  <2>3. ASSUME OffersA(r) \/ FreesOld(r) \/ OffersB(r) PROVE RecycleB(r) \/ rd[r].pc = "recycleA"
    <3>1. rd[r].old # Null /\ rd'[r].old = Null
      BY <2>3 DEF OffersA, FreesOld, OffersB
    <3>2. rd[r].pc \in { "loadReadIdx", "recycleB", "recycleA" }
      BY <3>1 DEF IInv, ReaderLocals
    <3>3. rd[r].pc = "recycleB" => RecycleB(r)
      BY <1>1, PopIs, EnterBlockIs, PinBlockIs, CheckReadyIs, CheckNextIs,
         RecheckReadyIs, ReaderLockIs, ReaderLockDrainIs, AdvanceIs, RecycleAIs,
         CompareExchangeReadIdxIs, CallAndDestroyIs, LeaveIs, LoadReadIdxIs, ZenonT(30) DEF ReaderStep
    <3>4. rd[r].pc = "loadReadIdx" => LoadReadIdx(r)
      BY <1>1, PopIs, EnterBlockIs, PinBlockIs, CheckReadyIs, CheckNextIs,
         RecheckReadyIs, ReaderLockIs, ReaderLockDrainIs, AdvanceIs, RecycleAIs,
         CompareExchangeReadIdxIs, CallAndDestroyIs, LeaveIs, RecycleBIs, Zenon DEF ReaderStep
    <3>5. LoadReadIdx(r) => rd'[r].old = rd[r].old
      BY <1>1, LoadReadIdxIs DEF SameOld
    <3> QED
      BY <3>1, <3>2, <3>3, <3>4, <3>5
  <2> QED
    BY <1>6, <2>1, <2>2, <2>3
<1>10. CASE SameOlds(r)
  BY <1>3, <1>6, <1>7, <1>10 DEF SparesAreWiped, SameOlds, SameOld
<1>11. CASE KeepsOld(r)
  BY <1>3, <1>6, <1>7, <1>11 DEF SparesAreWiped, KeepsOld
<1>12. CASE OffersA(r)
  BY <1>3, <1>6, <1>7, <1>12 DEF SparesAreWiped, OffersA
<1>13. CASE OffersB(r)
  BY <1>3, <1>6, <1>7, <1>13 DEF SparesAreWiped, OffersB
<1>14. CASE FreesOld(r)
  BY <1>3, <1>6, <1>7, <1>14 DEF SparesAreWiped, FreesOld
<1> QED
  BY <1>10, <1>11, <1>12, <1>13, <1>14, ReaderOwnerKinds

------------------------------------------------------------------------------
(* The pins. *)
LEMMA PinsCountedForWriters ==
  ASSUME IInv, NEW w \in Writers, Push(w) \/ WriterStep(w)
  PROVE  PinsCounted'
<1>1. Types /\ OnlyWriter(w) /\ PinsCounted
  BY WriterFrames DEF IInv
<1>2. SamePins
  <2>1. QuietWriter(w) \/ Reserve(w) => blk' = blk
    BY <1>1, CompareExchangePreWriteIdxIs DEF QuietWriter, Reserve
  <2> QED
    BY <1>1, <2>1, WriterKinds, ConstructDoes, CommitDoes, AppendBlockDoes DEF SamePins
<1> QED
  BY <1>1, <1>2 DEF PinsCounted, OnlyWriter, SamePins, Pinned

LEMMA PinsCountedForReaders ==
  ASSUME IInv, Types', NEW r \in Readers, Pop(r) \/ ReaderStep(r)
  PROVE  PinsCounted'
<1>1. Types /\ OnlyReader(r) /\ ~released
  BY ReaderFrames DEF IInv, OnlyReader
<1>2. /\ \A b \in Blocks : blk[b].ReadShared = Cardinality(Pinned(b)) /\ IsFiniteSet(Pinned(b))
      /\ \A b, q : q \in Pinned(b) <=> q \in Readers /\ InBlock(q, b)
      /\ \A b, q : q \in Pinned(b)' <=> q \in Readers /\ InBlock(q, b)'
  <2>1. \A b : Pinned(b) \subseteq Readers
    BY DEF Pinned
  <2>2. \A b : IsFiniteSet(Pinned(b))
    BY <2>1, FS_Subset, ThreadsAssumption
  <2>3. PinsCounted
    BY DEF IInv
  <2> QED
    BY <2>2, <2>3 DEF PinsCounted, Pinned, InBlock
<1>3. \A q \in Readers : \A b : q # r => (InBlock(q, b)' <=> InBlock(q, b))
  BY <1>1 DEF OnlyReader, InBlock
<1>4. \A b \in Blocks :
        /\ (InBlock(r, b)' <=> InBlock(r, b)) => Pinned(b)' = Pinned(b)
        /\ InBlock(r, b)' /\ ~InBlock(r, b) => Cardinality(Pinned(b)') = Cardinality(Pinned(b)) + 1
        /\ ~InBlock(r, b)' /\ InBlock(r, b) => Cardinality(Pinned(b)') = Cardinality(Pinned(b)) - 1
  <2> SUFFICES ASSUME NEW b \in Blocks
               PROVE  /\ (InBlock(r, b)' <=> InBlock(r, b)) => Pinned(b)' = Pinned(b)
                      /\ InBlock(r, b)' /\ ~InBlock(r, b) => Cardinality(Pinned(b)') = Cardinality(Pinned(b)) + 1
                      /\ ~InBlock(r, b)' /\ InBlock(r, b) => Cardinality(Pinned(b)') = Cardinality(Pinned(b)) - 1
    OBVIOUS
  <2> DEFINE P == Pinned(b)
  <2>1. ASSUME InBlock(r, b)' <=> InBlock(r, b) PROVE Pinned(b)' = Pinned(b)
    BY <1>2, <1>3, <2>1
  <2>2. ASSUME InBlock(r, b)', ~InBlock(r, b) PROVE Cardinality(Pinned(b)') = Cardinality(Pinned(b)) + 1
    <3>1. Pinned(b)' = Pinned(b) \union {r} /\ r \notin Pinned(b)
      BY <1>2, <1>3, <2>2
    <3> QED
      BY <1>2, <3>1, FS_AddElement
  <2>3. ASSUME ~InBlock(r, b)', InBlock(r, b) PROVE Cardinality(Pinned(b)') = Cardinality(Pinned(b)) - 1
    <3>1. Pinned(b)' = Pinned(b) \ {r} /\ r \in Pinned(b)
      BY <1>2, <1>3, <2>3
    <3> QED
      BY <1>2, <3>1, FS_RemoveElement
  <2> QED
    BY <2>1, <2>2, <2>3
<1>5. SUFFICES \A b \in Blocks :
        \/ blk'[b].ReadShared = blk[b].ReadShared /\ (InBlock(r, b)' <=> InBlock(r, b))
        \/ blk'[b].ReadShared = blk[b].ReadShared + 1 /\ InBlock(r, b)' /\ ~InBlock(r, b)
        \/ blk'[b].ReadShared = blk[b].ReadShared - 1 /\ ~InBlock(r, b)' /\ InBlock(r, b)
  BY <1>2, <1>4 DEF PinsCounted
<1>6. CASE QuietReader(r)
  BY <1>6 DEF QuietReader, SamePin
<1>7. CASE PinBlock(r)
  <2>1. rd[r].pc = "pin" /\ rd'[r].pc = "loadReadIdx" /\ rd'[r].block = rd[r].block
    BY <1>1, <1>7, PinBlockIs DEF SameBlock
  <2> QED
    BY <1>1, <1>7, <2>1, PinBlockDoes DEF InBlock, PinnedAt
<1>8. CASE Advance(r)
  <2> DEFINE new == NextReadBlock(r)
  <2>1. rd[r].pc = "advance" /\ rd'[r].pc = "loadReadIdx" /\ rd'[r].block = new
    BY <1>1, <1>8, AdvanceIs
  <2>2. new # rd[r].block
    BY <1>8, AdvanceGoesOn
  <2>3. \A b \in Blocks : blk'[b].ReadShared =
              IF b = rd[r].block THEN blk[b].ReadShared - 1
              ELSE IF b = new THEN blk[b].ReadShared + 1
              ELSE blk[b].ReadShared
    BY <1>8, AdvanceDoes
  <2> HIDE DEF new
  <2> QED
    BY <2>1, <2>2, <2>3 DEF InBlock, PinnedAt
<1>9. CASE RecycleB(r)
  <2>1. SamePin(r)
    BY <1>1, <1>9, RecycleBIs, NullAssumption DEF SamePin, InBlock, IsRecycled, SameBlock, PinnedAt
  <2>2. \A q \in Readers : ~InBlock(q, rd[r].old)
    <3>1. rd[r].old \in Blocks /\ rd[r].old \notin Used
      BY <1>1, <1>9, RecycleBIs, UsedBlocks, Fields DEF IInv, ReaderLocals
    <3> QED
      BY <1>1, <3>1, UsedBlocks
  <2>3. rd[r].old \in Blocks => blk[rd[r].old].ReadShared = 0
    <3>1. Pinned(rd[r].old) = {}
      BY <1>2, <2>2
    <3> QED
      BY <1>2, <3>1, FS_EmptySet
  <2>4. WipedBlock.ReadShared = 0
    BY DEF WipedBlock
  <2> QED
    BY <1>1, <1>9, <2>1, <2>3, <2>4, RecycleBDoes DEF SamePin
<1>10. CASE Take(r)
  <2>1. SamePin(r)
    BY <1>1, <1>10, CompareExchangeReadIdxIs DEF Take, SamePin, InBlock, SameBlock, PinnedAt
  <2> QED
    BY <1>1, <1>10, <2>1, TakeDoes DEF SamePins, SamePin
<1>11. CASE CallAndDestroy(r)
  <2>1. SamePin(r)
    BY <1>1, <1>11, CallAndDestroyIs DEF SamePin, InBlock, SameBlock, PinnedAt
  <2> QED
    BY <1>1, <1>11, <2>1, CallAndDestroyDoes DEF SamePins, SamePin
<1>12. CASE Leave(r)
  <2>1. rd[r].pc = "leave" /\ rd'[r].block = Null
    BY <1>1, <1>12, LeaveIs
  <2> QED
    BY <1>1, <1>12, <2>1, LeaveDoes, NullAssumption DEF InBlock, PinnedAt
<1> QED
  BY <1>6, <1>7, <1>8, <1>9, <1>10, <1>11, <1>12, ReaderKinds

------------------------------------------------------------------------------
(* A block is left when it is used up.  A block's places after the step:   *)
NextUnread(b) == { i \in Offsets : i >= blk'[b].ReadIdx /\ blk'[b].place[i].ready }

LEMMA UsedUpForWriters ==
  ASSUME IInv, Types', NEW w \in Writers, Push(w) \/ WriterStep(w)
  PROVE  UsedUp'
<1>1. Types /\ OnlyWriter(w) /\ ~released /\ rd' = rd
  BY WriterFrames DEF IInv, OnlyWriter
<1>2. UsedUp /\ ChainOK /\ ReaderLocals
  BY <1>1 DEF IInv, InUseInv
<1>3. /\ WriteBlock \in Chain /\ Chain \subseteq Used /\ Chain \subseteq Blocks
      /\ \A r \in Readers : rd[r].old \notin Used /\ rd[r].old \in Blocks \union {Null}
      /\ \A r \in Readers : rd[r].block \in Blocks \union {Null}
  BY <1>1, UsedBlocks, ChainFacts, Fields
<1>4. blk[WriteBlock].NextBlock = Null
  BY <1>2, <1>3 DEF ChainOK
<1>5. \A b \in Blocks : b # WriteBlock => NextUnread(b) = Unread(b)
  <2>1. CASE QuietWriter(w) \/ Reserve(w)
    BY <1>1, <2>1, CompareExchangePreWriteIdxIs DEF QuietWriter, Reserve, Unread, NextUnread
  <2>2. CASE AppendBlock(w)
    BY <1>1, <2>2, AppendBlockDoes DEF SameReadIdx, SamePlaces, Unread, NextUnread
  <2>3. CASE Construct(w)
    BY <2>3, ConstructDoes DEF SameReadIdx, Unread, NextUnread
  <2>4. CASE Commit(w)
    <3>1. \A b \in Blocks, i \in Offsets : b # WriteBlock =>
            /\ blk'[b].place[i].ready = blk[b].place[i].ready
            /\ blk'[b].ReadIdx = blk[b].ReadIdx
      <4>1. wr[w].block = WriteBlock /\ \A b \in Blocks : blk'[b].ReadIdx = blk[b].ReadIdx
        BY <2>4, CommitDoes DEF SameReadIdx
      <4>2. ASSUME NEW b \in Blocks, NEW i \in Offsets, b # WriteBlock
            PROVE  blk'[b].place[i].ready = blk[b].place[i].ready
        <5>1. blk'[b].place[i].ready =
                IF b = wr[w].block /\ i = Start(w) THEN TRUE ELSE blk[b].place[i].ready
          BY <2>4, CommitDoes, Zenon
        <5> QED
          BY <4>1, <4>2, <5>1, Zenon
      <4> QED
        BY <4>1, <4>2
    <3> QED
      BY <3>1, Zenon DEF Unread, NextUnread
  <2> QED
    BY <2>1, <2>2, <2>3, <2>4, WriterKinds
<1>6. \A b \in Blocks : blk[b].NextBlock # Null => blk'[b].NextBlock # Null /\ b # WriteBlock
  <2>1. CASE ~AppendBlock(w)
    BY <1>4, <2>1, WritersUse DEF SameNext
  <2>2. CASE AppendBlock(w)
    BY <1>1, <1>4, <2>2, AppendBlockDoes, AppendBlockUses
  <2> QED
    BY <2>1, <2>2
<1>7. \A b \in Retired(Chain)' : b \in Retired(Chain) /\ b \in Blocks /\ b # WriteBlock
  <2>1. Chain \subseteq Chain'
    <3>1. CASE ~AppendBlock(w)
      BY <3>1, WritersUse
    <3>2. CASE AppendBlock(w)
      BY <1>1, <3>2, AppendBlockUses
    <3> QED
      BY <3>1, <3>2
  <2> QED
    BY <1>1, <1>3, <2>1, RetiredIs, NextRetiredIs DEF InBlock
<1>8. ASSUME NEW r \in Readers, rd[r].pc \in { "recheckReady", "lock", "lockDrain", "advance" }
      PROVE  rd[r].block \in Blocks /\ blk[rd[r].block].NextBlock # Null
  BY <1>2, <1>3, <1>8 DEF UsedUp, ReaderLocals
<1>9. ASSUME NEW r \in Readers, rd[r].old # Null PROVE NextUnread(rd[r].old) = {}
  BY <1>2, <1>3, <1>5, <1>9, <1>1 DEF UsedUp
<1>10. ASSUME NEW r \in Readers, rd[r].pc \in { "lock", "lockDrain", "advance" }
       PROVE  NextUnread(rd[r].block) = {}
  BY <1>1, <1>2, <1>5, <1>6, <1>8, <1>10 DEF UsedUp
<1>11. \A b \in Retired(Chain)' : NextUnread(b) = {}
  BY <1>2, <1>5, <1>7 DEF UsedUp
<1> QED
  BY <1>1, <1>6, <1>8, <1>9, <1>10, <1>11 DEF UsedUp, Unread, NextUnread

(* Readers make nothing ready. *)
LEMMA ReadersOnlyTake ==
  ASSUME IInv, NEW r \in Readers, Pop(r) \/ ReaderStep(r)
  PROVE  \A b \in Blocks : NextUnread(b) \subseteq Unread(b)
<1>1. Types /\ ReadyApart /\ ReadersFollow
  BY DEF IInv
<1>2. ASSUME SamePlaces, SameReadIdx PROVE \A b \in Blocks : NextUnread(b) \subseteq Unread(b)
  BY <1>2 DEF SamePlaces, SameReadIdx, Unread, NextUnread
<1>3. CASE QuietReader(r)
  BY <1>3 DEF QuietReader, Unread, NextUnread
<1>4. CASE PinBlock(r) \/ Advance(r) \/ CallAndDestroy(r) \/ Leave(r)
  BY <1>1, <1>2, <1>4, PinBlockDoes, AdvanceDoes, CallAndDestroyDoes, LeaveDoes
<1>5. CASE RecycleB(r)
  <2>1. \A i \in Offsets : ~WipedBlock.place[i].ready
    BY DEF WipedBlock, EmptyPlace
  <2> QED
    BY <1>1, <1>5, <2>1, RecycleBDoes DEF Unread, NextUnread
<1>6. CASE Take(r)
  <2>1. rd[r].pc = "compareExchange" /\ rd[r].idx = blk[rd[r].block].ReadIdx
    BY <1>1, <1>6, CompareExchangeReadIdxIs DEF Take
  <2>2. rd[r].block \in Blocks
    BY <1>1, <2>1, Fields DEF IInv, ReaderLocals
  <2>3. rd[r].idx \in ReadyAt(rd[r].block)
    BY <1>1, <2>1, <2>2, NullAssumption DEF ReadersFollow, ReadPoints
  <2>4. Size(rd[r].block, rd[r].idx) \in Nat
    <3>1. blk[rd[r].block].place[rd[r].idx].functor \in Functors
      BY <1>1, <2>2, <2>3 DEF ReadyApart
    <3>2. Size(rd[r].block, rd[r].idx) \in Sizes
      BY <3>1 DEF Functors, Size
    <3> QED
      BY <3>2, Numbers
  <2>5. \A b \in Blocks : blk[b].ReadIdx \in Int /\ blk'[b].ReadIdx \in Int /\ blk'[b].ReadIdx >= blk[b].ReadIdx
    <3>1. \A b \in Blocks : blk[b].ReadIdx \in Int
      BY <1>1, Fields, Numbers
    <3> QED
      BY <1>1, <1>6, <2>1, <2>2, <2>4, <3>1, TakeDoes
  <2>6. SamePlaces
    BY <1>1, <1>6, TakeDoes
  <2>7. Offsets \subseteq Int
    BY Numbers
  <2>8. ASSUME NEW b \in Blocks, NEW i \in Offsets, i >= blk'[b].ReadIdx PROVE i >= blk[b].ReadIdx
    <3>1. /\ blk[b].ReadIdx \in Int /\ blk'[b].ReadIdx \in Int /\ blk'[b].ReadIdx >= blk[b].ReadIdx
          /\ i \in Int
      BY <2>5, <2>7
    <3> QED
      BY <2>8, <3>1
  <2> QED
    BY <2>6, <2>8, Zenon DEF SamePlaces, Unread, NextUnread
<1> QED
  BY <1>3, <1>4, <1>5, <1>6, ReaderKinds

(* A reader that finds the block it is in used up, when another follows.    *)
LEMMA NothingFollows ==
  ASSUME IInv, NEW r \in Readers, RecheckReady(r), rd'[r].pc = "lock", ~released
  PROVE  Unread(rd[r].block) = {}
<1> DEFINE b == rd[r].block
           x == rd[r].idx
<1>1. Types /\ ReadersFollow /\ Tiled /\ UsedUp /\ ChainOK
  BY DEF IInv, InUseInv
<1>2. rd[r].pc = "recheckReady" /\ ~Ready(b, x)
  BY <1>1, RecheckReadyIs
<1>3. b \in Blocks /\ b # Null
  BY <1>1, <1>2, Fields DEF IInv, ReaderLocals
<1>4. b # WriteBlock
  BY <1>1, <1>2 DEF UsedUp, ChainOK
<1>5. blk[b].ReadIdx \in StartIdx..BlockLimit
  BY <1>1, <1>3, Fields
<1>6. x \in StartIdx..blk[b].ReadIdx /\ (x < blk[b].ReadIdx => x \in ReadyAt(b))
  BY <1>1, <1>2, <1>3 DEF ReadersFollow, ReadPoints
<1>7. x \notin ReadyAt(b)
  <2>1. \A i \in Offsets : i < BlockLimit
    BY Numbers
  <2> QED
    BY <1>2, <2>1 DEF Ready, ReadyAt
<1>8. x = blk[b].ReadIdx
  BY <1>5, <1>6, <1>7, Numbers
<1>9. Follows(b, x)
  BY <1>1, <1>3, <1>5, <1>8 DEF Tiled
<1>10. \A s \in ReadyAt(b) : s < x
  BY <1>4, <1>7, <1>9 DEF Follows, Starts
<1> HIDE DEF b, x
<1>11. Unread(b) = {}
  BY <1>5, <1>8, <1>10, Numbers DEF Unread, ReadyAt
<1> QED
  BY <1>11 DEF b

LEMMA UsedUpForReaders ==
  ASSUME IInv, Types', NEW r \in Readers, Pop(r) \/ ReaderStep(r)
  PROVE  UsedUp'
<1>1. Types /\ OnlyReader(r) /\ ~released
  BY ReaderFrames DEF IInv, OnlyReader
<1>2. UsedUp /\ ChainOK /\ ReaderLocals
  BY <1>1 DEF IInv, InUseInv
<1>3. \A b \in Blocks : Unread(b) = {} => NextUnread(b) = {}
  BY ReadersOnlyTake
<1>4. \A q \in Readers : q # r => rd'[q] = rd[q]
  BY <1>1 DEF OnlyReader
<1>5. \A q \in Readers : /\ rd[q].block \in Blocks \union {Null}
                         /\ rd[q].old \in Blocks \union {Null}
  BY <1>1, Fields
<1>6. \A q \in Readers : rd[q].pc \in { "recheckReady", "lock", "lockDrain", "advance" } =>
        rd[q].block \in Blocks
  BY <1>2, <1>5 DEF ReaderLocals
(* The block after that of a reader inside stays. *)
<1>7. \A q \in Readers, b \in Blocks : InBlock(q, b) => blk'[b].NextBlock = blk[b].NextBlock
  <2>1. CASE RecycleB(r)
    <3>1. \A q \in Readers, b \in Blocks : InBlock(q, b) => b # rd[r].old
      BY <1>1, UsedBlocks
    <3> QED
      BY <1>1, <2>1, <3>1, RecycleBDoes
  <2>2. CASE ~RecycleB(r)
    <3>1. QuietReader(r) => blk' = blk
      BY DEF QuietReader
    <3> QED
      BY <1>1, <2>2, <3>1, ReaderKinds, PinBlockDoes, AdvanceDoes, TakeDoes, CallAndDestroyDoes,
         LeaveDoes DEF SameNext
  <2> QED
    BY <2>1, <2>2
<1>8. \A q \in Readers : rd[q].pc \in { "recheckReady", "lock", "lockDrain", "advance" } =>
        blk'[rd[q].block].NextBlock # Null
  BY <1>2, <1>6, <1>7 DEF UsedUp, InBlock, PinnedAt
<1>9. \A q \in Readers : rd[q].pc \in { "lock", "lockDrain", "advance" } =>
        NextUnread(rd[q].block) = {}
  BY <1>2, <1>3, <1>6 DEF UsedUp
<1>10. \A q \in Readers : rd[q].old # Null => NextUnread(rd[q].old) = {}
  BY <1>2, <1>3, <1>5 DEF UsedUp
(* Where r gets to. *)
<1>11. ASSUME rd'[r].pc \in { "recheckReady", "lock", "lockDrain", "advance" }
       PROVE  /\ blk'[rd'[r].block].NextBlock # Null
              /\ rd'[r].pc # "recheckReady" => NextUnread(rd'[r].block) = {}
  <2>1. \/ CheckNext(r) \/ RecheckReady(r) \/ ReaderLock(r) \/ ReaderLockDrain(r)
    <3>1. ~Pop(r) /\ ~EnterBlock(r) /\ ~PinBlock(r) /\ ~LoadReadIdx(r) /\ ~CheckReady(r)
      BY <1>1, <1>11, PopIs, EnterBlockIs, PinBlockIs, LoadReadIdxIs, CheckReadyIs
    <3>2. ~Advance(r) /\ ~RecycleA(r) /\ ~RecycleB(r)
      BY <1>1, <1>11, AdvanceIs, RecycleAIs, RecycleBIs DEF IsRecycled
    <3>3. ~CompareExchangeReadIdx(r) /\ ~CallAndDestroy(r) /\ ~Leave(r)
      BY <1>1, <1>11, CompareExchangeReadIdxIs, CallAndDestroyIs, LeaveIs
    <3> QED
      BY <3>1, <3>2, <3>3, Zenon DEF ReaderStep
  <2>2. CASE CheckNext(r)
    BY <1>1, <1>11, <2>2, CheckNextIs DEF SameBlock
  <2>3. CASE RecheckReady(r)
    <3>1. rd'[r].block = rd[r].block /\ rd[r].pc = "recheckReady" /\ rd'[r].pc = "lock"
      BY <1>1, <1>11, <2>3, RecheckReadyIs DEF SameBlock
    <3>2. Unread(rd[r].block) = {}
      BY <1>1, <2>3, <3>1, NothingFollows
    <3> QED
      BY <1>3, <1>6, <1>8, <3>1, <3>2
  <2>4. CASE ReaderLock(r)
    BY <1>1, <1>8, <1>9, <2>4, ReaderLockIs DEF SameBlock
  <2>5. CASE ReaderLockDrain(r)
    BY <1>1, <1>8, <1>9, <2>5, ReaderLockDrainIs DEF SameBlock
  <2> QED
    BY <2>1, <2>2, <2>3, <2>4, <2>5
<1>12. ASSUME rd'[r].old # Null PROVE NextUnread(rd'[r].old) = {}
  <2>1. CASE rd'[r].old = rd[r].old
    BY <1>10, <1>12, <2>1
  <2>2. CASE rd'[r].old # rd[r].old
    <3>1. Advance(r) \/ Leave(r)
      BY <1>1, <1>12, <2>2, PopIs, EnterBlockIs, PinBlockIs, LoadReadIdxIs, CheckReadyIs,
         CheckNextIs, RecheckReadyIs, ReaderLockIs, ReaderLockDrainIs, RecycleAIs, RecycleBIs,
         CompareExchangeReadIdxIs, CallAndDestroyIs, Zenon DEF ReaderStep, IsRecycled, SameOld
    <3>2. CASE Advance(r)
      BY <1>1, <1>9, <1>12, <3>2, AdvanceIs
    <3>3. CASE Leave(r)
      <4>1. rd'[r].old = rd[r].block /\ rd'[r].pc = "recycleB"
        BY <1>1, <1>12, <3>3, LeaveIs
      <4>2. InBlock(r, rd[r].block) /\ rd[r].block \in Blocks /\ rd[r].block \notin Chain
        BY <3>3, <4>1, LeaveUses
      <4>3. Unread(rd[r].block) = {}
        BY <1>1, <1>2, <4>2, RetiredIs DEF UsedUp
      <4> QED
        BY <1>3, <4>1, <4>2, <4>3
    <3> QED
      BY <3>1, <3>2, <3>3
  <2> QED
    BY <2>1, <2>2
<1>13. ASSUME NEW b \in Retired(Chain)' PROVE NextUnread(b) = {}
  <2>1. /\ b \in Blocks \ Chain'
        /\ \E q \in Readers : InBlock(q, b)'
    BY <1>13, NextRetiredIs DEF InBlock
  <2>2. CASE Advance(r)
    <3>1. CASE b = rd[r].block
      BY <1>1, <1>9, <2>2, <3>1, AdvanceIs
    <3>2. CASE b # rd[r].block
      <4>1. b \notin Chain /\ rd'[r].block # b
        <5>1. Chain' = Chain \ {rd[r].block} /\ ReadBlock' \in Chain'
          BY <2>2, AdvanceUses
        <5>2. rd'[r].block = ReadBlock'
          BY <1>1, <2>2, AdvanceIs
        <5> QED
          BY <2>1, <3>2, <5>1, <5>2
      <4>2. b \in Retired(Chain)
        BY <1>1, <1>4, <2>1, <4>1, RetiredIs DEF InBlock
      <4> QED
        BY <1>2, <1>3, <2>1, <4>2 DEF UsedUp
    <3> QED
      BY <3>1, <3>2
  <2>3. CASE ~Advance(r)
    <3>1. Chain' = Chain
      BY <2>3, ReadersUse, LeaveUses
    <3>2. \E q \in Readers : InBlock(q, b)
      <4>1. PICK q \in Readers : InBlock(q, b)'
        BY <2>1
      <4>2. CASE q # r
        BY <1>4, <4>1, <4>2 DEF InBlock
      <4>3. CASE q = r
        <5>1. ~Leave(r)
          BY <1>1, <2>1, <4>1, <4>3, LeaveIs, NullAssumption DEF InBlock
        <5>2. ~PinBlock(r)
          <6>1. PinBlock(r) => rd'[r].block = ReadBlock
            BY <1>1, <1>2, PinBlockIs DEF SameBlock, ReaderLocals
          <6> QED
            BY <1>1, <2>1, <3>1, <4>1, <4>3, <6>1, UsedBlocks DEF InBlock
        <5> QED
          BY <2>1, <2>3, <4>1, <4>3, <5>1, <5>2, ReadersUse DEF SamePin
      <4> QED
        BY <4>2, <4>3
    <3>3. b \in Retired(Chain)
      BY <1>1, <2>1, <3>1, <3>2, RetiredIs
    <3> QED
      BY <1>2, <1>3, <2>1, <3>3 DEF UsedUp
  <2> QED
    BY <2>2, <2>3
<1>14. \A q \in Readers :
         /\ rd'[q].pc \in { "recheckReady", "lock", "lockDrain", "advance" } =>
              blk'[rd'[q].block].NextBlock # Null
         /\ rd'[q].pc \in { "lock", "lockDrain", "advance" } => NextUnread(rd'[q].block) = {}
         /\ rd'[q].old # Null => NextUnread(rd'[q].old) = {}
  BY <1>4, <1>8, <1>9, <1>10, <1>11, <1>12
<1> QED
  BY <1>13, <1>14 DEF UsedUp, Unread, NextUnread

------------------------------------------------------------------------------
(* The places in a block.  First what the invariants say of them with the   *)
(* sets written out, before a step and after it.                            *)
NextReadyAt(b) == { i \in Offsets : blk'[b].place[i].ready }
NextSize(b, i) == blk'[b].place[i].functor.size
NextStart(w) == Mask(wr'[w].idx)
NextWriting == { w \in Writers : wr'[w].pc \in PlacedPoints }

LEMMA WritingIs == Writing = { w \in Writers : wr[w].pc \in PlacedPoints }
  BY DEF Writing, PlacedPoints

LEMMA ReadySizes ==
  ASSUME IInv, NEW b \in Blocks, NEW i \in ReadyAt(b)
  PROVE  i \in Offsets /\ i \in Int /\ Size(b, i) \in 1..Capacity
<1>1. blk[b].place[i].functor \in Functors
  BY DEF IInv, ReadyApart
<1>2. Size(b, i) \in Sizes
  BY <1>1 DEF Functors, Size
<1> QED
  BY <1>2, Numbers DEF ReadyAt

(* The place a writer is about to fill, or fills, is not ready.             *)
LEMMA StartNotReady ==
  ASSUME IInv, NEW w \in Writing
  PROVE  Start(w) \notin ReadyAt(WriteBlock)
<1>1. w \in Writers /\ wr[w].pc \in PlacedPoints
  BY WritingIs
<1>2. WriteBlock \in Blocks /\ wr[w].size \in 1..Capacity /\ Start(w) \in Int
  BY <1>1, PlacesFit
<1>3. ASSUME Start(w) \in ReadyAt(WriteBlock) PROVE FALSE
  <2>1. Size(WriteBlock, Start(w)) \in 1..Capacity
    BY <1>2, <1>3, ReadySizes
  <2>2. \/ Start(w) + Size(WriteBlock, Start(w)) <= Start(w)
        \/ Start(w) + wr[w].size <= Start(w)
    BY <1>3 DEF IInv, WritingApart
  <2> QED
    BY <1>2, <2>1, <2>2, Numbers
<1> QED
  BY <1>3

LEMMA StartsApart ==
  ASSUME IInv, NEW v \in Writing, NEW w \in Writing, v # w
  PROVE  Start(v) # Start(w)
<1>1. /\ v \in Writers /\ wr[v].pc \in PlacedPoints
      /\ w \in Writers /\ wr[w].pc \in PlacedPoints
  BY WritingIs
<1>2. /\ wr[v].size \in 1..Capacity /\ Start(v) \in Int
      /\ wr[w].size \in 1..Capacity /\ Start(w) \in Int
  BY <1>1, PlacesFit
<1>3. Start(v) + wr[v].size <= Start(w) \/ Start(w) + wr[w].size <= Start(v)
  BY DEF IInv, WritingApart
<1> QED
  BY <1>2, <1>3, Numbers

LEMMA FollowsIs ==
  \A b, x : Follows(b, x) <=>
    \/ x \in ReadyAt(b)
    \/ b = WriteBlock /\ \E w \in Writing : x = Start(w)
    \/ b = WriteBlock /\ x = Mask(PreWriteIdx)
    \/ b # WriteBlock /\ \A i \in ReadyAt(b) : i < x
<1>1. \A b, x : x \in Starts(b) <=>
        x \in ReadyAt(b) \/ (b = WriteBlock /\ \E w \in Writing : x = Start(w))
  BY DEF Starts
<1> QED
  BY <1>1 DEF Follows

NextIsEnd(b, x) == x = StartIdx \/ \E i \in NextReadyAt(b) : x = i + NextSize(b, i)

NextFollows(b, x) ==
  \/ x \in NextReadyAt(b)
  \/ b = WriteBlock' /\ \E w \in NextWriting : x = NextStart(w)
  \/ b = WriteBlock' /\ x = Mask(PreWriteIdx')
  \/ b # WriteBlock' /\ \A i \in NextReadyAt(b) : i < x

LEMMA NextFollowsIs ==
  /\ \A b, x : Follows(b, x)' <=> NextFollows(b, x)
  /\ \A w \in Writers : Follows(WriteBlock, Start(w) + wr[w].size)'
                          <=> NextFollows(WriteBlock', NextStart(w) + wr'[w].size)
<1>1. \A b, x : (x \in Starts(b))' <=>
        \/ x \in NextReadyAt(b)
        \/ b = WriteBlock' /\ \E w \in NextWriting : x = NextStart(w)
  BY DEF Starts, ReadyAt, NextReadyAt, Writing, NextWriting, Start, NextStart, PlacedPoints
<1>2. \A w \in Writers : (Start(w) + wr[w].size \in Starts(WriteBlock))' <=>
        \/ NextStart(w) + wr'[w].size \in NextReadyAt(WriteBlock')
        \/ \E v \in NextWriting : NextStart(w) + wr'[w].size = NextStart(v)
  BY DEF Starts, ReadyAt, NextReadyAt, Writing, NextWriting, Start, NextStart, PlacedPoints
<1>3. \A b, x : Follows(b, x)' <=>
        \/ (x \in Starts(b))'
        \/ b = WriteBlock' /\ x = Mask(PreWriteIdx')
        \/ b # WriteBlock' /\ \A s : (s \in Starts(b))' => s < x
  BY DEF Follows
<1>4. \A w \in Writers : Follows(WriteBlock, Start(w) + wr[w].size)' <=>
        \/ (Start(w) + wr[w].size \in Starts(WriteBlock))'
        \/ NextStart(w) + wr'[w].size = Mask(PreWriteIdx')
  BY DEF Follows, NextStart, Start
<1>5. \A b, x : Follows(b, x)' <=> NextFollows(b, x)
  BY <1>1, <1>3 DEF NextFollows
<1>6. \A w \in Writers : Follows(WriteBlock, Start(w) + wr[w].size)'
                          <=> NextFollows(WriteBlock', NextStart(w) + wr'[w].size)
  BY <1>2, <1>4 DEF NextFollows
<1> QED
  BY <1>5, <1>6

LEMMA NextReadyApart ==
  ASSUME \A b \in Blocks :
           /\ \A i \in NextReadyAt(b) :
                /\ blk'[b].place[i].functor \in Functors
                /\ i + NextSize(b, i) <= BlockLimit
                /\ b = WriteBlock' => i + NextSize(b, i) <= Mask(PreWriteIdx')
           /\ \A i, j \in NextReadyAt(b) : i < j => i + NextSize(b, i) <= j
  PROVE  ReadyApart'
  BY DEF ReadyApart, ReadyAt, Size, NextReadyAt, NextSize

LEMMA NextWritingApart ==
  ASSUME \A w \in NextWriting, i \in NextReadyAt(WriteBlock') :
           \/ i + NextSize(WriteBlock', i) <= NextStart(w)
           \/ NextStart(w) + wr'[w].size <= i,
         \A v, w \in NextWriting : v # w =>
           \/ NextStart(v) + wr'[v].size <= NextStart(w)
           \/ NextStart(w) + wr'[w].size <= NextStart(v),
         \A w \in NextWriting : blk'[WriteBlock'].ReadIdx <= NextStart(w),
         \A w \in Writers : wr'[w].pc = "commit" =>
           /\ blk'[WriteBlock'].place[NextStart(w)].functor \in Functors
           /\ NextSize(WriteBlock', NextStart(w)) = wr'[w].size
  PROVE  WritingApart'
<1>1. \A w \in NextWriting, i \in NextReadyAt(WriteBlock') :
        (i + Size(WriteBlock, i) <= Start(w) \/ Start(w) + wr[w].size <= i)'
  BY DEF Size, Start, NextSize, NextStart
<1>2. \A v, w \in NextWriting : v # w =>
        (Start(v) + wr[v].size <= Start(w) \/ Start(w) + wr[w].size <= Start(v))'
  BY DEF Start, NextStart
<1>3. \A w \in NextWriting : (blk[WriteBlock].ReadIdx <= Start(w))'
  BY DEF Start, NextStart
<1>4. \A w \in Writers : wr'[w].pc = "commit" =>
        (/\ blk[WriteBlock].place[Start(w)].functor \in Functors
         /\ Size(WriteBlock, Start(w)) = wr[w].size)'
  BY DEF Start, NextStart, Size, NextSize
<1>5. Writing' = NextWriting /\ ReadyAt(WriteBlock)' = NextReadyAt(WriteBlock')
  BY DEF Writing, NextWriting, PlacedPoints, ReadyAt, NextReadyAt
<1> QED
  BY <1>1, <1>2, <1>3, <1>4, <1>5 DEF WritingApart

LEMMA NextTiled ==
  ASSUME \A b \in Blocks : \A x \in StartIdx..BlockLimit : NextIsEnd(b, x) => NextFollows(b, x),
         \A w \in NextWriting : NextFollows(WriteBlock', NextStart(w) + wr'[w].size),
         \A b \in Blocks : NextIsEnd(b, blk'[b].ReadIdx)
  PROVE  Tiled'
<1>1. \A b, x : IsEnd(b, x)' <=> NextIsEnd(b, x)
  BY DEF IsEnd, NextIsEnd, ReadyAt, NextReadyAt, Size, NextSize
<1>2. \A b : IsEnd(b, blk[b].ReadIdx)' <=> NextIsEnd(b, blk'[b].ReadIdx)
  BY DEF IsEnd, NextIsEnd, ReadyAt, NextReadyAt, Size, NextSize
<1>3. Writing' = NextWriting /\ NextWriting \subseteq Writers
  BY DEF Writing, NextWriting, PlacedPoints
<1>4. \A w \in Writing' : Follows(WriteBlock, Start(w) + wr[w].size)'
  BY <1>3, NextFollowsIs
<1>5. \A b \in Blocks : \A x \in StartIdx..BlockLimit : IsEnd(b, x)' => Follows(b, x)'
  BY <1>1, NextFollowsIs
<1>6. \A b \in Blocks : IsEnd(b, blk[b].ReadIdx)'
  BY <1>2
<1> QED
  BY <1>4, <1>5, <1>6 DEF Tiled

------------------------------------------------------------------------------
(* Which places are ready, which are being written, and that they tile.     *)
Layout == ReadyApart /\ WritingApart /\ Tiled

SameLayout ==
  /\ UNCHANGED <<WriteBlock, PreWriteIdx>>
  /\ \A b \in Blocks, i \in Offsets : blk'[b].place[i] = blk[b].place[i]
  /\ SameReadIdx
  /\ \A v \in Writers :
       /\ wr'[v].pc \in PlacedPoints <=> wr[v].pc \in PlacedPoints
       /\ wr[v].pc \in PlacedPoints => SamePush(v) /\ SameIndex(v)
       /\ wr'[v].pc = "commit" <=> wr[v].pc = "commit"

LEMMA LayoutStays ==
  ASSUME IInv, SameLayout
  PROVE  Layout'
<1>1. Types /\ ReadyApart /\ WritingApart /\ Tiled /\ WriteBlock \in Blocks
  BY DEF IInv, Types
<1>2. \A b \in Blocks : /\ NextReadyAt(b) = ReadyAt(b) /\ blk'[b].ReadIdx = blk[b].ReadIdx
                        /\ \A i \in ReadyAt(b) : /\ NextSize(b, i) = Size(b, i)
                                                 /\ blk'[b].place[i] = blk[b].place[i]
  BY DEF SameLayout, SameReadIdx, NextReadyAt, ReadyAt, NextSize, Size
<1>3. NextWriting = Writing /\ Writing \subseteq Writers
  BY WritingIs DEF SameLayout, NextWriting
<1>4. \A v \in Writing : NextStart(v) = Start(v) /\ wr'[v].size = wr[v].size
  BY WritingIs DEF SameLayout, NextStart, Start, SamePush, SameIndex
<1>5. WriteBlock' = WriteBlock /\ PreWriteIdx' = PreWriteIdx
  BY DEF SameLayout
<1>6. ReadyApart'
  BY <1>1, <1>2, <1>5, NextReadyApart DEF ReadyApart
<1>7. WritingApart'
  <2>1. ASSUME NEW v \in Writers, wr'[v].pc = "commit"
        PROVE  /\ blk'[WriteBlock'].place[NextStart(v)].functor \in Functors
               /\ NextSize(WriteBlock', NextStart(v)) = wr'[v].size
    <3>1. wr[v].pc = "commit" /\ wr[v].pc \in PlacedPoints /\ v \in Writing
      BY <2>1, WritingIs DEF SameLayout, PlacedPoints
    <3>2. Start(v) \in Offsets
      BY <3>1, PlacesFit
    <3> QED
      BY <1>1, <1>4, <1>5, <3>1, <3>2 DEF WritingApart, SameLayout, NextSize, Size
  <2> QED
    BY <1>1, <1>2, <1>3, <1>4, <1>5, <2>1, NextWritingApart DEF WritingApart
<1>8. Tiled'
  <2>1. \A b \in Blocks : \A x : /\ NextIsEnd(b, x) <=> IsEnd(b, x)
                                 /\ NextFollows(b, x) <=> Follows(b, x)
    BY <1>2, <1>3, <1>4, <1>5, FollowsIs DEF NextFollows, NextIsEnd, IsEnd
  <2> QED
    BY <1>1, <1>2, <1>3, <1>4, <1>5, <2>1, NextTiled DEF Tiled
<1> QED
  BY <1>6, <1>7, <1>8 DEF Layout

(* A reservation adds a place at the end of the last block. *)
LEMMA LayoutAfterReserve ==
  ASSUME IInv, NEW w \in Writers, Reserve(w), OnlyWriter(w)
  PROVE  Layout'
<1>1. Types /\ ReadyApart /\ WritingApart /\ Tiled /\ WriteBlock \in Blocks /\ PreWriteIdx \in Nat
  BY DEF IInv, Types
<1>2. /\ wr[w].pc = "compareExchange" /\ wr'[w].pc = "construct" /\ blk' = blk
      /\ WriteBlock' = WriteBlock /\ PreWriteIdx = wr[w].idx /\ PreWriteIdx' = wr[w].idx + wr[w].size
      /\ wr'[w].idx = wr[w].idx /\ wr'[w].size = wr[w].size
  BY <1>1, CompareExchangePreWriteIdxIs DEF Reserve, SamePush, SameIndex
<1> DEFINE m == Mask(PreWriteIdx)
           n == wr[w].size
<1>3. n \in 1..Capacity
  BY <1>2, Numbers DEF IInv, WriterLocals
<1>4. m \in StartIdx..BlockLimit
  <2>1. m \in 0..BlockLimit /\ m >= StartIdx
    BY <1>1, MaskIs DEF IInv, WriterView
  <2> QED
    BY <2>1, Numbers
<1>5. Mask(PreWriteIdx') = m + n /\ m + n <= BlockLimit
  <2>1. ~Full(w)
    BY <1>2 DEF IInv, WriterLocals
  <2>2. m + n <= BlockLimit
    BY <1>2, <1>3, <1>4, <2>1, Numbers DEF Full
  <2>3. n \in Nat
    BY <1>3, Numbers
  <2> QED
    BY <1>1, <1>2, <2>2, <2>3, MaskAdds
<1>6. \A b \in Blocks : /\ NextReadyAt(b) = ReadyAt(b) /\ blk'[b].ReadIdx = blk[b].ReadIdx
                        /\ \A i : NextSize(b, i) = Size(b, i)
  BY <1>2 DEF NextReadyAt, ReadyAt, NextSize, Size
<1>7. \A b \in Blocks : \A i \in ReadyAt(b) : i \in Int /\ Size(b, i) \in 1..Capacity
  BY ReadySizes
<1>8. \A v \in Writing : /\ v \in Writers /\ v # w /\ wr[v].size \in 1..Capacity /\ Start(v) \in Int
                         /\ Start(v) + wr[v].size <= m
                         /\ NextStart(v) = Start(v) /\ wr'[v] = wr[v]
  <2>1. \A v \in Writing : v \in Writers /\ wr[v].pc \in PlacedPoints /\ v # w
    BY <1>2, WritingIs DEF PlacedPoints
  <2> QED
    BY <2>1, PlacesFit DEF OnlyWriter, NextStart, Start
<1>9. NextWriting = Writing \union {w} /\ NextStart(w) = m /\ wr'[w].size = n
  <2>1. \A v \in Writers : v # w => wr'[v] = wr[v]
    BY DEF OnlyWriter
  <2>2. NextWriting = Writing \union {w}
    BY <1>2, <2>1, WritingIs DEF NextWriting, PlacedPoints
  <2> QED
    BY <1>2, <2>2 DEF NextStart
<1>10. \A i \in ReadyAt(WriteBlock) : i + Size(WriteBlock, i) <= m
  BY <1>1 DEF ReadyApart
<1>11. \A v \in Writers : wr'[v].pc = "commit" => v # w /\ wr[v].pc = "commit" /\ v \in Writing
  BY <1>2, WritingIs DEF OnlyWriter, PlacedPoints
<1>12. blk[WriteBlock].ReadIdx <= m
  <2>1. IsEnd(WriteBlock, blk[WriteBlock].ReadIdx)
    BY <1>1 DEF Tiled
  <2> QED
    BY <1>4, <1>10, <2>1, Numbers DEF IsEnd
<1> HIDE DEF m, n
<1>13. ReadyApart'
  <2>1. \A i \in ReadyAt(WriteBlock) : i + Size(WriteBlock, i) <= m + n
    BY <1>1, <1>3, <1>4, <1>7, <1>10, Numbers
  <2> QED
    BY <1>1, <1>2, <1>5, <1>6, <2>1, NextReadyApart DEF ReadyApart
<1>14. WritingApart'
  <2>1. \A v \in Writers : wr'[v].pc = "commit" =>
          /\ blk'[WriteBlock'].place[NextStart(v)].functor \in Functors
          /\ NextSize(WriteBlock', NextStart(v)) = wr'[v].size
    BY <1>1, <1>2, <1>6, <1>8, <1>11 DEF WritingApart
  <2>2. \A v \in NextWriting, i \in NextReadyAt(WriteBlock') :
           \/ i + NextSize(WriteBlock', i) <= NextStart(v)
           \/ NextStart(v) + wr'[v].size <= i
    BY <1>1, <1>2, <1>6, <1>8, <1>9, <1>10 DEF WritingApart
  <2>3. \A u, v \in NextWriting : u # v =>
           \/ NextStart(u) + wr'[u].size <= NextStart(v)
           \/ NextStart(v) + wr'[v].size <= NextStart(u)
    BY <1>1, <1>8, <1>9 DEF WritingApart
  <2>4. \A v \in NextWriting : blk'[WriteBlock'].ReadIdx <= NextStart(v)
    BY <1>1, <1>2, <1>6, <1>8, <1>9, <1>12 DEF WritingApart
  <2> QED
    BY <2>1, <2>2, <2>3, <2>4, NextWritingApart
<1>15. Tiled'
  <2>1. \A b, x : NextIsEnd(b, x) /\ b \in Blocks => IsEnd(b, x)
    BY <1>6 DEF IsEnd, NextIsEnd
  <2>2. \A b, x : Follows(b, x) /\ b \in Blocks => NextFollows(b, x)
    BY <1>2, <1>6, <1>8, <1>9, FollowsIs DEF NextFollows, m
  <2>3. NextFollows(WriteBlock', NextStart(w) + wr'[w].size)
    BY <1>5, <1>9 DEF NextFollows
  <2>4. \A v \in NextWriting : NextFollows(WriteBlock', NextStart(v) + wr'[v].size)
    BY <1>1, <1>2, <1>8, <1>9, <2>2, <2>3 DEF Tiled
  <2>5. \A b \in Blocks : NextIsEnd(b, blk'[b].ReadIdx)
    BY <1>1, <1>6 DEF Tiled, IsEnd, NextIsEnd
  <2> QED
    BY <1>1, <2>1, <2>2, <2>4, <2>5, NextTiled DEF Tiled
<1> QED
  BY <1>13, <1>14, <1>15 DEF Layout

------------------------------------------------------------------------------
(* An appended block has one place, at its start. *)
LEMMA LayoutAfterAppend ==
  ASSUME IInv, Types', NEW w \in Writers, AppendBlock(w), OnlyWriter(w)
  PROVE  Layout'
<1> DEFINE new == wr[w].alloc
           old == WriteBlock
           m == Mask(PreWriteIdx)
           n == wr[w].size
<1>1. Types /\ ReadyApart /\ WritingApart /\ Tiled /\ old \in Blocks /\ PreWriteIdx \in Nat
  BY DEF IInv, Types
<1>2. /\ wr[w].pc = "appendBlock" /\ wr'[w].pc = "downgrade"
      /\ WriteBlock' = new /\ PreWriteIdx' = wr'[w].idx + n
      /\ wr'[w].idx = RoundUp(wr[w].idx) + StartIdx /\ wr'[w].size = n
  BY <1>1, AppendBlockIs DEF SamePush
<1>3. n \in 1..Capacity
  BY <1>2, Numbers DEF IInv, WriterLocals
<1>4. new \in Blocks /\ blk[new] = WipedBlock /\ old # new
  BY <1>1, <1>2, AppendBlockUses, UsedBlocks DEF OnlyWriter
<1>5. /\ \A b \in Blocks : blk'[b].ReadIdx = blk[b].ReadIdx /\ NextReadyAt(b) = ReadyAt(b)
      /\ \A b \in Blocks : \A i : /\ blk'[b].place[i] = blk[b].place[i]
                                  /\ NextSize(b, i) = Size(b, i)
  BY <1>1, AppendBlockDoes
     DEF SameReadIdx, SamePlaces, NextReadyAt, ReadyAt, NextSize, Size
<1>6. ReadyAt(new) = {} /\ blk[new].ReadIdx = StartIdx
  BY <1>4 DEF ReadyAt, WipedBlock, EmptyPlace
<1>7. NextStart(w) = StartIdx /\ Mask(PreWriteIdx') = StartIdx + n
  <2>1. wr[w].idx \in Nat /\ Mask(wr[w].idx) >= StartIdx
    BY <1>1, <1>2, Fields DEF IInv, WriterView, LoadedPoints
  <2>2. Mask(RoundUp(wr[w].idx) + StartIdx) = StartIdx /\ RoundUp(wr[w].idx) \in Nat
    BY <2>1, RoundUpAdds
  <2>3. wr'[w].idx \in Nat /\ n \in Nat /\ StartIdx + n <= BlockLimit
    BY <1>2, <1>3, <2>2, Numbers
  <2> QED
    BY <1>2, <2>2, <2>3, MaskAdds DEF NextStart
<1>8. Writing = {} /\ NextWriting = {w}
  <2>1. \A v \in Writers : v # w => wr[v].pc \notin LoadedPoints /\ wr'[v] = wr[v]
    BY <1>2, AloneIsAlone DEF AlonePoints, OnlyWriter
  <2>2. PlacedPoints \subseteq LoadedPoints
    BY DEF PlacedPoints, LoadedPoints
  <2>3. \A v \in Writers : wr[v].pc \notin PlacedPoints
    BY <1>2, <2>1, <2>2 DEF PlacedPoints
  <2>4. \A v \in Writers : wr'[v].pc \in PlacedPoints <=> v = w
    BY <1>2, <2>1, <2>3 DEF PlacedPoints
  <2> QED
    BY <2>3, <2>4, WritingIs DEF NextWriting
<1>9. \A v \in Writers : wr'[v].pc # "commit"
  <2>1. \A v \in Writers : wr'[v].pc = "commit" => v \in NextWriting
    BY DEF NextWriting, PlacedPoints
  <2> QED
    BY <1>2, <1>8, <2>1
<1>10. \A b \in Blocks : \A i \in ReadyAt(b) : i \in Int /\ Size(b, i) \in 1..Capacity
  BY ReadySizes
<1>11. m \in Int /\ \A i \in ReadyAt(old) : i < m
  <2>1. m \in 0..BlockLimit
    BY <1>1, MaskIs
  <2>2. \A i \in ReadyAt(old) : i + Size(old, i) <= m
    BY <1>1 DEF ReadyApart
  <2> QED
    BY <1>1, <1>10, <2>1, <2>2, Numbers
<1> HIDE DEF new, old, m, n
<1>12. ReadyApart'
  BY <1>1, <1>2, <1>4, <1>5, <1>6, NextReadyApart DEF ReadyApart
<1>13. WritingApart'
  BY <1>2, <1>4, <1>5, <1>6, <1>7, <1>8, <1>9, Numbers, NextWritingApart
<1>14. Tiled'
  <2>1. \A b, x : NextIsEnd(b, x) /\ b \in Blocks => IsEnd(b, x)
    BY <1>5 DEF IsEnd, NextIsEnd
  <2>2. \A x : NextIsEnd(new, x) => NextFollows(new, x)
    BY <1>2, <1>4, <1>5, <1>6, <1>7, <1>8 DEF NextIsEnd, NextFollows
  <2>3. \A x : Follows(old, x) => NextFollows(old, x)
    BY <1>2, <1>4, <1>1, <1>5, <1>8, <1>11, FollowsIs DEF NextFollows, m, old
  <2>4. \A b, x : Follows(b, x) /\ b \in Blocks /\ b # new /\ b # old => NextFollows(b, x)
    BY <1>2, <1>5, FollowsIs DEF NextFollows, old
  <2>5. \A v \in NextWriting : NextFollows(WriteBlock', NextStart(v) + wr'[v].size)
    BY <1>2, <1>7, <1>8 DEF NextFollows
  <2>6. \A b \in Blocks : NextIsEnd(b, blk'[b].ReadIdx)
    BY <1>1, <1>5 DEF Tiled, IsEnd, NextIsEnd
  <2>7. \A b \in Blocks : \A x \in StartIdx..BlockLimit : NextIsEnd(b, x) => NextFollows(b, x)
    BY <1>1, <2>1, <2>2, <2>3, <2>4 DEF Tiled
  <2> QED
    BY <2>5, <2>6, <2>7, NextTiled
<1> QED
  BY <1>12, <1>13, <1>14 DEF Layout

(* A functor is put into a place that is not ready. *)
LEMMA LayoutAfterConstruct ==
  ASSUME IInv, NEW w \in Writers, Construct(w), OnlyWriter(w)
  PROVE  Layout'
<1>1. Types /\ ReadyApart /\ WritingApart /\ Tiled /\ WriteBlock \in Blocks
  BY DEF IInv, Types
<1>2. /\ wr[w].pc = "construct" /\ wr'[w].pc = "commit" /\ w \in Writing
      /\ WriteBlock' = WriteBlock /\ PreWriteIdx' = PreWriteIdx
      /\ wr'[w].idx = wr[w].idx /\ wr'[w].size = wr[w].size
  BY <1>1, ConstructIs, WritingIs DEF SamePush, SameIndex, PlacedPoints
<1>3. wr[w].block = WriteBlock /\ Start(w) \in Offsets
  BY ConstructDoes
<1>4. \A b \in Blocks : NextReadyAt(b) = ReadyAt(b) /\ blk'[b].ReadIdx = blk[b].ReadIdx
  <2>1. /\ \A b \in Blocks, i \in Offsets : blk'[b].place[i].ready = blk[b].place[i].ready
        /\ \A b \in Blocks : blk'[b].ReadIdx = blk[b].ReadIdx
    BY ConstructDoes DEF SameReadIdx
  <2> QED
    BY <2>1, Zenon DEF NextReadyAt, ReadyAt
<1>5. /\ \A b \in Blocks, i \in Offsets : b # WriteBlock \/ i # Start(w) =>
           blk'[b].place[i].functor = blk[b].place[i].functor
      /\ blk'[WriteBlock].place[Start(w)].functor \in Functors
      /\ blk'[WriteBlock].place[Start(w)].functor.size = wr[w].size
  BY <1>3, ConstructDoes
<1>6. \A b \in Blocks : \A i \in ReadyAt(b) : /\ NextSize(b, i) = Size(b, i)
                                              /\ blk'[b].place[i].functor = blk[b].place[i].functor
  <2>1. Start(w) \notin ReadyAt(WriteBlock)
    BY <1>2, StartNotReady
  <2>2. \A b : ReadyAt(b) \subseteq Offsets
    BY DEF ReadyAt
  <2> QED
    BY <1>5, <2>1, <2>2 DEF NextSize, Size
<1>7. /\ NextWriting = Writing /\ Writing \subseteq Writers
      /\ \A v \in Writing : NextStart(v) = Start(v) /\ wr'[v].size = wr[v].size
  BY <1>2, WritingIs DEF OnlyWriter, NextWriting, NextStart, Start, PlacedPoints
<1>8. ReadyApart'
  BY <1>1, <1>2, <1>4, <1>6, NextReadyApart DEF ReadyApart
<1>9. WritingApart'
  <2>1. ASSUME NEW v \in Writers, wr'[v].pc = "commit"
        PROVE  /\ blk'[WriteBlock'].place[NextStart(v)].functor \in Functors
               /\ NextSize(WriteBlock', NextStart(v)) = wr'[v].size
    <3>1. CASE v = w
      BY <1>2, <1>5, <1>7, <3>1 DEF NextSize
    <3>2. CASE v # w
      <4>1. wr[v].pc = "commit" /\ v \in Writing /\ wr[v].pc \in PlacedPoints
        BY <2>1, <3>2, WritingIs DEF OnlyWriter, PlacedPoints
      <4>2. Start(v) \in Offsets /\ Start(v) # Start(w)
        BY <1>2, <3>2, <4>1, PlacesFit, StartsApart
      <4> QED
        BY <1>1, <1>2, <1>5, <1>7, <4>1, <4>2 DEF WritingApart, NextSize, Size
    <3> QED
      BY <3>1, <3>2
  <2> QED
    BY <1>1, <1>2, <1>4, <1>6, <1>7, <2>1, NextWritingApart DEF WritingApart
<1>10. Tiled'
  <2>1. \A b \in Blocks : \A x : /\ NextIsEnd(b, x) <=> IsEnd(b, x)
                                 /\ NextFollows(b, x) <=> Follows(b, x)
    BY <1>2, <1>4, <1>6, <1>7, FollowsIs DEF NextFollows, NextIsEnd, IsEnd
  <2> QED
    BY <1>1, <1>2, <1>4, <1>7, <2>1, NextTiled DEF Tiled
<1> QED
  BY <1>8, <1>9, <1>10 DEF Layout

(* A commit makes a place ready that was being written. *)
LEMMA LayoutAfterCommit ==
  ASSUME IInv, NEW w \in Writers, Commit(w), OnlyWriter(w)
  PROVE  Layout'
<1> DEFINE s == Start(w)
           n == wr[w].size
<1>1. Types /\ ReadyApart /\ WritingApart /\ Tiled /\ WriteBlock \in Blocks
  BY DEF IInv, Types
<1>2. /\ wr[w].pc = "commit" /\ wr'[w].pc = "unlockShared" /\ w \in Writing
      /\ WriteBlock' = WriteBlock /\ PreWriteIdx' = PreWriteIdx /\ wr[w].pc \in PlacedPoints
  BY <1>1, CommitIs, WritingIs DEF PlacedPoints
<1>3. wr[w].block = WriteBlock /\ s \in Offsets /\ n \in 1..Capacity
      /\ s + n <= Mask(PreWriteIdx) /\ s + n <= BlockLimit
  BY <1>2, PlacesFit
<1>4. \A b \in Blocks : \A i : i \in NextReadyAt(b) <=> i \in ReadyAt(b) \/ (b = WriteBlock /\ i = s)
  <2>1. \A b \in Blocks, i \in Offsets : blk'[b].place[i].ready =
                IF b = wr[w].block /\ i = Start(w) THEN TRUE ELSE blk[b].place[i].ready
    BY CommitDoes, Zenon
  <2> QED
    BY <1>3, <2>1, Zenon DEF NextReadyAt, ReadyAt, s
<1>5. /\ \A b \in Blocks : blk'[b].ReadIdx = blk[b].ReadIdx
      /\ \A b \in Blocks, i \in Offsets :
           /\ blk'[b].place[i].functor = blk[b].place[i].functor /\ NextSize(b, i) = Size(b, i)
  BY CommitDoes DEF SameReadIdx, NextSize, Size
<1>6. /\ \A v : v \in NextWriting <=> v \in Writing /\ v # w
      /\ \A v \in Writers : v # w => NextStart(v) = Start(v) /\ wr'[v].size = wr[v].size
      /\ Writing \subseteq Writers
  BY <1>2, WritingIs DEF OnlyWriter, NextWriting, NextStart, Start, PlacedPoints
<1>7. blk[WriteBlock].place[s].functor \in Functors /\ Size(WriteBlock, s) = n
  BY <1>1, <1>2 DEF WritingApart
<1>8. \A b : ReadyAt(b) \subseteq Offsets
  BY DEF ReadyAt
<1>9. /\ s \in Int /\ n \in Int
      /\ \A b \in Blocks : \A i \in ReadyAt(b) : i \in Int /\ Size(b, i) \in 1..Capacity
  BY <1>3, ReadySizes, Numbers
<1>10. \A i \in ReadyAt(WriteBlock) : i + Size(WriteBlock, i) <= s \/ s + n <= i
  BY <1>1, <1>2 DEF WritingApart
<1>11. \A v \in Writing : v # w =>
         Start(v) + wr[v].size <= s \/ s + n <= Start(v)
  BY <1>1, <1>2 DEF WritingApart
<1>12. /\ \A v \in Writing : Follows(WriteBlock, Start(v) + wr[v].size)
       /\ Follows(WriteBlock, s + n)
  BY <1>1, <1>2 DEF Tiled
<1> HIDE DEF s, n
<1>13. ReadyApart'
  <2>1. \A i, j \in NextReadyAt(WriteBlock) : i < j => i + NextSize(WriteBlock, i) <= j
    <3> SUFFICES ASSUME NEW i \in NextReadyAt(WriteBlock), NEW j \in NextReadyAt(WriteBlock), i < j
                 PROVE  i + NextSize(WriteBlock, i) <= j
      OBVIOUS
    <3>1. NextSize(WriteBlock, i) = Size(WriteBlock, i)
      BY <1>1, <1>3, <1>4, <1>5, <1>8
    <3>2. CASE i \in ReadyAt(WriteBlock) /\ j \in ReadyAt(WriteBlock)
      BY <1>1, <3>1, <3>2 DEF ReadyApart
    <3>3. CASE i = s /\ j \in ReadyAt(WriteBlock)
      BY <1>1, <1>7, <1>9, <1>10, <3>1, <3>3, Numbers
    <3>4. CASE i \in ReadyAt(WriteBlock) /\ j = s
      BY <1>1, <1>3, <1>9, <1>10, <3>1, <3>4, Numbers
    <3>5. CASE i = s /\ j = s
      BY <1>9, <3>5
    <3> QED
      BY <1>1, <1>4, <3>2, <3>3, <3>4, <3>5
  <2>2. \A b \in Blocks : b # WriteBlock =>
          \A i, j \in NextReadyAt(b) : i < j => i + NextSize(b, i) <= j
    BY <1>1, <1>4, <1>5, <1>8 DEF ReadyApart
  <2>3. \A b \in Blocks : \A i \in NextReadyAt(b) :
          /\ blk'[b].place[i].functor \in Functors
          /\ i + NextSize(b, i) <= BlockLimit
          /\ b = WriteBlock' => i + NextSize(b, i) <= Mask(PreWriteIdx')
    <3> SUFFICES ASSUME NEW b \in Blocks, NEW i \in NextReadyAt(b)
                 PROVE  /\ blk'[b].place[i].functor \in Functors
                        /\ i + NextSize(b, i) <= BlockLimit
                        /\ b = WriteBlock' => i + NextSize(b, i) <= Mask(PreWriteIdx')
      OBVIOUS
    <3>1. CASE i \in ReadyAt(b)
      BY <1>1, <1>2, <1>5, <1>8, <3>1 DEF ReadyApart
    <3>2. CASE b = WriteBlock /\ i = s
      BY <1>1, <1>2, <1>3, <1>5, <1>7, <3>2
    <3> QED
      BY <1>4, <3>1, <3>2
  <2> QED
    BY <2>1, <2>2, <2>3, NextReadyApart
<1>14. WritingApart'
  <2>1. ASSUME NEW v \in Writers, wr'[v].pc = "commit"
        PROVE  /\ blk'[WriteBlock'].place[NextStart(v)].functor \in Functors
               /\ NextSize(WriteBlock', NextStart(v)) = wr'[v].size
    <3>1. v # w /\ wr[v].pc = "commit" /\ v \in Writing /\ wr[v].pc \in PlacedPoints
      BY <1>2, <2>1, WritingIs DEF OnlyWriter, PlacedPoints
    <3>2. Start(v) \in Offsets
      BY <3>1, PlacesFit
    <3> QED
      BY <1>1, <1>2, <1>5, <1>6, <3>1, <3>2 DEF WritingApart
  <2>2. \A v \in NextWriting, i \in NextReadyAt(WriteBlock') :
           \/ i + NextSize(WriteBlock', i) <= NextStart(v)
           \/ NextStart(v) + wr'[v].size <= i
    <3> SUFFICES ASSUME NEW v \in NextWriting, NEW i \in NextReadyAt(WriteBlock)
                 PROVE  \/ i + Size(WriteBlock, i) <= Start(v)
                        \/ Start(v) + wr[v].size <= i
      BY <1>1, <1>2, <1>3, <1>4, <1>5, <1>6, <1>8
    <3>1. CASE i \in ReadyAt(WriteBlock)
      BY <1>1, <1>6, <3>1 DEF WritingApart
    <3>2. CASE i = s
      BY <1>6, <1>7, <1>11, <3>2
    <3> QED
      BY <1>1, <1>4, <3>1, <3>2
  <2>3. \A u, v \in NextWriting : u # v =>
           \/ NextStart(u) + wr'[u].size <= NextStart(v)
           \/ NextStart(v) + wr'[v].size <= NextStart(u)
    BY <1>1, <1>6 DEF WritingApart
  <2>4. \A v \in NextWriting : blk'[WriteBlock'].ReadIdx <= NextStart(v)
    BY <1>1, <1>2, <1>5, <1>6 DEF WritingApart
  <2> QED
    BY <2>1, <2>2, <2>3, <2>4, NextWritingApart
<1>15. Tiled'
  <2>1. \A b \in Blocks : \A x : Follows(b, x) => NextFollows(b, x)
    BY <1>2, <1>4, <1>6, FollowsIs DEF NextFollows, s
  <2>2. \A b \in Blocks : \A x : NextIsEnd(b, x) => IsEnd(b, x) \/ (b = WriteBlock /\ x = s + n)
    BY <1>1, <1>3, <1>4, <1>5, <1>7, <1>8 DEF NextIsEnd, IsEnd
  <2>3. \A b \in Blocks : \A x : IsEnd(b, x) => NextIsEnd(b, x)
    BY <1>4, <1>5, <1>8 DEF NextIsEnd, IsEnd
  <2>4. \A b \in Blocks : \A x \in StartIdx..BlockLimit : NextIsEnd(b, x) => NextFollows(b, x)
    BY <1>1, <1>12, <2>1, <2>2 DEF Tiled
  <2>5. \A v \in NextWriting : NextFollows(WriteBlock', NextStart(v) + wr'[v].size)
    BY <1>1, <1>2, <1>6, <1>12, <2>1
  <2>6. \A b \in Blocks : NextIsEnd(b, blk'[b].ReadIdx)
    BY <1>1, <1>5, <2>3 DEF Tiled
  <2> QED
    BY <2>4, <2>5, <2>6, NextTiled
<1> QED
  BY <1>13, <1>14, <1>15 DEF Layout

LEMMA LayoutForWriters ==
  ASSUME IInv, Types', NEW w \in Writers, Push(w) \/ WriterStep(w)
  PROVE  Layout'
<1>1. Types /\ OnlyWriter(w)
  BY WriterFrames DEF IInv
<1>2. CASE QuietWriter(w)
  <2>1. SameLayout
    BY <1>2 DEF QuietWriter, OnlyWriter, SameLayout, SameReadIdx, SamePush, SameIndex
  <2> QED
    BY <2>1, LayoutStays
<1> QED
  BY <1>1, <1>2, WriterKinds, LayoutAfterReserve, LayoutAfterAppend, LayoutAfterConstruct,
     LayoutAfterCommit

------------------------------------------------------------------------------
(* Taking moves ReadIdx from a ready place to its end. *)
LEMMA TakeIs ==
  ASSUME IInv, NEW r \in Readers, Take(r)
  PROVE  LET b == rd[r].block
             i == rd[r].idx
         IN /\ b \in Blocks /\ i \in ReadyAt(b) /\ i = blk[b].ReadIdx
            /\ rd[r].pc = "compareExchange" /\ rd'[r].pc = "call"
            /\ rd'[r].block = b /\ rd'[r].idx = i /\ rd'[r].old = rd[r].old
            /\ blk'[b].ReadIdx = i + Size(b, i)
            /\ \A c \in Blocks : c # b => blk'[c].ReadIdx = blk[c].ReadIdx
            /\ SamePlaces
<1>1. Types /\ ReadersFollow
  BY DEF IInv
<1>2. /\ rd[r].pc = "compareExchange" /\ rd'[r].pc = "call" /\ rd[r].idx = blk[rd[r].block].ReadIdx
      /\ rd'[r].idx = rd[r].idx /\ rd'[r].block = rd[r].block /\ rd'[r].old = rd[r].old
  BY <1>1, CompareExchangeReadIdxIs DEF Take, SameBlock, SameOld
<1>3. rd[r].block \in Blocks
  BY <1>1, <1>2, Fields DEF IInv, ReaderLocals
<1>4. rd[r].idx \in ReadyAt(rd[r].block)
  BY <1>1, <1>2, <1>3, NullAssumption DEF ReadersFollow, ReadPoints
<1>5. /\ SamePlaces
      /\ \A b \in Blocks : blk'[b].ReadIdx =
           IF b = rd[r].block THEN rd[r].idx + Size(b, rd[r].idx) ELSE blk[b].ReadIdx
  BY <1>1, TakeDoes
<1> QED
  BY <1>2, <1>3, <1>4, <1>5

LEMMA LayoutAfterTake ==
  ASSUME IInv, NEW r \in Readers, Take(r), OnlyReader(r)
  PROVE  Layout'
<1> DEFINE b == rd[r].block
           i == rd[r].idx
<1>1. Types /\ ReadyApart /\ WritingApart /\ Tiled /\ WriteBlock \in Blocks
  BY DEF IInv, Types
<1>2. /\ b \in Blocks /\ i \in ReadyAt(b) /\ i = blk[b].ReadIdx
      /\ blk'[b].ReadIdx = i + Size(b, i)
      /\ \A c \in Blocks : c # b => blk'[c].ReadIdx = blk[c].ReadIdx
      /\ SamePlaces
  BY TakeIs
<1>3. i \in Int /\ Size(b, i) \in 1..Capacity
  BY <1>2, ReadySizes
<1>4. WriteBlock' = WriteBlock /\ PreWriteIdx' = PreWriteIdx /\ wr' = wr
  BY DEF OnlyReader
<1> HIDE DEF b, i
<1>5. \A c \in Blocks : /\ NextReadyAt(c) = ReadyAt(c)
                        /\ \A j : NextSize(c, j) = Size(c, j)
                        /\ \A j : blk'[c].place[j] = blk[c].place[j]
  BY <1>2 DEF SamePlaces, NextReadyAt, ReadyAt, NextSize, Size
<1>6. /\ NextWriting = Writing
      /\ \A v \in Writers : NextStart(v) = Start(v)
  BY <1>4, WritingIs DEF NextWriting, NextStart, Start
<1>7. ReadyApart'
  BY <1>1, <1>4, <1>5, NextReadyApart DEF ReadyApart
<1>8. WritingApart'
  <2>1. ASSUME NEW w \in Writing PROVE blk'[WriteBlock].ReadIdx <= Start(w)
    <3>1. w \in Writers /\ wr[w].size \in 1..Capacity /\ Start(w) \in Int
      BY WritingIs, PlacesFit
    <3>2. blk[WriteBlock].ReadIdx <= Start(w)
      BY <1>1 DEF WritingApart
    <3>3. CASE b = WriteBlock
      <4>1. i + Size(b, i) <= Start(w) \/ Start(w) + wr[w].size <= i
        BY <1>1, <1>2, <3>3 DEF WritingApart
      <4> QED
        BY <1>2, <1>3, <3>1, <3>2, <3>3, <4>1, Numbers
    <3> QED
      BY <1>1, <1>2, <3>2, <3>3
  <2> QED
    BY <1>1, <1>4, <1>5, <1>6, <2>1, NextWritingApart DEF WritingApart, Writing
<1>9. Tiled'
  <2>1. \A c \in Blocks : \A x : /\ NextIsEnd(c, x) <=> IsEnd(c, x)
                                 /\ NextFollows(c, x) <=> Follows(c, x)
    BY <1>4, <1>5, <1>6, FollowsIs DEF NextFollows, NextIsEnd, IsEnd, Writing
  <2>2. \A c \in Blocks : NextIsEnd(c, blk'[c].ReadIdx)
    <3>1. IsEnd(b, blk'[b].ReadIdx)
      BY <1>2 DEF IsEnd
    <3> QED
      BY <1>1, <1>2, <2>1, <3>1 DEF Tiled
  <2> QED
    BY <1>1, <1>4, <1>6, <2>1, <2>2, NextTiled DEF Tiled, Writing
<1> QED
  BY <1>7, <1>8, <1>9 DEF Layout

(* The block that is recycled is nobody's. *)
LEMMA RecycleBIsApart ==
  ASSUME IInv, NEW r \in Readers, RecycleB(r), ~released
  PROVE  /\ rd[r].old \in Blocks /\ rd[r].old # WriteBlock
         /\ \A q \in Readers : ~InBlock(q, rd[r].old)
         /\ blk'[rd[r].old] = WipedBlock
         /\ \A c \in Blocks : c # rd[r].old => blk'[c] = blk[c]
<1>1. Types
  BY DEF IInv
<1>2. rd[r].pc = "recycleB" /\ rd[r].old # Null /\ rd[r].old \in Blocks
  BY <1>1, RecycleBIs, Fields DEF IInv, ReaderLocals
<1>3. rd[r].old \notin Used /\ WriteBlock \in Used /\ \A q \in Readers : ~InBlock(q, rd[r].old)
  BY <1>2, UsedBlocks
<1> QED
  BY <1>1, <1>2, <1>3, RecycleBDoes

LEMMA LayoutAfterRecycle ==
  ASSUME IInv, NEW r \in Readers, RecycleB(r), OnlyReader(r)
  PROVE  Layout'
<1> DEFINE b == rd[r].old
<1>1. Types /\ ReadyApart /\ WritingApart /\ Tiled /\ WriteBlock \in Blocks
  BY DEF IInv, Types
<1>2. /\ b \in Blocks /\ b # WriteBlock /\ blk'[b] = WipedBlock
      /\ \A c \in Blocks : c # b => blk'[c] = blk[c]
  BY RecycleBIsApart DEF OnlyReader
<1>3. WriteBlock' = WriteBlock /\ PreWriteIdx' = PreWriteIdx /\ wr' = wr
  BY DEF OnlyReader
<1> HIDE DEF b
<1>4. NextReadyAt(b) = {} /\ blk'[b].ReadIdx = StartIdx
  BY <1>2 DEF NextReadyAt, WipedBlock, EmptyPlace
<1>5. \A c \in Blocks : c # b =>
        /\ NextReadyAt(c) = ReadyAt(c) /\ blk'[c].ReadIdx = blk[c].ReadIdx
        /\ \A j : NextSize(c, j) = Size(c, j) /\ blk'[c].place[j] = blk[c].place[j]
  BY <1>2 DEF NextReadyAt, ReadyAt, NextSize, Size
<1>6. /\ NextWriting = Writing /\ Writing \subseteq Writers
      /\ \A v \in Writers : NextStart(v) = Start(v)
  BY <1>3, WritingIs DEF NextWriting, NextStart, Start
<1>7. ReadyApart'
  BY <1>1, <1>3, <1>4, <1>5, NextReadyApart DEF ReadyApart
<1>8. WritingApart'
  BY <1>1, <1>2, <1>3, <1>5, <1>6, NextWritingApart DEF WritingApart
<1>9. Tiled'
  <2>1. \A c \in Blocks : \A x : c # b => /\ NextIsEnd(c, x) <=> IsEnd(c, x)
                                          /\ NextFollows(c, x) <=> Follows(c, x)
    BY <1>3, <1>5, <1>6, FollowsIs DEF NextFollows, NextIsEnd, IsEnd
  <2>2. /\ \A x : NextFollows(b, x)
        /\ NextIsEnd(b, blk'[b].ReadIdx)
    BY <1>2, <1>3, <1>4 DEF NextFollows, NextIsEnd
  <2>3. \A c \in Blocks : \A x \in StartIdx..BlockLimit : NextIsEnd(c, x) => NextFollows(c, x)
    BY <1>1, <2>1, <2>2 DEF Tiled
  <2>4. \A w \in NextWriting : NextFollows(WriteBlock', NextStart(w) + wr'[w].size)
    BY <1>1, <1>2, <1>3, <1>6, <2>1 DEF Tiled
  <2>5. \A c \in Blocks : NextIsEnd(c, blk'[c].ReadIdx)
    BY <1>1, <1>5, <2>1, <2>2 DEF Tiled
  <2> QED
    BY <2>3, <2>4, <2>5, NextTiled
<1> QED
  BY <1>7, <1>8, <1>9 DEF Layout

LEMMA LayoutForReaders ==
  ASSUME IInv, NEW r \in Readers, Pop(r) \/ ReaderStep(r)
  PROVE  Layout'
<1>1. Types /\ OnlyReader(r)
  BY ReaderFrames DEF IInv
<1>2. ASSUME SamePlaces, SameReadIdx PROVE Layout'
  <2>1. SameLayout
    BY <1>1, <1>2 DEF OnlyReader, SameLayout, SamePlaces, SamePush, SameIndex
  <2> QED
    BY <2>1, LayoutStays
<1>3. QuietReader(r) => SamePlaces /\ SameReadIdx
  BY DEF QuietReader, SamePlaces, SameReadIdx
<1>4. PinBlock(r) \/ Advance(r) \/ CallAndDestroy(r) \/ Leave(r) => SamePlaces /\ SameReadIdx
  BY <1>1, PinBlockDoes, AdvanceDoes, CallAndDestroyDoes, LeaveDoes
<1> QED
  BY <1>1, <1>2, <1>3, <1>4, ReaderKinds, LayoutAfterTake, LayoutAfterRecycle

------------------------------------------------------------------------------
(* Readers' indices follow ReadIdx. *)
Following(q) == rd[q].pc \in ReadPoints /\ rd[q].block # Null
NextFollowing(q) == rd'[q].pc \in ReadPoints /\ rd'[q].block # Null

LEMMA NextReadersFollow ==
  ASSUME \A q \in Readers : NextFollowing(q) =>
           LET b == rd'[q].block
           IN /\ rd'[q].idx \in StartIdx..blk'[b].ReadIdx
              /\ rd'[q].idx < blk'[b].ReadIdx => rd'[q].idx \in NextReadyAt(b)
              /\ rd'[q].pc \in { "compareExchange", "call" } => rd'[q].idx \in NextReadyAt(b)
              /\ rd'[q].pc = "call" => rd'[q].idx < blk'[b].ReadIdx,
         \A p, q \in Readers :
           rd'[p].pc = "call" /\ rd'[q].pc = "call" /\ p # q /\ rd'[p].block = rd'[q].block =>
             rd'[p].idx # rd'[q].idx
  PROVE  ReadersFollow'
<1>1. \A q \in Readers : (rd[q].idx \in ReadyAt(rd[q].block))'
        <=> rd'[q].idx \in NextReadyAt(rd'[q].block)
  BY DEF ReadyAt, NextReadyAt
<1> QED
  BY <1>1 DEF ReadersFollow, NextFollowing

LEMMA FollowingIsInBlock ==
  ASSUME IInv, NEW q \in Readers, Following(q)
  PROVE  rd[q].block \in Blocks /\ InBlock(q, rd[q].block) /\ rd[q].idx \in Int
<1>1. Types
  BY DEF IInv
<1> QED
  BY <1>1, Fields DEF Following, InBlock, ReadPoints, PinnedAt

(* Writers make places ready, and move no ReadIdx. *)
LEMMA WritersMakeReady ==
  ASSUME IInv, NEW w \in Writers, Push(w) \/ WriterStep(w)
  PROVE  \A b \in Blocks : ReadyAt(b) \subseteq NextReadyAt(b) /\ blk'[b].ReadIdx = blk[b].ReadIdx
<1>1. Types
  BY DEF IInv
<1>2. CASE QuietWriter(w) \/ Reserve(w)
  BY <1>1, <1>2, CompareExchangePreWriteIdxIs DEF QuietWriter, Reserve, ReadyAt, NextReadyAt
<1>3. CASE AppendBlock(w)
  BY <1>1, <1>3, AppendBlockDoes DEF SamePlaces, SameReadIdx, ReadyAt, NextReadyAt
<1>4. CASE Construct(w)
  <2>1. /\ \A b \in Blocks : blk'[b].ReadIdx = blk[b].ReadIdx
        /\ \A b \in Blocks, i \in Offsets : blk'[b].place[i].ready = blk[b].place[i].ready
    BY <1>4, ConstructDoes DEF SameReadIdx
  <2> QED
    BY <2>1, Zenon DEF ReadyAt, NextReadyAt
<1>5. CASE Commit(w)
  <2>1. \A b \in Blocks, i \in Offsets : blk'[b].place[i].ready =
                IF b = wr[w].block /\ i = Start(w) THEN TRUE ELSE blk[b].place[i].ready
    BY <1>5, CommitDoes, Zenon
  <2>2. \A b \in Blocks : ReadyAt(b) \subseteq NextReadyAt(b)
    BY <2>1, Zenon DEF ReadyAt, NextReadyAt
  <2> QED
    BY <1>5, <2>2, CommitDoes DEF SameReadIdx
<1> QED
  BY <1>2, <1>3, <1>4, <1>5, WriterKinds

LEMMA ReadersFollowForWriters ==
  ASSUME IInv, NEW w \in Writers, Push(w) \/ WriterStep(w)
  PROVE  ReadersFollow'
<1>1. Types /\ OnlyWriter(w) /\ ReadersFollow
  BY WriterFrames DEF IInv
<1>2. rd' = rd
  BY <1>1 DEF OnlyWriter
<1>3. \A q \in Readers : Following(q) => rd[q].block \in Blocks
  BY FollowingIsInBlock
<1>4. \A b \in Blocks : ReadyAt(b) \subseteq NextReadyAt(b) /\ blk'[b].ReadIdx = blk[b].ReadIdx
  BY WritersMakeReady
<1> QED
  BY <1>1, <1>2, <1>3, <1>4, NextReadersFollow DEF ReadersFollow, NextFollowing, Following

(* What a reader's step does to the blocks other readers follow.            *)
LEMMA ReadersMoveOn ==
  ASSUME IInv, NEW r \in Readers, Pop(r) \/ ReaderStep(r)
  PROVE  \A q \in Readers : Following(q) =>
           LET b == rd[q].block
           IN /\ NextReadyAt(b) = ReadyAt(b)
              /\ \/ blk'[b].ReadIdx = blk[b].ReadIdx
                 \/ /\ blk[b].ReadIdx \in ReadyAt(b) /\ blk'[b].ReadIdx \in Int
                    /\ blk[b].ReadIdx < blk'[b].ReadIdx
<1>1. Types /\ OnlyReader(r) /\ ~released
  BY ReaderFrames DEF IInv, OnlyReader
<1>2. \A q \in Readers : Following(q) => rd[q].block \in Blocks /\ InBlock(q, rd[q].block)
  BY FollowingIsInBlock
<1>3. ASSUME SamePlaces, SameReadIdx
      PROVE  \A b \in Blocks : NextReadyAt(b) = ReadyAt(b) /\ blk'[b].ReadIdx = blk[b].ReadIdx
  BY <1>3 DEF SamePlaces, SameReadIdx, NextReadyAt, ReadyAt
<1>4. QuietReader(r) => SamePlaces /\ SameReadIdx
  BY DEF QuietReader, SamePlaces, SameReadIdx
<1>5. PinBlock(r) \/ Advance(r) \/ CallAndDestroy(r) \/ Leave(r) => SamePlaces /\ SameReadIdx
  BY <1>1, PinBlockDoes, AdvanceDoes, CallAndDestroyDoes, LeaveDoes
<1>6. CASE RecycleB(r)
  <2>1. \A q \in Readers : Following(q) => blk'[rd[q].block] = blk[rd[q].block]
    BY <1>1, <1>2, <1>6, RecycleBIsApart
  <2> QED
    BY <2>1 DEF NextReadyAt, ReadyAt
<1>7. CASE Take(r)
  <2> DEFINE b == rd[r].block
             i == rd[r].idx
  <2>1. /\ b \in Blocks /\ i \in ReadyAt(b) /\ i = blk[b].ReadIdx
        /\ blk'[b].ReadIdx = i + Size(b, i)
        /\ \A c \in Blocks : c # b => blk'[c].ReadIdx = blk[c].ReadIdx
        /\ \A c \in Blocks : NextReadyAt(c) = ReadyAt(c)
    BY <1>7, TakeIs DEF SamePlaces, NextReadyAt, ReadyAt
  <2>2. i \in Int /\ Size(b, i) \in 1..Capacity
    BY <2>1, ReadySizes
  <2>3. blk'[b].ReadIdx \in Int /\ blk[b].ReadIdx < blk'[b].ReadIdx
    BY <2>1, <2>2, Numbers
  <2> HIDE DEF b, i
  <2> QED
    BY <1>2, <2>1, <2>3
<1> QED
  BY <1>2, <1>3, <1>4, <1>5, <1>6, <1>7, ReaderKinds

(* How r itself comes to be at an index. *)
LEMMA ReaderIndexIs ==
  ASSUME IInv, NEW r \in Readers, Pop(r) \/ ReaderStep(r), NextFollowing(r), ~Take(r)
  PROVE  /\ rd'[r].pc # "call"
         /\ rd'[r].block = rd[r].block
         /\ \/ /\ Following(r) /\ rd'[r].idx = rd[r].idx
               /\ rd'[r].pc = "compareExchange" => Ready(rd[r].block, rd[r].idx)
            \/ /\ rd'[r].idx = blk[rd[r].block].ReadIdx /\ blk' = blk
               /\ rd'[r].pc # "compareExchange"
<1>1. Types
  BY DEF IInv
<1>2. ~Pop(r) /\ ~EnterBlock(r) /\ ~PinBlock(r) /\ ~Advance(r)
  BY <1>1, PopIs, EnterBlockIs, PinBlockIs, AdvanceIs DEF NextFollowing, ReadPoints
<1>3. ~CallAndDestroy(r) /\ ~Leave(r)
  BY <1>1, CallAndDestroyIs, LeaveIs DEF NextFollowing, ReadPoints
<1>4. CASE LoadReadIdx(r)
  BY <1>1, <1>4, LoadReadIdxIs DEF SameBlock
<1>5. CASE CheckReady(r)
  BY <1>1, <1>5, CheckReadyIs DEF SameBlock, SameIdx, NextFollowing, Following, ReadPoints
<1>6. CASE CheckNext(r)
  BY <1>1, <1>6, CheckNextIs DEF SameBlock, SameIdx, NextFollowing, Following, ReadPoints
<1>7. CASE RecheckReady(r)
  BY <1>1, <1>7, RecheckReadyIs DEF SameBlock, SameIdx, NextFollowing, Following, ReadPoints
<1>8. CASE ReaderLock(r)
  BY <1>1, <1>8, ReaderLockIs DEF SameBlock, SameIdx, NextFollowing, Following, ReadPoints
<1>9. CASE ReaderLockDrain(r)
  BY <1>1, <1>9, ReaderLockDrainIs DEF SameBlock, SameIdx, NextFollowing, Following, ReadPoints
<1>10. CASE RecycleB(r)
  BY <1>1, <1>10, RecycleBIs
     DEF IsRecycled, SameBlock, SameIdx, NextFollowing, Following, ReadPoints
<1>11. CASE RecycleA(r)
  BY <1>1, <1>11, RecycleAIs
     DEF IsRecycled, SameBlock, SameIdx, NextFollowing, Following, ReadPoints
<1>12. CASE CompareExchangeReadIdx(r)
  BY <1>1, <1>12, CompareExchangeReadIdxIs DEF Take, SameBlock
<1> QED
  BY <1>2, <1>3, <1>4, <1>5, <1>6, <1>7, <1>8, <1>9, <1>10, <1>11, <1>12 DEF ReaderStep

LEMMA ReadersFollowForReaders ==
  ASSUME IInv, NEW r \in Readers, Pop(r) \/ ReaderStep(r)
  PROVE  ReadersFollow'
<1>1. Types /\ OnlyReader(r) /\ ReadersFollow
  BY ReaderFrames DEF IInv
<1>2. \A q \in Readers : q # r => rd'[q] = rd[q]
  BY <1>1 DEF OnlyReader
<1>3. \A q \in Readers : Following(q) => rd[q].block \in Blocks /\ rd[q].idx \in Int
  BY FollowingIsInBlock
<1>4. \A b \in Blocks : blk[b].ReadIdx \in StartIdx..BlockLimit
  BY <1>1, Fields
<1>5. \A q \in Readers : Following(q) =>
        /\ rd[q].idx \in StartIdx..blk[rd[q].block].ReadIdx
        /\ rd[q].idx < blk[rd[q].block].ReadIdx => rd[q].idx \in ReadyAt(rd[q].block)
        /\ rd[q].pc \in { "compareExchange", "call" } => rd[q].idx \in ReadyAt(rd[q].block)
        /\ rd[q].pc = "call" => rd[q].idx < blk[rd[q].block].ReadIdx
  BY <1>1 DEF ReadersFollow, Following
(* Whoever was following still is, if it does not move. *)
<1>6. ASSUME NEW q \in Readers, Following(q)
      PROVE  /\ rd[q].idx \in StartIdx..blk'[rd[q].block].ReadIdx
             /\ rd[q].idx < blk'[rd[q].block].ReadIdx => rd[q].idx \in NextReadyAt(rd[q].block)
             /\ rd[q].pc \in { "compareExchange", "call" } => rd[q].idx \in NextReadyAt(rd[q].block)
             /\ rd[q].pc = "call" => rd[q].idx < blk'[rd[q].block].ReadIdx
             /\ NextReadyAt(rd[q].block) = ReadyAt(rd[q].block)
  <2> DEFINE b == rd[q].block
             x == rd[q].idx
  <2>1. /\ NextReadyAt(b) = ReadyAt(b)
        /\ \/ blk'[b].ReadIdx = blk[b].ReadIdx
           \/ /\ blk[b].ReadIdx \in ReadyAt(b) /\ blk'[b].ReadIdx \in Int
              /\ blk[b].ReadIdx < blk'[b].ReadIdx
    BY <1>6, ReadersMoveOn
  <2>2. /\ x \in Int /\ b \in Blocks /\ x \in StartIdx..blk[b].ReadIdx
        /\ x < blk[b].ReadIdx => x \in ReadyAt(b)
        /\ rd[q].pc \in { "compareExchange", "call" } => x \in ReadyAt(b)
        /\ rd[q].pc = "call" => x < blk[b].ReadIdx
    BY <1>3, <1>5, <1>6
  <2>3. blk[b].ReadIdx \in Int /\ StartIdx \in Int
    BY <1>4, <2>2, Numbers
  <2> HIDE DEF b, x
  <2>4. /\ x \in StartIdx..blk'[b].ReadIdx
        /\ x < blk'[b].ReadIdx => x \in NextReadyAt(b)
        /\ rd[q].pc \in { "compareExchange", "call" } => x \in NextReadyAt(b)
        /\ rd[q].pc = "call" => x < blk'[b].ReadIdx
    BY <2>1, <2>2, <2>3
  <2> QED
    BY <2>1, <2>4 DEF b, x
<1>7. \A q \in Readers : q # r /\ NextFollowing(q) => Following(q)
  BY <1>2 DEF NextFollowing, Following
<1>8. CASE Take(r)
  <2> DEFINE b == rd[r].block
             i == rd[r].idx
  <2>1. /\ b \in Blocks /\ i \in ReadyAt(b) /\ i = blk[b].ReadIdx
        /\ rd[r].pc = "compareExchange" /\ rd'[r].pc = "call"
        /\ rd'[r].block = b /\ rd'[r].idx = i
        /\ blk'[b].ReadIdx = i + Size(b, i)
    BY <1>8, TakeIs
  <2>2. i \in Int /\ i >= StartIdx /\ Size(b, i) \in 1..Capacity
    BY <1>4, <2>1, ReadySizes, Numbers
  <2>3. Following(r)
    BY <2>1, NullAssumption DEF Following, ReadPoints
  <2>4. i \in NextReadyAt(b)
    BY <1>6, <2>1, <2>3
  <2>5. i \in StartIdx..blk'[b].ReadIdx /\ i < blk'[b].ReadIdx
    BY <2>1, <2>2, Numbers
  <2>6. ASSUME NEW q \in Readers, q # r, rd'[q].pc = "call", rd'[q].block = b
        PROVE  rd'[q].idx # i
    <3>1. Following(q) /\ rd[q].block = b /\ rd[q].pc = "call"
      BY <1>2, <2>1, <2>6, NullAssumption DEF Following, ReadPoints
    <3>2. rd[q].idx < blk[b].ReadIdx /\ rd[q].idx \in Int
      BY <1>3, <1>5, <3>1
    <3> QED
      BY <1>2, <2>1, <2>2, <2>6, <3>2
  <2> HIDE DEF b, i
  <2>7. \A q \in Readers : NextFollowing(q) =>
          /\ rd'[q].idx \in StartIdx..blk'[rd'[q].block].ReadIdx
          /\ rd'[q].idx < blk'[rd'[q].block].ReadIdx => rd'[q].idx \in NextReadyAt(rd'[q].block)
          /\ rd'[q].pc \in { "compareExchange", "call" } => rd'[q].idx \in NextReadyAt(rd'[q].block)
          /\ rd'[q].pc = "call" => rd'[q].idx < blk'[rd'[q].block].ReadIdx
    BY <1>2, <1>6, <1>7, <2>1, <2>4, <2>5
  <2>8. \A p, q \in Readers :
           rd'[p].pc = "call" /\ rd'[q].pc = "call" /\ p # q /\ rd'[p].block = rd'[q].block =>
             rd'[p].idx # rd'[q].idx
    BY <1>1, <1>2, <2>1, <2>6 DEF ReadersFollow
  <2> QED
    BY <2>7, <2>8, NextReadersFollow
<1>9. CASE ~Take(r)
  <2>1. ASSUME NextFollowing(r)
        PROVE  /\ rd'[r].idx \in StartIdx..blk'[rd'[r].block].ReadIdx
               /\ rd'[r].idx < blk'[rd'[r].block].ReadIdx => rd'[r].idx \in NextReadyAt(rd'[r].block)
               /\ rd'[r].pc \in { "compareExchange", "call" } => rd'[r].idx \in NextReadyAt(rd'[r].block)
               /\ rd'[r].pc # "call"
    <3>1. /\ rd'[r].pc # "call"
          /\ rd'[r].block = rd[r].block
          /\ \/ /\ Following(r) /\ rd'[r].idx = rd[r].idx
                /\ rd'[r].pc = "compareExchange" => Ready(rd[r].block, rd[r].idx)
             \/ /\ rd'[r].idx = blk[rd[r].block].ReadIdx /\ blk' = blk
                /\ rd'[r].pc # "compareExchange"
      BY <1>9, <2>1, ReaderIndexIs
    <3>2. rd[r].block \in Blocks
      BY <1>1, <2>1, <3>1, Fields DEF NextFollowing
    <3>3. CASE Following(r) /\ rd'[r].idx = rd[r].idx
               /\ (rd'[r].pc = "compareExchange" => Ready(rd[r].block, rd[r].idx))
      <4>1. rd'[r].pc = "compareExchange" => rd[r].idx \in ReadyAt(rd[r].block)
        <5>1. rd[r].idx >= StartIdx /\ rd[r].idx \in Int
          BY <1>3, <1>5, <3>3, Numbers
        <5>2. Offsets = StartIdx..(BlockLimit - 1) /\ StartIdx \in Int /\ BlockLimit \in Int
          BY Numbers DEF Offsets
        <5> QED
          BY <3>3, <5>1, <5>2 DEF Ready, ReadyAt
      <4> QED
        BY <1>6, <3>1, <3>3, <4>1
    <3>4. CASE rd'[r].idx = blk[rd[r].block].ReadIdx /\ blk' = blk /\ rd'[r].pc # "compareExchange"
      BY <1>4, <3>1, <3>2, <3>4, Numbers
    <3> QED
      BY <3>1, <3>3, <3>4
  <2>2. \A q \in Readers : NextFollowing(q) =>
          /\ rd'[q].idx \in StartIdx..blk'[rd'[q].block].ReadIdx
          /\ rd'[q].idx < blk'[rd'[q].block].ReadIdx => rd'[q].idx \in NextReadyAt(rd'[q].block)
          /\ rd'[q].pc \in { "compareExchange", "call" } => rd'[q].idx \in NextReadyAt(rd'[q].block)
          /\ rd'[q].pc = "call" => rd'[q].idx < blk'[rd'[q].block].ReadIdx
    BY <1>2, <1>6, <1>7, <2>1
  <2>3. rd'[r].pc # "call"
    <3>1. rd'[r].pc = "call" => CompareExchangeReadIdx(r)
      <4>1. ASSUME QuietReader(r) \/ PinBlock(r) \/ Advance(r) \/ CallAndDestroy(r) \/ Leave(r)
            PROVE  rd'[r].pc # "call"
        BY <1>1, <4>1, PinBlockIs, AdvanceIs, CallAndDestroyIs, LeaveIs DEF QuietReader
      <4>2. RecycleB(r) => rd'[r].pc # "call"
        BY <1>1, RecycleBIs DEF IsRecycled
      <4> QED
        BY <1>9, <4>1, <4>2, ReaderKinds
    <3> QED
      BY <1>9, <3>1 DEF Take
  <2>4. \A p, q \in Readers :
           rd'[p].pc = "call" /\ rd'[q].pc = "call" /\ p # q /\ rd'[p].block = rd'[q].block =>
             rd'[p].idx # rd'[q].idx
    BY <1>1, <1>2, <2>3 DEF ReadersFollow
  <2> QED
    BY <2>2, <2>4, NextReadersFollow
<1> QED
  BY <1>8, <1>9

------------------------------------------------------------------------------
(* NbObjects counts the functors in a block. *)
Committing(b) == { w \in Writers : wr[w].pc = "commit" /\ wr[w].block = b }
Calling(b) == { r \in Readers : rd[r].pc = "call" /\ rd[r].block = b }

LEMMA LiveIs ==
  \A b, i : i \in Live(b) <=>
    \/ i \in Unread(b)
    \/ \E w \in Committing(b) : i = Start(w)
    \/ \E r \in Calling(b) : i = rd[r].idx
  BY DEF Live, Committing, Calling

NextLive(b) ==
  NextUnread(b)
    \union { NextStart(w) : w \in { w \in Writers : wr'[w].pc = "commit" /\ wr'[w].block = b } }
    \union { rd'[r].idx : r \in { r \in Readers : rd'[r].pc = "call" /\ rd'[r].block = b } }

LEMMA NextLiveIs ==
  \A b, i : i \in NextLive(b) <=>
    \/ i \in NextUnread(b)
    \/ \E w \in Writers : wr'[w].pc = "commit" /\ wr'[w].block = b /\ i = NextStart(w)
    \/ \E r \in Readers : rd'[r].pc = "call" /\ rd'[r].block = b /\ i = rd'[r].idx
  BY DEF NextLive

LEMMA NextObjectsCounted ==
  ASSUME \A b \in Blocks : blk'[b].NbObjects = Cardinality(NextLive(b))
  PROVE  ObjectsCounted'
<1>1. \A b \in Blocks : Live(b)' = NextLive(b)
  BY DEF Live, NextLive, Unread, NextUnread, Start, NextStart
<1> QED
  BY <1>1 DEF ObjectsCounted

LEMMA UnreadIs ==
  \A b : Unread(b) = { i \in ReadyAt(b) : i >= blk[b].ReadIdx }
  BY DEF Unread, ReadyAt

LEMMA NextUnreadIs ==
  \A b : NextUnread(b) = { i \in NextReadyAt(b) : i >= blk'[b].ReadIdx }
  BY DEF NextUnread, NextReadyAt

LEMMA CommittingIs ==
  ASSUME IInv, NEW b \in Blocks, NEW w \in Committing(b)
  PROVE  w \in Writers /\ w \in Writing /\ b = WriteBlock /\ Start(w) \in Offsets
<1>1. w \in Writers /\ wr[w].pc = "commit" /\ wr[w].block = b /\ wr[w].pc \in PlacedPoints
  BY DEF Committing, PlacedPoints
<1> QED
  BY <1>1, WritingIs, PlacesFit

LEMMA CallingIs ==
  ASSUME IInv, NEW b \in Blocks, NEW r \in Calling(b)
  PROVE  /\ rd[r].idx \in ReadyAt(b) /\ rd[r].idx \in Offsets /\ rd[r].idx < blk[b].ReadIdx
         /\ \A q \in Calling(b) : q # r => rd[q].idx # rd[r].idx
<1>1. r \in Readers /\ rd[r].pc = "call" /\ rd[r].block = b /\ rd[r].block # Null
  BY NullAssumption DEF Calling
<1>2. rd[r].idx \in ReadyAt(b) /\ rd[r].idx < blk[b].ReadIdx
  BY <1>1 DEF IInv, ReadersFollow, ReadPoints
<1>3. \A q \in Calling(b) : q # r => rd[q].idx # rd[r].idx
  BY <1>1 DEF IInv, ReadersFollow, Calling
<1> QED
  BY <1>2, <1>3 DEF ReadyAt

LEMMA LiveIsFinite ==
  ASSUME IInv, NEW b \in Blocks
  PROVE  Live(b) \subseteq Offsets /\ IsFiniteSet(Live(b)) /\ Cardinality(Live(b)) \in 0..Capacity
<1>1. \A i \in Live(b) : i \in Offsets
  <2>1. Unread(b) \subseteq Offsets
    BY DEF Unread
  <2>2. \A w \in Committing(b) : Start(w) \in Offsets
    BY CommittingIs
  <2>3. \A r \in Calling(b) : rd[r].idx \in Offsets
    BY CallingIs
  <2> QED
    BY <2>1, <2>2, <2>3, LiveIs
<1>2. Offsets = 1..Capacity /\ Capacity \in Int /\ Capacity >= 1
  BY Numbers
<1>3. IsFiniteSet(Offsets) /\ Cardinality(Offsets) = Capacity
  BY <1>2, FS_Interval
<1>4. IsFiniteSet(Live(b)) /\ Cardinality(Live(b)) <= Cardinality(Offsets)
  BY <1>1, <1>3, FS_Subset
<1>5. Cardinality(Live(b)) \in Nat
  BY <1>4, FS_CardinalityType
<1> QED
  BY <1>1, <1>2, <1>3, <1>4, <1>5

(* The functors in a block after a step, from those before it.              *)
LEMMA LivePartsStay ==
  ASSUME NEW c, NEW i,
         i \in NextUnread(c) <=> i \in Unread(c),
         (\E w \in Writers : wr'[w].pc = "commit" /\ wr'[w].block = c /\ i = NextStart(w))
           <=> (\E w \in Committing(c) : i = Start(w)),
         (\E q \in Readers : rd'[q].pc = "call" /\ rd'[q].block = c /\ i = rd'[q].idx)
           <=> (\E q \in Calling(c) : i = rd[q].idx)
  PROVE  i \in NextLive(c) <=> i \in Live(c)
<1>1. i \in Live(c) <=>
        \/ i \in Unread(c)
        \/ \E w \in Committing(c) : i = Start(w)
        \/ \E r \in Calling(c) : i = rd[r].idx
  BY LiveIs
<1>2. i \in NextLive(c) <=>
        \/ i \in NextUnread(c)
        \/ \E w \in Writers : wr'[w].pc = "commit" /\ wr'[w].block = c /\ i = NextStart(w)
        \/ \E r \in Readers : rd'[r].pc = "call" /\ rd'[r].block = c /\ i = rd'[r].idx
  BY NextLiveIs
<1> QED
  BY <1>1, <1>2

(* Most steps change neither the functors nor their number. *)
LEMMA LiveStays ==
  ASSUME IInv, SameObjects, \A b \in Blocks : NextLive(b) = Live(b)
  PROVE  ObjectsCounted'
  BY NextObjectsCounted DEF IInv, ObjectsCounted, SameObjects

LEMMA ObjectsAfterConstruct ==
  ASSUME IInv, NEW w \in Writers, Construct(w), OnlyWriter(w)
  PROVE  ObjectsCounted'
<1>1. Types /\ WriteBlock \in Blocks
  BY DEF IInv, Types
<1>2. /\ wr[w].pc = "construct" /\ wr'[w].pc = "commit" /\ w \in Writing
      /\ wr'[w].idx = wr[w].idx /\ wr'[w].block = wr[w].block
  BY <1>1, ConstructIs, WritingIs DEF SameIndex, PlacedPoints
<1>3. /\ wr[w].block = WriteBlock /\ Start(w) \in Offsets
      /\ \A b \in Blocks : blk'[b].NbObjects =
           IF b = WriteBlock THEN blk[b].NbObjects + 1 ELSE blk[b].NbObjects
  BY ConstructDoes
<1>4. \A b \in Blocks : NextUnread(b) = Unread(b)
  <2>1. /\ \A b \in Blocks : blk'[b].ReadIdx = blk[b].ReadIdx
        /\ \A b \in Blocks, i \in Offsets : blk'[b].place[i].ready = blk[b].place[i].ready
    BY ConstructDoes DEF SameReadIdx
  <2> QED
    BY <2>1, Zenon DEF Unread, NextUnread
<1>5. \A v \in Writers : v # w => wr'[v] = wr[v] /\ NextStart(v) = Start(v)
  BY DEF OnlyWriter, NextStart, Start
<1>6. NextStart(w) = Start(w) /\ rd' = rd
  BY <1>2 DEF NextStart, Start, OnlyWriter
<1>7. \A b \in Blocks : \A i : i \in NextLive(b) <=> i \in Live(b) \/ (b = WriteBlock /\ i = Start(w))
  BY <1>2, <1>3, <1>4, <1>5, <1>6, LiveIs, NextLiveIs DEF Committing, Calling
<1>8. Start(w) \notin Live(WriteBlock)
  <2>1. Start(w) \notin ReadyAt(WriteBlock)
    BY <1>2, StartNotReady
  <2>2. \A v \in Committing(WriteBlock) : Start(v) # Start(w)
    <3>1. \A v \in Committing(WriteBlock) : v \in Writing /\ v # w
      BY <1>1, <1>2, CommittingIs DEF Committing
    <3> QED
      BY <1>2, <3>1, StartsApart
  <2>3. \A r \in Calling(WriteBlock) : rd[r].idx # Start(w)
    BY <1>1, <2>1, CallingIs
  <2> QED
    BY <2>1, <2>2, <2>3, LiveIs, UnreadIs
<1>9. \A b \in Blocks : b # WriteBlock => NextLive(b) = Live(b)
  BY <1>7
<1>10. NextLive(WriteBlock) = Live(WriteBlock) \union {Start(w)}
  BY <1>1, <1>7
<1>11. Cardinality(NextLive(WriteBlock)) = Cardinality(Live(WriteBlock)) + 1
  BY <1>1, <1>8, <1>10, LiveIsFinite, FS_AddElement
<1>12. \A b \in Blocks : blk[b].NbObjects = Cardinality(Live(b))
  BY DEF IInv, ObjectsCounted
<1> QED
  BY <1>3, <1>9, <1>11, <1>12, NextObjectsCounted

LEMMA ObjectsAfterCommit ==
  ASSUME IInv, NEW w \in Writers, Commit(w), OnlyWriter(w)
  PROVE  ObjectsCounted'
<1>1. Types /\ WriteBlock \in Blocks
  BY DEF IInv, Types
<1>2. wr[w].pc = "commit" /\ wr'[w].pc = "unlockShared" /\ w \in Writing
  BY <1>1, CommitIs, WritingIs DEF PlacedPoints
<1>3. SameObjects /\ SameReadIdx /\ wr[w].block = WriteBlock /\ Start(w) \in Offsets
  BY CommitDoes
<1>4. \A b \in Blocks : \A i : i \in NextReadyAt(b) <=> i \in ReadyAt(b) \/ (b = WriteBlock /\ i = Start(w))
  <2>1. \A b \in Blocks, i \in Offsets : blk'[b].place[i].ready =
                IF b = wr[w].block /\ i = Start(w) THEN TRUE ELSE blk[b].place[i].ready
    BY CommitDoes, Zenon
  <2> QED
    BY <1>3, <2>1, Zenon DEF NextReadyAt, ReadyAt
<1>5. blk[WriteBlock].ReadIdx <= Start(w)
  BY <1>2 DEF IInv, WritingApart
<1>6. blk[WriteBlock].ReadIdx \in Int /\ Start(w) \in Int
  BY <1>1, <1>3, Fields, Numbers
<1>7. \A b \in Blocks : \A i : i \in NextUnread(b) <=> i \in Unread(b) \/ (b = WriteBlock /\ i = Start(w))
  BY <1>3, <1>4, <1>5, <1>6, UnreadIs, NextUnreadIs DEF SameReadIdx
<1>8. \A v \in Writers : v # w => wr'[v] = wr[v] /\ NextStart(v) = Start(v)
  BY DEF OnlyWriter, NextStart, Start
<1>9. rd' = rd
  BY DEF OnlyWriter
<1>10. \A b \in Blocks : \A i : i \in NextLive(b) <=> i \in Live(b)
  BY <1>2, <1>3, <1>7, <1>8, <1>9, LiveIs, NextLiveIs DEF Committing, Calling
<1>11. \A b \in Blocks : NextLive(b) = Live(b)
  BY <1>10
<1> QED
  BY <1>3, <1>11, LiveStays

LEMMA ObjectsCountedForWriters ==
  ASSUME IInv, NEW w \in Writers, Push(w) \/ WriterStep(w)
  PROVE  ObjectsCounted'
<1>1. Types /\ OnlyWriter(w)
  BY WriterFrames DEF IInv
<1>2. CASE QuietWriter(w) \/ Reserve(w) \/ AppendBlock(w)
  <2>1. wr[w].pc # "commit" /\ wr'[w].pc # "commit"
    BY <1>1, <1>2, CompareExchangePreWriteIdxIs, AppendBlockIs DEF QuietWriter, Reserve
  <2>2. SameObjects /\ \A b \in Blocks : NextUnread(b) = Unread(b)
    <3>1. CASE QuietWriter(w) \/ Reserve(w)
      BY <1>1, <3>1, CompareExchangePreWriteIdxIs
         DEF QuietWriter, Reserve, SameObjects, Unread, NextUnread
    <3>2. CASE AppendBlock(w)
      BY <1>1, <3>2, AppendBlockDoes DEF SamePlaces, SameReadIdx, Unread, NextUnread
    <3> QED
      BY <1>2, <3>1, <3>2
  <2>3. \A v \in Writers : v # w => wr'[v] = wr[v] /\ NextStart(v) = Start(v)
    BY <1>1 DEF OnlyWriter, NextStart, Start
  <2>4. rd' = rd
    BY <1>1 DEF OnlyWriter
  <2>5. \A b \in Blocks : \A i : i \in NextLive(b) <=> i \in Live(b)
    BY <2>1, <2>2, <2>3, <2>4, LiveIs, NextLiveIs DEF Committing, Calling
  <2>6. \A b \in Blocks : NextLive(b) = Live(b)
    BY <2>5
  <2> QED
    BY <2>2, <2>6, LiveStays
<1> QED
  BY <1>1, <1>2, WriterKinds, ObjectsAfterConstruct, ObjectsAfterCommit

(* A functor that is taken is called next. *)
LEMMA ObjectsAfterTake ==
  ASSUME IInv, NEW r \in Readers, Take(r), OnlyReader(r)
  PROVE  ObjectsCounted'
<1> DEFINE b == rd[r].block
           x == rd[r].idx
<1>1. Types /\ ReadyApart
  BY DEF IInv
<1>2. /\ b \in Blocks /\ x \in ReadyAt(b) /\ x = blk[b].ReadIdx
      /\ rd[r].pc = "compareExchange" /\ rd'[r].pc = "call"
      /\ rd'[r].block = b /\ rd'[r].idx = x
      /\ blk'[b].ReadIdx = x + Size(b, x)
      /\ \A c \in Blocks : c # b => blk'[c].ReadIdx = blk[c].ReadIdx
      /\ SamePlaces
  BY TakeIs
<1>3. SameObjects
  BY <1>1, TakeDoes
<1>4. \A c \in Blocks : NextReadyAt(c) = ReadyAt(c)
  BY <1>2 DEF SamePlaces, NextReadyAt, ReadyAt
<1>5. wr' = wr /\ \A q \in Readers : q # r => rd'[q] = rd[q]
  BY DEF OnlyReader
<1>6. \A i \in ReadyAt(b) : i \in Int /\ Size(b, i) \in 1..Capacity
  BY <1>2, ReadySizes
<1>7. \A i \in ReadyAt(b) : x < i => x + Size(b, x) <= i
  BY <1>1, <1>2 DEF ReadyApart
<1> HIDE DEF b, x
<1>8. \A i : i \in NextUnread(b) <=> i \in Unread(b) /\ i # x
  <2>1. \A i \in ReadyAt(b) : i >= x + Size(b, x) <=> i >= x /\ i # x
    BY <1>2, <1>6, <1>7, Numbers
  <2> QED
    BY <1>2, <1>4, <2>1, UnreadIs, NextUnreadIs
<1>9. \A c \in Blocks : c # b => NextUnread(c) = Unread(c)
  BY <1>2, <1>4, UnreadIs, NextUnreadIs
<1>10. x \in Unread(b)
  BY <1>2, <1>6, UnreadIs
<1>11. \A c \in Blocks : \A i : i \in NextLive(c) <=> i \in Live(c)
  <2>1. \A i : (\E q \in Readers : rd'[q].pc = "call" /\ rd'[q].block = b /\ i = rd'[q].idx)
               <=> i = x \/ \E q \in Calling(b) : i = rd[q].idx
    BY <1>2, <1>5 DEF Calling
  <2>2. \A c \in Blocks : \A i : c # b =>
          ((\E q \in Readers : rd'[q].pc = "call" /\ rd'[q].block = c /\ i = rd'[q].idx)
               <=> \E q \in Calling(c) : i = rd[q].idx)
    BY <1>2, <1>5 DEF Calling
  <2>3. \A c, i : (\E w \in Writers : wr'[w].pc = "commit" /\ wr'[w].block = c /\ i = NextStart(w))
               <=> \E w \in Committing(c) : i = Start(w)
    BY <1>5 DEF Committing, Start, NextStart
  <2>4. \A i : i \in NextLive(b) <=> i \in Live(b)
    BY <1>8, <1>10, <2>1, <2>3, LiveIs, NextLiveIs
  <2>5. ASSUME NEW c \in Blocks, NEW i, c # b PROVE i \in NextLive(c) <=> i \in Live(c)
    <3>1. (\E w \in Writers : wr'[w].pc = "commit" /\ wr'[w].block = c /\ i = NextStart(w))
            <=> (\E w \in Committing(c) : i = Start(w))
      BY <2>3
    <3>2. (\E q \in Readers : rd'[q].pc = "call" /\ rd'[q].block = c /\ i = rd'[q].idx)
            <=> (\E q \in Calling(c) : i = rd[q].idx)
      BY <1>2, <1>5, <2>5 DEF Calling
    <3>3. i \in NextUnread(c) <=> i \in Unread(c)
      BY <1>9, <2>5
    <3> QED
      BY <3>1, <3>2, <3>3, LivePartsStay
  <2> QED
    BY <2>4, <2>5
<1>12. \A c \in Blocks : NextLive(c) = Live(c)
  BY <1>11
<1> QED
  BY <1>3, <1>12, LiveStays

LEMMA ObjectsAfterCall ==
  ASSUME IInv, NEW r \in Readers, CallAndDestroy(r), OnlyReader(r)
  PROVE  ObjectsCounted'
<1> DEFINE b == rd[r].block
           x == rd[r].idx
<1>1. Types
  BY DEF IInv
<1>2. rd[r].pc = "call" /\ rd'[r].pc = "leave"
  BY <1>1, CallAndDestroyIs
<1>3. b \in Blocks /\ r \in Calling(b)
  BY <1>1, <1>2, Fields DEF IInv, ReaderLocals, Calling
<1>4. /\ \A c \in Blocks : NextUnread(c) = Unread(c)
      /\ \A c \in Blocks : blk'[c].NbObjects =
           IF c = b THEN blk[c].NbObjects - 1 ELSE blk[c].NbObjects
  BY <1>1, CallAndDestroyDoes DEF SamePlaces, SameReadIdx, Unread, NextUnread
<1>5. wr' = wr /\ \A q \in Readers : q # r => rd'[q] = rd[q]
  BY DEF OnlyReader
<1>6. /\ x \in ReadyAt(b) /\ x \in Offsets /\ x < blk[b].ReadIdx
      /\ \A q \in Calling(b) : q # r => rd[q].idx # x
  BY <1>3, CallingIs
<1>7. x \notin Unread(b)
  <2>1. blk[b].ReadIdx \in Int /\ x \in Int
    BY <1>1, <1>3, <1>6, Fields, Numbers
  <2> QED
    BY <1>6, <2>1, UnreadIs
<1>8. \A w \in Committing(b) : Start(w) # x
  <2>1. \A w \in Committing(b) : w \in Writing /\ b = WriteBlock
    BY <1>3, CommittingIs
  <2> QED
    BY <1>6, <2>1, StartNotReady
<1>9. \A c, i : (\E w \in Writers : wr'[w].pc = "commit" /\ wr'[w].block = c /\ i = NextStart(w))
             <=> \E w \in Committing(c) : i = Start(w)
  BY <1>5 DEF Committing, Start, NextStart
<1>10. \A c \in Blocks : \A i :
         (\E q \in Readers : rd'[q].pc = "call" /\ rd'[q].block = c /\ i = rd'[q].idx)
               <=> \E q \in Calling(c) : q # r /\ i = rd[q].idx
  BY <1>2, <1>5 DEF Calling
<1>11. r \in Calling(b) /\ (\A c \in Blocks : c # b => r \notin Calling(c)) /\ x = rd[r].idx
  BY <1>3 DEF Calling
<1> HIDE DEF b, x
<1>12. ASSUME NEW i PROVE i \in NextLive(b) <=> i \in Live(b) /\ i # x
  <2>1. i \in NextUnread(b) <=> i \in Unread(b)
    BY <1>3, <1>4
  <2>2. (\E w \in Writers : wr'[w].pc = "commit" /\ wr'[w].block = b /\ i = NextStart(w))
          <=> (\E w \in Committing(b) : i = Start(w))
    BY <1>9
  <2>3. (\E q \in Readers : rd'[q].pc = "call" /\ rd'[q].block = b /\ i = rd'[q].idx)
          <=> (\E q \in Calling(b) : q # r /\ i = rd[q].idx)
    BY <1>2, <1>3, <1>5 DEF Calling
  <2>4. (\E q \in Calling(b) : q # r /\ i = rd[q].idx)
          <=> (\E q \in Calling(b) : i = rd[q].idx) /\ i # x
    BY <1>6, <1>11
  <2>5. i = x => i \notin Unread(b) /\ ~\E w \in Committing(b) : i = Start(w)
    BY <1>7, <1>8
  <2>6. i \in Live(b) <=>
          \/ i \in Unread(b)
          \/ \E w \in Committing(b) : i = Start(w)
          \/ \E q \in Calling(b) : i = rd[q].idx
    BY LiveIs
  <2>7. i \in NextLive(b) <=>
          \/ i \in NextUnread(b)
          \/ \E w \in Writers : wr'[w].pc = "commit" /\ wr'[w].block = b /\ i = NextStart(w)
          \/ \E q \in Readers : rd'[q].pc = "call" /\ rd'[q].block = b /\ i = rd'[q].idx
    BY NextLiveIs
  <2> QED
    BY <2>1, <2>2, <2>3, <2>4, <2>5, <2>6, <2>7
<1>13. ASSUME NEW c \in Blocks, NEW i, c # b PROVE i \in NextLive(c) <=> i \in Live(c)
  <2>1. i \in NextUnread(c) <=> i \in Unread(c)
    BY <1>4
  <2>2. (\E w \in Writers : wr'[w].pc = "commit" /\ wr'[w].block = c /\ i = NextStart(w))
          <=> (\E w \in Committing(c) : i = Start(w))
    BY <1>9
  <2>3. (\E q \in Readers : rd'[q].pc = "call" /\ rd'[q].block = c /\ i = rd'[q].idx)
          <=> (\E q \in Calling(c) : q # r /\ i = rd[q].idx)
    BY <1>2, <1>5, <1>13 DEF Calling
  <2>4. (\E q \in Calling(c) : q # r /\ i = rd[q].idx)
          <=> (\E q \in Calling(c) : i = rd[q].idx)
    BY <1>11, <1>13
  <2> QED
    BY <2>1, <2>2, <2>3, <2>4, LivePartsStay
<1>14. NextLive(b) = Live(b) \ {x} /\ x \in Live(b)
  BY <1>11, <1>12, LiveIs
<1>15. \A c \in Blocks : c # b => NextLive(c) = Live(c)
  BY <1>13
<1>16. Cardinality(NextLive(b)) = Cardinality(Live(b)) - 1
  BY <1>3, <1>14, LiveIsFinite, FS_RemoveElement
<1>17. \A c \in Blocks : blk[c].NbObjects = Cardinality(Live(c))
  BY DEF IInv, ObjectsCounted
<1> QED
  BY <1>3, <1>4, <1>15, <1>16, <1>17, NextObjectsCounted

LEMMA ObjectsAfterRecycle ==
  ASSUME IInv, NEW r \in Readers, RecycleB(r), OnlyReader(r)
  PROVE  ObjectsCounted'
<1> DEFINE b == rd[r].old
<1>1. Types /\ ~released
  BY DEF IInv, OnlyReader
<1>2. /\ b \in Blocks /\ b # WriteBlock /\ blk'[b] = WipedBlock
      /\ \A q \in Readers : ~InBlock(q, b)
      /\ \A c \in Blocks : c # b => blk'[c] = blk[c]
  BY <1>1, RecycleBIsApart
<1>3. wr' = wr /\ \A q \in Readers : q # r => rd'[q] = rd[q]
  BY DEF OnlyReader
<1>4. rd[r].pc # "call" /\ rd'[r].pc # "call"
  BY <1>1, RecycleBIs DEF IsRecycled
<1>5. NextUnread(b) = {} /\ blk'[b].NbObjects = 0
  BY <1>2 DEF NextUnread, WipedBlock, EmptyPlace
<1>6. \A c \in Blocks : c # b =>
        NextUnread(c) = Unread(c) /\ blk'[c].NbObjects = blk[c].NbObjects
  BY <1>2 DEF NextUnread, Unread
<1>7. \A c, i : (\E w \in Writers : wr'[w].pc = "commit" /\ wr'[w].block = c /\ i = NextStart(w))
             <=> \E w \in Committing(c) : i = Start(w)
  BY <1>3 DEF Committing, Start, NextStart
<1>8. \A c \in Blocks : \A i :
         (\E q \in Readers : rd'[q].pc = "call" /\ rd'[q].block = c /\ i = rd'[q].idx)
               <=> \E q \in Calling(c) : i = rd[q].idx
  BY <1>3, <1>4 DEF Calling
<1>9. Committing(b) = {} /\ Calling(b) = {}
  <2>1. \A w : w \notin Committing(b)
    BY <1>2, CommittingIs
  <2>2. \A q : q \notin Calling(b)
    BY <1>2 DEF Calling, InBlock, PinnedAt
  <2> QED
    BY <2>1, <2>2
<1> HIDE DEF b
<1>10. NextLive(b) = {}
  BY <1>2, <1>5, <1>7, <1>8, <1>9, NextLiveIs
<1>11. ASSUME NEW c \in Blocks, NEW i, c # b PROVE i \in NextLive(c) <=> i \in Live(c)
  <2>1. i \in NextUnread(c) <=> i \in Unread(c)
    BY <1>6, <1>11
  <2>2. (\E w \in Writers : wr'[w].pc = "commit" /\ wr'[w].block = c /\ i = NextStart(w))
          <=> (\E w \in Committing(c) : i = Start(w))
    BY <1>7
  <2>3. (\E q \in Readers : rd'[q].pc = "call" /\ rd'[q].block = c /\ i = rd'[q].idx)
          <=> (\E q \in Calling(c) : i = rd[q].idx)
    BY <1>3, <1>4, <1>11 DEF Calling
  <2> QED
    BY <2>1, <2>2, <2>3, LivePartsStay
<1>12. \A c \in Blocks : c # b => NextLive(c) = Live(c)
  BY <1>11
<1>13. Cardinality(NextLive(b)) = 0
  BY <1>10, FS_EmptySet
<1>14. \A c \in Blocks : blk[c].NbObjects = Cardinality(Live(c))
  BY DEF IInv, ObjectsCounted
<1> QED
  BY <1>5, <1>6, <1>12, <1>13, <1>14, NextObjectsCounted

LEMMA ObjectsCountedForReaders ==
  ASSUME IInv, NEW r \in Readers, Pop(r) \/ ReaderStep(r)
  PROVE  ObjectsCounted'
<1>1. Types /\ OnlyReader(r)
  BY ReaderFrames DEF IInv
<1>2. CASE QuietReader(r) \/ PinBlock(r) \/ Advance(r) \/ Leave(r)
  <2>1. rd[r].pc # "call" /\ rd'[r].pc # "call"
    BY <1>1, <1>2, PinBlockIs, AdvanceIs, LeaveIs DEF QuietReader
  <2>2. SameObjects /\ SamePlaces /\ SameReadIdx
    <3>1. QuietReader(r) => SameObjects /\ SamePlaces /\ SameReadIdx
      BY DEF QuietReader, SameObjects, SamePlaces, SameReadIdx
    <3> QED
      BY <1>1, <1>2, <3>1, PinBlockDoes, AdvanceDoes, LeaveDoes
  <2>3. \A b \in Blocks : NextUnread(b) = Unread(b)
    BY <2>2 DEF SamePlaces, SameReadIdx, Unread, NextUnread
  <2>4. wr' = wr /\ \A q \in Readers : q # r => rd'[q] = rd[q]
    BY <1>1 DEF OnlyReader
  <2>5. \A b \in Blocks : \A i : i \in NextLive(b) <=> i \in Live(b)
    BY <2>1, <2>3, <2>4, LiveIs, NextLiveIs DEF Committing, Calling, Start, NextStart
  <2>6. \A b \in Blocks : NextLive(b) = Live(b)
    BY <2>5
  <2> QED
    BY <2>2, <2>6, LiveStays
<1> QED
  BY <1>1, <1>2, ReaderKinds, ObjectsAfterTake, ObjectsAfterCall, ObjectsAfterRecycle

------------------------------------------------------------------------------
(* The invariant is inductive.  First the parts that a step leaves alone    *)
(* because it changes nothing they speak of.                                *)
SameShared ==
  UNCHANGED <<blk, ReadBlock, WriteBlock, PreWriteIdx, SpareBlockA, SpareBlockB,
              swapSharers, swapClaims, swapExclusive, delSharers, delClaims, delExclusive, wr, rd>>

LEMMA WriterPartsStay ==
  ASSUME UNCHANGED <<WriteBlock, PreWriteIdx, swapSharers, swapClaims, swapExclusive, wr>>
  PROVE  /\ SwapLocks => SwapLocks'
         /\ WriterLocals => WriterLocals'
         /\ WriterView => WriterView'
<1>1. SwapLocks => SwapLocks'
  BY DEF SwapLocks
<1>2. WriterLocals => WriterLocals'
  BY DEF WriterLocals, Full
<1>3. WriterView => WriterView'
  BY DEF WriterView
<1> QED
  BY <1>1, <1>2, <1>3

LEMMA ReaderPartsStay ==
  ASSUME UNCHANGED <<ReadBlock, delSharers, delClaims, delExclusive, rd>>
  PROVE  /\ DelLocks => DelLocks'
         /\ ReaderLocals => ReaderLocals'
<1>1. DelLocks => DelLocks'
  BY DEF DelLocks
<1>2. ReaderLocals => ReaderLocals'
  BY DEF ReaderLocals
<1> QED
  BY <1>1, <1>2

LEMMA WritersKeepIInv ==
  ASSUME IInv, NEW w \in Writers, Push(w) \/ WriterStep(w)
  PROVE  IInv'
<1>1. OnlyWriter(w)
  BY WriterFrames DEF IInv
<1>2. Types'
  BY TypesOfWriters
<1>3. ReleasedIsIdle'
  BY <1>1 DEF OnlyWriter, ReleasedIsIdle
<1>4. SwapLocks' /\ WriterLocals' /\ WriterView'
  BY SwapLocksStay, WriterLocalsStay, WriterViewStays
<1>5. DelLocks' /\ ReaderLocals'
  <2>1. UNCHANGED <<ReadBlock, delSharers, delClaims, delExclusive, rd>>
    BY <1>1 DEF OnlyWriter
  <2> QED
    BY <2>1, ReaderPartsStay DEF IInv
<1>6. InUseInv'
  BY <1>2, ChainOKForWriters, OneOwnerForWriters, WipedForWriters, UsedUpForWriters DEF InUseInv
<1>7. ReadyApart' /\ WritingApart' /\ Tiled'
  BY <1>2, LayoutForWriters DEF Layout
<1>8. PinsCounted' /\ ReadersFollow' /\ ObjectsCounted'
  BY PinsCountedForWriters, ReadersFollowForWriters, ObjectsCountedForWriters
<1> QED
  BY <1>2, <1>3, <1>4, <1>5, <1>6, <1>7, <1>8 DEF IInv

LEMMA ReadersKeepIInv ==
  ASSUME IInv, NEW r \in Readers, Pop(r) \/ ReaderStep(r)
  PROVE  IInv'
<1>1. OnlyReader(r)
  BY ReaderFrames DEF IInv
<1>2. Types'
  BY TypesOfReaders
<1>3. ReleasedIsIdle'
  BY <1>1 DEF OnlyReader, ReleasedIsIdle
<1>4. DelLocks' /\ ReaderLocals'
  BY DelLocksStay, ReaderLocalsStay
<1>5. SwapLocks' /\ WriterLocals' /\ WriterView'
  <2>1. UNCHANGED <<WriteBlock, PreWriteIdx, swapSharers, swapClaims, swapExclusive, wr>>
    BY <1>1 DEF OnlyReader
  <2> QED
    BY <2>1, WriterPartsStay DEF IInv
<1>6. InUseInv'
  BY <1>2, ChainOKForReaders, OneOwnerForReaders, WipedForReaders, UsedUpForReaders DEF InUseInv
<1>7. ReadyApart' /\ WritingApart' /\ Tiled'
  BY LayoutForReaders DEF Layout
<1>8. PinsCounted' /\ ReadersFollow' /\ ObjectsCounted'
  BY <1>2, PinsCountedForReaders, ReadersFollowForReaders, ObjectsCountedForReaders
<1> QED
  BY <1>2, <1>3, <1>4, <1>5, <1>6, <1>7, <1>8 DEF IInv

(* Releasing the queue, and stuttering, leave the contents of the blocks    *)
(* and every thread alone.                                                  *)
LEMMA RestStays ==
  ASSUME IInv, SameShared, heap' \subseteq heap, released' \in BOOLEAN, ReleasedIsIdle', InUseInv'
  PROVE  IInv'
<1>1. Types'
  BY DEF IInv, Types, SameShared
<1>2. SwapLocks' /\ WriterLocals' /\ WriterView'
  BY WriterPartsStay DEF IInv, SameShared
<1>3. DelLocks' /\ ReaderLocals'
  BY ReaderPartsStay DEF IInv, SameShared
<1>4. PinsCounted'
  BY DEF IInv, SameShared, PinsCounted, Pinned
<1>5. SameLayout
  BY DEF SameShared, SameLayout, SameReadIdx, SamePush, SameIndex
<1>6. Layout'
  BY <1>5, LayoutStays
<1>7. ReadersFollow'
  BY DEF IInv, SameShared, ReadersFollow, ReadyAt
<1>8. ObjectsCounted'
  BY DEF IInv, SameShared, ObjectsCounted, Live, Unread, Start
<1> QED
  BY <1>1, <1>2, <1>3, <1>4, <1>6, <1>7, <1>8 DEF IInv, Layout

LEMMA ReleaseKeepsIInv ==
  ASSUME IInv, Release
  PROVE  IInv'
<1>1. /\ released' = TRUE /\ SameShared /\ heap' \subseteq heap
      /\ \A w \in Writers : wr[w].pc = "idle"
      /\ \A r \in Readers : rd[r].pc = "idle"
  BY DEF Release, SameShared, indexVars, spareVars, swapVars, delVars
<1>2. ReleasedIsIdle' /\ InUseInv'
  BY <1>1 DEF SameShared, ReleasedIsIdle, InUseInv
<1> QED
  BY <1>1, <1>2, RestStays

LEMMA StutteringKeepsIInv ==
  ASSUME IInv, UNCHANGED vars
  PROVE  IInv'
<1>1. SameShared /\ heap' = heap /\ released' = released
  BY DEF vars, memory, indexVars, spareVars, swapVars, delVars, SameShared
<1>2. released' \in BOOLEAN /\ ReleasedIsIdle'
  BY <1>1 DEF IInv, Types, ReleasedIsIdle, SameShared
<1>3. Chain' = Chain
  BY <1>1 DEF Chain, Linked, SameShared
<1>4. Retired(Chain)' = Retired(Chain)
  BY <1>1, <1>3 DEF Retired, SameShared
<1>5. Used' = Used
  BY <1>3, <1>4 DEF Used
<1>6. ChainOK => ChainOK'
  BY <1>1, <1>3 DEF ChainOK, SameShared
<1>7. OneOwner => OneOwner'
  BY <1>1, <1>5 DEF OneOwner, SameShared
<1>8. SparesAreWiped => SparesAreWiped'
  BY <1>1 DEF SparesAreWiped, SameShared
<1>9. UsedUp => UsedUp'
  BY <1>1, <1>4 DEF UsedUp, Unread, SameShared
<1>10. InUseInv'
  BY <1>1, <1>6, <1>7, <1>8, <1>9 DEF IInv, InUseInv
<1> QED
  BY <1>1, <1>2, <1>10, RestStays

LEMMA InvariantIsKept == IInv /\ [Next]_vars => IInv'
<1> SUFFICES ASSUME IInv, [Next]_vars PROVE IInv'
  OBVIOUS
<1>1. CASE \E w \in Writers : Push(w) \/ WriterStep(w)
  BY <1>1, WritersKeepIInv
<1>2. CASE \E r \in Readers : Pop(r) \/ ReaderStep(r)
  BY <1>2, ReadersKeepIInv
<1>3. CASE Release
  BY <1>3, ReleaseKeepsIInv
<1>4. CASE Over \/ UNCHANGED vars
  BY <1>4, StutteringKeepsIInv DEF Over
<1> QED
  BY <1>1, <1>2, <1>3, <1>4 DEF Next

------------------------------------------------------------------------------
(* The invariant holds when the queue is made. *)
LEMMA InitialParts ==
  ASSUME Init
  PROVE  /\ ReadBlock \in Blocks /\ WriteBlock = ReadBlock
         /\ SpareBlockA \in (Blocks \ {ReadBlock}) \union {Null}
         /\ SpareBlockB \in (Blocks \ {ReadBlock}) \union {Null}
         /\ SpareBlockA = SpareBlockB => SpareBlockA = Null
         /\ heap = {ReadBlock, SpareBlockA, SpareBlockB} \ {Null}
         /\ heap \subseteq Blocks
         /\ blk = [b \in Blocks |-> WipedBlock]
         /\ PreWriteIdx = StartIdx
         /\ swapSharers = {} /\ swapClaims = {} /\ swapExclusive = {}
         /\ delSharers = {} /\ delClaims = {} /\ delExclusive = {}
         /\ wr = [w \in Writers |-> IdleWriter]
         /\ rd = [r \in Readers |-> IdleReader]
         /\ released = FALSE
<1>1. PICK first \in Blocks :
        /\ ReadBlock = first /\ WriteBlock = first
        /\ \E a, b \in (Blocks \ {first}) \union {Null} :
             /\ a = b => a = Null
             /\ SpareBlockA = a /\ SpareBlockB = b
             /\ heap = {first, a, b} \ {Null}
  BY DEF Init
<1>2. /\ SpareBlockA \in (Blocks \ {ReadBlock}) \union {Null}
      /\ SpareBlockB \in (Blocks \ {ReadBlock}) \union {Null}
      /\ SpareBlockA = SpareBlockB => SpareBlockA = Null
      /\ heap = {ReadBlock, SpareBlockA, SpareBlockB} \ {Null}
  BY <1>1
<1>3. heap \subseteq Blocks
  BY <1>1, <1>2
<1> QED
  BY <1>1, <1>2, <1>3 DEF Init, Swap!Init, Del!Init

LEMMA InitialTypes == Init => Types
<1> SUFFICES ASSUME Init PROVE Types
  OBVIOUS
<1>1. IdleWriter \in WriterRecords
  <2>1. MaxPush \in Nat
    BY BoundsAssumption
  <2> QED
    BY <2>1 DEF IdleWriter, WriterRecords, WriterPoints
<1>2. IdleReader \in ReaderRecords
  BY DEF IdleReader, ReaderRecords, ReaderPoints
<1>3. WipedBlock \in BlockRecords
  BY WipedIsBlock
<1>4. StartIdx \in Nat
  BY Numbers
<1>5. released \in BOOLEAN
  BY InitialParts
<1> QED
  BY <1>1, <1>2, <1>3, <1>4, <1>5, InitialParts DEF Types

(* Nobody has begun, and nothing is in the blocks. *)
LEMMA InitialState ==
  ASSUME Init
  PROVE  /\ \A w \in Writers : wr[w].pc = "idle" /\ wr[w].alloc = Null
         /\ \A r \in Readers : rd[r].pc = "idle" /\ rd[r].old = Null /\ rd[r].block = Null
         /\ \A b \in Blocks : /\ blk[b].NextBlock = Null /\ blk[b].ReadIdx = StartIdx
                              /\ blk[b].ReadShared = 0 /\ blk[b].NbObjects = 0
                              /\ \A i \in Offsets : blk[b].place[i].ready = FALSE
                              /\ blk[b] = WipedBlock
  BY InitialParts DEF IdleWriter, IdleReader, WipedBlock, EmptyPlace

LEMMA InitialChain ==
  ASSUME Init
  PROVE  Chain = {ReadBlock} /\ Retired(Chain) = {} /\ Used = {ReadBlock}
<1>1. Types /\ ~released
  BY InitialTypes, InitialParts
<1>2. NextOf(blk) \in [Blocks -> Blocks \union {Null}] /\ ReadBlock \in Blocks
  BY <1>1, NextOfIs DEF Types
<1>3. Links(ReadBlock, NextOf(blk), {ReadBlock})
  BY <1>2, InitialState DEF Links, NextOf
<1>4. Chain \subseteq {ReadBlock}
  BY <1>1, <1>2, <1>3, ReachIs, ChainIs
<1>5. Chain = {ReadBlock}
  BY <1>1, <1>4, ChainFacts
<1>6. Retired(Chain) = {}
  BY InitialState DEF Retired, PinnedAt
<1> QED
  BY <1>5, <1>6 DEF Used

LEMMA InitIsInvariant == Init => IInv
<1> SUFFICES ASSUME Init PROVE IInv
  OBVIOUS
<1>1. Types
  BY InitialTypes
<1>2. ReleasedIsIdle /\ SwapLocks /\ DelLocks
  BY InitialParts, InitialState
     DEF ReleasedIsIdle, SwapLocks, DelLocks, SharePoints, ClaimPoints, AlonePoints
<1>3. Mask(StartIdx) = StartIdx /\ StartIdx \in Int
  <2>1. 0 * BlockSize + StartIdx = StartIdx /\ StartIdx \in 0..BlockLimit /\ StartIdx \in Int
    BY Numbers
  <2> QED
    BY <2>1, MaskOf
<1>4. WriterLocals
  BY InitialState DEF WriterLocals
<1>5. WriterView
  BY <1>3, InitialParts, InitialState DEF WriterView, LoadedPoints
<1>6. ReaderLocals
  BY InitialState DEF ReaderLocals
<1>7. ChainOK
  <2>1. \A r \in Readers : rd[r].pc \notin PinnedAt
    BY InitialState DEF PinnedAt
  <2>2. ReadBlock \in Blocks /\ WriteBlock = ReadBlock
    BY InitialParts
  <2> QED
    BY <2>1, <2>2, InitialChain, InitialState, NullAssumption DEF ChainOK
<1>8. OneOwner
  BY InitialParts, InitialChain, InitialState, NullAssumption DEF OneOwner
<1>9. SparesAreWiped
  BY InitialParts, InitialState DEF SparesAreWiped
<1>10. UsedUp
  BY InitialState, InitialChain DEF UsedUp
<1>11. \A b \in Blocks : Pinned(b) = {} /\ ReadyAt(b) = {} /\ Live(b) = {}
  BY InitialState DEF Pinned, PinnedAt, ReadyAt, Live, Unread
<1>12. PinsCounted /\ ObjectsCounted
  <2>1. Cardinality({}) = 0
    BY FS_EmptySet
  <2> QED
    BY <1>11, <2>1, InitialState DEF PinsCounted, ObjectsCounted
<1>13. Writing = {} /\ \A w \in Writers : wr[w].pc # "commit"
  BY InitialState DEF Writing
<1>14. ReadyApart /\ WritingApart
  BY <1>1, <1>11, <1>13 DEF Types, ReadyApart, WritingApart
<1>15. Tiled
  <2>1. \A b \in Blocks : \A x : IsEnd(b, x) <=> x = StartIdx
    BY <1>11 DEF IsEnd
  <2>2. \A b \in Blocks : \A x : Follows(b, x) <=> (b = WriteBlock => x = StartIdx)
    BY <1>3, <1>11, <1>13, FollowsIs, InitialParts
  <2> QED
    BY <1>13, <2>1, <2>2, InitialState DEF Tiled
<1>16. ReadersFollow
  BY InitialState DEF ReadersFollow
<1> QED
  BY <1>1, <1>2, <1>4, <1>5, <1>6, <1>7, <1>8, <1>9, <1>10, <1>12, <1>14, <1>15, <1>16
     DEF IInv, InUseInv

(* The inductive invariant holds throughout: for any number of writers,     *)
(* readers and blocks, in any interleaving of pushFunctorEx,                *)
(* tryCallAndPopFunctorEx and release, with malloc failing anywhere.        *)
THEOREM Invariant == Spec => []IInv
  BY InitIsInvariant, InvariantIsKept, PTL DEF Spec

------------------------------------------------------------------------------
(* What the invariant says, as the runs state it. *)
LEMMA PinnedFits ==
  ASSUME IInv, NEW b \in Blocks
  PROVE  blk[b].ReadShared \in 0..Cardinality(Readers)
<1>1. Pinned(b) \subseteq Readers
  BY DEF Pinned
<1>2. IsFiniteSet(Pinned(b)) /\ Cardinality(Pinned(b)) <= Cardinality(Readers)
  BY <1>1, ThreadsAssumption, FS_Subset
<1>3. Cardinality(Pinned(b)) \in Nat /\ Cardinality(Readers) \in Nat
  BY <1>2, ThreadsAssumption, FS_CardinalityType
<1> QED
  BY <1>2, <1>3 DEF IInv, PinsCounted

LEMMA TypeOKHolds == IInv => TypeOK
<1> SUFFICES ASSUME IInv PROVE TypeOK
  OBVIOUS
<1>1. Types
  BY DEF IInv
<1>2. Swap!TypeOK
  BY DEF IInv, SwapLocks, Swap!TypeOK, Threads, AlonePoints, ClaimPoints
<1>3. Del!TypeOK
  BY DEF IInv, DelLocks, Del!TypeOK, Threads
<1>4. \A b \in Blocks : blk[b].NbObjects \in 0..Capacity
  BY LiveIsFinite DEF IInv, ObjectsCounted
<1>5. \A b \in Blocks :
        /\ blk[b].NextBlock \in Blocks \union {Null}
        /\ blk[b].ReadIdx \in StartIdx..BlockLimit
        /\ \A i \in Offsets : blk[b].place[i].ready \in BOOLEAN
                              /\ blk[b].place[i].functor \in Functors \union {Null}
  BY <1>1, Fields
<1>6. \A b \in Blocks : blk[b].ReadShared \in 0..Cardinality(Readers)
  BY PinnedFits
<1>7. released \in BOOLEAN
  BY <1>1 DEF Types
<1> QED
  BY <1>1, <1>2, <1>3, <1>4, <1>5, <1>6, <1>7, Zenon DEF TypeOK, Types

(* Who owns a block. *)
LEMMA OwnersAre ==
  \A o : o \in Owners <=>
    \/ o = <<"chain", Null>> \/ o = <<"spareA", Null>> \/ o = <<"spareB", Null>>
    \/ o = <<"retired", Null>>
    \/ \E w \in Writers : o = <<"writer", w>>
    \/ \E r \in Readers : o = <<"reader", r>>
<1>1. \A o : o \in {"chain", "spareA", "spareB", "retired"} \X {Null} <=>
        \/ o = <<"chain", Null>> \/ o = <<"spareA", Null>> \/ o = <<"spareB", Null>>
        \/ o = <<"retired", Null>>
  OBVIOUS
<1>2. \A o : o \in {"writer"} \X Writers <=> \E w \in Writers : o = <<"writer", w>>
  OBVIOUS
<1>3. \A o : o \in {"reader"} \X Readers <=> \E r \in Readers : o = <<"reader", r>>
  OBVIOUS
<1> QED
  BY <1>1, <1>2, <1>3 DEF Owners

LEMMA OwnedIs ==
  ASSUME NEW b, b # Null
  PROVE  /\ b \in Owned(Chain)[<<"chain", Null>>] <=> b \in Chain
         /\ b \in Owned(Chain)[<<"spareA", Null>>] <=> b = SpareBlockA
         /\ b \in Owned(Chain)[<<"spareB", Null>>] <=> b = SpareBlockB
         /\ b \in Owned(Chain)[<<"retired", Null>>] <=> b \in Retired(Chain)
         /\ \A w \in Writers : b \in Owned(Chain)[<<"writer", w>>] <=> b = wr[w].alloc
         /\ \A r \in Readers : b \in Owned(Chain)[<<"reader", r>>] <=> b = rd[r].old
<1> DEFINE retired == Retired(Chain)
           chain == Chain
<1>1. /\ <<"chain", Null>> \in Owners /\ <<"spareA", Null>> \in Owners
      /\ <<"spareB", Null>> \in Owners /\ <<"retired", Null>> \in Owners
      /\ \A w \in Writers : <<"writer", w>> \in Owners
      /\ \A r \in Readers : <<"reader", r>> \in Owners
  BY OwnersAre
<1>2. Owned(Chain) =
        [o \in Owners |->
           CASE o[1] = "chain"   -> chain
             [] o[1] = "spareA"  -> {SpareBlockA} \ {Null}
             [] o[1] = "spareB"  -> {SpareBlockB} \ {Null}
             [] o[1] = "retired" -> retired
             [] o[1] = "writer"  -> {wr[o[2]].alloc} \ {Null}
             [] o[1] = "reader"  -> {rd[o[2]].old} \ {Null}]
  BY DEF Owned
<1> HIDE DEF retired, chain
<1>3. Owned(Chain)[<<"chain", Null>>] = chain
  BY <1>1, <1>2
<1>4. Owned(Chain)[<<"spareA", Null>>] = {SpareBlockA} \ {Null}
  BY <1>1, <1>2
<1>5. Owned(Chain)[<<"spareB", Null>>] = {SpareBlockB} \ {Null}
  BY <1>1, <1>2
<1>6. Owned(Chain)[<<"retired", Null>>] = retired
  BY <1>1, <1>2
<1>7. \A w \in Writers : Owned(Chain)[<<"writer", w>>] = {wr[w].alloc} \ {Null}
  BY <1>1, <1>2, Zenon
<1>8. \A r \in Readers : Owned(Chain)[<<"reader", r>>] = {rd[r].old} \ {Null}
  BY <1>1, <1>2, Zenon
<1> QED
  BY <1>3, <1>4, <1>5, <1>6, <1>7, <1>8 DEF retired, chain

OwnersOf(b) == { o \in Owners : b \in Owned(Chain)[o] }

LEMMA OwnersOfAre ==
  ASSUME NEW b, b # Null
  PROVE  \A o : o \in OwnersOf(b) <=>
           \/ o = <<"chain", Null>> /\ b \in Chain
           \/ o = <<"spareA", Null>> /\ b = SpareBlockA
           \/ o = <<"spareB", Null>> /\ b = SpareBlockB
           \/ o = <<"retired", Null>> /\ b \in Retired(Chain)
           \/ \E w \in Writers : o = <<"writer", w>> /\ b = wr[w].alloc
           \/ \E r \in Readers : o = <<"reader", r>> /\ b = rd[r].old
  BY OwnersAre, OwnedIs DEF OwnersOf

LEMMA OneOwnerHolds == IInv => EveryBlockHasOneOwner
<1> SUFFICES ASSUME IInv, ~released, NEW b \in Blocks
             PROVE  Cardinality(OwnersOf(b)) = IF b \in heap THEN 1 ELSE 0
  <2>1. DOMAIN Owned(Chain) = Owners
    BY DEF Owned
  <2> QED
    BY <2>1 DEF EveryBlockHasOneOwner, OwnersOf
<1>1. OneOwner /\ b # Null
  BY NullAssumption DEF IInv, InUseInv
<1>2. Chain \subseteq Used /\ Retired(Chain) \subseteq Used /\ Chain \intersect Retired(Chain) = {}
  BY DEF Used, Retired
<1>3. CASE b \notin heap
  <2>1. \A o : o \notin OwnersOf(b)
    BY <1>1, <1>2, <1>3, OwnersOfAre DEF OneOwner
  <2> QED
    BY <1>3, <2>1, FS_EmptySet
<1>4. CASE b \in heap
  <2>1. Cardinality(OwnersOf(b)) = 1
    <3>1. CASE b \in Chain
      <4>1. \A o : o \in OwnersOf(b) <=> o = <<"chain", Null>>
        BY <1>1, <1>2, <3>1, OwnersOfAre DEF OneOwner
      <4>2. OwnersOf(b) = {<<"chain", Null>>}
        BY <4>1
      <4> QED
        BY <4>2, FS_Singleton
    <3>2. CASE b \in Retired(Chain)
      <4>1. \A o : o \in OwnersOf(b) <=> o = <<"retired", Null>>
        BY <1>1, <1>2, <3>2, OwnersOfAre DEF OneOwner
      <4>2. OwnersOf(b) = {<<"retired", Null>>}
        BY <4>1
      <4> QED
        BY <4>2, FS_Singleton
    <3>3. CASE b = SpareBlockA
      <4>1. \A o : o \in OwnersOf(b) <=> o = <<"spareA", Null>>
        BY <1>1, <1>2, <3>3, OwnersOfAre DEF OneOwner
      <4>2. OwnersOf(b) = {<<"spareA", Null>>}
        BY <4>1
      <4> QED
        BY <4>2, FS_Singleton
    <3>4. CASE b = SpareBlockB
      <4>1. \A o : o \in OwnersOf(b) <=> o = <<"spareB", Null>>
        BY <1>1, <1>2, <3>4, OwnersOfAre DEF OneOwner
      <4>2. OwnersOf(b) = {<<"spareB", Null>>}
        BY <4>1
      <4> QED
        BY <4>2, FS_Singleton
    <3>5. ASSUME NEW w \in Writers, b = wr[w].alloc PROVE Cardinality(OwnersOf(b)) = 1
      <4>1. \A o : o \in OwnersOf(b) <=> o = <<"writer", w>>
        BY <1>1, <1>2, <3>5, OwnersOfAre DEF OneOwner
      <4>2. OwnersOf(b) = {<<"writer", w>>}
        BY <4>1
      <4> QED
        BY <4>2, FS_Singleton
    <3>6. ASSUME NEW r \in Readers, b = rd[r].old PROVE Cardinality(OwnersOf(b)) = 1
      <4>1. \A o : o \in OwnersOf(b) <=> o = <<"reader", r>>
        BY <1>1, <1>2, <3>6, OwnersOfAre DEF OneOwner
      <4>2. OwnersOf(b) = {<<"reader", r>>}
        BY <4>1
      <4> QED
        BY <4>2, FS_Singleton
    <3> QED
      BY <1>1, <1>4, <3>1, <3>2, <3>3, <3>4, <3>5, <3>6 DEF OneOwner, Used
  <2> QED
    BY <1>4, <2>1
<1> QED
  BY <1>3, <1>4

LEMMA PlacesHold == IInv => PlacesAreExclusive
<1> SUFFICES ASSUME IInv PROVE PlacesAreExclusive
  OBVIOUS
<1>1. \A w \in Writing : /\ w \in Writers /\ wr[w].pc \in PlacedPoints
                         /\ wr[w].block = WriteBlock /\ wr[w].size \in 1..Capacity
                         /\ Start(w) \in Int /\ Start(w) \in Offsets
                         /\ Start(w) + wr[w].size <= BlockLimit
  BY WritingIs, PlacesFit
<1>2. ASSUME NEW w \in Writing PROVE PlaceOf(w) \subseteq Offsets
  <2>1. PlaceOf(w) = Start(w)..(Start(w) + wr[w].size - 1)
    BY DEF PlaceOf, Start
  <2> QED
    BY <1>1, <2>1, Numbers
<1>3. ASSUME NEW w \in Writing, NEW i \in Offsets, blk[wr[w].block].place[i].ready
      PROVE  \/ i + blk[wr[w].block].place[i].functor.size <= Mask(wr[w].idx)
             \/ i >= Mask(wr[w].idx) + wr[w].size
  <2>1. i \in ReadyAt(WriteBlock) /\ i \in Int
    BY <1>1, <1>3, Numbers DEF ReadyAt
  <2>2. i + Size(WriteBlock, i) <= Start(w) \/ Start(w) + wr[w].size <= i
    BY <2>1 DEF IInv, WritingApart
  <2>3. wr[w].size \in Int /\ Start(w) \in Int /\ wr[w].block = WriteBlock
    BY <1>1, Numbers
  <2> QED
    BY <2>1, <2>2, <2>3 DEF Size, Start
<1>4. ASSUME NEW v \in Writing, NEW w \in Writing, v # w
      PROVE  PlaceOf(v) \intersect PlaceOf(w) = {}
  <2>1. Start(v) + wr[v].size <= Start(w) \/ Start(w) + wr[w].size <= Start(v)
    BY <1>4 DEF IInv, WritingApart
  <2>2. /\ PlaceOf(v) = Start(v)..(Start(v) + wr[v].size - 1)
        /\ PlaceOf(w) = Start(w)..(Start(w) + wr[w].size - 1)
    BY DEF PlaceOf, Start
  <2>3. /\ Start(v) \in Int /\ Start(w) \in Int
        /\ wr[v].size \in Int /\ wr[w].size \in Int
    BY <1>1, Numbers
  <2> QED
    BY <2>1, <2>2, <2>3
<1> QED
  BY <1>2, <1>3, <1>4 DEF PlacesAreExclusive

LEMMA AppendsHold == IInv => AppendsAgree
<1> SUFFICES ASSUME IInv, NEW w \in Writers
             PROVE  /\ wr[w].pc \in {"drain", "appendBlock"} => blk[wr[w].alloc] = WipedBlock
                    /\ wr[w].pc = "appendBlock" =>
                         /\ wr[w].block = WriteBlock
                         /\ blk[WriteBlock].NextBlock = Null
                         /\ RoundUp(wr[w].idx) = RoundUp(PreWriteIdx)
  BY DEF AppendsAgree
<1>1. wr[w].pc # "idle" => ~released
  BY DEF IInv, ReleasedIsIdle
<1>2. ASSUME wr[w].pc \in {"drain", "appendBlock"} PROVE blk[wr[w].alloc] = WipedBlock
  <2>1. wr[w].alloc # Null /\ ~released
    BY <1>1, <1>2 DEF IInv, WriterLocals
  <2> QED
    BY <2>1 DEF IInv, InUseInv, SparesAreWiped
<1>3. ASSUME wr[w].pc = "appendBlock"
      PROVE  /\ wr[w].block = WriteBlock
             /\ blk[WriteBlock].NextBlock = Null
             /\ RoundUp(wr[w].idx) = RoundUp(PreWriteIdx)
  <2>1. /\ wr[w].block = WriteBlock /\ Mask(wr[w].idx) >= StartIdx
        /\ wr[w].idx - Mask(wr[w].idx) = PreWriteIdx - Mask(PreWriteIdx)
        /\ Mask(PreWriteIdx) >= StartIdx
    BY <1>3 DEF IInv, WriterView, LoadedPoints
  <2>2. blk[WriteBlock].NextBlock = Null
    BY <1>1, <1>3 DEF IInv, InUseInv, ChainOK
  <2>3. wr[w].idx \in Nat /\ PreWriteIdx \in Nat
    BY Fields DEF IInv, Types
  <2>4. /\ RoundUp(wr[w].idx) = wr[w].idx - Mask(wr[w].idx) + BlockSize
        /\ RoundUp(PreWriteIdx) = PreWriteIdx - Mask(PreWriteIdx) + BlockSize
    BY <2>1, <2>3, RoundUpAdds
  <2> QED
    BY <2>1, <2>2, <2>4
<1> QED
  BY <1>2, <1>3

LEMMA PinsHold == IInv => PinsProtect
<1> SUFFICES ASSUME IInv PROVE PinsProtect
  OBVIOUS
<1>1. \A b \in heap : blk[b].ReadShared = Cardinality(Pinned(b))
  BY DEF IInv, Types, PinsCounted
<1>2. \A r \in Readers : rd[r].pc = "pin" => rd[r].block = ReadBlock
  BY DEF IInv, ReaderLocals
<1>3. ASSUME NEW w \in Writing PROVE wr[w].block = WriteBlock /\ WriteBlock \in Chain
  <2>1. w \in Writers /\ wr[w].pc \in PlacedPoints /\ wr[w].pc # "idle"
    BY WritingIs DEF PlacedPoints
  <2>2. ~released
    BY <2>1 DEF IInv, ReleasedIsIdle
  <2> QED
    BY <2>1, <2>2, PlacesFit DEF IInv, InUseInv, ChainOK
<1> QED
  BY <1>1, <1>2, <1>3 DEF PinsProtect

LEMMA RecycledHolds == IInv => RecycledIsUsedUp
<1> SUFFICES ASSUME IInv, NEW r \in Readers, rd[r].old # Null
             PROVE  LET b == rd[r].old
                    IN blk[b].NbObjects = 0 /\ Unread(b) = {} /\ blk[b].ReadShared = 0
  BY DEF RecycledIsUsedUp
<1> DEFINE b == rd[r].old
<1>1. ~released /\ b \in Blocks
  <2>1. rd[r].pc # "idle"
    BY DEF IInv, ReaderLocals
  <2> QED
    BY <2>1, Fields DEF IInv, ReleasedIsIdle
<1>2. Unread(b) = {}
  BY <1>1 DEF IInv, InUseInv, UsedUp
<1>3. b # WriteBlock /\ \A q \in Readers : ~InBlock(q, b)
  BY <1>1, UsedBlocks
<1>4. Pinned(b) = {} /\ \A q : q \notin Calling(b)
  BY <1>3 DEF Pinned, InBlock, Calling, PinnedAt
<1>5. \A w : w \notin Committing(b)
  BY <1>1, <1>3, CommittingIs
<1>6. Live(b) = {}
  BY <1>2, <1>4, <1>5, LiveIs
<1> QED
  BY <1>1, <1>2, <1>4, <1>6, FS_EmptySet DEF IInv, PinsCounted, ObjectsCounted

(* Release frees every block there is. *)
AllIsFreed == released => heap = {}

LEMMA ReleaseFrees ==
  ASSUME IInv, AllIsFreed, [Next]_vars
  PROVE  AllIsFreed'
<1>1. CASE Release
  <2>1. /\ ~released
        /\ \A w \in Writers : wr[w].pc = "idle"
        /\ \A r \in Readers : rd[r].pc = "idle"
        /\ heap' = heap \ (Chain \union {SpareBlockA, SpareBlockB})
    BY <1>1 DEF Release
  <2>2. /\ \A w \in Writers : wr[w].alloc = Null
        /\ \A r \in Readers : rd[r].old = Null
    BY <2>1 DEF IInv, WriterLocals, ReaderLocals
  <2>3. Used = Chain
    BY <2>1 DEF Used, Retired, PinnedAt
  <2>4. heap \subseteq Blocks /\ Null \notin heap
    BY NullAssumption DEF IInv, Types
  <2>5. \A b \in heap : b \in Chain \/ b = SpareBlockA \/ b = SpareBlockB
    BY <2>1, <2>2, <2>3, <2>4 DEF IInv, InUseInv, OneOwner
  <2>6. heap' = {}
    BY <2>1, <2>5
  <2> QED
    BY <2>6 DEF AllIsFreed
<1>2. CASE Over \/ UNCHANGED vars
  BY <1>2 DEF Over, vars, memory, AllIsFreed
<1>3. ASSUME NEW w \in Writers, Push(w) \/ WriterStep(w) PROVE AllIsFreed'
  BY <1>3, WriterFrames DEF IInv, OnlyWriter, AllIsFreed
<1>4. ASSUME NEW r \in Readers, Pop(r) \/ ReaderStep(r) PROVE AllIsFreed'
  BY <1>4, ReaderFrames DEF IInv, OnlyReader, AllIsFreed
<1> QED
  BY <1>1, <1>2, <1>3, <1>4 DEF Next
------------------------------------------------------------------------------
(* Every word of the queue has its type: in particular no counter of a      *)
(* block leaves its range, however many threads use it at once.             *)
THEOREM TypeIsCorrect == Spec => []TypeOK
  BY Invariant, TypeOKHolds, PTL

(* No block is leaked, freed or handed out while a thread can reach it: at  *)
(* every step of pushes, pops, recycling and failing mallocs, an allocated  *)
(* block has exactly one owner and a freed one has none.                    *)
THEOREM BlocksHaveOneOwner == Spec => []EveryBlockHasOneOwner
  BY Invariant, OneOwnerHolds, PTL

(* Two writers never fill overlapping places, nor one that holds a functor, *)
(* nor one that sticks out of the block (asserts 459 and 468).              *)
THEOREM WritersAreExclusive == Spec => []PlacesAreExclusive
  BY Invariant, PlacesHold, PTL

(* An appended block was wiped, is linked in behind the last block, and     *)
(* begins at the same index whatever PreWriteIdx its writer remembers       *)
(* (asserts 379-382, 389, 392, 403).                                        *)
THEOREM AppendsAlwaysAgree == Spec => []AppendsAgree
  BY Invariant, AppendsHold, PTL

(* ReadShared counts the readers in a block, a reader about to enter a      *)
(* block cannot be overtaken by its recycling, and a writer fills a block   *)
(* of the chain.                                                            *)
THEOREM PinsAlwaysProtect == Spec => []PinsProtect
  BY Invariant, PinsHold, PTL

(* A block is recycled when every functor in it was taken, called and       *)
(* destroyed, and nobody is in it (asserts 541-548, 614-616).               *)
THEOREM OnlyUsedUpIsRecycled == Spec => []RecycledIsUsedUp
  BY Invariant, RecycledHolds, PTL

(* release frees every block, wherever the pops and pushes before it left   *)
(* the chain and the spares (191-233).                                      *)
THEOREM ReleaseFreesAllBlocks == Spec => [](released => heap = {})
<1>1. Init => AllIsFreed
  BY InitialParts DEF AllIsFreed
<1>2. IInv /\ AllIsFreed /\ [Next]_vars => AllIsFreed'
  BY ReleaseFrees
<1>3. AllIsFreed => (released => heap = {})
  BY DEF AllIsFreed
<1> QED
  BY <1>1, <1>2, <1>3, Invariant, PTL DEF Spec
=============================================================================
