----------------------- MODULE FunctorQueueFifoProofs -----------------------
(***************************************************************************)
(* FunctorQueue implements FunctorFifo, for any number of writers, readers *)
(* and blocks, any block size and functor sizes: functors are taken in the *)
(* order in which their places were reserved, across blocks that are       *)
(* appended, left and recycled.                                            *)
(***************************************************************************)
EXTENDS FunctorQueueProofs, SequenceTheorems

Ids == Writers \X (1..MaxPush)

(* A place that holds a push: its functor is ready and not taken, or its    *)
(* writer is still filling it.                                              *)
Committed(b, i, id) == i \in Unread(b) /\ Id(blk[b].place[i].functor) = id
Reserved(b, i, id) == b = WriteBlock /\ \E w \in Writing : i = Start(w) /\ id = <<w, wr[w].nr>>
Holds(b, i, id) == Committed(b, i, id) \/ Reserved(b, i, id)

(* The blocks of the chain are numbered from ReadBlock to WriteBlock.       *)
Ranked(rank) ==
  /\ \A b, c \in Chain : rank[b] = rank[c] => b = c
  /\ \A b \in Chain : rank[ReadBlock] <= rank[b] /\ rank[b] <= rank[WriteBlock]
  /\ \A b \in Chain : blk[b].NextBlock # Null => rank[blk[b].NextBlock] = rank[b] + 1

(* Each push in fifo has one place, and no other push has one.              *)
Filed(block, offset) ==
  \A b \in Blocks, i \in Offsets, id \in Ids :
    Holds(b, i, id) <=> id \in Range(fifo) /\ block[id] = b /\ offset[id] = i

Before(rank, b, i, c, j) == rank[b] < rank[c] \/ (b = c /\ i < j)

(* fifo is in the order of the places. *)
Sorted(rank, block, offset) ==
  \A j, k \in 1..Len(fifo) : j < k =>
    Before(rank, block[fifo[j]], offset[fifo[j]], block[fifo[k]], offset[fifo[k]])

InOrder ==
  \E rank \in [Blocks -> Int], block \in [Ids -> Blocks], offset \in [Ids -> Offsets] :
    Ranked(rank) /\ Filed(block, offset) /\ Sorted(rank, block, offset)

(* A writer that has not reserved its place yet is not in fifo. *)
Unreserved ==
  { "lockShared", "loadIdx", "checkFit", "tryPartialLock", "backOff", "compareExchange",
    "dropShare", "takeSpareA", "takeSpareB", "malloc", "drain", "appendBlock" }

PushesAreOld ==
  \A id \in Range(fifo) :
    /\ id[2] <= wr[id[1]].nr
    /\ wr[id[1]].pc \in Unreserved => id[2] < wr[id[1]].nr

(* A writer commits its own functor, and a reader has one while it calls.   *)
CommitsOwn ==
  \A w \in Writers : wr[w].pc = "commit" =>
    Id(blk[WriteBlock].place[Start(w)].functor) = <<w, wr[w].nr>>

CallsTaken == \A r \in Readers : rd[r].functor # Null <=> rd[r].pc = "call"

FifoInv ==
  /\ fifo \in Seq(Ids)
  /\ PushesAreOld /\ CommitsOwn /\ CallsTaken
  /\ ~released => InOrder
  /\ released => fifo = <<>>

------------------------------------------------------------------------------
(* Sequences without repetitions. *)
LEMMA RangeIs ==
  ASSUME NEW S, NEW s \in Seq(S)
  PROVE  /\ Range(s) \subseteq S
         /\ \A x : x \in Range(s) <=> \E k \in 1..Len(s) : s[k] = x
BY DEF Range

LEMMA RangeAppend ==
  ASSUME NEW S, NEW s \in Seq(S), NEW x \in S
  PROVE  /\ Append(s, x) \in Seq(S)
         /\ \A y : y \in Range(Append(s, x)) <=> y \in Range(s) \/ y = x
         /\ Len(Append(s, x)) = Len(s) + 1
         /\ \A k \in 1..Len(s) : Append(s, x)[k] = s[k]
         /\ Append(s, x)[Len(s) + 1] = x
<1>1. /\ Append(s, x) \in Seq(S) /\ Len(Append(s, x)) = Len(s) + 1
      /\ \A k \in 1..Len(s) : Append(s, x)[k] = s[k]
      /\ Append(s, x)[Len(s) + 1] = x
      /\ Len(s) \in Nat
  OBVIOUS
<1>2. \A y : y \in Range(Append(s, x)) <=> \E k \in 1..(Len(s) + 1) : Append(s, x)[k] = y
  <2> DEFINE t == Append(s, x)
  <2>1. t \in Seq(S) /\ Len(t) = Len(s) + 1
    BY <1>1
  <2> HIDE DEF t
  <2>2. \A y : y \in Range(t) <=> \E k \in 1..(Len(s) + 1) : t[k] = y
    BY <2>1, RangeIs
  <2> QED
    BY <2>2 DEF t
<1>3. \A y : y \in Range(s) <=> \E k \in 1..Len(s) : s[k] = y
  BY RangeIs
<1>4. ASSUME NEW y PROVE y \in Range(Append(s, x)) <=> y \in Range(s) \/ y = x
  <2>1. ASSUME y \in Range(Append(s, x)), y # x PROVE y \in Range(s)
    <3>1. PICK k \in 1..(Len(s) + 1) : Append(s, x)[k] = y
      BY <1>2, <2>1
    <3>2. k \in 1..Len(s)
      BY <1>1, <2>1, <3>1
    <3> QED
      BY <1>1, <1>3, <3>1, <3>2
  <2>2. ASSUME y \in Range(s) PROVE y \in Range(Append(s, x))
    <3>1. PICK k \in 1..Len(s) : s[k] = y
      BY <1>3, <2>2
    <3>2. k \in 1..(Len(s) + 1) /\ Append(s, x)[k] = y
      BY <1>1, <3>1
    <3> QED
      BY <1>2, <3>2
  <2>3. x \in Range(Append(s, x))
    <3>1. Len(s) + 1 \in 1..(Len(s) + 1)
      BY <1>1
    <3> QED
      BY <1>1, <1>2, <3>1
  <2> QED
    BY <2>1, <2>2, <2>3
<1> QED
  BY <1>1, <1>4

LEMMA RangeTail ==
  ASSUME NEW S, NEW s \in Seq(S), s # <<>>,
         \A j, k \in 1..Len(s) : j < k => s[j] # s[k]
  PROVE  /\ Tail(s) \in Seq(S) /\ Head(s) \in S /\ Head(s) = s[1]
         /\ \A y : y \in Range(Tail(s)) <=> y \in Range(s) /\ y # Head(s)
         /\ Len(Tail(s)) = Len(s) - 1
         /\ \A k \in 1..(Len(s) - 1) : Tail(s)[k] = s[k + 1]
<1>1. /\ Tail(s) \in Seq(S) /\ Head(s) \in S /\ Head(s) = s[1]
      /\ Len(Tail(s)) = Len(s) - 1 /\ Len(s) \in Nat \ {0}
      /\ \A k \in 1..(Len(s) - 1) : Tail(s)[k] = s[k + 1]
  OBVIOUS
<1>2. \A y : y \in Range(Tail(s)) <=> \E k \in 1..(Len(s) - 1) : Tail(s)[k] = y
  <2> DEFINE t == Tail(s)
  <2>1. t \in Seq(S) /\ Len(t) = Len(s) - 1
    BY <1>1
  <2> HIDE DEF t
  <2>2. \A y : y \in Range(t) <=> \E k \in 1..(Len(s) - 1) : t[k] = y
    BY <2>1, RangeIs
  <2> QED
    BY <2>2 DEF t
<1>3. \A y : y \in Range(s) <=> \E k \in 1..Len(s) : s[k] = y
  BY RangeIs
<1>4. ASSUME NEW y PROVE y \in Range(Tail(s)) <=> y \in Range(s) /\ y # Head(s)
  <2>1. ASSUME y \in Range(Tail(s)) PROVE y \in Range(s) /\ y # Head(s)
    <3>1. PICK k \in 1..(Len(s) - 1) : Tail(s)[k] = y
      BY <1>2, <2>1
    <3>2. k + 1 \in 1..Len(s) /\ 1 \in 1..Len(s) /\ 1 < k + 1 /\ s[k + 1] = y
      BY <1>1, <3>1
    <3> QED
      BY <1>1, <1>3, <3>2
  <2>2. ASSUME y \in Range(s), y # Head(s) PROVE y \in Range(Tail(s))
    <3>1. PICK k \in 1..Len(s) : s[k] = y
      BY <1>3, <2>2
    <3>2. k # 1
      BY <1>1, <2>2, <3>1
    <3>3. k - 1 \in 1..(Len(s) - 1) /\ s[(k - 1) + 1] = y
      BY <1>1, <3>1, <3>2
    <3> QED
      BY <1>1, <1>2, <3>3
  <2> QED
    BY <2>1, <2>2
<1> QED
  BY <1>1, <1>4

LEMMA NothingToSeq == SetToSeq({}) = <<>>
<1> DEFINE f == [k \in 1..0 |-> k]
<1>1. Cardinality({}) = 0
  BY FS_EmptySet
<1>2. \A g \in [1..0 -> {}] : g = <<>>
  OBVIOUS
<1>3. <<>> \in { g \in [1..0 -> {}] : IsInjective(g) }
  BY DEF IsInjective
<1> QED
  BY <1>1, <1>2, <1>3 DEF SetToSeq

------------------------------------------------------------------------------
(* What a step adds to fifo, or takes out of it. *)
LEMMA WritersAppend ==
  ASSUME Types, NEW w \in Writers, Push(w) \/ WriterStep(w)
  PROVE  /\ AppendBlock(w) \/ Reserve(w) => fifo' = Append(fifo, <<w, wr[w].nr>>)
         /\ ~AppendBlock(w) /\ ~Reserve(w) => fifo' = fifo
<1>1. wr \in [Writers -> WriterRecords] /\ wr[w] \in WriterRecords
  BY DEF Types
<1>2. CASE AppendBlock(w)
  BY <1>2, Zenon DEF AppendBlock
<1>3. ASSUME CompareExchangePreWriteIdx(w)
      PROVE  /\ Reserve(w) => fifo' = Append(fifo, <<w, wr[w].nr>>)
             /\ ~Reserve(w) => fifo' = fifo
  <2>1. CASE fifo' = fifo /\ WriterGoto(w, "compareExchange", "loadIdx")
    <3>1. wr'[w].pc = "loadIdx"
      BY <1>1, <2>1 DEF WriterGoto, WriterRecords
    <3> QED
      BY <2>1, <3>1 DEF Reserve
  <2>2. CASE /\ fifo' = Append(fifo, <<w, wr[w].nr>>)
             /\ WriterGoto(w, "compareExchange", "construct")
    <3>1. wr'[w].pc = "construct"
      BY <1>1, <2>2 DEF WriterGoto, WriterRecords
    <3> QED
      BY <1>3, <2>2, <3>1 DEF Reserve
  <2> QED
    BY <1>3, <2>1, <2>2, Zenon DEF CompareExchangePreWriteIdx
<1>4. ASSUME ~AppendBlock(w), ~CompareExchangePreWriteIdx(w) PROVE fifo' = fifo
  BY <1>4, Zenon DEF WriterStep, Push, WriterLockShared, LoadPreWriteIdx, CheckFit,
     TryPartialLock, BackOff, DropShare, TakeSpareA, TakeSpareB, MallocBlock, Drain, Downgrade,
     Construct, Commit, WriterUnlockShared, Refill, RefillB, RefillA
<1> QED
  BY <1>2, <1>3, <1>4, Zenon DEF Reserve

LEMMA ReadersTake ==
  ASSUME Types, NEW r \in Readers, Pop(r) \/ ReaderStep(r)
  PROVE  /\ Take(r) => fifo' = Tail(fifo)
         /\ ~Take(r) => fifo' = fifo
<1>1. rd \in [Readers -> ReaderRecords] /\ rd[r] \in ReaderRecords
  BY DEF Types
<1>2. ASSUME CompareExchangeReadIdx(r)
      PROVE  /\ Take(r) => fifo' = Tail(fifo)
             /\ ~Take(r) => fifo' = fifo
  <2>1. CASE /\ fifo' = fifo
             /\ ReaderIn(r, "compareExchange",
                         [rd[r] EXCEPT !.idx = blk[rd[r].block].ReadIdx, !.pc = "checkReady"])
    <3>1. rd'[r].pc = "checkReady"
      BY <1>1, <2>1 DEF ReaderIn, ReaderRecords
    <3> QED
      BY <2>1, <3>1 DEF Take
  <2>2. CASE /\ fifo' = Tail(fifo)
             /\ ReaderIn(r, "compareExchange",
                         [rd[r] EXCEPT !.functor = blk[rd[r].block].place[rd[r].idx].functor,
                                       !.pc = "call"])
    <3>1. rd'[r].pc = "call"
      BY <1>1, <2>2 DEF ReaderIn, ReaderRecords
    <3> QED
      BY <1>2, <2>2, <3>1 DEF Take
  <2> QED
    BY <1>2, <2>1, <2>2, Zenon DEF CompareExchangeReadIdx
<1>3. ASSUME ~CompareExchangeReadIdx(r) PROVE fifo' = fifo
  BY <1>3, Zenon DEF ReaderStep, Pop, EnterBlock, PinBlock, LoadReadIdx, CheckReady, CheckNext,
     RecheckReady, ReaderLock, ReaderLockDrain, Advance, AdvanceTo, RecycleB, RecycleA,
     CallAndDestroy, Leave, LeaveBlock
<1> QED
  BY <1>2, <1>3, Zenon DEF Take

(* A push has its place once its writer has come past the reservation.      *)
Aged(w) ==
  \/ /\ wr'[w].nr = wr[w].nr
     /\ wr'[w].pc \in Unreserved => wr[w].pc \in Unreserved
  \/ wr'[w].nr = wr[w].nr + 1

LEMMA WritersAge ==
  ASSUME Types, NEW w \in Writers, Push(w) \/ WriterStep(w)
  PROVE  /\ Aged(w)
         /\ AppendBlock(w) \/ Reserve(w) =>
              wr[w].pc \in Unreserved /\ wr'[w].pc \notin Unreserved /\ wr'[w].nr = wr[w].nr
<1>10. ASSUME Push(w) PROVE Aged(w)
  BY <1>10, PushIs DEF Aged, Unreserved, SamePush
<1>11. ASSUME WriterLockShared(w) PROVE Aged(w)
  BY <1>11, WriterLockSharedIs DEF Aged, Unreserved, SamePush
<1>12. ASSUME LoadPreWriteIdx(w) PROVE Aged(w)
  BY <1>12, LoadPreWriteIdxIs DEF Aged, Unreserved, SamePush
<1>13. ASSUME CheckFit(w) PROVE Aged(w)
  BY <1>13, CheckFitIs DEF Aged, Unreserved, SamePush
<1>14. ASSUME TryPartialLock(w) PROVE Aged(w)
  BY <1>14, TryPartialLockIs DEF Aged, Unreserved, SamePush
<1>15. ASSUME BackOff(w) PROVE Aged(w)
  BY <1>15, BackOffIs DEF Aged, Unreserved, SamePush
<1>16. ASSUME DropShare(w) PROVE Aged(w)
  BY <1>16, DropShareIs DEF Aged, Unreserved, SamePush
<1>17. ASSUME TakeSpareA(w) PROVE Aged(w)
  BY <1>17, TakeSpareAIs DEF Aged, Unreserved, SamePush
<1>18. ASSUME TakeSpareB(w) PROVE Aged(w)
  BY <1>18, TakeSpareBIs DEF Aged, Unreserved, SamePush
<1>19. ASSUME MallocBlock(w) PROVE Aged(w)
  BY <1>19, MallocBlockIs DEF Aged, Unreserved, SamePush
<1>20. ASSUME Drain(w) PROVE Aged(w)
  BY <1>20, DrainIs DEF Aged, Unreserved, SamePush
<1>21. ASSUME Downgrade(w) PROVE Aged(w)
  BY <1>21, DowngradeIs DEF Aged, Unreserved, SamePush
<1>22. ASSUME CompareExchangePreWriteIdx(w) PROVE Aged(w)
  BY <1>22, CompareExchangePreWriteIdxIs DEF Aged, Unreserved, SamePush
<1>23. ASSUME Construct(w) PROVE Aged(w)
  BY <1>23, ConstructIs DEF Aged, Unreserved, SamePush
<1>24. ASSUME Commit(w) PROVE Aged(w)
  BY <1>24, CommitIs DEF Aged, Unreserved, SamePush
<1>25. ASSUME WriterUnlockShared(w) PROVE Aged(w)
  BY <1>25, WriterUnlockSharedIs DEF Aged, Unreserved, SamePush
<1>26. ASSUME Refill(w) PROVE Aged(w)
  BY <1>26, RefillIs DEF Aged, Unreserved, SamePush
<1>27. ASSUME RefillB(w) PROVE Aged(w)
  BY <1>27, RefillBIs DEF Aged, Unreserved, SamePush
<1>28. ASSUME RefillA(w) PROVE Aged(w)
  BY <1>28, RefillAIs DEF Aged, Unreserved, SamePush
<1>29. ASSUME AppendBlock(w) PROVE Aged(w)
  BY <1>29, AppendBlockIs DEF Aged, Unreserved, SamePush
<1>40. AppendBlock(w) \/ Reserve(w) =>
         wr[w].pc \in Unreserved /\ wr'[w].pc \notin Unreserved /\ wr'[w].nr = wr[w].nr
  BY AppendBlockIs, CompareExchangePreWriteIdxIs DEF Reserve, Unreserved, SamePush
<1> QED
  BY <1>10, <1>11, <1>12, <1>13, <1>14, <1>15, <1>16, <1>17, <1>18, <1>19, <1>20, <1>21, <1>22, <1>23, <1>24, <1>25, <1>26, <1>27, <1>28, <1>29, <1>40 DEF WriterStep

LEMMA PushesGrowOld ==
  ASSUME IInv, FifoInv, NEW w \in Writers, Push(w) \/ WriterStep(w)
  PROVE  fifo' \in Seq(Ids) /\ PushesAreOld'
<1>1. Types /\ OnlyWriter(w) /\ Types'
  BY WriterFrames, TypesOfWriters DEF IInv
<1>2. Aged(w)
  BY <1>1, WritersAge
<1>3. ASSUME NEW v \in Writers
      PROVE  wr[v].nr \in Int /\ (v # w => wr'[v] = wr[v])
  BY <1>1, Fields, BoundsAssumption DEF OnlyWriter
<1>4. fifo \in Seq(Ids) /\ Range(fifo) \subseteq Ids
  BY RangeIs DEF FifoInv
<1>5. ASSUME NEW id \in Range(fifo)
      PROVE  /\ id[2] <= wr'[id[1]].nr
             /\ wr'[id[1]].pc \in Unreserved => id[2] < wr'[id[1]].nr
  <2>1. id[1] \in Writers /\ id[2] \in Int
    BY <1>4, BoundsAssumption DEF Ids
  <2>2. id[2] <= wr[id[1]].nr /\ (wr[id[1]].pc \in Unreserved => id[2] < wr[id[1]].nr)
    BY DEF FifoInv, PushesAreOld
  <2>3. CASE id[1] = w
    BY <1>2, <1>3, <2>1, <2>2, <2>3 DEF Aged
  <2>4. CASE id[1] # w
    BY <1>3, <2>1, <2>2, <2>4
  <2> QED
    BY <2>3, <2>4
<1>6. CASE AppendBlock(w) \/ Reserve(w)
  <2> DEFINE new == <<w, wr[w].nr>>
  <2>1. fifo' = Append(fifo, new) /\ wr'[w].pc \notin Unreserved /\ wr'[w].nr = wr[w].nr
    BY <1>1, <1>6, WritersAppend, WritersAge
  <2>2. new \in Ids
    <3>1. wr[w].pc # "idle"
      BY <1>1, <1>6, AppendBlockIs, CompareExchangePreWriteIdxIs DEF Reserve
    <3> QED
      BY <3>1 DEF IInv, WriterLocals, Ids
  <2>3. new[1] = w /\ new[2] = wr[w].nr
    OBVIOUS
  <2> HIDE DEF new
  <2>4. fifo' \in Seq(Ids) /\ \A y : y \in Range(fifo') <=> y \in Range(fifo) \/ y = new
    BY <1>4, <2>1, <2>2, RangeAppend
  <2>5. new[2] <= wr'[new[1]].nr /\ wr'[new[1]].pc \notin Unreserved
    BY <1>3, <2>1, <2>3
  <2> QED
    BY <1>5, <2>4, <2>5 DEF PushesAreOld
<1>7. CASE ~AppendBlock(w) /\ ~Reserve(w)
  <2>1. fifo' = fifo
    BY <1>1, <1>7, WritersAppend
  <2> QED
    BY <1>4, <1>5, <2>1 DEF PushesAreOld
<1> QED
  BY <1>6, <1>7

(* What a writer reserves is new. *)
LEMMA ReservedIsNew ==
  ASSUME IInv, FifoInv, NEW w \in Writers, AppendBlock(w) \/ Reserve(w)
  PROVE  <<w, wr[w].nr>> \in Ids /\ <<w, wr[w].nr>> \notin Range(fifo)
<1>1. Types
  BY DEF IInv
<1>2. wr[w].pc # "idle" /\ wr[w].pc \in Unreserved
  BY <1>1, AppendBlockIs, CompareExchangePreWriteIdxIs DEF Reserve, Unreserved
<1>3. wr[w].nr \in 1..MaxPush
  BY <1>2 DEF IInv, WriterLocals
<1>4. <<w, wr[w].nr>> \in Range(fifo) => wr[w].nr < wr[w].nr
  BY <1>2 DEF FifoInv, PushesAreOld
<1> QED
  BY <1>3, <1>4, BoundsAssumption DEF Ids

(* A reader holds a functor while it calls it. *)
LEMMA CallsTakenForReaders ==
  ASSUME IInv, CallsTaken, NEW r \in Readers, Pop(r) \/ ReaderStep(r)
  PROVE  /\ CallsTaken'
         /\ ~Take(r) /\ ~CallAndDestroy(r) => rd'[r].functor = rd[r].functor
<1>1. Types /\ OnlyReader(r)
  BY ReaderFrames DEF IInv
<1>2. rd[r].functor # Null <=> rd[r].pc = "call"
  BY DEF CallsTaken
<1> DEFINE Same == rd'[r].functor = rd[r].functor /\ rd'[r].pc # "call" /\ rd[r].pc # "call"
<1>10. ASSUME Pop(r) PROVE Same
  BY <1>1, <1>2, <1>10, PopIs DEF SameFunctor, IsRecycled
<1>11. ASSUME EnterBlock(r) PROVE Same
  BY <1>1, <1>2, <1>11, EnterBlockIs DEF SameFunctor, IsRecycled
<1>12. ASSUME PinBlock(r) PROVE Same
  BY <1>1, <1>2, <1>12, PinBlockIs DEF SameFunctor, IsRecycled
<1>13. ASSUME LoadReadIdx(r) PROVE Same
  BY <1>1, <1>2, <1>13, LoadReadIdxIs DEF SameFunctor, IsRecycled
<1>14. ASSUME CheckReady(r) PROVE Same
  BY <1>1, <1>2, <1>14, CheckReadyIs DEF SameFunctor, IsRecycled
<1>15. ASSUME CheckNext(r) PROVE Same
  BY <1>1, <1>2, <1>15, CheckNextIs DEF SameFunctor, IsRecycled
<1>16. ASSUME RecheckReady(r) PROVE Same
  BY <1>1, <1>2, <1>16, RecheckReadyIs DEF SameFunctor, IsRecycled
<1>17. ASSUME ReaderLock(r) PROVE Same
  BY <1>1, <1>2, <1>17, ReaderLockIs DEF SameFunctor, IsRecycled
<1>18. ASSUME ReaderLockDrain(r) PROVE Same
  BY <1>1, <1>2, <1>18, ReaderLockDrainIs DEF SameFunctor, IsRecycled
<1>19. ASSUME Advance(r) PROVE Same
  BY <1>1, <1>2, <1>19, AdvanceIs DEF SameFunctor, IsRecycled
<1>20. ASSUME RecycleB(r) PROVE Same
  BY <1>1, <1>2, <1>20, RecycleBIs DEF SameFunctor, IsRecycled
<1>21. ASSUME RecycleA(r) PROVE Same
  BY <1>1, <1>2, <1>21, RecycleAIs DEF SameFunctor, IsRecycled
<1>22. ASSUME Leave(r) PROVE Same
  BY <1>1, <1>2, <1>22, LeaveIs DEF SameFunctor, IsRecycled
<1>30. ASSUME CompareExchangeReadIdx(r), ~Take(r) PROVE Same
  BY <1>1, <1>2, <1>30, CompareExchangeReadIdxIs DEF SameFunctor, Take
<1>31. ASSUME Take(r) PROVE rd'[r].functor # Null /\ rd'[r].pc = "call"
  <2>1. rd'[r].pc = "call" /\ rd'[r].functor = blk[rd[r].block].place[rd[r].idx].functor
    BY <1>1, <1>31, CompareExchangeReadIdxIs DEF Take
  <2>2. blk[rd[r].block].place[rd[r].idx].functor \in Functors
    BY <1>31, TakeIs DEF IInv, ReadyApart
  <2> QED
    BY <2>1, <2>2, NamesAssumption
<1>32. ASSUME CallAndDestroy(r) PROVE rd'[r].functor = Null /\ rd'[r].pc # "call"
  BY <1>1, <1>32, CallAndDestroyIs
<1>33. CASE ~Take(r) /\ ~CallAndDestroy(r)
  <2>1. Same
    BY <1>10, <1>11, <1>12, <1>13, <1>14, <1>15, <1>16, <1>17, <1>18, <1>19, <1>20, <1>21, <1>22, <1>30, <1>33 DEF ReaderStep
  <2> QED
    BY <1>1, <1>2, <1>33, <2>1 DEF OnlyReader, CallsTaken
<1>34. CASE Take(r) \/ CallAndDestroy(r)
  BY <1>1, <1>31, <1>32, <1>34 DEF OnlyReader, CallsTaken
<1> QED
  BY <1>33, <1>34

------------------------------------------------------------------------------
(* The places after a step. *)
NextCommitted(b, i, id) == i \in NextUnread(b) /\ Id(blk'[b].place[i].functor) = id
NextReserved(b, i, id) ==
  b = WriteBlock' /\ \E w \in NextWriting : i = NextStart(w) /\ id = <<w, wr'[w].nr>>
NextHolds(b, i, id) == NextCommitted(b, i, id) \/ NextReserved(b, i, id)

LEMMA NextHoldsIs == \A b, i, id : Holds(b, i, id)' <=> NextHolds(b, i, id)
<1>1. \A b, i, id : Committed(b, i, id)' <=> NextCommitted(b, i, id)
  BY DEF Committed, NextCommitted, Unread, NextUnread, Id
<1>2. \A b, i, id : Reserved(b, i, id)' <=> NextReserved(b, i, id)
  BY DEF Reserved, NextReserved, Writing, NextWriting, PlacedPoints, Start, NextStart
<1> QED
  BY <1>1, <1>2 DEF Holds, NextHolds

(* A push has a place before and after a step that leaves fifo alone. *)
SameHolds ==
  \A b \in Blocks, i \in Offsets, id \in Ids : NextHolds(b, i, id) <=> Holds(b, i, id)

LEMMA FiledStays ==
  ASSUME NEW rank, NEW block, NEW offset,
         Filed(block, offset), Sorted(rank, block, offset), SameHolds, fifo' = fifo
  PROVE  Filed(block, offset)' /\ Sorted(rank, block, offset)'
<1>1. Filed(block, offset)'
  <2>1. \A b \in Blocks, i \in Offsets, id \in Ids :
          Holds(b, i, id)' <=> id \in Range(fifo) /\ block[id] = b /\ offset[id] = i
    BY NextHoldsIs DEF SameHolds, Filed
  <2> QED
    BY <2>1 DEF Filed, Range
<1>2. Sorted(rank, block, offset)'
  BY DEF Sorted, Before
<1> QED
  BY <1>1, <1>2

(* A new push goes behind those that have a place. *)
LEMMA FiledAppend ==
  ASSUME fifo \in Seq(Ids), NEW rank \in [Blocks -> Int], NEW next \in [Blocks -> Int],
         NEW block \in [Ids -> Blocks], NEW offset \in [Ids -> Offsets],
         Filed(block, offset), Sorted(rank, block, offset),
         NEW new \in Ids, new \notin Range(fifo), fifo' = Append(fifo, new),
         NEW B \in Blocks, NEW I \in Offsets,
         \A b \in Blocks, i \in Offsets, id \in Ids :
           NextHolds(b, i, id) <=> Holds(b, i, id) \/ (b = B /\ i = I /\ id = new),
         \A b \in Blocks, i \in Offsets, id \in Ids :
           Holds(b, i, id) => next[b] = rank[b] /\ Before(next, b, i, B, I)
  PROVE  \E k \in [Ids -> Blocks], o \in [Ids -> Offsets] :
           Filed(k, o)' /\ Sorted(next, k, o)'
<1> DEFINE k == [block EXCEPT ![new] = B]
           o == [offset EXCEPT ![new] = I]
<1>1. k \in [Ids -> Blocks] /\ o \in [Ids -> Offsets] /\ k[new] = B /\ o[new] = I
  OBVIOUS
<1>2. \A id \in Ids : id # new => k[id] = block[id] /\ o[id] = offset[id]
  OBVIOUS
<1> HIDE DEF k, o
<1>3. /\ fifo' \in Seq(Ids) /\ \A y : y \in Range(fifo') <=> y \in Range(fifo) \/ y = new
      /\ Len(fifo') = Len(fifo) + 1 /\ Len(fifo) \in Nat
      /\ \A j \in 1..Len(fifo) : fifo'[j] = fifo[j]
      /\ fifo'[Len(fifo) + 1] = new
  BY RangeAppend
<1>4. \A j \in 1..Len(fifo) : fifo[j] \in Range(fifo) /\ fifo[j] \in Ids /\ fifo[j] # new
  BY RangeIs
<1>5. Filed(k, o)'
  <2>1. ASSUME NEW b \in Blocks, NEW i \in Offsets, NEW id \in Ids
        PROVE  Holds(b, i, id)' <=> id \in Range(fifo') /\ k[id] = b /\ o[id] = i
    <3>1. Holds(b, i, id) <=> id \in Range(fifo) /\ block[id] = b /\ offset[id] = i
      BY DEF Filed
    <3>2. Holds(b, i, id)' <=> Holds(b, i, id) \/ (b = B /\ i = I /\ id = new)
      BY NextHoldsIs
    <3> QED
      BY <1>1, <1>2, <1>3, <3>1, <3>2
  <2> QED
    BY <2>1 DEF Filed, Range
<1>6. ASSUME NEW j \in 1..Len(fifo'), NEW l \in 1..Len(fifo'), j < l
      PROVE  Before(next, k[fifo'[j]], o[fifo'[j]], k[fifo'[l]], o[fifo'[l]])
  <2> DEFINE x == fifo[j]
  <2>1. j \in 1..Len(fifo) /\ fifo'[j] = x
    BY <1>3, <1>6
  <2>2. x \in Range(fifo) /\ x \in Ids /\ x # new
    BY <1>4, <2>1
  <2>3. block[x] \in Blocks /\ offset[x] \in Offsets /\ k[x] = block[x] /\ o[x] = offset[x]
    BY <1>2, <2>2
  <2>4. next[block[x]] = rank[block[x]] /\ Before(next, block[x], offset[x], B, I)
    BY <2>2, <2>3 DEF Filed
  <2> HIDE DEF x
  <2>5. CASE l = Len(fifo) + 1
    BY <1>1, <1>3, <2>1, <2>3, <2>4, <2>5
  <2>6. CASE l # Len(fifo) + 1
    <3> DEFINE y == fifo[l]
    <3>1. l \in 1..Len(fifo) /\ fifo'[l] = y
      BY <1>3, <2>6
    <3>2. y \in Range(fifo) /\ y \in Ids /\ y # new
      BY <1>4, <3>1
    <3>3. block[y] \in Blocks /\ offset[y] \in Offsets /\ k[y] = block[y] /\ o[y] = offset[y]
      BY <1>2, <3>2
    <3>4. next[block[y]] = rank[block[y]]
      BY <3>2, <3>3 DEF Filed
    <3>5. Before(rank, block[x], offset[x], block[y], offset[y])
      BY <1>6, <2>1, <3>1 DEF Sorted, x
    <3> HIDE DEF y
    <3> QED
      BY <2>1, <2>3, <2>4, <3>1, <3>3, <3>4, <3>5 DEF Before
  <2> QED
    BY <2>5, <2>6
<1>7. Sorted(next, k, o)'
  BY <1>6 DEF Sorted, Before
<1> QED
  BY <1>1, <1>5, <1>7

(* The push that is taken is the one whose place is before all others. *)
Removes(old) ==
  \A b \in Blocks, i \in Offsets, id \in Ids :
    NextHolds(b, i, id) <=> Holds(b, i, id) /\ id # old

IsFirst(rank, B, I, old) ==
  \A b \in Blocks, i \in Offsets, id \in Ids :
    Holds(b, i, id) /\ id # old => Before(rank, B, I, b, i)

LEMMA FiledTail ==
  ASSUME fifo \in Seq(Ids), NEW rank \in [Blocks -> Int],
         NEW block \in [Ids -> Blocks], NEW offset \in [Ids -> Offsets],
         Filed(block, offset), Sorted(rank, block, offset),
         NEW old \in Ids, fifo' = Tail(fifo),
         NEW B \in Blocks, NEW I \in Offsets, Holds(B, I, old),
         Removes(old), IsFirst(rank, B, I, old)
  PROVE  /\ fifo # <<>> /\ Head(fifo) = old /\ fifo' \in Seq(Ids)
         /\ \A y : y \in Range(fifo') <=> y \in Range(fifo) /\ y # old
         /\ Filed(block, offset)' /\ Sorted(rank, block, offset)'
<1>1. \A x : x \in Range(fifo) <=> \E j \in 1..Len(fifo) : fifo[j] = x
  BY RangeIs
<1>2. Len(fifo) \in Nat /\ \A j \in 1..Len(fifo) : fifo[j] \in Ids /\ fifo[j] \in Range(fifo)
  BY <1>1
<1>3. old \in Range(fifo) /\ block[old] = B /\ offset[old] = I
  BY DEF Filed
<1>4. Offsets \subseteq Int
  BY Numbers
<1>5. \A j, l \in 1..Len(fifo) : j < l => fifo[j] # fifo[l]
  <2> SUFFICES ASSUME NEW j \in 1..Len(fifo), NEW l \in 1..Len(fifo), j < l, fifo[j] = fifo[l]
               PROVE  FALSE
    OBVIOUS
  <2> DEFINE x == fifo[j]
  <2>1. Before(rank, block[x], offset[x], block[x], offset[x])
    BY DEF Sorted
  <2>2. block[x] \in Blocks /\ offset[x] \in Int /\ rank[block[x]] \in Int
    BY <1>2, <1>4
  <2> HIDE DEF x
  <2> QED
    BY <2>1, <2>2 DEF Before
<1>6. PICK j \in 1..Len(fifo) : fifo[j] = old
  BY <1>1, <1>3
<1>7. fifo # <<>> /\ 1 \in 1..Len(fifo)
  BY <1>2, <1>6
<1>8. fifo[1] = old
  <2> SUFFICES ASSUME fifo[1] # old PROVE FALSE
    OBVIOUS
  <2> DEFINE x == fifo[1]
  <2>1. x \in Ids /\ x \in Range(fifo) /\ x # old
    BY <1>2, <1>7
  <2>2. 1 < j
    BY <1>6, <1>7, <2>1
  <2>3. Before(rank, block[x], offset[x], B, I)
    BY <1>3, <1>6, <1>7, <2>2 DEF Sorted
  <2>4. block[x] \in Blocks /\ offset[x] \in Offsets
    BY <2>1
  <2>5. Holds(block[x], offset[x], x)
    BY <2>1, <2>4 DEF Filed
  <2>6. Before(rank, B, I, block[x], offset[x])
    BY <2>1, <2>4, <2>5 DEF IsFirst
  <2>7. offset[x] \in Int /\ I \in Int /\ rank[B] \in Int /\ rank[block[x]] \in Int
    BY <1>4, <2>4
  <2> HIDE DEF x
  <2> QED
    BY <2>3, <2>6, <2>7 DEF Before
<1>9. /\ Tail(fifo) \in Seq(Ids) /\ Head(fifo) = old
      /\ \A y : y \in Range(Tail(fifo)) <=> y \in Range(fifo) /\ y # old
      /\ Len(Tail(fifo)) = Len(fifo) - 1
      /\ \A l \in 1..(Len(fifo) - 1) : Tail(fifo)[l] = fifo[l + 1]
  BY <1>5, <1>7, <1>8, RangeTail
<1>10. /\ fifo' \in Seq(Ids)
       /\ \A y : y \in Range(fifo') <=> y \in Range(fifo) /\ y # old
       /\ Len(fifo') = Len(fifo) - 1
       /\ \A l \in 1..(Len(fifo) - 1) : fifo'[l] = fifo[l + 1]
  BY <1>9
<1>11. Filed(block, offset)'
  <2>1. ASSUME NEW b \in Blocks, NEW i \in Offsets, NEW id \in Ids
        PROVE  Holds(b, i, id)' <=> id \in Range(fifo') /\ block[id] = b /\ offset[id] = i
    <3>1. Holds(b, i, id) <=> id \in Range(fifo) /\ block[id] = b /\ offset[id] = i
      BY DEF Filed
    <3>2. Holds(b, i, id)' <=> Holds(b, i, id) /\ id # old
      BY NextHoldsIs DEF Removes
    <3> QED
      BY <1>10, <3>1, <3>2
  <2> QED
    BY <2>1 DEF Filed, Range
<1>12. ASSUME NEW m \in 1..Len(fifo'), NEW l \in 1..Len(fifo'), m < l
       PROVE  Before(rank, block[fifo'[m]], offset[fifo'[m]], block[fifo'[l]], offset[fifo'[l]])
  <2>1. /\ m + 1 \in 1..Len(fifo) /\ l + 1 \in 1..Len(fifo) /\ m + 1 < l + 1
        /\ fifo'[m] = fifo[m + 1] /\ fifo'[l] = fifo[l + 1]
    BY <1>2, <1>10, <1>12
  <2> QED
    BY <2>1 DEF Sorted
<1>13. Sorted(rank, block, offset)'
  BY <1>12 DEF Sorted, Before
<1> QED
  BY <1>7, <1>9, <1>10, <1>11, <1>13

------------------------------------------------------------------------------
(* Where the functors are: in the chain, behind ReadIdx, below PreWriteIdx. *)
LEMMA UnreadIsInChain ==
  ASSUME IInv, ~released, NEW b \in Blocks, Unread(b) # {}
  PROVE  b \in Chain
<1>1. Types /\ OneOwner /\ SparesAreWiped /\ UsedUp
  BY DEF IInv, InUseInv
<1>2. blk[b] # WipedBlock
  BY DEF Unread, WipedBlock, EmptyPlace
<1>3. b \in heap
  BY <1>1, <1>2 DEF SparesAreWiped
<1>4. b # Null
  BY NullAssumption
<1>5. b # SpareBlockA /\ b # SpareBlockB /\ \A w \in Writers : b # wr[w].alloc
  BY <1>1, <1>2, <1>4 DEF SparesAreWiped
<1>6. \A r \in Readers : b # rd[r].old
  BY <1>1, <1>4 DEF UsedUp
<1>7. b \in Used
  BY <1>1, <1>3, <1>5, <1>6 DEF OneOwner
<1> QED
  BY <1>1, <1>7 DEF Used, UsedUp

LEMMA HeldPlaces ==
  ASSUME IInv, ~released, NEW b \in Blocks, NEW i \in Offsets, NEW id, Holds(b, i, id)
  PROVE  /\ b \in Chain /\ blk[b].ReadIdx <= i
         /\ b = WriteBlock => i < Mask(PreWriteIdx)
         /\ Committed(b, i, id) => i \in ReadyAt(b)
         /\ Reserved(b, i, id) => i \notin ReadyAt(b)
<1>1. WriteBlock \in Chain /\ WriteBlock \in Blocks
  BY DEF IInv, InUseInv, ChainOK, Types
<1>2. PreWriteIdx \in Nat /\ Mask(PreWriteIdx) \in Int /\ i \in Int
  <2>1. PreWriteIdx \in Nat
    BY DEF IInv, Types
  <2>2. Mask(PreWriteIdx) \in 0..BlockLimit
    BY <2>1, MaskIs
  <2> QED
    BY <2>1, <2>2, Numbers
<1>3. CASE Committed(b, i, id)
  <2>1. i \in Unread(b) /\ i \in ReadyAt(b) /\ i >= blk[b].ReadIdx
    BY <1>3 DEF Committed, Unread, ReadyAt
  <2>2. b \in Chain
    BY <2>1, UnreadIsInChain
  <2>3. Size(b, i) \in 1..Capacity
    BY <2>1, ReadySizes
  <2>4. b = WriteBlock => i + Size(b, i) <= Mask(PreWriteIdx)
    BY <2>1 DEF IInv, ReadyApart
  <2>5. b = WriteBlock => i < Mask(PreWriteIdx)
    BY <1>2, <2>3, <2>4, Numbers
  <2>6. blk[b].ReadIdx \in Int
    BY Fields, Numbers DEF IInv
  <2>7. ~Reserved(b, i, id)
    BY <2>1, StartNotReady DEF Reserved
  <2> QED
    BY <1>2, <2>1, <2>2, <2>5, <2>6, <2>7
<1>4. CASE Reserved(b, i, id)
  <2>1. PICK w \in Writing : b = WriteBlock /\ i = Start(w)
    BY <1>4 DEF Reserved
  <2>2. i \notin ReadyAt(b) /\ blk[b].ReadIdx <= i
    BY <2>1, StartNotReady DEF IInv, WritingApart
  <2>3. wr[w].pc \in PlacedPoints /\ w \in Writers
    BY <2>1, WritingIs
  <2>4. wr[w].size \in 1..Capacity /\ Start(w) + wr[w].size <= Mask(PreWriteIdx)
    BY <2>3, PlacesFit
  <2>5. i < Mask(PreWriteIdx)
    BY <1>2, <2>1, <2>4, Numbers
  <2>6. ~Committed(b, i, id)
    BY <2>2 DEF Committed, Unread, ReadyAt
  <2> QED
    BY <1>1, <2>1, <2>2, <2>5, <2>6
<1> QED
  BY <1>3, <1>4 DEF Holds

(* A place held by one push is held by no other. *)
LEMMA OnePushAPlace ==
  ASSUME IInv, ~released, NEW b \in Blocks, NEW i \in Offsets, NEW x, NEW y,
         Holds(b, i, x), Holds(b, i, y)
  PROVE  x = y
<1>1. CASE Committed(b, i, x)
  <2>1. Committed(b, i, y)
    BY <1>1, HeldPlaces DEF Holds
  <2> QED
    BY <1>1, <2>1 DEF Committed
<1>2. CASE Reserved(b, i, x)
  <2>1. Reserved(b, i, y)
    BY <1>2, HeldPlaces DEF Holds
  <2> QED
    BY <1>2, <2>1, StartsApart DEF Reserved
<1> QED
  BY <1>1, <1>2 DEF Holds

------------------------------------------------------------------------------
(* The numbers of the blocks. *)
LEMMA RankedStays ==
  ASSUME NEW rank, Ranked(rank),
         Chain' = Chain, ReadBlock' = ReadBlock, WriteBlock' = WriteBlock,
         \A b \in Chain : blk'[b].NextBlock = blk[b].NextBlock
  PROVE  Ranked(rank)'
BY DEF Ranked

LEMMA RankedAfterAppend ==
  ASSUME IInv, ~released, Types', NEW w \in Writers, AppendBlock(w), OnlyWriter(w),
         NEW rank \in [Blocks -> Int], Ranked(rank)
  PROVE  \E next \in [Blocks -> Int] :
           /\ Ranked(next)'
           /\ \A b \in Chain : next[b] = rank[b]
           /\ next[wr[w].alloc] = rank[WriteBlock] + 1
<1> DEFINE new == wr[w].alloc
<1>1. /\ new \in Blocks /\ new \notin Chain /\ wr[w].block = WriteBlock
      /\ blk[new] = WipedBlock /\ Chain' = Chain \union {new}
  BY AppendBlockUses DEF Used
<1>2. /\ Chain \subseteq Blocks /\ ReadBlock \in Chain /\ WriteBlock \in Chain
      /\ \A b \in Chain : blk[b].NextBlock \in Chain \union {Null}
  BY ChainFacts DEF IInv, InUseInv, ChainOK
<1>3. PICK next \in [Blocks -> Int] :
        next[new] = rank[WriteBlock] + 1 /\ \A b \in Chain : next[b] = rank[b]
  <2> DEFINE n == rank[WriteBlock] + 1
             f == [rank EXCEPT ![new] = n]
  <2>1. n \in Int
    BY <1>2
  <2>2. f \in [Blocks -> Int]
    <3> HIDE DEF new, n
    <3> QED
      BY <2>1
  <2>3. f[new] = n /\ \A b \in Chain : f[b] = rank[b]
    <3> HIDE DEF n
    <3> QED
      BY <1>1, <1>2
  <2> HIDE DEF f, new
  <2> QED
    BY <2>2, <2>3
<1>4. ReadBlock' = ReadBlock /\ WriteBlock' = new
  BY AppendBlockIs DEF IInv, OnlyWriter
<1>5. \A b \in Blocks : blk'[b].NextBlock = IF b = WriteBlock THEN new ELSE blk[b].NextBlock
  BY <1>1, AppendBlockDoes DEF IInv
<1>6. blk[new].NextBlock = Null /\ blk[WriteBlock].NextBlock = Null /\ new # Null /\ Null \notin Chain
  BY <1>1, <1>2, NullAssumption DEF WipedBlock, IInv, InUseInv, ChainOK
<1> HIDE DEF new
<1>7. \A b \in Chain : rank[b] \in Int /\ rank[b] <= rank[WriteBlock] /\ rank[ReadBlock] <= rank[b]
  BY <1>2 DEF Ranked
<1>8. ASSUME NEW b \in Chain', NEW c \in Chain', next[b] = next[c] PROVE b = c
  <2>1. CASE b \in Chain /\ c \in Chain
    BY <1>3, <1>8, <2>1 DEF Ranked
  <2>2. CASE b = new /\ c \in Chain
    BY <1>2, <1>3, <1>7, <1>8, <2>2
  <2>3. CASE c = new /\ b \in Chain
    BY <1>2, <1>3, <1>7, <1>8, <2>3
  <2> QED
    BY <1>1, <2>1, <2>2, <2>3
<1>9. \A b \in Chain' : next[ReadBlock'] <= next[b] /\ next[b] <= next[WriteBlock']
  BY <1>1, <1>2, <1>3, <1>4, <1>7
<1>10. ASSUME NEW b \in Chain', blk'[b].NextBlock # Null
       PROVE  next[blk'[b].NextBlock] = next[b] + 1
  <2>1. CASE b = WriteBlock
    BY <1>2, <1>3, <1>5, <2>1
  <2>2. CASE b # WriteBlock
    <3>1. b \in Chain /\ b \in Blocks
      BY <1>1, <1>2, <1>5, <1>6, <1>10, <2>2
    <3>2. blk'[b].NextBlock = blk[b].NextBlock /\ blk[b].NextBlock \in Chain
      BY <1>2, <1>5, <1>10, <2>2, <3>1
    <3>3. rank[blk[b].NextBlock] = rank[b] + 1
      BY <1>6, <3>1, <3>2 DEF Ranked
    <3> QED
      BY <1>3, <3>1, <3>2, <3>3
  <2> QED
    BY <2>1, <2>2
<1>11. Ranked(next)'
  BY <1>8, <1>9, <1>10 DEF Ranked
<1>12. next[wr[w].alloc] = rank[WriteBlock] + 1
  BY <1>3 DEF new
<1> QED
  BY <1>3, <1>11, <1>12

LEMMA RankedAfterAdvance ==
  ASSUME IInv, ~released, Types', NEW r \in Readers, Advance(r), OnlyReader(r),
         NEW rank \in [Blocks -> Int], Ranked(rank)
  PROVE  Ranked(rank)'
<1>1. /\ rd[r].block \in Blocks /\ Chain' = Chain \ {rd[r].block} /\ ReadBlock' \in Chain'
  BY AdvanceUses
<1>2. /\ Chain \subseteq Blocks /\ ReadBlock \in Chain /\ WriteBlock \in Chain
      /\ \A b \in Chain : blk[b].NextBlock \in Chain \union {Null}
  BY ChainFacts DEF IInv, InUseInv, ChainOK
<1>3. ReadBlock' = NextReadBlock(r) /\ WriteBlock' = WriteBlock
  BY AdvanceIs DEF IInv, OnlyReader
<1>4. SameNext
  BY AdvanceDoes
<1>5. CASE ReadBlock # rd[r].block
  <2>1. ReadBlock' = ReadBlock
    BY <1>3, <1>5 DEF NextReadBlock
  <2> QED
    BY <1>1, <1>2, <1>3, <1>4, <2>1 DEF Ranked, SameNext
<1>6. CASE ReadBlock = rd[r].block
  <2>1. ReadBlock' = blk[ReadBlock].NextBlock /\ ReadBlock' # Null
    BY <1>1, <1>2, <1>3, <1>6, NullAssumption DEF NextReadBlock
  <2>2. rank[ReadBlock'] = rank[ReadBlock] + 1
    BY <1>2, <2>1 DEF Ranked
  <2>3. ASSUME NEW b \in Chain' PROVE rank[ReadBlock'] <= rank[b]
    <3>1. b \in Chain /\ b # ReadBlock
      BY <1>1, <1>6
    <3>2. rank[ReadBlock] <= rank[b] /\ rank[ReadBlock] # rank[b]
      BY <1>2, <3>1 DEF Ranked
    <3>3. rank[ReadBlock] \in Int /\ rank[b] \in Int
      BY <1>2, <3>1
    <3> QED
      BY <2>2, <3>2, <3>3
  <2>4. \A b, c \in Chain' : rank[b] = rank[c] => b = c
    BY <1>1 DEF Ranked
  <2>5. \A b \in Chain' : rank[b] <= rank[WriteBlock']
    BY <1>1, <1>3 DEF Ranked
  <2>6. \A b \in Chain' : blk'[b].NextBlock # Null => rank[blk'[b].NextBlock] = rank[b] + 1
    BY <1>1, <1>2, <1>4 DEF Ranked, SameNext
  <2> QED
    BY <2>3, <2>4, <2>5, <2>6 DEF Ranked
<1> QED
  BY <1>5, <1>6

(* The rest of a push's places is before the next one to be reserved. *)
LEMMA HeldAreBefore ==
  ASSUME IInv, ~released, NEW rank \in [Blocks -> Int], Ranked(rank),
         NEW b \in Blocks, NEW i \in Offsets, NEW id, Holds(b, i, id)
  PROVE  /\ rank[b] <= rank[WriteBlock]
         /\ Before(rank, b, i, WriteBlock, Mask(PreWriteIdx))
<1>1. b \in Chain /\ (b = WriteBlock => i < Mask(PreWriteIdx))
  BY HeldPlaces
<1>2. WriteBlock \in Chain /\ WriteBlock \in Blocks
  BY DEF IInv, InUseInv, ChainOK, Types
<1>3. rank[b] <= rank[WriteBlock] /\ (rank[b] = rank[WriteBlock] => b = WriteBlock)
  BY <1>1, <1>2 DEF Ranked
<1>4. rank[b] \in Int /\ rank[WriteBlock] \in Int
  BY <1>2
<1> QED
  BY <1>1, <1>3, <1>4 DEF Before

------------------------------------------------------------------------------
(* What each step does to the places. *)
SameWriting ==
  /\ WriteBlock' = WriteBlock
  /\ \A w \in Writers : wr'[w].pc \in PlacedPoints <=> wr[w].pc \in PlacedPoints
  /\ \A w \in Writers : wr[w].pc \in PlacedPoints => wr'[w].nr = wr[w].nr /\ wr'[w].idx = wr[w].idx

SameUnread ==
  \A b \in Blocks : NextUnread(b) = Unread(b)
    /\ \A i \in Unread(b) : blk'[b].place[i].functor = blk[b].place[i].functor

LEMMA ReservedStays ==
  ASSUME SameWriting
  PROVE  \A b, i, id : NextReserved(b, i, id) <=> Reserved(b, i, id)
<1>1. NextWriting = Writing
  BY WritingIs DEF SameWriting, NextWriting
<1>2. \A w \in Writing : NextStart(w) = Start(w) /\ wr'[w].nr = wr[w].nr /\ WriteBlock' = WriteBlock
  BY WritingIs DEF SameWriting, NextStart, Start
<1> QED
  BY <1>1, <1>2 DEF NextReserved, Reserved, SameWriting

LEMMA CommittedStays ==
  ASSUME SameUnread
  PROVE  \A b \in Blocks : \A i, id : NextCommitted(b, i, id) <=> Committed(b, i, id)
BY DEF SameUnread, NextCommitted, Committed, Id

SameCommitted ==
  \A b \in Blocks, i \in Offsets, id \in Ids : NextCommitted(b, i, id) <=> Committed(b, i, id)

LEMMA SamePlacesSameUnread ==
  ASSUME SameReadIdx, SamePlaces
  PROVE  SameUnread
BY DEF SameReadIdx, SamePlaces, SameUnread, Unread, NextUnread

LEMMA QuietHolds ==
  ASSUME SameWriting, SameUnread
  PROVE  SameHolds /\ SameCommitted
BY ReservedStays, CommittedStays DEF SameHolds, SameCommitted, NextHolds, Holds

LEMMA HoldsForReaders ==
  ASSUME IInv, NEW r \in Readers, Pop(r) \/ ReaderStep(r), ~Take(r)
  PROVE  SameHolds /\ SameCommitted
<1>1. OnlyReader(r) /\ Types
  BY ReaderFrames DEF IInv
<1>2. SameWriting
  BY <1>1 DEF OnlyReader, SameWriting
<1>3. CASE QuietReader(r)
  <2>1. blk' = blk
    BY <1>3 DEF QuietReader
  <2> QED
    BY <1>2, <2>1, QuietHolds, SamePlacesSameUnread DEF SameReadIdx, SamePlaces
<1>4. CASE PinBlock(r)
  BY <1>1, <1>2, <1>4, PinBlockDoes, QuietHolds, SamePlacesSameUnread
<1>5. CASE Advance(r)
  BY <1>1, <1>2, <1>5, AdvanceDoes, QuietHolds, SamePlacesSameUnread
<1>6. CASE CallAndDestroy(r)
  BY <1>1, <1>2, <1>6, CallAndDestroyDoes, QuietHolds, SamePlacesSameUnread
<1>7. CASE Leave(r)
  BY <1>1, <1>2, <1>7, LeaveDoes, QuietHolds, SamePlacesSameUnread
<1>8. CASE RecycleB(r)
  <2> DEFINE old == rd[r].old
  <2>1. /\ old \in Blocks /\ blk'[old] = WipedBlock
        /\ \A c \in Blocks : c # old => blk'[c] = blk[c]
    BY <1>1, <1>8, RecycleBIsApart DEF OnlyReader
  <2>2. rd[r].old # Null
    BY <2>1, NullAssumption
  <2>3. Unread(old) = {}
    BY <1>1, <2>2 DEF IInv, InUseInv, UsedUp, OnlyReader
  <2>4. NextUnread(old) = {}
    BY <2>1 DEF NextUnread, WipedBlock, EmptyPlace
  <2> HIDE DEF old
  <2>5. ASSUME NEW b \in Blocks
        PROVE  NextUnread(b) = Unread(b)
               /\ \A i \in Unread(b) : blk'[b].place[i].functor = blk[b].place[i].functor
    <3>1. CASE b = old
      BY <2>3, <2>4, <3>1
    <3>2. CASE b # old
      BY <2>1, <3>2 DEF NextUnread, Unread
    <3> QED
      BY <3>1, <3>2
  <2> QED
    BY <1>2, <2>5, QuietHolds DEF SameUnread
<1> QED
  BY <1>3, <1>4, <1>5, <1>6, <1>7, <1>8, ReaderKinds

LEMMA HoldsAfterConstruct ==
  ASSUME IInv, NEW w \in Writers, Construct(w), OnlyWriter(w)
  PROVE  SameHolds /\ SameCommitted
<1>1. Types /\ w \in Writing
  BY ConstructIs, WritingIs DEF IInv, PlacedPoints
<1>2. SameWriting
  BY <1>1, ConstructIs, ConstructDoes
     DEF SameWriting, OnlyWriter, PlacedPoints, SamePush, SameIndex
<1>3. ASSUME NEW b \in Blocks
      PROVE  NextUnread(b) = Unread(b)
             /\ \A i \in Unread(b) : blk'[b].place[i].functor = blk[b].place[i].functor
  <2>1. NextUnread(b) = Unread(b)
    BY ConstructDoes DEF NextUnread, Unread, SameReadIdx
  <2>2. ASSUME NEW i \in Unread(b)
        PROVE  blk'[b].place[i].functor = blk[b].place[i].functor
    <3>1. i \in Offsets /\ i \in ReadyAt(b)
      BY DEF Unread, ReadyAt
    <3>2. b # wr[w].block \/ i # Start(w)
      BY <1>1, <3>1, StartNotReady, ConstructDoes
    <3> QED
      BY <3>1, <3>2, ConstructDoes
  <2> QED
    BY <2>1, <2>2
<1> QED
  BY <1>2, <1>3, QuietHolds DEF SameUnread

LEMMA HoldsAfterCommit ==
  ASSUME IInv, CommitsOwn, NEW w \in Writers, Commit(w), OnlyWriter(w)
  PROVE  /\ SameHolds
         /\ w \in Writing /\ WriteBlock \in Blocks /\ Start(w) \in Offsets
         /\ \A b \in Blocks, i \in Offsets, id \in Ids :
              NextCommitted(b, i, id) <=>
                \/ Committed(b, i, id)
                \/ b = WriteBlock /\ i = Start(w) /\ id = <<w, wr[w].nr>>
<1>1. Types /\ w \in Writing /\ wr[w].pc = "commit"
  BY CommitIs, WritingIs DEF IInv, PlacedPoints
<1>2. /\ WriteBlock' = WriteBlock /\ WriteBlock \in Blocks /\ wr[w].block = WriteBlock
      /\ Start(w) \in Offsets
      /\ NextWriting = Writing \ {w}
      /\ \A v \in Writing \ {w} : NextStart(v) = Start(v) /\ wr'[v].nr = wr[v].nr
  BY <1>1, CommitIs, CommitDoes, WritingIs
     DEF OnlyWriter, PlacedPoints, NextWriting, NextStart, Start, Types
<1>3. \A b \in Blocks, i \in Offsets, id \in Ids :
        NextReserved(b, i, id) <=> b = WriteBlock /\ \E v \in Writing : v # w /\ i = Start(v) /\ id = <<v, wr[v].nr>>
  BY <1>2 DEF NextReserved
<1>4. \A b \in Blocks, i \in Offsets, id \in Ids :
        Reserved(b, i, id) <=>
          \/ NextReserved(b, i, id)
          \/ b = WriteBlock /\ i = Start(w) /\ id = <<w, wr[w].nr>>
  BY <1>1, <1>3 DEF Reserved
<1>5. \A b \in Blocks, i \in Offsets : i \in NextUnread(b) <=>
        i \in Unread(b) \/ (b = WriteBlock /\ i = Start(w))
  <2>1. blk[WriteBlock].ReadIdx <= Start(w)
    BY <1>1 DEF IInv, WritingApart
  <2>2. Start(w) \in Int /\ blk[WriteBlock].ReadIdx \in Int
    BY <1>1, <1>2, Fields, Numbers
  <2>3. ASSUME NEW b \in Blocks, NEW i \in Offsets
        PROVE  blk'[b].place[i].ready <=> blk[b].place[i].ready \/ (b = WriteBlock /\ i = Start(w))
    <3>1. blk'[b].place[i].ready =
            IF b = WriteBlock /\ i = Start(w) THEN TRUE ELSE blk[b].place[i].ready
      BY <1>1, <1>2, CommitDoes
    <3>2. CASE b = WriteBlock /\ i = Start(w)
      BY <3>1, <3>2
    <3>3. CASE ~(b = WriteBlock /\ i = Start(w))
      BY <3>1, <3>3
    <3> QED
      BY <3>2, <3>3
  <2>4. \A b \in Blocks : blk'[b].ReadIdx = blk[b].ReadIdx
    BY CommitDoes DEF SameReadIdx
  <2> QED
    BY <2>1, <2>2, <2>3, <2>4 DEF NextUnread, Unread
<1>6. \A b \in Blocks, i \in Offsets : Id(blk'[b].place[i].functor) = Id(blk[b].place[i].functor)
  BY CommitDoes DEF Id
<1>7. Id(blk[WriteBlock].place[Start(w)].functor) = <<w, wr[w].nr>>
  BY <1>1 DEF CommitsOwn
<1>8. \A b \in Blocks, i \in Offsets, id \in Ids :
        NextCommitted(b, i, id) <=>
          \/ Committed(b, i, id)
          \/ b = WriteBlock /\ i = Start(w) /\ id = <<w, wr[w].nr>>
  BY <1>2, <1>5, <1>6, <1>7 DEF NextCommitted, Committed
<1> QED
  BY <1>1, <1>2, <1>4, <1>8 DEF SameHolds, Holds, NextHolds

LEMMA HoldsForQuietWriters ==
  ASSUME IInv, NEW w \in Writers, QuietWriter(w)
  PROVE  SameHolds /\ SameCommitted
<1>1. SameWriting
  BY DEF QuietWriter, OnlyWriter, SameWriting, SamePush, SameIndex
<1>2. blk' = blk
  BY DEF QuietWriter
<1> QED
  BY <1>1, <1>2, QuietHolds, SamePlacesSameUnread DEF SameReadIdx, SamePlaces

LEMMA HoldsAfterReserve ==
  ASSUME IInv, NEW w \in Writers, Reserve(w), OnlyWriter(w)
  PROVE  /\ SameCommitted
         /\ WriteBlock' = WriteBlock /\ Start(w) \in Offsets /\ Start(w) = Mask(PreWriteIdx)
         /\ \A b \in Blocks, i \in Offsets, id \in Ids :
              NextHolds(b, i, id) <=>
                Holds(b, i, id) \/ (b = WriteBlock /\ i = Start(w) /\ id = <<w, wr[w].nr>>)
<1>1. Types
  BY DEF IInv
<1>2. /\ wr[w].pc = "compareExchange" /\ wr'[w].pc = "construct" /\ PreWriteIdx = wr[w].idx
      /\ SamePush(w) /\ SameIndex(w) /\ blk' = blk /\ WriteBlock' = WriteBlock
  BY <1>1, CompareExchangePreWriteIdxIs DEF Reserve
<1>3. Start(w) = Mask(PreWriteIdx)
  BY <1>2 DEF Start
<1>4. Start(w) \in Offsets
  <2>1. Start(w) >= StartIdx /\ ~Full(w) /\ wr[w].size \in Sizes
    BY <1>2, <1>3 DEF IInv, WriterView, WriterLocals
  <2>2. Start(w) \in 0..BlockLimit
    BY <1>1, <1>2, Fields, MaskIs DEF Start
  <2>3. Start(w) + wr[w].size <= BlockLimit
    <3>1. ~(Start(w) + wr[w].size > BlockLimit)
      BY <2>1 DEF Full, Start
    <3> QED
      BY <2>1, <2>2, <3>1, Numbers
  <2> QED
    BY <2>1, <2>2, <2>3, Numbers DEF Offsets
<1>5. /\ NextWriting = Writing \union {w} /\ w \notin Writing
      /\ \A v \in Writing \union {w} : NextStart(v) = Start(v) /\ wr'[v].nr = wr[v].nr
  BY <1>1, <1>2, WritingIs
     DEF OnlyWriter, PlacedPoints, NextWriting, NextStart, Start, SamePush, SameIndex
<1>6. \A b \in Blocks, i \in Offsets, id \in Ids :
        NextReserved(b, i, id) <=>
          Reserved(b, i, id) \/ (b = WriteBlock /\ i = Start(w) /\ id = <<w, wr[w].nr>>)
  BY <1>2, <1>5 DEF NextReserved, Reserved
<1>7. \A b \in Blocks, i \in Offsets, id \in Ids : NextCommitted(b, i, id) <=> Committed(b, i, id)
  BY <1>2, CommittedStays, SamePlacesSameUnread DEF SameReadIdx, SamePlaces
<1>8. \A b \in Blocks, i \in Offsets, id \in Ids :
        NextHolds(b, i, id) <=>
          Holds(b, i, id) \/ (b = WriteBlock /\ i = Start(w) /\ id = <<w, wr[w].nr>>)
  BY <1>6, <1>7 DEF NextHolds, Holds
<1> QED
  BY <1>2, <1>3, <1>4, <1>7, <1>8 DEF SameCommitted

LEMMA HoldsAfterAppend ==
  ASSUME IInv, Types', NEW w \in Writers, AppendBlock(w), OnlyWriter(w)
  PROVE  /\ SameCommitted
         /\ WriteBlock' = wr[w].alloc /\ wr[w].alloc \in Blocks /\ wr[w].alloc \notin Chain
         /\ StartIdx \in Offsets
         /\ \A b \in Blocks, i \in Offsets, id \in Ids :
              NextHolds(b, i, id) <=>
                Holds(b, i, id) \/ (b = wr[w].alloc /\ i = StartIdx /\ id = <<w, wr[w].nr>>)
<1>1. Types
  BY DEF IInv
<1>2. /\ wr[w].pc = "appendBlock" /\ wr'[w].pc = "downgrade" /\ SamePush(w)
      /\ wr'[w].idx = RoundUp(wr[w].idx) + StartIdx /\ WriteBlock' = wr[w].alloc
  BY <1>1, AppendBlockIs
<1>3. wr[w].alloc \in Blocks /\ wr[w].alloc \notin Chain
  BY AppendBlockUses DEF Used
<1>4. \A v \in Writers : v # w => wr[v].pc \notin PlacedPoints
  BY <1>2, AloneIsAlone DEF AlonePoints, LoadedPoints, PlacedPoints
<1>5. Writing = {} /\ NextWriting = {w}
  BY <1>2, <1>4, WritingIs DEF OnlyWriter, NextWriting, PlacedPoints
<1>6. NextStart(w) = StartIdx
  <2>1. Mask(wr[w].idx) >= StartIdx
    BY <1>2 DEF IInv, WriterView, LoadedPoints
  <2>2. wr[w].idx \in Nat
    BY <1>1, Fields
  <2> QED
    BY <1>2, <2>1, <2>2, RoundUpAdds DEF NextStart
<1>7. \A b \in Blocks, i \in Offsets, id \in Ids :
        NextReserved(b, i, id) <=> b = wr[w].alloc /\ i = StartIdx /\ id = <<w, wr[w].nr>>
  BY <1>2, <1>5, <1>6 DEF NextReserved, SamePush
<1>8. \A b \in Blocks, i \in Offsets, id \in Ids : ~Reserved(b, i, id)
  BY <1>5 DEF Reserved
<1>9. \A b \in Blocks, i \in Offsets, id \in Ids : NextCommitted(b, i, id) <=> Committed(b, i, id)
  BY <1>1, AppendBlockDoes, CommittedStays, SamePlacesSameUnread
<1>10. \A b \in Blocks, i \in Offsets, id \in Ids :
         NextHolds(b, i, id) <=>
           Holds(b, i, id) \/ (b = wr[w].alloc /\ i = StartIdx /\ id = <<w, wr[w].nr>>)
  BY <1>7, <1>8, <1>9 DEF NextHolds, Holds
<1>11. StartIdx \in Offsets
  BY Numbers
<1> QED
  BY <1>2, <1>3, <1>9, <1>10, <1>11 DEF SameCommitted

Taken(r) == Id(blk[rd[r].block].place[rd[r].idx].functor)

LEMMA TakesFirst ==
  ASSUME IInv, NEW r \in Readers, Take(r), OnlyReader(r)
  PROVE  /\ rd[r].block = ReadBlock /\ ReadBlock \in Blocks /\ ReadBlock \in Chain
         /\ rd[r].idx \in Offsets /\ rd[r].idx = blk[ReadBlock].ReadIdx
         /\ rd[r].idx \in ReadyAt(ReadBlock)
         /\ Taken(r) \in Ids /\ Committed(ReadBlock, rd[r].idx, Taken(r))
<1> DEFINE b == rd[r].block
           i == rd[r].idx
<1>1. b \in Blocks /\ i \in ReadyAt(b) /\ i = blk[b].ReadIdx /\ rd[r].pc = "compareExchange"
  BY TakeIs
<1>2. i \in Offsets /\ i \in Unread(b)
  BY <1>1, Numbers DEF Unread, ReadyAt
<1>3. b \in Chain /\ ~released
  BY <1>1, <1>2, UnreadIsInChain DEF OnlyReader
<1>4. b = ReadBlock
  BY <1>1, <1>3 DEF IInv, InUseInv, ChainOK, PinnedAt
<1>5. blk[b].place[i].functor \in Functors
  BY <1>1 DEF IInv, ReadyApart
<1>6. Taken(r) \in Ids
  BY <1>5 DEF Taken, Functors, Id, Ids
<1>7. Committed(b, i, Taken(r))
  BY <1>2 DEF Committed, Taken
<1> QED
  BY <1>1, <1>2, <1>3, <1>4, <1>6, <1>7

LEMMA HoldsAfterTake ==
  ASSUME IInv, NEW r \in Readers, Take(r), OnlyReader(r)
  PROVE  \A c \in Blocks, j \in Offsets, id \in Ids :
           /\ NextHolds(c, j, id) <=> Holds(c, j, id) /\ ~(c = ReadBlock /\ j = rd[r].idx)
           /\ NextCommitted(c, j, id) <=> Committed(c, j, id) /\ ~(c = ReadBlock /\ j = rd[r].idx)
<1> DEFINE i == rd[r].idx
<1>1. /\ rd[r].block = ReadBlock /\ ReadBlock \in Blocks /\ i \in ReadyAt(ReadBlock)
      /\ i = blk[ReadBlock].ReadIdx
  BY TakesFirst
<1>2. /\ blk'[ReadBlock].ReadIdx = i + Size(ReadBlock, i)
      /\ \A c \in Blocks : c # ReadBlock => blk'[c].ReadIdx = blk[c].ReadIdx
      /\ SamePlaces
  BY <1>1, TakeIs
<1>3. SameWriting
  BY DEF OnlyReader, SameWriting
<1>4. \A c \in Blocks : NextReadyAt(c) = ReadyAt(c)
  BY <1>2 DEF SamePlaces, NextReadyAt, ReadyAt
<1>5. ASSUME NEW j \in ReadyAt(ReadBlock)
      PROVE  j >= i + Size(ReadBlock, i) <=> j >= i /\ j # i
  <2>1. i \in Int /\ j \in Int /\ Size(ReadBlock, i) \in 1..Capacity
    BY <1>1, ReadySizes
  <2>2. i < j => i + Size(ReadBlock, i) <= j
    BY <1>1 DEF IInv, ReadyApart
  <2> QED
    BY <2>1, <2>2, Numbers
<1>6. ASSUME NEW c \in Blocks
      PROVE  \A j : j \in NextUnread(c) <=> j \in Unread(c) /\ ~(c = ReadBlock /\ j = i)
  <2>1. \A j : j \in NextUnread(c) <=> j \in ReadyAt(c) /\ j >= blk'[c].ReadIdx
    BY <1>4, NextUnreadIs
  <2>2. \A j : j \in Unread(c) <=> j \in ReadyAt(c) /\ j >= blk[c].ReadIdx
    BY UnreadIs
  <2>3. CASE c = ReadBlock
    BY <1>1, <1>2, <1>5, <2>1, <2>2, <2>3
  <2>4. CASE c # ReadBlock
    BY <1>2, <2>1, <2>2, <2>4
  <2> QED
    BY <2>3, <2>4
<1>7. ASSUME NEW c \in Blocks, NEW j \in Offsets, NEW id \in Ids
      PROVE  /\ NextHolds(c, j, id) <=> Holds(c, j, id) /\ ~(c = ReadBlock /\ j = i)
             /\ NextCommitted(c, j, id) <=> Committed(c, j, id) /\ ~(c = ReadBlock /\ j = i)
  <2>1. NextCommitted(c, j, id) <=> Committed(c, j, id) /\ ~(c = ReadBlock /\ j = i)
    BY <1>2, <1>6 DEF NextCommitted, Committed, SamePlaces
  <2>2. NextReserved(c, j, id) <=> Reserved(c, j, id)
    BY <1>3, ReservedStays
  <2>3. Reserved(c, j, id) => ~(c = ReadBlock /\ j = i)
    <3>1. Reserved(c, j, id) => j \notin ReadyAt(c)
      BY StartNotReady DEF Reserved
    <3> QED
      BY <1>1, <3>1
  <2> QED
    BY <2>1, <2>2, <2>3 DEF NextHolds, Holds
<1> QED
  BY <1>7

LEMMA TakenIsBefore ==
  ASSUME IInv, NEW r \in Readers, Take(r), OnlyReader(r),
         NEW rank \in [Blocks -> Int], Ranked(rank),
         NEW c \in Blocks, NEW j \in Offsets, NEW id \in Ids, Holds(c, j, id), id # Taken(r)
  PROVE  Before(rank, ReadBlock, rd[r].idx, c, j)
<1>1. ~released
  BY DEF OnlyReader
<1>2. c \in Chain /\ blk[c].ReadIdx <= j
  BY <1>1, HeldPlaces
<1>3. /\ ReadBlock \in Chain /\ ReadBlock \in Blocks /\ rd[r].idx = blk[ReadBlock].ReadIdx
      /\ rd[r].idx \in Offsets /\ Holds(ReadBlock, rd[r].idx, Taken(r))
  BY TakesFirst DEF Holds
<1>4. rank[ReadBlock] <= rank[c] /\ (rank[ReadBlock] = rank[c] => ReadBlock = c)
  BY <1>2, <1>3 DEF Ranked
<1>5. c = ReadBlock => j # rd[r].idx
  BY <1>1, <1>3, OnePushAPlace
<1>6. rank[ReadBlock] \in Int /\ rank[c] \in Int /\ j \in Int /\ rd[r].idx \in Int
  BY <1>3, Numbers
<1> QED
  BY <1>2, <1>3, <1>4, <1>5, <1>6 DEF Before

(* A writer that is about to commit has constructed its own functor. *)
LEMMA CommitsOwnForWriters ==
  ASSUME IInv, CommitsOwn, NEW w \in Writers, Push(w) \/ WriterStep(w)
  PROVE  CommitsOwn'
<1>1. Types /\ OnlyWriter(w)
  BY WriterFrames DEF IInv
<1> SUFFICES ASSUME NEW v \in Writers, wr'[v].pc = "commit"
             PROVE  Id(blk'[WriteBlock'].place[NextStart(v)].functor) = <<v, wr'[v].nr>>
  <2>1. \A v \in Writers : Id(blk[WriteBlock].place[Start(v)].functor)'
                             = Id(blk'[WriteBlock'].place[NextStart(v)].functor)
    BY DEF Id, Start, NextStart
  <2> QED
    BY <2>1 DEF CommitsOwn
<1>2. v # w => v \in Writing /\ wr[v].pc = "commit" /\ NextStart(v) = Start(v) /\ wr'[v].nr = wr[v].nr
                /\ Start(v) \in Offsets
  <2>1. v # w => wr'[v] = wr[v]
    BY <1>1 DEF OnlyWriter
  <2>2. v # w => v \in Writing /\ wr[v].pc = "commit"
    BY <2>1, WritingIs DEF PlacedPoints
  <2>3. v # w => Start(v) \in Offsets
    BY <2>2, PlacesFit, WritingIs
  <2> QED
    BY <2>1, <2>2, <2>3 DEF NextStart, Start
<1>3. WriteBlock \in Blocks
  BY <1>1 DEF Types
<1>4. CASE QuietWriter(w) \/ Reserve(w) \/ Commit(w)
  <2>1. v # w
    BY <1>1, <1>4, CommitIs DEF QuietWriter, Reserve
  <2>2. WriteBlock' = WriteBlock
    BY <1>1, <1>4, CompareExchangePreWriteIdxIs, CommitIs DEF QuietWriter, Reserve
  <2>3. blk'[WriteBlock].place[Start(v)].functor = blk[WriteBlock].place[Start(v)].functor
    BY <1>1, <1>2, <1>3, <1>4, <2>1, CompareExchangePreWriteIdxIs, CommitDoes
       DEF QuietWriter, Reserve
  <2> QED
    BY <1>2, <2>1, <2>2, <2>3 DEF CommitsOwn
<1>5. CASE AppendBlock(w)
  <2>1. wr'[w].pc = "downgrade" /\ wr[w].pc \in AlonePoints
    BY <1>1, <1>5, AppendBlockIs DEF AlonePoints
  <2>2. v # w => wr[v].pc \notin LoadedPoints
    BY <2>1, AloneIsAlone
  <2> QED
    BY <1>2, <2>1, <2>2 DEF LoadedPoints
<1>6. CASE Construct(w)
  <2>1. /\ wr[w].block = WriteBlock /\ Start(w) \in Offsets /\ WriteBlock' = WriteBlock
        /\ \A b \in Blocks, i \in Offsets : b # wr[w].block \/ i # Start(w) =>
              blk'[b].place[i].functor = blk[b].place[i].functor
        /\ SamePush(w) /\ SameIndex(w) /\ wr[w].pc = "construct"
    BY <1>1, <1>6, ConstructDoes, ConstructIs
  <2>2. CASE v # w
    <3>1. Start(v) # Start(w)
      BY <1>2, <2>1, <2>2, StartsApart, WritingIs DEF PlacedPoints
    <3>2. blk'[WriteBlock].place[Start(v)].functor = blk[WriteBlock].place[Start(v)].functor
      BY <1>2, <1>3, <2>1, <2>2, <3>1
    <3> QED
      BY <1>2, <2>1, <2>2, <3>2 DEF CommitsOwn
  <2>3. CASE v = w
    <3>1. PICK ok \in BOOLEAN :
            blk' = [blk EXCEPT ![wr[w].block].NbObjects = @ + 1,
                               ![wr[w].block].place[Mask(wr[w].idx)].functor = Pushed(w, ok)]
      BY <1>1, <1>6, ConstructIs
    <3>2. blk'[WriteBlock].place[Start(w)].functor = Pushed(w, ok)
      <4>1. blk[WriteBlock] \in BlockRecords /\ blk \in [Blocks -> BlockRecords]
        BY <1>1, <1>3 DEF Types
      <4> QED
        BY <1>3, <2>1, <3>1, <4>1 DEF BlockRecords, Places, Start
    <3>3. Id(Pushed(w, ok)) = <<w, wr[w].nr>>
      BY DEF Id, Pushed
    <3>4. NextStart(w) = Start(w) /\ wr'[w].nr = wr[w].nr
      BY <2>1 DEF SamePush, SameIndex, Start, NextStart
    <3> QED
      BY <2>1, <2>3, <3>2, <3>3, <3>4
  <2> QED
    BY <2>2, <2>3
<1> QED
  BY <1>4, <1>5, <1>6, WriterKinds

LEMMA CommitsOwnForReaders ==
  ASSUME IInv, CommitsOwn, NEW r \in Readers, Pop(r) \/ ReaderStep(r)
  PROVE  CommitsOwn'
<1>1. Types /\ OnlyReader(r) /\ WriteBlock \in Blocks
  BY ReaderFrames DEF IInv, Types
<1>2. blk'[WriteBlock].place = blk[WriteBlock].place
  <2>1. CASE QuietReader(r)
    BY <2>1 DEF QuietReader
  <2>2. CASE PinBlock(r) \/ Advance(r) \/ CallAndDestroy(r) \/ Leave(r) \/ Take(r)
    BY <1>1, <2>2, PinBlockDoes, AdvanceDoes, CallAndDestroyDoes, LeaveDoes, TakeDoes DEF SamePlaces
  <2>3. CASE RecycleB(r)
    BY <1>1, <2>3, RecycleBIsApart DEF OnlyReader
  <2> QED
    BY <2>1, <2>2, <2>3, ReaderKinds
<1>3. wr' = wr /\ WriteBlock' = WriteBlock
  BY <1>1 DEF OnlyReader
<1> QED
  BY <1>2, <1>3 DEF CommitsOwn, Id, Start

------------------------------------------------------------------------------
(* The largest of finitely many numbers. *)
Less == { p \in Nat \X Nat : p[1] < p[2] }

LEMMA SmallestIs ==
  ASSUME NEW T, T \subseteq Nat, T # {}
  PROVE  \E m \in T : \A k \in T : m <= k
<1>1. IsWellFoundedOn(Less, Nat)
  BY NatLessThanWellFounded DEF OpToRel, Less
<1>2. PICK x \in T : \A y \in T : ~(<<y, x>> \in Less)
  BY <1>1, WFMin
<1>3. ASSUME NEW y \in Nat, NEW z \in Nat, y < z PROVE <<y, z>> \in Less
  <2>1. <<y, z>> \in Nat \X Nat /\ <<y, z>>[1] < <<y, z>>[2]
    BY <1>3
  <2> QED
    BY <2>1 DEF Less
<1>4. ASSUME NEW k \in T PROVE x <= k
  <2>1. k \in Nat /\ x \in Nat /\ ~(k < x)
    BY <1>2, <1>3
  <2> QED
    BY <2>1
<1> QED
  BY <1>4

LEMMA LargestIs ==
  ASSUME NEW n \in Nat, NEW S, S \subseteq 0..n, S # {}
  PROVE  \E m \in S : \A k \in S : k <= m
<1> DEFINE T == { n - k : k \in S }
<1>1. T \subseteq Nat /\ T # {}
  <2>1. \A k \in S : n - k \in Nat
    OBVIOUS
  <2> QED
    BY <2>1
<1>2. PICK x \in T : \A y \in T : x <= y
  BY <1>1, SmallestIs
<1>3. PICK m \in S : x = n - m
  BY <1>2
<1>4. ASSUME NEW k \in S PROVE k <= m
  <2>1. n - k \in T /\ x <= n - k /\ k \in Int /\ m \in Int
    BY <1>2
  <2> QED
    BY <1>3, <2>1
<1> QED
  BY <1>4

(* When nobody writes, the functors in a block leave no gap: release finds  *)
(* all of them on its way from ReadIdx.                                     *)
LEMMA WalkedIsUnread ==
  ASSUME IInv, Writing = {}, NEW b \in Blocks
  PROVE  Walked(b) = Unread(b)
<1> DEFINE first == blk[b].ReadIdx
<1>1. first \in StartIdx..BlockLimit /\ first \in Nat
  BY Fields, Numbers DEF IInv
<1>2. \A k : k \in Unread(b) <=> k \in ReadyAt(b) /\ k >= first
  BY UnreadIs
<1>3. \A k \in ReadyAt(b) : k \in Offsets /\ k \in Nat /\ Size(b, k) \in 1..Capacity
  BY ReadySizes, Numbers
<1> HIDE DEF first
<1>4. \A x : Follows(b, x) <=>
        \/ x \in ReadyAt(b)
        \/ b = WriteBlock /\ x = Mask(PreWriteIdx)
        \/ b # WriteBlock /\ \A k \in ReadyAt(b) : k < x
  BY FollowsIs
(* An end at or before a functor that is ready is where one starts. *)
<1>5. ASSUME NEW i \in Unread(b), NEW x \in StartIdx..BlockLimit, IsEnd(b, x), first <= x, x <= i
      PROVE  x \in Unread(b)
  <2>1. Follows(b, x)
    BY <1>5 DEF IInv, Tiled
  <2>2. i \in ReadyAt(b) /\ i \in Nat /\ Size(b, i) \in 1..Capacity /\ x \in Int
    BY <1>2, <1>3, Numbers
  <2>3. b = WriteBlock => i + Size(b, i) <= Mask(PreWriteIdx)
    BY <2>2 DEF IInv, ReadyApart
  <2>4. Mask(PreWriteIdx) \in 0..BlockLimit
    BY MaskIs DEF IInv, Types
  <2>5. b = WriteBlock => x # Mask(PreWriteIdx)
    BY <1>5, <2>2, <2>3, <2>4, Numbers
  <2>6. ~ \A k \in ReadyAt(b) : k < x
    BY <1>5, <2>2
  <2>7. x \in ReadyAt(b)
    BY <1>4, <2>1, <2>5, <2>6
  <2> QED
    BY <1>1, <1>2, <1>5, <2>2, <2>7
<1>6. ASSUME NEW i \in Unread(b), NEW j \in first..i
      PROVE  \E k \in Unread(b) : Covers(b, k, j)
  <2>1. i \in Offsets /\ i \in Nat /\ first <= i /\ j \in Nat /\ first <= j /\ j <= i
    BY <1>1, <1>2, <1>3
  <2> DEFINE S == { k \in Unread(b) : k <= j }
  <2>2. first \in Unread(b)
    <3>1. IsEnd(b, first)
      BY DEF IInv, Tiled, first
    <3> QED
      BY <1>1, <1>5, <2>1, <3>1
  <2>3. first \in S /\ S \subseteq 0..j
    BY <1>2, <1>3, <2>1, <2>2
  <2>4. PICK k \in S : \A l \in S : l <= k
    <3> HIDE DEF S
    <3> QED
      BY <2>1, <2>3, LargestIs
  <2>5. k \in Unread(b) /\ k <= j /\ k \in ReadyAt(b) /\ k \in Nat /\ k >= first
        /\ Size(b, k) \in 1..Capacity
    BY <1>2, <1>3, <2>4
  <2>6. CASE j < k + Size(b, k)
    BY <2>5, <2>6 DEF Covers, Size
  <2>7. CASE ~(j < k + Size(b, k))
    <3> DEFINE x == k + Size(b, k)
    <3>1. x \in Nat /\ x <= j /\ x <= i /\ first <= x /\ k < x /\ x \in StartIdx..BlockLimit
      BY <1>1, <2>1, <2>5, <2>7, Numbers
    <3>2. IsEnd(b, x)
      BY <2>5 DEF IsEnd
    <3> HIDE DEF x
    <3>3. x \in Unread(b)
      BY <1>5, <3>1, <3>2
    <3>4. x \in S
      BY <3>1, <3>3
    <3> QED
      BY <2>4, <2>5, <3>1, <3>4
  <2> QED
    BY <2>6, <2>7
<1>7. Walked(b) = { i \in Unread(b) : \A j \in first..i : \E k \in Unread(b) : Covers(b, k, j) }
  BY DEF Walked, first
<1> QED
  BY <1>6, <1>7

LEMMA ReleaseDestroysAll ==
  ASSUME IInv, FifoInv, Release
  PROVE  /\ fifo' = <<>> /\ released' /\ ~released
         /\ \A x : x \in Range(fifo) <=> \E b \in Chain : \E i \in Unread(b) : x = Id(blk[b].place[i].functor)
<1>1. /\ ~released /\ released' /\ \A w \in Writers : wr[w].pc = "idle"
      /\ fifo' = SetToSeq(Range(fifo) \ UNION { { Id(blk[b].place[i].functor) : i \in Walked(b) } : b \in Chain })
  BY DEF Release
<1>2. Writing = {}
  BY <1>1 DEF Writing
<1>3. Chain \subseteq Blocks
  BY <1>1, ChainFacts DEF IInv
<1>4. PICK rank \in [Blocks -> Int], block \in [Ids -> Blocks], offset \in [Ids -> Offsets] :
        Filed(block, offset)
  BY <1>1 DEF FifoInv, InOrder
<1>5. fifo \in Seq(Ids) /\ Range(fifo) \subseteq Ids
  BY RangeIs DEF FifoInv
<1>6. ASSUME NEW x \in Range(fifo)
      PROVE  \E b \in Chain : \E i \in Unread(b) : x = Id(blk[b].place[i].functor)
  <2>1. x \in Ids /\ block[x] \in Blocks /\ offset[x] \in Offsets
    BY <1>5
  <2>2. Holds(block[x], offset[x], x)
    BY <1>4, <2>1 DEF Filed
  <2>3. Committed(block[x], offset[x], x)
    BY <1>2, <2>2 DEF Holds, Reserved
  <2>4. block[x] \in Chain
    BY <1>1, <2>1, <2>2, HeldPlaces
  <2> QED
    BY <2>3, <2>4 DEF Committed
<1>7. ASSUME NEW b \in Chain, NEW i \in Unread(b)
      PROVE  Id(blk[b].place[i].functor) \in Range(fifo)
  <2>1. b \in Blocks /\ i \in Offsets /\ i \in ReadyAt(b)
    BY <1>3 DEF Unread, ReadyAt
  <2>2. Id(blk[b].place[i].functor) \in Ids
    BY <2>1 DEF IInv, ReadyApart, Functors, Id, Ids
  <2>3. Holds(b, i, Id(blk[b].place[i].functor))
    BY DEF Holds, Committed
  <2> QED
    BY <1>4, <2>1, <2>2, <2>3 DEF Filed
<1>8. \A b \in Chain : Walked(b) = Unread(b)
  BY <1>2, <1>3, WalkedIsUnread
<1>9. Range(fifo) \ UNION { { Id(blk[b].place[i].functor) : i \in Walked(b) } : b \in Chain } = {}
  BY <1>6, <1>8
<1>10. fifo' = <<>>
  BY <1>1, <1>9, NothingToSeq
<1>11. \A x : x \in Range(fifo) <=> \E b \in Chain : \E i \in Unread(b) : x = Id(blk[b].place[i].functor)
  BY <1>6, <1>7
<1> QED
  BY <1>1, <1>10, <1>11

------------------------------------------------------------------------------
(* fifo stays in the order of the places. *)
LEMMA OrderForWriters ==
  ASSUME IInv, FifoInv, NEW w \in Writers, Push(w) \/ WriterStep(w)
  PROVE  InOrder'
<1>1. Types /\ OnlyWriter(w) /\ Types' /\ ~released
  BY WriterFrames, TypesOfWriters DEF IInv, OnlyWriter
<1>2. PICK rank \in [Blocks -> Int], block \in [Ids -> Blocks], offset \in [Ids -> Offsets] :
        Ranked(rank) /\ Filed(block, offset) /\ Sorted(rank, block, offset)
  BY <1>1 DEF FifoInv, InOrder
<1>3. fifo \in Seq(Ids) /\ CommitsOwn
  BY DEF FifoInv
<1>4. ~AppendBlock(w) => Ranked(rank)'
  <2>1. ~AppendBlock(w) => Chain' = Chain /\ SameNext /\ WriteBlock' = WriteBlock
    BY <1>1, WritersUse
  <2>2. Chain \subseteq Blocks /\ ReadBlock' = ReadBlock
    BY <1>1, ChainFacts DEF OnlyWriter
  <2> QED
    BY <1>2, <2>1, <2>2, RankedStays DEF SameNext
<1>5. CASE QuietWriter(w) \/ Construct(w) \/ Commit(w)
  <2>1. SameHolds
    BY <1>1, <1>3, <1>5, HoldsForQuietWriters, HoldsAfterConstruct, HoldsAfterCommit
  <2>2. ~AppendBlock(w) /\ ~Reserve(w)
    <3>1. CASE QuietWriter(w)
      BY <1>1, <3>1, AppendBlockIs, CompareExchangePreWriteIdxIs
         DEF QuietWriter, PlacedPoints, Reserve
    <3>2. CASE Construct(w) \/ Commit(w)
      BY <1>1, <3>2, AppendBlockIs, CompareExchangePreWriteIdxIs, ConstructIs, CommitIs DEF Reserve
    <3> QED
      BY <1>5, <3>1, <3>2
  <2>3. fifo' = fifo
    BY <1>1, <2>2, WritersAppend
  <2> QED
    BY <1>2, <1>4, <2>1, <2>2, <2>3, FiledStays DEF InOrder
<1>6. CASE Reserve(w)
  <2> DEFINE new == <<w, wr[w].nr>>
  <2>1. new \in Ids /\ new \notin Range(fifo) /\ fifo' = Append(fifo, new)
    BY <1>1, <1>6, ReservedIsNew, WritersAppend
  <2>2. /\ Start(w) \in Offsets /\ Start(w) = Mask(PreWriteIdx) /\ WriteBlock \in Blocks
        /\ \A b \in Blocks, i \in Offsets, id \in Ids :
             NextHolds(b, i, id) <=> Holds(b, i, id) \/ (b = WriteBlock /\ i = Start(w) /\ id = new)
    BY <1>1, <1>6, HoldsAfterReserve DEF Types
  <2>3. \A b \in Blocks, i \in Offsets, id \in Ids :
          Holds(b, i, id) => rank[b] = rank[b] /\ Before(rank, b, i, WriteBlock, Start(w))
    BY <1>1, <1>2, <2>2, HeldAreBefore
  <2>4. ~AppendBlock(w)
    BY <1>1, <1>6, AppendBlockIs, CompareExchangePreWriteIdxIs DEF Reserve
  <2> HIDE DEF new
  <2>5. \E k \in [Ids -> Blocks], o \in [Ids -> Offsets] : Filed(k, o)' /\ Sorted(rank, k, o)'
    BY <1>2, <1>3, <2>1, <2>2, <2>3, FiledAppend
  <2> QED
    BY <1>2, <1>4, <2>4, <2>5 DEF InOrder
<1>7. CASE AppendBlock(w)
  <2> DEFINE new == <<w, wr[w].nr>>
  <2>1. new \in Ids /\ new \notin Range(fifo) /\ fifo' = Append(fifo, new)
    BY <1>1, <1>7, ReservedIsNew, WritersAppend
  <2>2. /\ wr[w].alloc \in Blocks /\ wr[w].alloc \notin Chain /\ StartIdx \in Offsets
        /\ \A b \in Blocks, i \in Offsets, id \in Ids :
             NextHolds(b, i, id) <=> Holds(b, i, id) \/ (b = wr[w].alloc /\ i = StartIdx /\ id = new)
    BY <1>1, <1>7, HoldsAfterAppend
  <2>3. PICK next \in [Blocks -> Int] :
          /\ Ranked(next)'
          /\ \A b \in Chain : next[b] = rank[b]
          /\ next[wr[w].alloc] = rank[WriteBlock] + 1
    BY <1>1, <1>2, <1>7, RankedAfterAppend
  <2>4. ASSUME NEW b \in Blocks, NEW i \in Offsets, NEW id \in Ids, Holds(b, i, id)
        PROVE  next[b] = rank[b] /\ Before(next, b, i, wr[w].alloc, StartIdx)
    <3>1. b \in Chain
      BY <1>1, <2>4, HeldPlaces
    <3>2. rank[b] <= rank[WriteBlock]
      BY <1>1, <1>2, <2>4, HeldAreBefore
    <3>3. WriteBlock \in Blocks /\ rank[b] \in Int /\ rank[WriteBlock] \in Int
      BY <1>1 DEF Types
    <3>4. next[b] < next[wr[w].alloc]
      BY <2>3, <3>1, <3>2, <3>3
    <3> QED
      BY <2>3, <3>1, <3>4 DEF Before
  <2> HIDE DEF new
  <2>5. \E k \in [Ids -> Blocks], o \in [Ids -> Offsets] : Filed(k, o)' /\ Sorted(next, k, o)'
    BY <1>2, <1>3, <2>1, <2>2, <2>4, FiledAppend
  <2> QED
    BY <2>3, <2>5 DEF InOrder
<1> QED
  BY <1>5, <1>6, <1>7, WriterKinds

(* What Take takes is the oldest push. *)
LEMMA TakesOldest ==
  ASSUME IInv, FifoInv, NEW r \in Readers, Take(r)
  PROVE  /\ fifo # <<>> /\ Head(fifo) = Taken(r) /\ fifo' = Tail(fifo) /\ fifo' \in Seq(Ids)
         /\ \A y : y \in Range(fifo') <=> y \in Range(fifo) /\ y # Taken(r)
         /\ InOrder'
<1>0. ReaderStep(r)
  BY DEF Take, ReaderStep
<1>1. Types /\ OnlyReader(r) /\ Types' /\ ~released
  BY <1>0, ReaderFrames, TypesOfReaders DEF IInv, OnlyReader
<1>2. PICK rank \in [Blocks -> Int], block \in [Ids -> Blocks], offset \in [Ids -> Offsets] :
        Ranked(rank) /\ Filed(block, offset) /\ Sorted(rank, block, offset)
  BY <1>1 DEF FifoInv, InOrder
<1>3. fifo \in Seq(Ids) /\ fifo' = Tail(fifo)
  BY <1>0, <1>1, ReadersTake DEF FifoInv
<1>4. /\ ReadBlock \in Blocks /\ rd[r].idx \in Offsets /\ Taken(r) \in Ids
      /\ Holds(ReadBlock, rd[r].idx, Taken(r))
  BY <1>1, TakesFirst DEF Holds
<1>5. ASSUME NEW b \in Blocks, NEW i \in Offsets, NEW id \in Ids
      PROVE  NextHolds(b, i, id) <=> Holds(b, i, id) /\ id # Taken(r)
  <2>1. NextHolds(b, i, id) <=> Holds(b, i, id) /\ ~(b = ReadBlock /\ i = rd[r].idx)
    BY <1>1, HoldsAfterTake
  <2>2. Holds(b, i, id) /\ b = ReadBlock /\ i = rd[r].idx => id = Taken(r)
    BY <1>1, <1>4, OnePushAPlace
  <2>3. Holds(b, i, id) /\ id = Taken(r) => b = ReadBlock /\ i = rd[r].idx
    <3>1. \A c \in Blocks, j \in Offsets : Holds(c, j, Taken(r)) => block[Taken(r)] = c /\ offset[Taken(r)] = j
      BY <1>2, <1>4 DEF Filed
    <3> QED
      BY <1>4, <3>1
  <2> QED
    BY <2>1, <2>2, <2>3
<1>6. \A b \in Blocks, i \in Offsets, id \in Ids :
        Holds(b, i, id) /\ id # Taken(r) => Before(rank, ReadBlock, rd[r].idx, b, i)
  BY <1>1, <1>2, TakenIsBefore
<1>7. /\ fifo # <<>> /\ Head(fifo) = Taken(r) /\ fifo' \in Seq(Ids)
      /\ \A y : y \in Range(fifo') <=> y \in Range(fifo) /\ y # Taken(r)
      /\ Filed(block, offset)' /\ Sorted(rank, block, offset)'
  <2> DEFINE old == Taken(r)
             i == rd[r].idx
  <2>1. /\ ReadBlock \in Blocks /\ i \in Offsets /\ old \in Ids /\ Holds(ReadBlock, i, old)
        /\ Removes(old) /\ IsFirst(rank, ReadBlock, i, old)
    BY <1>4, <1>5, <1>6 DEF Removes, IsFirst
  <2> HIDE DEF old, i
  <2>2. /\ fifo # <<>> /\ Head(fifo) = old /\ fifo' \in Seq(Ids)
        /\ \A y : y \in Range(fifo') <=> y \in Range(fifo) /\ y # old
        /\ Filed(block, offset)' /\ Sorted(rank, block, offset)'
    BY <1>2, <1>3, <2>1, FiledTail
  <2> QED
    BY <2>2 DEF old
<1>8. Ranked(rank)'
  <2>1. ~Advance(r) /\ ~Leave(r)
    BY <1>1, AdvanceIs, LeaveIs, CompareExchangeReadIdxIs DEF Take
  <2>2. Chain' = Chain /\ ReadBlock' = ReadBlock /\ \A b \in Chain : blk'[b].NextBlock = blk[b].NextBlock
    BY <1>0, <1>1, <2>1, ReadersUse
  <2>3. WriteBlock' = WriteBlock
    BY <1>1 DEF OnlyReader
  <2> QED
    BY <1>2, <2>2, <2>3, RankedStays
<1> QED
  BY <1>3, <1>7, <1>8 DEF InOrder

LEMMA OrderForReaders ==
  ASSUME IInv, FifoInv, NEW r \in Readers, Pop(r) \/ ReaderStep(r), ~Take(r)
  PROVE  InOrder'
<1>1. Types /\ OnlyReader(r) /\ Types' /\ ~released
  BY ReaderFrames, TypesOfReaders DEF IInv, OnlyReader
<1>2. PICK rank \in [Blocks -> Int], block \in [Ids -> Blocks], offset \in [Ids -> Offsets] :
        Ranked(rank) /\ Filed(block, offset) /\ Sorted(rank, block, offset)
  BY <1>1 DEF FifoInv, InOrder
<1>3. fifo' = fifo /\ SameHolds
  BY <1>1, ReadersTake, HoldsForReaders
<1>4. Ranked(rank)'
  <2>1. CASE Advance(r)
    BY <1>1, <1>2, <2>1, RankedAfterAdvance
  <2>2. CASE Leave(r)
    <3>1. Chain' = Chain /\ SameNext /\ ReadBlock' = ReadBlock
      BY <1>1, <2>2, LeaveUses, LeaveDoes, LeaveIs
    <3>2. WriteBlock' = WriteBlock /\ Chain \subseteq Blocks
      BY <1>1, ChainFacts DEF OnlyReader
    <3> QED
      BY <1>2, <3>1, <3>2, RankedStays DEF SameNext
  <2>3. CASE ~Advance(r) /\ ~Leave(r)
    <3>1. Chain' = Chain /\ ReadBlock' = ReadBlock /\ \A b \in Chain : blk'[b].NextBlock = blk[b].NextBlock
      BY <1>1, <2>3, ReadersUse
    <3>2. WriteBlock' = WriteBlock
      BY <1>1 DEF OnlyReader
    <3> QED
      BY <1>2, <3>1, <3>2, RankedStays
  <2> QED
    BY <2>1, <2>2, <2>3
<1> QED
  BY <1>2, <1>3, <1>4, FiledStays DEF InOrder

------------------------------------------------------------------------------
(* FifoInv is an invariant. *)
LEMMA FifoForWriters ==
  ASSUME IInv, FifoInv, NEW w \in Writers, Push(w) \/ WriterStep(w)
  PROVE  FifoInv'
<1>1. OnlyWriter(w)
  BY WriterFrames DEF IInv
<1>2. CallsTaken'
  BY <1>1 DEF FifoInv, CallsTaken, OnlyWriter
<1>3. fifo' \in Seq(Ids) /\ PushesAreOld'
  BY PushesGrowOld
<1>4. CommitsOwn' /\ InOrder'
  BY CommitsOwnForWriters, OrderForWriters DEF FifoInv
<1> QED
  BY <1>1, <1>2, <1>3, <1>4 DEF FifoInv, OnlyWriter

LEMMA FifoForReaders ==
  ASSUME IInv, FifoInv, NEW r \in Readers, Pop(r) \/ ReaderStep(r)
  PROVE  FifoInv'
<1>1. Types /\ OnlyReader(r)
  BY ReaderFrames DEF IInv
<1>2. fifo' \in Seq(Ids) /\ \A x \in Range(fifo') : x \in Range(fifo)
  BY <1>1, ReadersTake, TakesOldest DEF FifoInv
<1>3. PushesAreOld'
  <2>1. wr' = wr
    BY <1>1 DEF OnlyReader
  <2>2. \A x \in Range(fifo') :
          x[2] <= wr'[x[1]].nr /\ (wr'[x[1]].pc \in Unreserved => x[2] < wr'[x[1]].nr)
    BY <1>2, <2>1 DEF FifoInv, PushesAreOld
  <2> QED
    BY <2>2 DEF PushesAreOld
<1>4. CommitsOwn' /\ CallsTaken' /\ InOrder'
  BY CommitsOwnForReaders, CallsTakenForReaders, OrderForReaders, TakesOldest DEF FifoInv
<1> QED
  BY <1>1, <1>2, <1>3, <1>4 DEF FifoInv, OnlyReader

LEMMA NothingInFifo ==
  ASSUME fifo = <<>>
  PROVE  fifo \in Seq(Ids) /\ Range(fifo) = {} /\ Len(fifo) = 0
<1>1. fifo \in Seq(Ids) /\ Len(fifo) = 0
  OBVIOUS
<1>2. ASSUME NEW s \in Seq(Ids), Len(s) = 0 PROVE Range(s) = {}
  BY <1>2 DEF Range
<1>3. Range(fifo) = {}
  BY <1>1, <1>2
<1> QED
  BY <1>1, <1>3

LEMMA FifoAfterRelease ==
  ASSUME IInv, FifoInv, Release
  PROVE  FifoInv'
<1>1. fifo' = <<>> /\ released'
  BY ReleaseDestroysAll
<1>2. /\ UNCHANGED <<blk, ReadBlock, indexVars, wr, rd>>
      /\ \A w \in Writers : wr[w].pc = "idle"
  BY DEF Release
<1>3. fifo' \in Seq(Ids)
  BY <1>1, NothingInFifo
<1>4. PushesAreOld'
  <2>1. (fifo = <<>> => Range(fifo) = {})'
    BY NothingInFifo, PTL
  <2> QED
    BY <1>1, <2>1 DEF PushesAreOld
<1>5. CommitsOwn' /\ CallsTaken'
  BY <1>2 DEF CommitsOwn, CallsTaken, FifoInv
<1> QED
  BY <1>1, <1>3, <1>4, <1>5 DEF FifoInv

LEMMA FifoStutters ==
  ASSUME IInv, FifoInv, UNCHANGED vars
  PROVE  FifoInv'
<1>1. /\ fifo' = fifo /\ released' = released /\ blk' = blk /\ wr' = wr /\ rd' = rd
      /\ ReadBlock' = ReadBlock /\ WriteBlock' = WriteBlock
  BY DEF vars, memory, indexVars
<1>2. fifo' \in Seq(Ids) /\ PushesAreOld' /\ CommitsOwn' /\ CallsTaken'
  BY <1>1 DEF FifoInv, PushesAreOld, CommitsOwn, CallsTaken, Range, Id, Start
<1>3. SUFFICES ASSUME ~released, InOrder PROVE InOrder'
  BY <1>1, <1>2 DEF FifoInv
<1>4. PICK rank \in [Blocks -> Int], block \in [Ids -> Blocks], offset \in [Ids -> Offsets] :
        Ranked(rank) /\ Filed(block, offset) /\ Sorted(rank, block, offset)
  BY <1>3 DEF InOrder
<1>5. SameHolds
  <2>1. SameWriting
    BY <1>1 DEF SameWriting
  <2> QED
    BY <1>1, <2>1, QuietHolds, SamePlacesSameUnread DEF SameReadIdx, SamePlaces
<1>6. Ranked(rank)'
  <2>1. Chain' = Chain
    BY <1>1 DEF Chain, Linked
  <2> QED
    BY <1>1, <1>4, <2>1, RankedStays
<1> QED
  BY <1>1, <1>4, <1>5, <1>6, FiledStays DEF InOrder

LEMMA FifoIsKept == IInv /\ FifoInv /\ [Next]_vars => FifoInv'
<1> SUFFICES ASSUME IInv, FifoInv, [Next]_vars PROVE FifoInv'
  OBVIOUS
<1>1. ASSUME NEW w \in Writers, Push(w) \/ WriterStep(w) PROVE FifoInv'
  BY <1>1, FifoForWriters
<1>2. ASSUME NEW r \in Readers, Pop(r) \/ ReaderStep(r) PROVE FifoInv'
  BY <1>2, FifoForReaders
<1>3. CASE Release
  BY <1>3, FifoAfterRelease
<1>4. CASE Over \/ UNCHANGED vars
  BY <1>4, FifoStutters DEF Over
<1> QED
  BY <1>1, <1>2, <1>3, <1>4 DEF Next

LEMMA InitIsInOrder == Init => FifoInv
<1> SUFFICES ASSUME Init PROVE FifoInv
  OBVIOUS
<1>1. fifo = <<>> /\ fifo \in Seq(Ids) /\ Range(fifo) = {} /\ Len(fifo) = 0 /\ ~released
  BY NothingInFifo DEF Init
<1>2. /\ \A w \in Writers : wr[w].pc = "idle"
      /\ \A r \in Readers : rd[r].pc = "idle" /\ rd[r].functor = Null
      /\ \A b \in Blocks : /\ blk[b].NextBlock = Null
                           /\ \A i \in Offsets : blk[b].place[i].ready = FALSE
      /\ ReadBlock \in Blocks /\ WriteBlock = ReadBlock /\ Chain = {ReadBlock}
  <2>1. \A r \in Readers : rd[r].functor = Null
    BY InitialParts DEF IdleReader
  <2> QED
    BY <2>1, InitialState, InitialParts, InitialChain
<1>3. PushesAreOld /\ CommitsOwn /\ CallsTaken
  BY <1>1, <1>2 DEF PushesAreOld, CommitsOwn, CallsTaken
<1>4. InOrder
  <2> DEFINE rank == [b \in Blocks |-> 0]
             block == [id \in Ids |-> ReadBlock]
             offset == [id \in Ids |-> StartIdx]
  <2>1. rank \in [Blocks -> Int] /\ block \in [Ids -> Blocks] /\ offset \in [Ids -> Offsets]
    BY <1>2, Numbers
  <2>2. Ranked(rank)
    BY <1>2 DEF Ranked
  <2> HIDE DEF rank, block, offset
  <2>3. \A b \in Blocks, i \in Offsets, id \in Ids : ~Holds(b, i, id)
    <3>1. Writing = {} /\ \A b \in Blocks : Unread(b) = {}
      BY <1>2 DEF Writing, Unread
    <3> QED
      BY <3>1 DEF Holds, Committed, Reserved
  <2>4. Filed(block, offset) /\ Sorted(rank, block, offset)
    BY <1>1, <2>3 DEF Filed, Sorted
  <2> QED
    BY <2>1, <2>2, <2>4 DEF InOrder
<1> QED
  BY <1>1, <1>3, <1>4 DEF FifoInv

(* The pushes in fifo are the places of the chain, from the oldest to the   *)
(* newest.                                                                  *)
THEOREM PlacesAreInOrder == Spec => []FifoInv
  BY Invariant, InitIsInOrder, FifoIsKept, PTL DEF Spec

(* A queue that is released destroys every functor still in it and frees    *)
(* every block (191-233).                                                   *)
THEOREM NothingIsLeft == Spec => []ReleaseLeavesNothing
<1>1. FifoInv => (released => fifo = <<>>)
  BY DEF FifoInv
<1>2. (released => heap = {}) /\ (released => fifo = <<>>) => ReleaseLeavesNothing
  BY DEF ReleaseLeavesNothing
<1> QED
  BY <1>1, <1>2, PlacesAreInOrder, ReleaseFreesAllBlocks, PTL

------------------------------------------------------------------------------
(* The abstract queue of a state. *)
AbsCommitted == UNION { { Id(blk[b].place[i].functor) : i \in Unread(b) } : b \in Chain }
AbsTaken == [r \in Readers |-> IF rd[r].functor = Null THEN Null ELSE Id(rd[r].functor)]

IsCommitted(x) == \E b \in Blocks : \E i \in Offsets : Committed(b, i, x)
NextIsCommitted(x) == \E b \in Blocks : \E i \in Offsets : NextCommitted(b, i, x)

LEMMA CommittedIs ==
  IInv /\ ~released => /\ AbsCommitted \subseteq Ids
                       /\ \A x \in Ids : x \in AbsCommitted <=> IsCommitted(x)
<1> SUFFICES ASSUME IInv, ~released
             PROVE  /\ AbsCommitted \subseteq Ids
                    /\ \A x \in Ids : x \in AbsCommitted <=> IsCommitted(x)
  OBVIOUS
<1>1. Chain \subseteq Blocks
  BY ChainFacts DEF IInv
<1>2. \A x : x \in AbsCommitted <=> \E b \in Chain : \E i \in Unread(b) : Id(blk[b].place[i].functor) = x
  BY DEF AbsCommitted
<1>3. ASSUME NEW b \in Blocks, NEW i \in Unread(b)
      PROVE  b \in Chain /\ i \in Offsets /\ Id(blk[b].place[i].functor) \in Ids
  <2>1. i \in ReadyAt(b) /\ i \in Offsets
    BY DEF Unread, ReadyAt
  <2>2. b \in Chain
    BY UnreadIsInChain
  <2> QED
    BY <2>1, <2>2 DEF IInv, ReadyApart, Functors, Id, Ids
<1>4. AbsCommitted \subseteq Ids
  BY <1>1, <1>2, <1>3
<1>5. \A x \in Ids : x \in AbsCommitted <=> IsCommitted(x)
  BY <1>1, <1>2, <1>3 DEF IsCommitted, Committed
<1> QED
  BY <1>4, <1>5

LEMMA NextCommittedIs ==
  ASSUME IInv', ~released'
  PROVE  /\ AbsCommitted' \subseteq Ids
         /\ \A x \in Ids : x \in AbsCommitted' <=> NextIsCommitted(x)
<1>1. (IInv /\ ~released => /\ AbsCommitted \subseteq Ids
                            /\ \A x \in Ids : x \in AbsCommitted <=> IsCommitted(x))'
  BY CommittedIs, PTL
<1>2. \A b, i, x : Committed(b, i, x)' <=> NextCommitted(b, i, x)
  BY DEF Committed, NextCommitted, Unread, NextUnread, Id
<1>3. \A x : IsCommitted(x)' <=> NextIsCommitted(x)
  BY <1>2 DEF IsCommitted, NextIsCommitted
<1> QED
  BY <1>1, <1>3

LEMMA AbstractRange == \A s : Abstract!Range(s) = Range(s)
BY DEF Abstract!Range, Range

LEMMA SameCommittedIs ==
  ASSUME IInv, ~released, IInv', ~released', SameCommitted
  PROVE  AbsCommitted' = AbsCommitted
<1>1. \A x \in Ids : NextIsCommitted(x) <=> IsCommitted(x)
  BY DEF SameCommitted, NextIsCommitted, IsCommitted
<1> QED
  BY <1>1, CommittedIs, NextCommittedIs

LEMMA TakenStays ==
  ASSUME \A r \in Readers : rd'[r].functor = rd[r].functor
  PROVE  AbsTaken' = AbsTaken
BY DEF AbsTaken, Id

(* Every step is one of the abstract queue, or changes nothing of it. *)
LEMMA ReservesInFifo ==
  ASSUME IInv, FifoInv, IInv', NEW w \in Writers, AppendBlock(w) \/ Reserve(w)
  PROVE  Abstract!Next
<1> DEFINE new == <<w, wr[w].nr>>
<1>1. Push(w) \/ WriterStep(w)
  BY DEF WriterStep, Reserve
<1>2. Types /\ Types' /\ OnlyWriter(w) /\ ~released /\ ~released'
  BY <1>1, WriterFrames DEF IInv, OnlyWriter
<1>3. new \in Ids /\ new \notin Range(fifo) /\ fifo' = Append(fifo, new)
  BY <1>1, <1>2, ReservedIsNew, WritersAppend
<1>4. SameCommitted
  BY <1>2, HoldsAfterReserve, HoldsAfterAppend
<1>5. AbsCommitted' = AbsCommitted /\ AbsTaken' = AbsTaken
  BY <1>2, <1>4, SameCommittedIs, TakenStays DEF OnlyWriter
<1> HIDE DEF new
<1>6. Abstract!Reserve(new)
  BY <1>3, <1>5, AbstractRange DEF Abstract!Reserve, AbsCommitted, AbsTaken
<1> QED
  BY <1>3, <1>6 DEF Abstract!Next, Ids

LEMMA CommitsInFifo ==
  ASSUME IInv, FifoInv, IInv', NEW w \in Writers, Commit(w)
  PROVE  Abstract!Next
<1> DEFINE new == <<w, wr[w].nr>>
<1>1. Push(w) \/ WriterStep(w)
  BY DEF WriterStep
<1>2. Types /\ Types' /\ OnlyWriter(w) /\ ~released /\ ~released' /\ CommitsOwn
  BY <1>1, WriterFrames DEF IInv, OnlyWriter, FifoInv
<1>3. fifo' = fifo
  <2>1. ~AppendBlock(w) /\ ~Reserve(w)
    BY <1>2, AppendBlockIs, CompareExchangePreWriteIdxIs, CommitIs DEF Reserve
  <2> QED
    BY <1>1, <1>2, <2>1, WritersAppend
<1>4. /\ w \in Writing /\ WriteBlock \in Blocks /\ Start(w) \in Offsets
      /\ \A b \in Blocks, i \in Offsets, id \in Ids :
           NextCommitted(b, i, id) <=>
             \/ Committed(b, i, id)
             \/ b = WriteBlock /\ i = Start(w) /\ id = new
  BY <1>2, HoldsAfterCommit
<1>5. new \in Ids
  <2>1. wr[w].nr \in 1..MaxPush
    BY <1>2, CommitIs DEF IInv, WriterLocals
  <2> QED
    BY <2>1 DEF Ids
<1>6. Reserved(WriteBlock, Start(w), new)
  BY <1>4 DEF Reserved
<1> HIDE DEF new
<1>7. PICK rank \in [Blocks -> Int], block \in [Ids -> Blocks], offset \in [Ids -> Offsets] :
        Filed(block, offset)
  BY <1>2 DEF FifoInv, InOrder
<1>8. new \in Range(fifo) /\ block[new] = WriteBlock /\ offset[new] = Start(w)
  BY <1>4, <1>5, <1>6, <1>7 DEF Filed, Holds
<1>9. ~IsCommitted(new)
  <2> SUFFICES ASSUME NEW b \in Blocks, NEW i \in Offsets, Committed(b, i, new) PROVE FALSE
    BY DEF IsCommitted
  <2>1. b = WriteBlock /\ i = Start(w)
    BY <1>5, <1>7, <1>8 DEF Filed, Holds
  <2>2. i \in ReadyAt(b)
    BY DEF Committed, Unread, ReadyAt
  <2> QED
    BY <1>4, <2>1, <2>2, StartNotReady
<1>10. \A x \in Ids : NextIsCommitted(x) <=> IsCommitted(x) \/ x = new
  BY <1>4 DEF NextIsCommitted, IsCommitted
<1>11. new \notin AbsCommitted /\ AbsCommitted' = AbsCommitted \union {new}
  BY <1>2, <1>5, <1>9, <1>10, CommittedIs, NextCommittedIs
<1>12. AbsTaken' = AbsTaken
  BY <1>2, TakenStays DEF OnlyWriter
<1>13. Abstract!Commit(new)
  BY <1>3, <1>8, <1>11, <1>12, AbstractRange DEF Abstract!Commit, AbsCommitted, AbsTaken
<1> QED
  BY <1>5, <1>13 DEF Abstract!Next, Ids

LEMMA TakesFromFifo ==
  ASSUME IInv, FifoInv, IInv', NEW r \in Readers, Take(r)
  PROVE  Abstract!Next
<1> DEFINE old == Taken(r)
           i == rd[r].idx
<1>1. Pop(r) \/ ReaderStep(r)
  BY DEF ReaderStep, Take
<1>2. Types /\ Types' /\ OnlyReader(r) /\ ~released /\ ~released'
  BY <1>1, ReaderFrames DEF IInv, OnlyReader
<1>3. fifo # <<>> /\ Head(fifo) = old /\ fifo' = Tail(fifo)
  BY TakesOldest
<1>4. /\ ReadBlock \in Blocks /\ i \in Offsets /\ old \in Ids /\ Committed(ReadBlock, i, old)
      /\ rd[r].block = ReadBlock
  BY <1>2, TakesFirst
<1>5. \A c \in Blocks, j \in Offsets, id \in Ids :
        NextCommitted(c, j, id) <=> Committed(c, j, id) /\ ~(c = ReadBlock /\ j = i)
  BY <1>2, HoldsAfterTake
<1>6. rd[r].functor = Null /\ rd'[r].functor # Null /\ Id(rd'[r].functor) = old
  <2>1. rd[r].pc = "compareExchange" /\ rd'[r].pc = "call"
        /\ rd'[r].functor = blk[rd[r].block].place[rd[r].idx].functor
    BY <1>2, CompareExchangeReadIdxIs DEF Take
  <2>2. CallsTaken /\ CallsTaken'
    BY <1>1, CallsTakenForReaders DEF FifoInv
  <2> QED
    BY <2>1, <2>2 DEF CallsTaken, Taken
<1>7. AbsTaken[r] = Null /\ AbsTaken' = [AbsTaken EXCEPT ![r] = old]
  BY <1>2, <1>6 DEF AbsTaken, OnlyReader, Id
<1> HIDE DEF old, i
<1>8. PICK rank \in [Blocks -> Int], block \in [Ids -> Blocks], offset \in [Ids -> Offsets] :
        Filed(block, offset)
  BY <1>2 DEF FifoInv, InOrder
<1>9. \A c \in Blocks, j \in Offsets : Committed(c, j, old) => c = ReadBlock /\ j = i
  <2>1. block[old] = ReadBlock /\ offset[old] = i
    BY <1>4, <1>8 DEF Filed, Holds
  <2> QED
    BY <1>4, <1>8, <2>1 DEF Filed, Holds
<1>10. \A x \in Ids : Committed(ReadBlock, i, x) => x = old
  BY <1>4 DEF Committed
<1>11. \A x \in Ids : NextIsCommitted(x) <=> IsCommitted(x) /\ x # old
  BY <1>5, <1>9, <1>10 DEF NextIsCommitted, IsCommitted
<1>12. IsCommitted(old)
  BY <1>4 DEF IsCommitted
<1>13. old \in AbsCommitted /\ AbsCommitted' = AbsCommitted \ {old}
  BY <1>2, <1>4, <1>11, <1>12, CommittedIs, NextCommittedIs
<1>14. Abstract!Take(r)
  BY <1>3, <1>7, <1>13 DEF Abstract!Take, AbsCommitted, AbsTaken
<1> QED
  BY <1>14 DEF Abstract!Next

LEMMA FinishesInFifo ==
  ASSUME IInv, FifoInv, IInv', NEW r \in Readers, CallAndDestroy(r)
  PROVE  Abstract!Next
<1>1. Pop(r) \/ ReaderStep(r)
  BY DEF ReaderStep
<1>2. Types /\ Types' /\ OnlyReader(r) /\ ~released /\ ~released'
  BY <1>1, ReaderFrames DEF IInv, OnlyReader
<1>3. rd[r].pc = "call" /\ rd'[r].functor = Null
  BY <1>2, CallAndDestroyIs
<1>4. fifo' = fifo /\ SameCommitted
  <2>1. ~Take(r)
    BY <1>2, CompareExchangeReadIdxIs, CallAndDestroyIs DEF Take
  <2> QED
    BY <1>1, <1>2, <2>1, ReadersTake, HoldsForReaders
<1>5. rd[r].functor \in Functors /\ rd[r].functor # Null
  <2>1. rd[r].functor # Null
    BY <1>3 DEF FifoInv, CallsTaken
  <2> QED
    BY <1>2, <2>1, Fields
<1>6. Id(rd[r].functor) # Null
  BY <1>5, NamesAssumption DEF Functors, Id
<1>7. AbsTaken[r] # Null /\ AbsTaken' = [AbsTaken EXCEPT ![r] = Null]
  BY <1>2, <1>3, <1>5, <1>6 DEF AbsTaken, OnlyReader, Id
<1>8. AbsCommitted' = AbsCommitted
  BY <1>2, <1>4, SameCommittedIs
<1>9. Abstract!Finish(r)
  BY <1>4, <1>7, <1>8 DEF Abstract!Finish, AbsCommitted, AbsTaken
<1> QED
  BY <1>9 DEF Abstract!Next

LEMMA DiscardsFifo ==
  ASSUME IInv, FifoInv, Release
  PROVE  Abstract!Next
<1>1. /\ fifo' = <<>> /\ released' /\ ~released
      /\ \A x : x \in Range(fifo) <=> \E b \in Chain : \E i \in Unread(b) : x = Id(blk[b].place[i].functor)
  BY ReleaseDestroysAll
<1>2. /\ \A r \in Readers : rd[r].pc = "idle"
      /\ rd' = rd
  BY DEF Release
<1>3. Range(fifo) = AbsCommitted
  BY <1>1 DEF AbsCommitted
<1>4. AbsCommitted' = {}
  <2>1. Chain' = {}
    BY <1>1 DEF Chain
  <2> QED
    BY <2>1 DEF AbsCommitted
<1>5. \A r \in Readers : AbsTaken[r] = Null
  BY <1>2 DEF FifoInv, CallsTaken, AbsTaken
<1>6. AbsTaken' = AbsTaken
  BY <1>2, TakenStays
<1>7. Abstract!Discard
  BY <1>1, <1>3, <1>4, <1>5, <1>6, AbstractRange DEF Abstract!Discard, AbsCommitted, AbsTaken
<1> QED
  BY <1>7 DEF Abstract!Next

LEMMA StepsOfFifo ==
  IInv /\ FifoInv /\ IInv' /\ [Next]_vars => [Abstract!Next]_(Abstract!vars)
<1> SUFFICES ASSUME IInv, FifoInv, IInv', [Next]_vars PROVE [Abstract!Next]_(Abstract!vars)
  OBVIOUS
<1> DEFINE Stays == fifo' = fifo /\ AbsCommitted' = AbsCommitted /\ AbsTaken' = AbsTaken
<1>1. ASSUME NEW w \in Writers, Push(w) \/ WriterStep(w) PROVE Abstract!Next \/ Stays
  <2>1. CASE AppendBlock(w) \/ Reserve(w)
    BY <2>1, ReservesInFifo
  <2>2. CASE Commit(w)
    BY <2>2, CommitsInFifo
  <2>3. CASE ~AppendBlock(w) /\ ~Reserve(w) /\ ~Commit(w)
    <3>1. Types /\ OnlyWriter(w) /\ ~released /\ ~released'
      BY <1>1, WriterFrames DEF IInv, OnlyWriter
    <3>2. fifo' = fifo
      BY <1>1, <2>3, <3>1, WritersAppend
    <3>3. SameCommitted
      BY <1>1, <2>3, <3>1, WriterKinds, HoldsForQuietWriters, HoldsAfterConstruct
    <3>4. AbsCommitted' = AbsCommitted /\ AbsTaken' = AbsTaken
      BY <3>1, <3>3, SameCommittedIs, TakenStays DEF OnlyWriter
    <3> QED
      BY <3>2, <3>4
  <2> QED
    BY <2>1, <2>2, <2>3
<1>2. ASSUME NEW r \in Readers, Pop(r) \/ ReaderStep(r) PROVE Abstract!Next \/ Stays
  <2>1. CASE Take(r)
    BY <2>1, TakesFromFifo
  <2>2. CASE CallAndDestroy(r)
    BY <2>2, FinishesInFifo
  <2>3. CASE ~Take(r) /\ ~CallAndDestroy(r)
    <3>1. Types /\ OnlyReader(r) /\ ~released /\ ~released'
      BY <1>2, ReaderFrames DEF IInv, OnlyReader
    <3>2. fifo' = fifo /\ SameCommitted
      BY <1>2, <2>3, <3>1, ReadersTake, HoldsForReaders
    <3>3. \A q \in Readers : rd'[q].functor = rd[q].functor
      BY <1>2, <2>3, <3>1, CallsTakenForReaders DEF OnlyReader, FifoInv
    <3>4. AbsCommitted' = AbsCommitted /\ AbsTaken' = AbsTaken
      BY <3>1, <3>2, <3>3, SameCommittedIs, TakenStays
    <3> QED
      BY <3>2, <3>4
  <2> QED
    BY <2>1, <2>2, <2>3
<1>3. ASSUME Release PROVE Abstract!Next
  BY <1>3, DiscardsFifo
<1>4. ASSUME Over \/ UNCHANGED vars PROVE Stays
  <2>1. /\ fifo' = fifo /\ released' = released /\ blk' = blk /\ rd' = rd /\ ReadBlock' = ReadBlock
    BY <1>4 DEF Over, vars, memory
  <2> QED
    BY <2>1 DEF AbsCommitted, AbsTaken, Chain, Linked, Unread, Id
<1> HIDE DEF Stays
<1>5. Abstract!Next \/ Stays
  BY <1>1, <1>2, <1>3, <1>4 DEF Next
<1>6. Stays => UNCHANGED Abstract!vars
  BY DEF Abstract!vars, AbsCommitted, AbsTaken, Stays
<1> QED
  BY <1>5, <1>6

LEMMA InitOfFifo == Init => Abstract!Init
<1> SUFFICES ASSUME Init PROVE Abstract!Init
  OBVIOUS
<1>1. fifo = <<>> /\ ~released
  BY DEF Init
<1>2. AbsCommitted = {}
  <2>1. \A b \in Blocks : Unread(b) = {}
    BY InitialState DEF Unread
  <2>2. Chain \subseteq Blocks
    BY InitialChain, InitialParts
  <2> QED
    BY <2>1, <2>2 DEF AbsCommitted
<1>3. AbsTaken = [r \in Readers |-> Null]
  BY InitialParts DEF AbsTaken, IdleReader
<1> QED
  BY <1>1, <1>2, <1>3 DEF Abstract!Init, AbsCommitted, AbsTaken

(* The queue is a FIFO: whatever the writers, the readers and malloc do,    *)
(* functors are called in the order in which their places were reserved,    *)
(* each once and after its commit, and release discards the rest.           *)
THEOREM QueueIsFifo == Spec => ImplementsFifo
<1>1. Init => Abstract!Init
  BY InitOfFifo
<1>2. IInv /\ FifoInv /\ IInv' /\ [Next]_vars => [Abstract!Next]_(Abstract!vars)
  BY StepsOfFifo
<1> QED
  BY <1>1, <1>2, Invariant, PlacesAreInOrder, PTL DEF Spec, ImplementsFifo, Abstract!Spec
=============================================================================
