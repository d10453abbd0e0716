------------------------------ MODULE RingBuffer ------------------------------
(***************************************************************************)
(* ring_buffer (src/old_addtl/ring_buffer.h): a queue in a contiguous      *)
(* block that doubles when it is full.  The index arithmetic is that of    *)
(* the code: a & mask is a % capacity, the capacity being a power of two.  *)
(*                                                                         *)
(* A cell is Raw memory or an object.  The model is of a build without     *)
(* assertions; it ends ("wild") where the code does something undefined.   *)
(***************************************************************************)
EXTENDS Integers, Sequences, FiniteSets, Folds

CONSTANTS
  Rings,         \* the objects
  Values,        \* what is put into them
  Mark,          \* the one of them of which a ring holds at most one (a bound)
  Capacities,    \* the constructor's parameter
  MaxCapacity,   \* bound: no expansion beyond
  MaxSize,       \* bound: objects in all the rings together
  Raw, None

Cells(n) == [0 .. n - 1 -> Values \union {Raw}]
Buffers == UNION { Cells(n) : n \in 0 .. MaxCapacity }

(* One object; its buffer_ is None when it was moved away.                  *)
Object == [capacity : 0 .. MaxCapacity, buffer : Buffers \union {None},
           wi : 0 .. MaxCapacity, ri : 0 .. MaxCapacity]

(* What the constants have to be. *)
Assumptions ==
  /\ {MaxCapacity, MaxSize} \subseteq Nat
  /\ Capacities \subseteq 0 .. MaxCapacity
  /\ \A c \in Capacities : c >= 4 /\ \E n \in 2 .. c : c = 2 ^ n
  /\ Mark \in Values /\ Raw \notin Values
  /\ None \notin Values \union Buffers \union Object

VARIABLES
  ring,      \* the objects, or None
  result,    \* what the last call returned
  wild

vars == <<ring, result, wild>>

(* The buffer and the indices of an object belong to its capacity. *)
IsRing(r) ==
  /\ r.capacity \in Nat
  /\ r.buffer # None => r.buffer \in Cells(r.capacity)
  /\ {r.wi, r.ri} \subseteq 0 .. r.capacity - 1

TypeOK ==
  /\ \A x \in Rings : ring[x] # None => IsRing(ring[x])
  /\ result \in Values \union {None}
  /\ wild \in BOOLEAN

Init == ring = [x \in Rings |-> None] /\ result = None /\ wild = FALSE

Usable(x) == ring[x] # None /\ ring[x].buffer # None

(* 184-188 *)
Size(r) == (r.wi - r.ri) % r.capacity

(* The n places from the read index on. *)
Place(r, i) == (r.ri + i) % r.capacity
Contents(r) == [i \in 1 .. Size(r) |-> r.buffer[Place(r, i - 1)]]

RawBuffer(n) == [i \in 0 .. n - 1 |-> Raw]

Set(x, r) == ring' = [ring EXCEPT ![x] = r] /\ UNCHANGED wild

Wild == wild' = TRUE /\ ring' = [x \in Rings |-> None] /\ result' = None

Sizes == MapThenFoldSet(+, 0, LAMBDA x : IF Usable(x) THEN Size(ring[x]) ELSE 0,
                        LAMBDA S : CHOOSE x \in S : TRUE, Rings)
------------------------------------------------------------------------------
(* 57-69 *)
Construct(x, c) ==
  /\ ring[x] = None
  /\ Set(x, [capacity |-> c, buffer |-> RawBuffer(c), wi |-> 0, ri |-> 0])
  /\ result' = None

(* The buffer of the size n that holds copies of what is in r. *)
Copied(r, n) ==
  [p \in 0 .. n - 1 |-> IF \E i \in 0 .. Size(r) - 1 : p = (r.ri + i) % n
                        THEN r.buffer[p % r.capacity] ELSE Raw]

(* Slip: the indices are copied too early, from 0. *)
CopyFromZero(x, y) ==
  /\ x # y /\ ring[x] = None /\ Usable(y)
  /\ Sizes + Size(ring[y]) <= MaxSize
  /\ \/ Set(x, [ring[y] EXCEPT !.buffer = Copied(ring[y], ring[y].capacity), !.ri = 0])
        /\ result' = None
     \/ Wild

(* 71-91: buffer_ is declared, hence initialised, before capacity_mask_:    *)
(* the block has whatever size the memory of the mask said.                 *)
Copy(x, y) ==
  /\ x # y /\ ring[x] = None /\ Usable(y)
  /\ Sizes + Size(ring[y]) <= MaxSize
  /\ \/ Set(x, [ring[y] EXCEPT !.buffer = Copied(ring[y], ring[y].capacity)])
        /\ result' = None
     \/ Wild

(* 93-105 *)
Move(x, y) ==
  /\ x # y /\ ring[x] = None /\ Usable(y)
  /\ ring' = [ring EXCEPT ![x] = ring[y], ![y].buffer = None]
  /\ result' = None /\ UNCHANGED wild

(* 107-126: only the cells in the range are destroyed; they must be objects.*)
Destroy(x) ==
  /\ ring[x] # None
  /\ Set(x, None)
  /\ result' = None

(* Slip: the write index stays where it was. *)
ExpandedInPlace(r) ==
  [r EXCEPT !.capacity = 2 * @, !.buffer = Copied(r, 2 * r.capacity)]

(* 191-221: the cells move to their places in the larger block. *)
Expanded(r) ==
  [r EXCEPT !.capacity = 2 * @,
            !.buffer   = Copied(r, 2 * r.capacity),
            !.wi       = IF @ < r.ri THEN @ + r.capacity ELSE @]

(* Slip: the ring may be filled to the last cell. *)
RoomyTooLong(r) == IF Size(r) = r.capacity THEN Expanded(r) ELSE r

(* 130-141 *)
Roomy(r) == IF (r.ri - r.wi - 1) % r.capacity = 0 THEN Expanded(r) ELSE r

(* 128-145: the object must not be constructed over another one. *)
PushBack(x, v) ==
  /\ Usable(x)
  /\ LET r == Roomy(ring[x]) IN
       /\ r.capacity <= MaxCapacity /\ Sizes < MaxSize
       /\ v = Mark => \A p \in DOMAIN r.buffer : r.buffer[p] # Mark
       /\ IF r.buffer[r.wi] = Raw
          THEN /\ Set(x, [r EXCEPT !.buffer[r.wi] = v, !.wi = (@ + 1) % r.capacity])
               /\ result' = None
          ELSE Wild

(* 147-155, 157-165: try_pop calls it when there is something. *)
PopFront(x) ==
  /\ Usable(x)
  /\ LET r == ring[x] IN
       /\ Size(r) # 0
       /\ result' = r.buffer[r.ri]
       /\ Set(x, [r EXCEPT !.buffer[r.ri] = Raw, !.ri = (@ + 1) % r.capacity])

TryPopNothing(x) ==
  /\ Usable(x) /\ Size(ring[x]) = 0
  /\ result' = None
  /\ UNCHANGED <<ring, wild>>

(* Slip: the last place, not the one before the write index. *)
BackAtWrite(x) ==
  /\ Usable(x) /\ Size(ring[x]) # 0
  /\ LET r == ring[x] IN
       IF r.wi = 0 THEN Wild
       ELSE result' = r.buffer[(r.ri + Size(r)) % r.capacity] /\ UNCHANGED <<ring, wild>>

(* 167-170: without the mask, there is no place before 0. *)
Back(x) ==
  /\ Usable(x) /\ Size(ring[x]) # 0
  /\ LET r == ring[x] IN
       IF r.wi = 0 THEN Wild
       ELSE result' = r.buffer[r.wi - 1] /\ UNCHANGED <<ring, wild>>

(* 172-175 *)
Front(x) ==
  /\ Usable(x) /\ Size(ring[x]) # 0
  /\ result' = ring[x].buffer[ring[x].ri]
  /\ UNCHANGED <<ring, wild>>
------------------------------------------------------------------------------
Next ==
  /\ ~wild
  /\ \E x \in Rings :
       \/ \E c \in Capacities : Construct(x, c)
       \/ \E y \in Rings : Copy(x, y) \/ Move(x, y)
       \/ \E v \in Values : PushBack(x, v)
       \/ Destroy(x) \/ PopFront(x) \/ TryPopNothing(x) \/ Back(x) \/ Front(x)

Spec == Init /\ [][Next]_vars
------------------------------------------------------------------------------
(* The cells that hold an object are those from the read index to the write *)
(* index, and one cell is always free: what destroy, expand and the copy    *)
(* constructor rely on.                                                     *)
LiveCells == \A x \in Rings : Usable(x) =>
  LET r == ring[x] IN
  \A i \in 0 .. r.capacity - 1 : r.buffer[Place(r, i)] # Raw <=> i < Size(r)

(* The contents that the object x has in a state of the ring. *)
Seq0(x) == IF Usable(x) THEN Contents(ring[x]) ELSE <<>>

(* Every call does to the contents what it would do to a sequence, also     *)
(* when the indices have wrapped and when the block doubles, and front() and *)
(* back() return its ends.                                                  *)
ActsAsQueue ==
  [][~wild' => \A x \in Rings :
       LET old == Seq0(x)
           new == Seq0(x)'
       IN  /\ \A v \in Values : PushBack(x, v) => new = Append(old, v)
           /\ PopFront(x) => new = Tail(old) /\ result' = Head(old)
           /\ \A y \in Rings : Copy(x, y) \/ Move(x, y) => new = Seq0(y)
           /\ Front(x) => new = old /\ result' = Head(old)
           /\ Back(x) => new = old /\ result' = old[Len(old)]]_vars

(* A ring that only grows and shrinks at its ends never runs into itself:   *)
(* what is undefined is the copy constructor and back() at index 0.         *)
RingIsQueue ==
  /\ [](TypeOK /\ LiveCells)
  /\ ActsAsQueue
===============================================================================
