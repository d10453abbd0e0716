----------------------------- MODULE FunctorFifo -----------------------------
(***************************************************************************)
(* What the concurrent functor queue promises, without blocks, indices and *)
(* locks: functors are called in the order in which their places were      *)
(* reserved, each by one reader, and only after its writer has finished it.*)
(***************************************************************************)
EXTENDS Sequences, Functions

CONSTANTS Functors, Readers, None

VARIABLES
  fifo,       \* the reserved places not yet taken, oldest first
  committed,  \* the functors in fifo that are ready to be called
  taken       \* the functor each reader is calling

vars == <<fifo, committed, taken>>

Init ==
  /\ fifo = <<>>
  /\ committed = {}
  /\ taken = [r \in Readers |-> None]

(* A writer reserves the next place. *)
Reserve(f) ==
  /\ f \notin Range(fifo)
  /\ fifo' = Append(fifo, f)
  /\ UNCHANGED <<committed, taken>>

(* The writer has constructed the functor in its place. *)
Commit(f) ==
  /\ f \in Range(fifo) \ committed
  /\ committed' = committed \union {f}
  /\ UNCHANGED <<fifo, taken>>

(* A reader takes the oldest functor, which must be ready. *)
Take(r) ==
  /\ taken[r] = None
  /\ fifo # <<>>
  /\ Head(fifo) \in committed
  /\ taken' = [taken EXCEPT ![r] = Head(fifo)]
  /\ fifo' = Tail(fifo)
  /\ committed' = committed \ {Head(fifo)}

(* The reader has called and destroyed it. *)
Finish(r) ==
  /\ taken[r] # None
  /\ taken' = [taken EXCEPT ![r] = None]
  /\ UNCHANGED <<fifo, committed>>

(* The queue is released with everything still in it. *)
Discard ==
  /\ Range(fifo) = committed
  /\ \A r \in Readers : taken[r] = None
  /\ fifo' = <<>>
  /\ committed' = {}
  /\ UNCHANGED taken

Next ==
  \/ \E f \in Functors : Reserve(f) \/ Commit(f)
  \/ \E r \in Readers : Take(r) \/ Finish(r)
  \/ Discard

Spec == Init /\ [][Next]_vars
=============================================================================
