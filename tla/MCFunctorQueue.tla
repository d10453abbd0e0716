--------------------------- MODULE MCFunctorQueue ---------------------------
(***************************************************************************)
(* FunctorQueue with few threads and small blocks for TLC, in two shapes   *)
(* that one behaviour keeps: writers that race, beside one reader and with *)
(* a malloc that may fail; and readers that race, behind one writer.       *)
(***************************************************************************)
EXTENDS FunctorQueue, TLC

CONSTANTS Shapes

VARIABLE shape

(* Bounds of the one: two pushes each, three blocks, one reader at a time. *)
WritersRace ==
  /\ \A w \in Writers : wr[w].nr <= 2
  /\ Cardinality(heap) <= 3
  /\ Cardinality({ r \in Readers : rd[r].pc # "idle" }) <= 1

(* Bounds of the other: one writer, and malloc fails only when Blocks is    *)
(* used up.                                                                 *)
ReadersRace == Cardinality({ w \in Writers : wr[w].nr > 0 }) <= 1

InShape == IF shape = "writers" THEN WritersRace ELSE ReadersRace

(* Threads of one kind and addresses are interchangeable. *)
QueueSymmetry == Permutations(Writers) \union Permutations(Readers) \union Permutations(Blocks)

ShapedInit ==
  /\ shape \in Shapes
  /\ Init
  /\ InShape
  /\ shape = "readers" => Null \notin {SpareBlockA, SpareBlockB}

MallocWorks ==
  \A w \in Writers :
    wr[w].pc = "malloc" /\ heap # Blocks => wr'[w].pc # "unlockShared"

ShapedNext ==
  /\ Next
  /\ UNCHANGED shape
  /\ InShape'
  /\ shape = "readers" => MallocWorks

ShapedSpec == ShapedInit /\ [][ShapedNext]_<<vars, shape>>
=============================================================================
