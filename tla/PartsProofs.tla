----------------------------- MODULE PartsProofs -----------------------------
(***************************************************************************)
(* Proofs about the parts that MCParts checks side by side: the holders of *)
(* a shared singleton, the calls of the C interface, exceptions behind     *)
(* handles, the texts of the old exceptions, functors and views, the ring  *)
(* buffer and the map of buckets, each for any number of threads, handles, *)
(* exceptions, functors, values and keys; and the event loop, of which     *)
(* EventLoopProofs is cited.                                               *)
(***************************************************************************)
EXTENDS MCParts, FiniteSetTheorems, SequenceTheorems, WellFoundedInduction, TLAPS
------------------------------------------------------------------------------
(* The shared singleton. *)

(* The mutex is waited for, and the object deleted, by who points to it.    *)
PointersFollow == \A s \in Slots :
  /\ slot[s] \in {"none", "look", "create", "uncount"} => pointer[s] = None
  /\ slot[s] \in {"lock", "delete", "wild"} => pointer[s] # None

InstanceLives == instance # None => instance \in alive

DeletedIsUnlinked == \A s \in Slots : slot[s] \in {"delete", "wild"} => pointer[s] # instance

(* The inductive invariant. *)
SingletonInv ==
  /\ Singleton!TypeOK /\ Singleton!HoldersCounted /\ Singleton!HeldIsAlive
  /\ PointersFollow /\ InstanceLives /\ DeletedIsUnlinked

(* The holders, who will be one, and who was one. *)
Counted == Singleton!Holders \union Singleton!At({"look", "create", "uncount"})

LEMMA SingletonSizes ==
  /\ \A S : Singleton!IsFiniteSet(S) <=> IsFiniteSet(S)
  /\ \A S : Singleton!Cardinality(S) = Cardinality(S)
BY DEF Singleton!IsFiniteSet, IsFiniteSet, Singleton!Cardinality, Cardinality

LEMMA SingletonInitInv == ASSUME Singleton!Assumptions, Singleton!Init PROVE SingletonInv
<1> USE DEF Singleton!Init
<1>1. Singleton!TypeOK
  BY DEF Singleton!TypeOK, Singleton!Assumptions, Singleton!Points
<1>2. Singleton!Holders \union Singleton!At({"look", "create", "uncount"}) = {}
  BY DEF Singleton!Holders, Singleton!At
<1>3. Singleton!HoldersCounted
  BY <1>2, FS_EmptySet, SingletonSizes DEF Singleton!HoldersCounted
<1> QED
  BY <1>1, <1>3 DEF SingletonInv, Singleton!HeldIsAlive, Singleton!Holders, Singleton!At,
     PointersFollow, InstanceLives, DeletedIsUnlinked
------------------------------------------------------------------------------
(* Where a step that moves one slot leaves the count. *)
LEMMA CountFollows ==
  ASSUME Singleton!Assumptions, Singleton!TypeOK, Singleton!HoldersCounted, NEW s \in Slots,
         refCount' - strays' = refCount - strays + (IF s \in Counted' THEN 1 ELSE 0)
                                                 - (IF s \in Counted THEN 1 ELSE 0),
         refCount' \in Int, strays' \in Nat,
         Counted' \subseteq Counted \union {s},
         Counted \subseteq Counted' \union {s}
  PROVE  Singleton!HoldersCounted'
<1>1. Counted \subseteq Slots
  BY DEF Counted, Singleton!Holders, Singleton!At
<1>2. IsFiniteSet(Counted) /\ Cardinality(Counted) \in Nat
  BY <1>1, FS_Subset, FS_CardinalityType, SingletonSizes DEF Singleton!Assumptions
<1>3. refCount = Cardinality(Counted) + strays
  BY SingletonSizes DEF Singleton!HoldersCounted, Counted
<1>4. refCount' = Cardinality(Counted') + strays'
  <2>1. CASE s \in Counted' /\ s \notin Counted
    <3>1. Counted' = Counted \union {s}
      BY <2>1
    <3>2. Cardinality(Counted') = Cardinality(Counted) + 1
      BY <2>1, <3>1, <1>2, FS_AddElement
    <3> QED
      BY <2>1, <3>2, <1>2, <1>3 DEF Singleton!TypeOK
  <2>2. CASE s \notin Counted' /\ s \in Counted
    <3>1. Counted' = Counted \ {s}
      BY <2>2
    <3>2. Cardinality(Counted') = Cardinality(Counted) - 1
      BY <2>2, <3>1, <1>2, FS_RemoveElement
    <3> QED
      BY <2>2, <3>2, <1>2, <1>3 DEF Singleton!TypeOK
  <2>3. CASE s \in Counted' <=> s \in Counted
    <3>1. \A x : x \in Counted' <=> x \in Counted
      BY <2>3
    <3>2. Counted' = Counted
      BY <3>1
    <3> QED
      BY <2>3, <3>2, <1>2, <1>3 DEF Singleton!TypeOK
  <2> QED
    BY <2>1, <2>2, <2>3
<1> QED
  BY <1>4, SingletonSizes DEF Singleton!HoldersCounted, Counted

(* A count of 0 means that nobody holds anything. *)
LEMMA ZeroMeansNone ==
  ASSUME Singleton!Assumptions, SingletonInv, refCount = 0
  PROVE  Singleton!Holders = {}
<1>1. Counted \subseteq Slots
  BY DEF Counted, Singleton!Holders, Singleton!At
<1>2. IsFiniteSet(Counted) /\ Cardinality(Counted) \in Nat
  BY <1>1, FS_Subset, FS_CardinalityType, SingletonSizes DEF Singleton!Assumptions
<1>3. Cardinality(Counted) = 0
  BY <1>2, SingletonSizes DEF SingletonInv, Singleton!TypeOK, Singleton!HoldersCounted, Counted,
     Singleton!Assumptions
<1>4. Counted = {}
  BY <1>2, <1>3, FS_EmptySet
<1> QED
  BY <1>4 DEF Counted

LEMMA MakeEmptyKeepsShare ==
  ASSUME Singleton!Assumptions, SingletonInv, NEW s \in Slots, Singleton!MakeEmpty(s)
  PROVE  SingletonInv'
<1> USE DEF Singleton!MakeEmpty, Singleton!Goto, SingletonInv
<1>1. Singleton!TypeOK'
  BY DEF Singleton!TypeOK, Singleton!Points, Singleton!Assumptions, Singleton!Fresh
<1>2. Singleton!HoldersCounted'
  <2>1. Counted' \subseteq Counted \union {s} /\ Counted \subseteq Counted' \union {s}
    BY DEF Counted, Singleton!Holders, Singleton!At, Singleton!TypeOK
  <2>2. refCount' - strays' = refCount - strays + (IF s \in Counted' THEN 1 ELSE 0)
                                                - (IF s \in Counted THEN 1 ELSE 0)
    BY DEF Counted, Singleton!Holders, Singleton!At, Singleton!TypeOK, PointersFollow,
       Singleton!Fresh, Singleton!Assumptions
  <2>3. refCount' \in Int /\ strays' \in Nat
    BY <1>1 DEF Singleton!TypeOK, Singleton!Assumptions
  <2> QED
    BY <2>1, <2>2, <2>3, CountFollows
<1>3. Singleton!HeldIsAlive'
  BY DEF Singleton!HeldIsAlive, Singleton!Holders, Singleton!At, Singleton!TypeOK, PointersFollow,
     Singleton!Fresh, DeletedIsUnlinked, InstanceLives
<1>4. PointersFollow'
  BY DEF PointersFollow, Singleton!TypeOK, Singleton!Holders, Singleton!At, Singleton!HeldIsAlive,
     Singleton!Assumptions
<1>5. InstanceLives' /\ DeletedIsUnlinked'
  BY DEF InstanceLives, DeletedIsUnlinked, Singleton!TypeOK, Singleton!Holders, Singleton!At,
     Singleton!HeldIsAlive, PointersFollow, Singleton!Fresh
<1> QED
  BY <1>1, <1>2, <1>3, <1>4, <1>5

LEMMA GetKeepsInv ==
  ASSUME Singleton!Assumptions, SingletonInv, NEW s \in Slots, Singleton!Get(s) PROVE SingletonInv'
<1> USE DEF Singleton!Get, Singleton!Goto, SingletonInv
<1>1. Singleton!TypeOK'
  BY DEF Singleton!TypeOK, Singleton!Points, Singleton!Assumptions, Singleton!Fresh
<1>2. Singleton!HoldersCounted'
  <2>1. Counted' \subseteq Counted \union {s} /\ Counted \subseteq Counted' \union {s}
    BY DEF Counted, Singleton!Holders, Singleton!At, Singleton!TypeOK
  <2>2. refCount' - strays' = refCount - strays + (IF s \in Counted' THEN 1 ELSE 0)
                                                - (IF s \in Counted THEN 1 ELSE 0)
    BY DEF Counted, Singleton!Holders, Singleton!At, Singleton!TypeOK, PointersFollow,
       Singleton!Fresh, Singleton!Assumptions
  <2>3. refCount' \in Int /\ strays' \in Nat
    BY <1>1 DEF Singleton!TypeOK, Singleton!Assumptions
  <2> QED
    BY <2>1, <2>2, <2>3, CountFollows
<1>3. Singleton!HeldIsAlive'
  BY DEF Singleton!HeldIsAlive, Singleton!Holders, Singleton!At, Singleton!TypeOK, PointersFollow,
     Singleton!Fresh, DeletedIsUnlinked, InstanceLives
<1>4. PointersFollow'
  BY DEF PointersFollow, Singleton!TypeOK, Singleton!Holders, Singleton!At, Singleton!HeldIsAlive,
     Singleton!Assumptions
<1>5. InstanceLives' /\ DeletedIsUnlinked'
  BY DEF InstanceLives, DeletedIsUnlinked, Singleton!TypeOK, Singleton!Holders, Singleton!At,
     Singleton!HeldIsAlive, PointersFollow, Singleton!Fresh
<1> QED
  BY <1>1, <1>2, <1>3, <1>4, <1>5

LEMMA LookKeepsInv ==
  ASSUME Singleton!Assumptions, SingletonInv, NEW s \in Slots, Singleton!Look(s) PROVE SingletonInv'
<1> USE DEF Singleton!Look, Singleton!Goto, SingletonInv
<1>1. Singleton!TypeOK'
  BY DEF Singleton!TypeOK, Singleton!Points, Singleton!Assumptions, Singleton!Fresh
<1>2. Singleton!HoldersCounted'
  <2>1. Counted' \subseteq Counted \union {s} /\ Counted \subseteq Counted' \union {s}
    BY DEF Counted, Singleton!Holders, Singleton!At, Singleton!TypeOK
  <2>2. refCount' - strays' = refCount - strays + (IF s \in Counted' THEN 1 ELSE 0)
                                                - (IF s \in Counted THEN 1 ELSE 0)
    BY DEF Counted, Singleton!Holders, Singleton!At, Singleton!TypeOK, PointersFollow,
       Singleton!Fresh, Singleton!Assumptions
  <2>3. refCount' \in Int /\ strays' \in Nat
    BY <1>1 DEF Singleton!TypeOK, Singleton!Assumptions
  <2> QED
    BY <2>1, <2>2, <2>3, CountFollows
<1>3. Singleton!HeldIsAlive'
  BY DEF Singleton!HeldIsAlive, Singleton!Holders, Singleton!At, Singleton!TypeOK, PointersFollow,
     Singleton!Fresh, DeletedIsUnlinked, InstanceLives
<1>4. PointersFollow'
  BY DEF PointersFollow, Singleton!TypeOK, Singleton!Holders, Singleton!At, Singleton!HeldIsAlive,
     Singleton!Assumptions
<1>5. InstanceLives' /\ DeletedIsUnlinked'
  BY DEF InstanceLives, DeletedIsUnlinked, Singleton!TypeOK, Singleton!Holders, Singleton!At,
     Singleton!HeldIsAlive, PointersFollow, Singleton!Fresh
<1> QED
  BY <1>1, <1>2, <1>3, <1>4, <1>5

LEMMA CreateKeepsInv ==
  ASSUME Singleton!Assumptions, SingletonInv, NEW s \in Slots, Singleton!Create(s)
  PROVE  SingletonInv'
<1> USE DEF Singleton!Create, Singleton!Goto, SingletonInv
<1>1. Singleton!TypeOK'
  BY DEF Singleton!TypeOK, Singleton!Points, Singleton!Assumptions, Singleton!Fresh
<1>2. Singleton!HoldersCounted'
  <2>1. Counted' \subseteq Counted \union {s} /\ Counted \subseteq Counted' \union {s}
    BY DEF Counted, Singleton!Holders, Singleton!At, Singleton!TypeOK
  <2>2. refCount' - strays' = refCount - strays + (IF s \in Counted' THEN 1 ELSE 0)
                                                - (IF s \in Counted THEN 1 ELSE 0)
    BY DEF Counted, Singleton!Holders, Singleton!At, Singleton!TypeOK, PointersFollow,
       Singleton!Fresh, Singleton!Assumptions
  <2>3. refCount' \in Int /\ strays' \in Nat
    BY <1>1 DEF Singleton!TypeOK, Singleton!Assumptions
  <2> QED
    BY <2>1, <2>2, <2>3, CountFollows
<1>3. Singleton!HeldIsAlive'
  BY DEF Singleton!HeldIsAlive, Singleton!Holders, Singleton!At, Singleton!TypeOK, PointersFollow,
     Singleton!Fresh, DeletedIsUnlinked, InstanceLives
<1>4. PointersFollow'
  BY DEF PointersFollow, Singleton!TypeOK, Singleton!Holders, Singleton!At, Singleton!HeldIsAlive,
     Singleton!Assumptions
<1>5. InstanceLives' /\ DeletedIsUnlinked'
  BY DEF InstanceLives, DeletedIsUnlinked, Singleton!TypeOK, Singleton!Holders, Singleton!At,
     Singleton!HeldIsAlive, PointersFollow, Singleton!Fresh
<1> QED
  BY <1>1, <1>2, <1>3, <1>4, <1>5

LEMMA CopyKeepsInv ==
  ASSUME Singleton!Assumptions, SingletonInv, NEW s \in Slots, NEW t \in Slots, Singleton!Copy(s, t)
  PROVE  SingletonInv'
<1> USE DEF Singleton!Copy, Singleton!Goto, SingletonInv
<1>1. Singleton!TypeOK'
  BY DEF Singleton!TypeOK, Singleton!Points, Singleton!Assumptions, Singleton!Fresh
<1>2. Singleton!HoldersCounted'
  <2>1. Counted' \subseteq Counted \union {s} /\ Counted \subseteq Counted' \union {s}
    BY DEF Counted, Singleton!Holders, Singleton!At, Singleton!TypeOK
  <2>2. refCount' - strays' = refCount - strays + (IF s \in Counted' THEN 1 ELSE 0)
                                                - (IF s \in Counted THEN 1 ELSE 0)
    BY DEF Counted, Singleton!Holders, Singleton!At, Singleton!TypeOK, PointersFollow,
       Singleton!Fresh, Singleton!Assumptions
  <2>3. refCount' \in Int /\ strays' \in Nat
    BY <1>1 DEF Singleton!TypeOK, Singleton!Assumptions
  <2> QED
    BY <2>1, <2>2, <2>3, CountFollows
<1>3. Singleton!HeldIsAlive'
  BY DEF Singleton!HeldIsAlive, Singleton!Holders, Singleton!At, Singleton!TypeOK, PointersFollow,
     Singleton!Fresh, DeletedIsUnlinked, InstanceLives
<1>4. PointersFollow'
  BY DEF PointersFollow, Singleton!TypeOK, Singleton!Holders, Singleton!At, Singleton!HeldIsAlive,
     Singleton!Assumptions
<1>5. InstanceLives' /\ DeletedIsUnlinked'
  BY DEF InstanceLives, DeletedIsUnlinked, Singleton!TypeOK, Singleton!Holders, Singleton!At,
     Singleton!HeldIsAlive, PointersFollow, Singleton!Fresh
<1> QED
  BY <1>1, <1>2, <1>3, <1>4, <1>5

LEMMA AssignKeepsInv ==
  ASSUME Singleton!Assumptions, SingletonInv, NEW s \in Slots, NEW t \in Slots,
         Singleton!Assign(s, t)
  PROVE  SingletonInv'
<1> USE DEF Singleton!Assign, Singleton!Goto, SingletonInv
<1>1. Singleton!TypeOK'
  BY DEF Singleton!TypeOK, Singleton!Points, Singleton!Assumptions, Singleton!Fresh
<1>2. Singleton!HoldersCounted'
  <2>1. Counted' \subseteq Counted \union {s} /\ Counted \subseteq Counted' \union {s}
    BY DEF Counted, Singleton!Holders, Singleton!At, Singleton!TypeOK
  <2>2. refCount' - strays' = refCount - strays + (IF s \in Counted' THEN 1 ELSE 0)
                                                - (IF s \in Counted THEN 1 ELSE 0)
    BY DEF Counted, Singleton!Holders, Singleton!At, Singleton!TypeOK, PointersFollow,
       Singleton!Fresh, Singleton!Assumptions
  <2>3. refCount' \in Int /\ strays' \in Nat
    BY <1>1 DEF Singleton!TypeOK, Singleton!Assumptions
  <2> QED
    BY <2>1, <2>2, <2>3, CountFollows
<1>3. Singleton!HeldIsAlive'
  BY DEF Singleton!HeldIsAlive, Singleton!Holders, Singleton!At, Singleton!TypeOK, PointersFollow,
     Singleton!Fresh, DeletedIsUnlinked, InstanceLives
<1>4. PointersFollow'
  BY DEF PointersFollow, Singleton!TypeOK, Singleton!Holders, Singleton!At, Singleton!HeldIsAlive,
     Singleton!Assumptions
<1>5. InstanceLives' /\ DeletedIsUnlinked'
  BY DEF InstanceLives, DeletedIsUnlinked, Singleton!TypeOK, Singleton!Holders, Singleton!At,
     Singleton!HeldIsAlive, PointersFollow, Singleton!Fresh
<1> QED
  BY <1>1, <1>2, <1>3, <1>4, <1>5

LEMMA UncountKeepsInv ==
  ASSUME Singleton!Assumptions, SingletonInv, NEW s \in Slots, Singleton!Uncount(s)
  PROVE  SingletonInv'
<1> USE DEF Singleton!Uncount, Singleton!Goto, SingletonInv
<1>1. Singleton!TypeOK'
  BY DEF Singleton!TypeOK, Singleton!Points, Singleton!Assumptions, Singleton!Fresh
<1>2. Singleton!HoldersCounted'
  <2>1. Counted' \subseteq Counted \union {s} /\ Counted \subseteq Counted' \union {s}
    BY DEF Counted, Singleton!Holders, Singleton!At, Singleton!TypeOK
  <2>2. refCount' - strays' = refCount - strays + (IF s \in Counted' THEN 1 ELSE 0)
                                                - (IF s \in Counted THEN 1 ELSE 0)
    BY DEF Counted, Singleton!Holders, Singleton!At, Singleton!TypeOK, PointersFollow,
       Singleton!Fresh, Singleton!Assumptions
  <2>3. refCount' \in Int /\ strays' \in Nat
    BY <1>1 DEF Singleton!TypeOK, Singleton!Assumptions
  <2> QED
    BY <2>1, <2>2, <2>3, CountFollows
<1>3. Singleton!HeldIsAlive'
  BY DEF Singleton!HeldIsAlive, Singleton!Holders, Singleton!At, Singleton!TypeOK, PointersFollow,
     Singleton!Fresh, DeletedIsUnlinked, InstanceLives
<1>4. PointersFollow'
  BY DEF PointersFollow, Singleton!TypeOK, Singleton!Holders, Singleton!At, Singleton!HeldIsAlive,
     Singleton!Assumptions
<1>5. InstanceLives' /\ DeletedIsUnlinked'
  BY DEF InstanceLives, DeletedIsUnlinked, Singleton!TypeOK, Singleton!Holders, Singleton!At,
     Singleton!HeldIsAlive, PointersFollow, Singleton!Fresh
<1> QED
  BY <1>1, <1>2, <1>3, <1>4, <1>5

LEMMA DestroyKeepsShare ==
  ASSUME Singleton!Assumptions, SingletonInv, NEW s \in Slots, Singleton!Destroy(s)
  PROVE  SingletonInv'
<1> USE DEF Singleton!Destroy, Singleton!Goto, SingletonInv
<1>1. Singleton!TypeOK'
  BY DEF Singleton!TypeOK, Singleton!Points, Singleton!Assumptions, Singleton!Fresh
<1>2. Singleton!HoldersCounted'
  <2>1. Counted' \subseteq Counted \union {s} /\ Counted \subseteq Counted' \union {s}
    BY DEF Counted, Singleton!Holders, Singleton!At, Singleton!TypeOK
  <2>2. refCount' - strays' = refCount - strays + (IF s \in Counted' THEN 1 ELSE 0)
                                                - (IF s \in Counted THEN 1 ELSE 0)
    BY DEF Counted, Singleton!Holders, Singleton!At, Singleton!TypeOK, PointersFollow,
       Singleton!Fresh, Singleton!Assumptions
  <2>3. refCount' \in Int /\ strays' \in Nat
    BY <1>1 DEF Singleton!TypeOK, Singleton!Assumptions
  <2> QED
    BY <2>1, <2>2, <2>3, CountFollows
<1>3. Singleton!HeldIsAlive'
  BY DEF Singleton!HeldIsAlive, Singleton!Holders, Singleton!At, Singleton!TypeOK, PointersFollow,
     Singleton!Fresh, DeletedIsUnlinked, InstanceLives
<1>4. PointersFollow'
  BY DEF PointersFollow, Singleton!TypeOK, Singleton!Holders, Singleton!At, Singleton!HeldIsAlive,
     Singleton!Assumptions
<1>5. InstanceLives' /\ DeletedIsUnlinked'
  BY DEF InstanceLives, DeletedIsUnlinked, Singleton!TypeOK, Singleton!Holders, Singleton!At,
     Singleton!HeldIsAlive, PointersFollow, Singleton!Fresh
<1> QED
  BY <1>1, <1>2, <1>3, <1>4, <1>5

LEMMA RemoveKeepsInv ==
  ASSUME Singleton!Assumptions, SingletonInv, NEW s \in Slots, Singleton!Remove(s)
  PROVE  SingletonInv'
<1> USE DEF Singleton!Remove, Singleton!Goto, SingletonInv
<1>1. Singleton!TypeOK'
  BY DEF Singleton!TypeOK, Singleton!Points, Singleton!Assumptions, Singleton!Fresh
<1>2. Singleton!HoldersCounted'
  <2>1. Counted' \subseteq Counted \union {s} /\ Counted \subseteq Counted' \union {s}
    BY DEF Counted, Singleton!Holders, Singleton!At, Singleton!TypeOK
  <2>2. refCount' - strays' = refCount - strays + (IF s \in Counted' THEN 1 ELSE 0)
                                                - (IF s \in Counted THEN 1 ELSE 0)
    BY DEF Counted, Singleton!Holders, Singleton!At, Singleton!TypeOK, PointersFollow,
       Singleton!Fresh, Singleton!Assumptions
  <2>3. refCount' \in Int /\ strays' \in Nat
    BY <1>1 DEF Singleton!TypeOK, Singleton!Assumptions
  <2> QED
    BY <2>1, <2>2, <2>3, CountFollows
<1>3. Singleton!HeldIsAlive'
  BY ZeroMeansNone DEF Singleton!HeldIsAlive, Singleton!Holders, Singleton!At, Singleton!TypeOK,
     PointersFollow, Singleton!Fresh, DeletedIsUnlinked, InstanceLives
<1>4. PointersFollow'
  BY DEF PointersFollow, Singleton!TypeOK, Singleton!Holders, Singleton!At, Singleton!HeldIsAlive,
     Singleton!Assumptions
<1>5. InstanceLives' /\ DeletedIsUnlinked'
  BY DEF InstanceLives, DeletedIsUnlinked, Singleton!TypeOK, Singleton!Holders, Singleton!At,
     Singleton!HeldIsAlive, PointersFollow, Singleton!Fresh
<1> QED
  BY <1>1, <1>2, <1>3, <1>4, <1>5

LEMMA DeleteKeepsInv ==
  ASSUME Singleton!Assumptions, SingletonInv, NEW s \in Slots, Singleton!At({"wild"}) = {},
         Singleton!Delete(s)
  PROVE  SingletonInv'
<1> USE DEF Singleton!Delete, Singleton!Goto, SingletonInv
<1>1. Singleton!TypeOK'
  BY DEF Singleton!TypeOK, Singleton!Points, Singleton!Assumptions, Singleton!Fresh
<1>2. Singleton!HoldersCounted'
  <2>1. Counted' \subseteq Counted \union {s} /\ Counted \subseteq Counted' \union {s}
    BY DEF Counted, Singleton!Holders, Singleton!At, Singleton!TypeOK
  <2>2. refCount' - strays' = refCount - strays + (IF s \in Counted' THEN 1 ELSE 0)
                                                - (IF s \in Counted THEN 1 ELSE 0)
    BY DEF Counted, Singleton!Holders, Singleton!At, Singleton!TypeOK, PointersFollow,
       Singleton!Fresh, Singleton!Assumptions
  <2>3. refCount' \in Int /\ strays' \in Nat
    BY <1>1 DEF Singleton!TypeOK, Singleton!Assumptions
  <2> QED
    BY <2>1, <2>2, <2>3, CountFollows
<1>3. Singleton!HeldIsAlive'
  BY DEF Singleton!HeldIsAlive, Singleton!Holders, Singleton!At, Singleton!TypeOK, PointersFollow,
     Singleton!Fresh, DeletedIsUnlinked, InstanceLives
<1>4. PointersFollow'
  BY DEF PointersFollow, Singleton!TypeOK, Singleton!Holders, Singleton!At, Singleton!HeldIsAlive,
     Singleton!Assumptions
<1>5. InstanceLives' /\ DeletedIsUnlinked'
  BY DEF InstanceLives, DeletedIsUnlinked, Singleton!TypeOK, Singleton!Holders, Singleton!At,
     Singleton!HeldIsAlive, PointersFollow, Singleton!Fresh
<1> QED
  BY <1>1, <1>2, <1>3, <1>4, <1>5
------------------------------------------------------------------------------
LEMMA SingletonNextKeepsInv ==
  ASSUME Singleton!Assumptions, SingletonInv, [Singleton!Next]_(Singleton!vars)
  PROVE  SingletonInv'
<1>1. ASSUME UNCHANGED Singleton!vars PROVE SingletonInv'
  BY <1>1 DEF Singleton!vars, SingletonInv, Singleton!TypeOK, Singleton!HoldersCounted,
     Singleton!HeldIsAlive, Singleton!Holders, Singleton!At, PointersFollow,
     InstanceLives, DeletedIsUnlinked
<1>2. ASSUME Singleton!Next PROVE SingletonInv'
  BY <1>2, MakeEmptyKeepsShare, GetKeepsInv, LookKeepsInv, CreateKeepsInv, CopyKeepsInv,
     AssignKeepsInv, UncountKeepsInv, DestroyKeepsShare, RemoveKeepsInv, DeleteKeepsInv DEF Singleton!Next
<1> QED
  BY <1>1, <1>2

(* The invariant holds in every state: what the types, the count and the   *)
(* two hazards of the destructor (lines 74-89) need to be reasoned about.  *)
THEOREM SingletonInvariant == ASSUME Singleton!Assumptions PROVE Singleton!Spec => []SingletonInv
<1>1. Singleton!Init => SingletonInv
  BY SingletonInitInv
<1>2. SingletonInv /\ [Singleton!Next]_(Singleton!vars) => SingletonInv'
  BY SingletonNextKeepsInv
<1> QED
  BY <1>1, <1>2, PTL DEF Singleton!Spec

(* All holders share one object and it is alive, whatever the destructors  *)
(* of other holders do in between (line 78 and line 80 look at the count   *)
(* twice); and ref_count is their number, that of those in a call that     *)
(* counts (122, 63) or will uncount (68), and that of the stray copies.    *)
THEOREM IsShared ==
  ASSUME Singleton!Assumptions
  PROVE  Singleton!Spec => []Singleton!SingletonIsShared
<1>1. SingletonInv => Singleton!SingletonIsShared
  BY DEF SingletonInv, Singleton!SingletonIsShared
<1> QED
  BY <1>1, SingletonInvariant, PTL

(* A step of another part leaves the singleton alone. *)
LEMMA SingletonIsItself == PartsSpec => Singleton!Spec
<1>1. PartsInit => Singleton!Init
  BY DEF PartsInit
<1>2. [PartsNext]_partsVars => [Singleton!Next]_(Singleton!vars)
  BY DEF PartsNext, FlagNext, RingNext, SingletonNext, MapNext, HandleNext, FunctorNext,
     TextNext, ChecksumNext, LoopNext, CallsNext, partsVars, singletonVars, Singleton!vars
<1> QED
  BY <1>1, <1>2, PTL DEF PartsSpec, Singleton!Spec

(* The holders of the shared singleton share one object that is alive, for  *)
(* any number of holders: the destructor's second look at the count (80)    *)
(* keeps it from a holder that came back.                                   *)
THEOREM SingletonStaysShared == PartsSpec => []SingletonIsShared
<1>1. Singleton!SingletonIsShared => SingletonIsShared
  BY DEF SingletonIsShared
<1> QED
  BY <1>1, SingletonAssumption, IsShared, SingletonIsItself, PTL
------------------------------------------------------------------------------
(* The calls of the C interface. *)
CallKinds == {"Post", "Invoke", "Timeout", "Interval"}
CallPoints == {"idle", "copy", "lambda", "statement", "forward", "wait"}

Calling == [at : CallPoints, call : CallKinds \union {None}, data : Data \union {None},
            v : CallBuffers \union {None}, lambda : CallBuffers \union {None}]
Posting == [buffer : CallBuffers \union {None}, data : Data \union {None},
            by : Callers, call : CallKinds]

CallsTypes ==
  /\ heap \in [CallBuffers -> Data \union {None}]
  /\ caller \in [Callers -> Calling]
  /\ posted \in Seq(Posting) /\ Len(posted) <= MaxPosted

(* What a caller has of each buffer at each point of its call. *)
CallersFollow == \A c \in Callers :
  /\ caller[c].at \in {"idle", "copy", "wait"} => caller[c].v = None
  /\ caller[c].at \in {"idle", "copy", "lambda", "wait"} => caller[c].lambda = None
  /\ caller[c].at # "idle" => caller[c].call \in CallKinds
  /\ caller[c].call = "Invoke" => caller[c].v = None /\ caller[c].lambda = None
  /\ caller[c].at = "wait" => caller[c].call = "Invoke"
  /\ caller[c].at = "copy" => caller[c].call # "Invoke"
  /\ caller[c].v # None => heap[caller[c].v] # None
  /\ caller[c].at = "statement" /\ caller[c].lambda # None => heap[caller[c].lambda] # None

(* No buffer is held twice: not even the address of a lambda that is gone.  *)
BuffersApart ==
  /\ \A c, d \in Callers : caller[c].v # None => caller[c].v # caller[d].lambda
  /\ \A c, d \in Callers : c # d =>
       /\ caller[c].v # None => caller[c].v # caller[d].v
       /\ caller[c].lambda # None => caller[c].lambda # caller[d].lambda
  /\ \A i \in DOMAIN posted, c \in Callers : posted[i].buffer # None =>
       /\ posted[i].buffer # caller[c].v
       /\ caller[c].at \in {"statement", "forward"} => posted[i].buffer # caller[c].lambda

(* A caller that waits has one functor in the queue, which is told by. *)
WaitersQueued ==
  /\ \A i \in DOMAIN posted : posted[i].call = "Invoke" => caller[posted[i].by].at = "wait"
  /\ \A i, j \in DOMAIN posted :
       i # j /\ posted[i].call = "Invoke" /\ posted[j].call = "Invoke" =>
         posted[i].by # posted[j].by

(* Whose copy it is, that there is one. *)
CopiesHeld == \A b \in CallBuffers : heap[b] # None =>
  \/ \E c \in Callers : caller[c].v = b \/ (caller[c].at = "statement" /\ caller[c].lambda = b)
  \/ \E i \in DOMAIN posted : posted[i].buffer = b

CallsInv ==
  /\ CallsTypes /\ CallersFollow /\ BuffersApart /\ WaitersQueued /\ CopiesHeld
  /\ Calls!TypeOK /\ Calls!ErrorsCross

LEMMA VtIs ==
  /\ DOMAIN Calls!EventLoopVt = CallKinds
  /\ Calls!EventLoopVt["Post"] = "PostFunctor" /\ Calls!EventLoopVt["Invoke"] = "InvokeFunctor"
  /\ Calls!EventLoopVt["Timeout"] = None /\ Calls!EventLoopVt["Interval"] = None
BY DEF Calls!EventLoopVt, CallKinds

LEMMA CallsInitInv == ASSUME Calls!Init PROVE CallsInv
<1>0. /\ posted = <<>> /\ heap = [b \in CallBuffers |-> None]
      /\ caller = [c \in Callers |-> Calls!Idle]
      /\ told = "ESUCCESS" /\ did = "ESUCCESS" /\ callsEnd = ""
  BY DEF Calls!Init
<1>4. posted \in Seq(Posting) /\ DOMAIN posted = {} /\ Len(posted) = 0
  <2>1. posted \in Seq(Posting) /\ Len(posted) = 0
    BY <1>0, EmptySeq
  <2>2. DOMAIN posted = 1 .. 0
    BY <2>1, LenProperties
  <2> QED
    BY <2>1, <2>2
<1>5. Len(posted) <= MaxPosted
  BY <1>4, CallsAssumption DEF Calls!Assumptions
<1>1. CallsTypes
  BY <1>0, <1>4, <1>5 DEF CallsTypes, Calling, CallPoints, Calls!Idle
<1>2. CallersFollow /\ BuffersApart /\ WaitersQueued /\ CopiesHeld
  BY <1>0, <1>4 DEF CallersFollow, BuffersApart, WaitersQueued, CopiesHeld, Calls!Idle
<1>3. Calls!TypeOK /\ Calls!ErrorsCross
  BY <1>0, <1>5 DEF Calls!TypeOK, Calls!ErrorsCross, Calls!Idle
<1> QED
  BY <1>1, <1>2, <1>3 DEF CallsInv

(* Memory that is handed out is nobody's. *)
LEMMA FreshIsFree ==
  ASSUME CallsInv, Calls!Free # {}
  PROVE  /\ Calls!Fresh \in CallBuffers /\ heap[Calls!Fresh] = None
         /\ \A c \in Callers : caller[c].v # Calls!Fresh /\ caller[c].lambda # Calls!Fresh
         /\ \A i \in DOMAIN posted : posted[i].buffer # Calls!Fresh
<1>1. Calls!Fresh \in Calls!Free
  BY DEF Calls!Fresh
<1>2. Calls!Fresh \in CallBuffers /\ heap[Calls!Fresh] = None
  BY <1>1 DEF Calls!Free, Calls!Allocated
<1>3. ASSUME NEW c \in Callers PROVE caller[c].v # Calls!Fresh /\ caller[c].lambda # Calls!Fresh
  <2>1. Calls!Fresh # None
    BY <1>2, CallsAssumption DEF Calls!Assumptions
  <2>2. caller[c].v # Calls!Fresh
    BY <1>2, <2>1 DEF CallsInv, CallersFollow
  <2> QED
    BY <1>1, <2>2 DEF Calls!Free
<1>4. ASSUME NEW i \in DOMAIN posted PROVE posted[i].buffer # Calls!Fresh
  <2>1. Calls!Fresh # None
    BY <1>2, CallsAssumption DEF Calls!Assumptions
  <2> QED
    BY <1>1, <2>1 DEF Calls!Free, Calls!Queued
<1> QED
  BY <1>2, <1>3, <1>4
------------------------------------------------------------------------------
(* Where the program ends, or nothing happens, the rest stays as it is. *)
LEMMA UnchangedKeepsInv ==
  ASSUME CallsInv, UNCHANGED <<heap, caller, posted, told, did>>,
         callsEnd' \in {callsEnd, "null", "dangling"}
  PROVE  CallsInv'
<1> USE DEF CallsInv
<1>1. CallsTypes' /\ CallersFollow' /\ WaitersQueued' /\ CopiesHeld'
  BY DEF CallsTypes, CallersFollow, WaitersQueued, CopiesHeld
<1>2. BuffersApart'
  BY DEF BuffersApart
<1>3. Calls!TypeOK' /\ Calls!ErrorsCross'
  BY DEF Calls!TypeOK, Calls!ErrorsCross
<1> QED
  BY <1>1, <1>2, <1>3

(* A call that ran out of memory gives back what it has. *)
LEMMA BadAllocKeepsInv ==
  ASSUME CallsInv, NEW c \in Callers, Calls!BadAlloc(c), UNCHANGED <<posted, callsEnd>>,
         caller[c].at \in {"copy", "lambda", "forward"}
  PROVE  CallsInv'
<1> USE CallsAssumption DEF Calls!Assumptions, CallsInv
<1>0. /\ caller[c] \in Calling
      /\ heap' = [b \in CallBuffers |-> IF b = caller[c].v THEN None ELSE heap[b]]
      /\ caller' = [caller EXCEPT ![c] = [at |-> "idle", call |-> None, data |-> None, v |-> None, lambda |-> None]]
      /\ told' = "ENOMEM" /\ did' = "memory"
  BY DEF Calls!BadAlloc, Calls!Return, Calls!Idle, CallsTypes
<1>1. CallsTypes'
  BY <1>0 DEF CallsTypes, Calling, CallPoints
<1>2. CallersFollow'
  BY <1>0 DEF CallsTypes, Calling, CallPoints, CallersFollow, BuffersApart
<1>3. WaitersQueued'
  BY <1>0 DEF CallsTypes, Calling, CallPoints, WaitersQueued
<1>4. BuffersApart'
  BY <1>0 DEF CallsTypes, Calling, CallPoints, BuffersApart
<1>5. CopiesHeld'
  BY <1>0 DEF CallsTypes, Calling, CallPoints, CopiesHeld
<1>6. Calls!TypeOK' /\ Calls!ErrorsCross'
  BY <1>0, <1>1 DEF Calls!TypeOK, Calls!ErrorsCross, CallsTypes, Calling, CallPoints
<1> QED
  BY <1>1, <1>2, <1>3, <1>4, <1>5, <1>6

(* A step that leaves the queue as it is. *)
LEMMA CopyDataKeepsInv == ASSUME CallsInv, NEW c \in Callers, Calls!CopyData(c) PROVE CallsInv'
<1> USE CallsAssumption DEF Calls!Assumptions, CallsInv
<1> DEFINE d == caller[c].data
           next == [caller[c] EXCEPT !.at = "lambda"]
<1>0. caller[c] \in Calling /\ caller[c].at = "copy" /\ caller[c].v = None
        /\ caller[c].lambda = None
  BY DEF Calls!CopyData, CallsTypes, CallersFollow
<1>1. CASE d = None /\ Calls!GoesOn(c, next) /\ UNCHANGED heap
  <2>1. CallsTypes'
    BY <1>0, <1>1 DEF Calls!CopyData, Calls!GoesOn, CallsTypes, Calling, CallPoints
  <2>2. CallersFollow' /\ BuffersApart' /\ WaitersQueued' /\ CopiesHeld'
    BY <1>0, <1>1 DEF Calls!CopyData, Calls!GoesOn, CallsTypes, Calling, CallPoints, CallersFollow,
       BuffersApart, WaitersQueued, CopiesHeld
  <2>3. Calls!TypeOK' /\ Calls!ErrorsCross'
    BY <1>0, <1>1, <2>1 DEF Calls!CopyData, Calls!GoesOn, Calls!TypeOK, Calls!ErrorsCross,
       CallsTypes, Calling, CallPoints
  <2> QED
    BY <2>1, <2>2, <2>3
<1>2. CASE /\ d # None /\ Calls!Free # {}
           /\ heap' = [heap EXCEPT ![Calls!Fresh] = d]
           /\ Calls!GoesOn(c, [next EXCEPT !.v = Calls!Fresh])
  <2> DEFINE b == Calls!Fresh
  <2>0. /\ b \in CallBuffers /\ heap[b] = None
        /\ \A e \in Callers : caller[e].v # b /\ caller[e].lambda # b
        /\ \A i \in DOMAIN posted : posted[i].buffer # b
    BY <1>2, FreshIsFree
  <2> HIDE DEF b
  <2>1. CallsTypes'
    BY <1>0, <1>2, <2>0 DEF Calls!CopyData, Calls!GoesOn, CallsTypes, Calling, CallPoints, b
  <2>2. CallersFollow'
    BY <1>0, <1>2, <2>0 DEF Calls!CopyData, Calls!GoesOn, CallsTypes, Calling, CallPoints,
       CallersFollow, b
  <2>7. WaitersQueued'
    BY <1>0, <1>2, <2>0 DEF Calls!CopyData, Calls!GoesOn, CallsTypes, Calling, CallPoints,
       WaitersQueued, b
  <2>4. BuffersApart'
    BY <1>0, <1>2, <2>0 DEF Calls!CopyData, Calls!GoesOn, CallsTypes, Calling, CallPoints,
       BuffersApart, b
  <2>5. CopiesHeld'
    BY <1>0, <1>2, <2>0 DEF Calls!CopyData, Calls!GoesOn, CallsTypes, Calling, CallPoints,
       CopiesHeld, b
  <2>3. Calls!TypeOK' /\ Calls!ErrorsCross'
    BY <1>0, <1>2, <2>1 DEF Calls!CopyData, Calls!GoesOn, Calls!TypeOK, Calls!ErrorsCross,
       CallsTypes, Calling, CallPoints
  <2> QED
    BY <2>1, <2>2, <2>3, <2>4, <2>5, <2>7
<1>3. CASE d # None /\ Calls!BadAlloc(c)
  <2>1. UNCHANGED <<posted, callsEnd>>
    BY DEF Calls!CopyData
  <2> QED
    BY <1>0, <1>3, <2>1, BadAllocKeepsInv
<1> QED
  BY <1>1, <1>2, <1>3 DEF Calls!CopyData

LEMMA BegunIs ==
  ASSUME NEW at0, NEW call, NEW data0
  PROVE  [Calls!Idle EXCEPT !.at = at0, !.call = call, !.data = data0]
           = [at |-> at0, call |-> call, data |-> data0, v |-> None, lambda |-> None]
<1> DEFINE r == [Calls!Idle EXCEPT !.at = at0]
           s == [r EXCEPT !.call = call]
           u == [s EXCEPT !.data = data0]
<1>1. r = [at |-> at0, call |-> None, data |-> None, v |-> None, lambda |-> None]
  BY DEF Calls!Idle
<1> HIDE DEF r
<1>2. s = [at |-> at0, call |-> call, data |-> None, v |-> None, lambda |-> None]
  BY <1>1
<1> HIDE DEF s
<1>3. u = [at |-> at0, call |-> call, data |-> data0, v |-> None, lambda |-> None]
  BY <1>2
<1> QED
  BY <1>3 DEF r, s

LEMMA BeginKeepsInv ==
  ASSUME CallsInv, NEW c \in Callers, NEW call \in CallKinds, NEW data0 \in Data \union {None},
         Calls!Begin(c, call, data0)
  PROVE  CallsInv'
<1> USE DEF CallsInv
<1>1. /\ caller[c] = Calls!Idle /\ UNCHANGED <<heap, posted, told, did, callsEnd>>
      /\ caller' = [caller EXCEPT ![c] = [at |-> IF call = "Invoke" THEN "lambda" ELSE "copy",
                                          call |-> call, data |-> data0, v |-> None, lambda |-> None]]
  <2> DEFINE at0 == IF call = "Invoke" THEN "lambda" ELSE "copy"
             old == [Calls!Idle EXCEPT !.at = at0, !.call = call, !.data = data0]
             new == [at |-> at0, call |-> call, data |-> data0, v |-> None, lambda |-> None]
  <2>1. old = new
    BY BegunIs
  <2>2. /\ caller[c] = Calls!Idle /\ UNCHANGED <<heap, posted, told, did, callsEnd>>
        /\ caller' = [caller EXCEPT ![c] = old]
    BY DEF Calls!Begin, Calls!GoesOn
  <2>3. caller' = [caller EXCEPT ![c] = new]
    <3> HIDE DEF old, new
    <3> QED
      BY <2>1, <2>2
  <2> QED
    BY <2>2, <2>3
<1>2. CallsTypes'
  BY <1>1 DEF CallsTypes, Calling, CallPoints
<1>3. CallersFollow'
  BY <1>1 DEF CallsTypes, Calling, CallPoints, CallersFollow
<1>4. BuffersApart'
  BY <1>1 DEF CallsTypes, Calling, CallPoints, BuffersApart
<1>5. WaitersQueued'
  BY <1>1 DEF CallsTypes, Calling, CallPoints, WaitersQueued, Calls!Idle
<1>6. CopiesHeld'
  BY <1>1 DEF CallsTypes, Calling, CallPoints, CopiesHeld, Calls!Idle
<1>7. Calls!TypeOK' /\ Calls!ErrorsCross'
  BY <1>1, <1>2 DEF Calls!TypeOK, Calls!ErrorsCross, CallsTypes, Calling, CallPoints
<1> QED
  BY <1>2, <1>3, <1>4, <1>5, <1>6, <1>7

LEMMA CaptureKeepsCalls == ASSUME CallsInv, NEW c \in Callers, Calls!Capture(c) PROVE CallsInv'
<1> USE CallsAssumption DEF Calls!Assumptions, CallsInv
<1> DEFINE v == caller[c].v
           next == [caller[c] EXCEPT !.at = "statement"]
<1>0. /\ caller[c] \in Calling /\ caller[c].at = "lambda" /\ caller[c].lambda = None
      /\ v # None => heap[v] # None /\ caller[c].call # "Invoke"
      /\ UNCHANGED <<posted, callsEnd>>
  BY DEF Calls!Capture, CallsTypes, CallersFollow
<1>1. CASE v = None /\ Calls!GoesOn(c, next) /\ UNCHANGED heap
  <2>1. CallsTypes'
    BY <1>0, <1>1 DEF Calls!GoesOn, CallsTypes, Calling, CallPoints
  <2>2. CallersFollow' /\ BuffersApart' /\ WaitersQueued' /\ CopiesHeld'
    BY <1>0, <1>1 DEF Calls!GoesOn, CallsTypes, Calling, CallPoints, CallersFollow, BuffersApart,
       WaitersQueued, CopiesHeld
  <2>3. Calls!TypeOK' /\ Calls!ErrorsCross'
    BY <1>0, <1>1, <2>1 DEF Calls!GoesOn, Calls!TypeOK, Calls!ErrorsCross, CallsTypes, Calling,
       CallPoints
  <2> QED
    BY <2>1, <2>2, <2>3
<1>2. CASE /\ v # None /\ Calls!Free # {}
           /\ heap' = [heap EXCEPT ![Calls!Fresh] = heap[v]]
           /\ Calls!GoesOn(c, [next EXCEPT !.lambda = Calls!Fresh])
  <2> DEFINE b == Calls!Fresh
  <2>0. /\ b \in CallBuffers /\ heap[b] = None
        /\ \A e \in Callers : caller[e].v # b /\ caller[e].lambda # b
        /\ \A i \in DOMAIN posted : posted[i].buffer # b
    BY <1>2, FreshIsFree
  <2> HIDE DEF b
  <2>1. CallsTypes'
    BY <1>0, <1>2, <2>0 DEF Calls!GoesOn, CallsTypes, Calling, CallPoints, b
  <2>2. CallersFollow'
    BY <1>0, <1>2, <2>0 DEF Calls!GoesOn, CallsTypes, Calling, CallPoints, CallersFollow, b
  <2>7. WaitersQueued'
    BY <1>0, <1>2, <2>0 DEF Calls!GoesOn, CallsTypes, Calling, CallPoints, WaitersQueued, b
  <2>4. BuffersApart'
    BY <1>0, <1>2, <2>0 DEF Calls!GoesOn, CallsTypes, Calling, CallPoints, BuffersApart, b
  <2>5. CopiesHeld'
    BY <1>0, <1>2, <2>0 DEF Calls!GoesOn, CallsTypes, Calling, CallPoints, CopiesHeld, b
  <2>3. Calls!TypeOK' /\ Calls!ErrorsCross'
    BY <1>0, <1>2, <2>1 DEF Calls!GoesOn, Calls!TypeOK, Calls!ErrorsCross, CallsTypes, Calling,
       CallPoints
  <2> QED
    BY <2>1, <2>2, <2>3, <2>4, <2>5, <2>7
<1>3. CASE v # None /\ Calls!BadAlloc(c)
  BY <1>0, <1>3, BadAllocKeepsInv
<1> QED
  BY <1>1, <1>2, <1>3 DEF Calls!Capture

LEMMA EndStatementKeepsInv ==
  ASSUME CallsInv, NEW c \in Callers, Calls!EndStatement(c)
  PROVE  CallsInv'
<1> USE CallsAssumption DEF Calls!Assumptions, CallsInv
<1>0. /\ caller[c] \in Calling /\ caller[c].at = "statement"
      /\ heap' = [b \in CallBuffers |-> IF b = caller[c].lambda THEN None ELSE heap[b]]
      /\ caller' = [caller EXCEPT ![c] = [caller[c] EXCEPT !.at = "forward"]]
      /\ UNCHANGED <<posted, told, did, callsEnd>>
  BY DEF Calls!EndStatement, Calls!GoesOn, CallsTypes
<1>1. CallsTypes'
  BY <1>0 DEF CallsTypes, Calling, CallPoints
<1>2. CallersFollow'
  BY <1>0 DEF CallsTypes, Calling, CallPoints, CallersFollow, BuffersApart
<1>3. WaitersQueued'
  BY <1>0 DEF CallsTypes, Calling, CallPoints, WaitersQueued
<1>4. BuffersApart'
  BY <1>0 DEF CallsTypes, Calling, CallPoints, BuffersApart
<1>5. CopiesHeld'
  BY <1>0 DEF CallsTypes, Calling, CallPoints, CopiesHeld
<1>6. Calls!TypeOK' /\ Calls!ErrorsCross'
  BY <1>0, <1>1 DEF Calls!TypeOK, Calls!ErrorsCross, CallsTypes, Calling, CallPoints
<1> QED
  BY <1>1, <1>2, <1>3, <1>4, <1>5, <1>6
------------------------------------------------------------------------------
(* The steps that the queue takes part in. *)
LEMMA QueueAppends ==
  ASSUME CallsInv, NEW c \in Callers, caller[c].at = "forward", caller[c].call \in CallKinds,
         Calls!Queue(c)
  PROVE  /\ posted' \in Seq(Posting) /\ Len(posted') <= MaxPosted
         /\ \E n : /\ n \notin DOMAIN posted /\ DOMAIN posted' = DOMAIN posted \union {n}
                   /\ \A i \in DOMAIN posted : posted'[i] = posted[i]
                   /\ posted'[n].buffer = caller[c].lambda /\ posted'[n].by = c
                   /\ posted'[n].call = caller[c].call
<1> DEFINE f == [buffer |-> caller[c].lambda, data |-> caller[c].data, by |-> c, call |-> caller[c].call]
<1>1. f \in Posting
  BY DEF CallsInv, CallsTypes, Calling, Posting
<1>2. posted' = Append(posted, f) /\ Len(posted) < MaxPosted /\ posted \in Seq(Posting)
  BY DEF Calls!Queue, CallsInv, CallsTypes
<1>3. f.buffer = caller[c].lambda /\ f.by = c /\ f.call = caller[c].call
  OBVIOUS
<1> HIDE DEF f
<1>4. /\ posted' \in Seq(Posting) /\ Len(posted') = Len(posted) + 1
      /\ \A i \in 1 .. Len(posted) : posted'[i] = posted[i]
      /\ posted'[Len(posted) + 1] = f
  BY <1>1, <1>2, AppendProperties
<1>5. Len(posted) \in Nat /\ MaxPosted \in Nat /\ DOMAIN posted = 1 .. Len(posted)
        /\ DOMAIN posted' = 1 .. Len(posted')
  BY <1>2, <1>4, LenProperties, CallsAssumption DEF Calls!Assumptions
<1>6. Len(posted) + 1 \notin DOMAIN posted
        /\ DOMAIN posted' = DOMAIN posted \union {Len(posted) + 1}
  BY <1>4, <1>5
<1>7. Len(posted') <= MaxPosted
  BY <1>2, <1>4, <1>5
<1> QED
  BY <1>3, <1>4, <1>5, <1>6, <1>7

LEMMA QueueTakes ==
  ASSUME CallsInv, posted # <<>>, posted' = Tail(posted)
  PROVE  /\ posted' \in Seq(Posting) /\ Len(posted') <= MaxPosted
         /\ 1 \in DOMAIN posted /\ Head(posted) = posted[1] /\ posted[1] \in Posting
         /\ \A i \in DOMAIN posted' : i + 1 \in DOMAIN posted /\ i + 1 # 1
              /\ posted'[i] = posted[i + 1]
         /\ \A j \in DOMAIN posted : j # 1 => j - 1 \in DOMAIN posted' /\ posted'[j - 1] = posted[j]
         /\ DOMAIN posted \subseteq Int /\ DOMAIN posted' \subseteq Int
<1>1. posted \in Seq(Posting) /\ Len(posted) <= MaxPosted /\ MaxPosted \in Nat
  BY CallsAssumption DEF CallsInv, CallsTypes, Calls!Assumptions
<1>2. /\ posted' \in Seq(Posting) /\ Head(posted) \in Posting /\ Head(posted) = posted[1]
      /\ Len(posted') = Len(posted) - 1
      /\ \A i \in 1 .. Len(posted) - 1 : posted'[i] = posted[i + 1]
  BY <1>1, HeadTailProperties
<1>3. /\ Len(posted) \in Nat /\ Len(posted) # 0
      /\ DOMAIN posted = 1 .. Len(posted) /\ DOMAIN posted' = 1 .. Len(posted')
  BY <1>1, <1>2, LenProperties, EmptySeq
<1> QED
  BY <1>1, <1>2, <1>3

LEMMA ForwardKeepsInv == ASSUME CallsInv, NEW c \in Callers, Calls!Forward(c) PROVE CallsInv'
<1> USE CallsAssumption DEF Calls!Assumptions, CallsInv
<1> DEFINE to == Calls!EventLoopVt[caller[c].call]
<1>0. caller[c] \in Calling /\ caller[c].at = "forward"
  BY DEF Calls!Forward, CallsTypes
<1>1. CASE to = None /\ Calls!Ends("null")
  BY <1>1, UnchangedKeepsInv DEF Calls!Ends
<1>2. CASE Calls!BadAlloc(c) /\ UNCHANGED <<loop, posted, callsEnd>>
  BY <1>0, <1>2, BadAllocKeepsInv
<1>3. CASE /\ to = "PostFunctor" /\ Calls!Queue(c) /\ Calls!Return(c, "ESUCCESS", "ESUCCESS")
           /\ heap' = [b \in CallBuffers |-> IF b = caller[c].v THEN None ELSE heap[b]]
           /\ UNCHANGED <<loop, callsEnd>>
  <2>0. caller[c].call \in CallKinds /\ caller[c].call # "Invoke"
    BY <1>0, <1>3, VtIs DEF Calling, CallKinds, CallersFollow
  <2>1. /\ caller' = [caller EXCEPT ![c] = [at |-> "idle", call |-> None, data |-> None, v |-> None, lambda |-> None]]
        /\ told' = "ESUCCESS" /\ did' = "ESUCCESS"
    BY <1>3 DEF Calls!Return, Calls!Idle
  <2>2. posted' \in Seq(Posting) /\ Len(posted') <= MaxPosted
    BY <1>0, <1>3, <2>0, QueueAppends
  <2>3. PICK n : /\ n \notin DOMAIN posted /\ DOMAIN posted' = DOMAIN posted \union {n}
                 /\ \A i \in DOMAIN posted : posted'[i] = posted[i]
                 /\ posted'[n].buffer = caller[c].lambda /\ posted'[n].by = c
                 /\ posted'[n].call = caller[c].call
    BY <1>0, <1>3, <2>0, QueueAppends
  <2>4. CallsTypes'
    BY <1>0, <1>3, <2>1, <2>2 DEF CallsTypes, Calling, CallPoints
  <2>5. CallersFollow'
    BY <1>0, <1>3, <2>1 DEF CallsTypes, Calling, CallPoints, CallersFollow, BuffersApart
  <2>6. WaitersQueued'
    BY <1>0, <2>0, <2>1, <2>3 DEF CallsTypes, Calling, CallPoints, WaitersQueued
  <2>7. BuffersApart'
    BY <1>0, <2>1, <2>3 DEF CallsTypes, Calling, CallPoints, BuffersApart
  <2>8. CopiesHeld'
    BY <1>0, <1>3, <2>1, <2>3 DEF CallsTypes, Calling, CallPoints, CopiesHeld
  <2>9. Calls!TypeOK' /\ Calls!ErrorsCross'
    BY <1>0, <1>3, <2>1, <2>2, <2>4 DEF Calls!TypeOK, Calls!ErrorsCross, CallsTypes, Calling,
       CallPoints
  <2> QED
    BY <2>4, <2>5, <2>6, <2>7, <2>8, <2>9
<1>4. CASE /\ to = "InvokeFunctor" /\ Calls!Queue(c)
           /\ Calls!GoesOn(c, [caller[c] EXCEPT !.at = "wait"])
           /\ UNCHANGED <<loop, heap, callsEnd>>
  <2>0. caller[c].call = "Invoke" /\ caller[c].call \in CallKinds
    BY <1>0, <1>4, VtIs DEF Calling, CallKinds, CallersFollow
  <2>1. /\ caller' = [caller EXCEPT ![c] = [caller[c] EXCEPT !.at = "wait"]]
        /\ UNCHANGED <<told, did>> /\ caller[c].v = None
    BY <1>0, <1>4, <2>0 DEF Calls!GoesOn, CallersFollow
  <2>2. posted' \in Seq(Posting) /\ Len(posted') <= MaxPosted
    BY <1>0, <1>4, <2>0, QueueAppends
  <2>3. PICK n : /\ n \notin DOMAIN posted /\ DOMAIN posted' = DOMAIN posted \union {n}
                 /\ \A i \in DOMAIN posted : posted'[i] = posted[i]
                 /\ posted'[n].buffer = caller[c].lambda /\ posted'[n].by = c
                 /\ posted'[n].call = caller[c].call
    BY <1>0, <1>4, <2>0, QueueAppends
  <2>4. CallsTypes'
    BY <1>0, <1>4, <2>1, <2>2 DEF CallsTypes, Calling, CallPoints
  <2>5. CallersFollow'
    BY <1>0, <1>4, <2>0, <2>1 DEF CallsTypes, Calling, CallPoints, CallersFollow
  <2>6. WaitersQueued'
    BY <1>0, <2>0, <2>1, <2>3 DEF CallsTypes, Calling, CallPoints, WaitersQueued
  <2>7. BuffersApart'
    BY <1>0, <2>1, <2>3 DEF CallsTypes, Calling, CallPoints, BuffersApart
  <2>8. CopiesHeld'
    BY <1>0, <1>4, <2>1, <2>3 DEF CallsTypes, Calling, CallPoints, CopiesHeld
  <2>9. Calls!TypeOK' /\ Calls!ErrorsCross'
    BY <1>0, <1>4, <2>1, <2>2, <2>4 DEF Calls!TypeOK, Calls!ErrorsCross, CallsTypes, Calling,
       CallPoints
  <2> QED
    BY <2>4, <2>5, <2>6, <2>7, <2>8, <2>9
<1> QED
  BY <1>1, <1>2, <1>3, <1>4 DEF Calls!Forward

LEMMA CallKeepsInv ==
  ASSUME CallsInv, NEW answer \in Calls!Answers, Calls!Call(answer) PROVE CallsInv'
<1> USE CallsAssumption DEF Calls!Assumptions, CallsInv
<1> DEFINE f == Head(posted)
<1>1. CASE Calls!Ends("dangling")
  BY <1>1, UnchangedKeepsInv DEF Calls!Ends
<1>2. CASE /\ Calls!HasData(f) /\ posted' = Tail(posted)
           /\ heap' = [b \in CallBuffers |-> IF b = f.buffer THEN None ELSE heap[b]]
           /\ IF f.call = "Invoke" THEN Calls!Return(f.by, Calls!Raised(answer), answer)
              ELSE UNCHANGED <<caller, told, did>>
           /\ UNCHANGED <<loop, callsEnd>>
  <2>0. posted # <<>>
    BY DEF Calls!Call
  <2>1. /\ posted' \in Seq(Posting) /\ Len(posted') <= MaxPosted
        /\ 1 \in DOMAIN posted /\ f = posted[1] /\ posted[1] \in Posting
        /\ \A i \in DOMAIN posted' : i + 1 \in DOMAIN posted /\ i + 1 # 1
             /\ posted'[i] = posted[i + 1]
        /\ \A j \in DOMAIN posted : j # 1 => j - 1 \in DOMAIN posted' /\ posted'[j - 1] = posted[j]
        /\ DOMAIN posted \subseteq Int /\ DOMAIN posted' \subseteq Int
    BY <1>2, <2>0, QueueTakes
  <2>2. /\ f.buffer \in CallBuffers \union {None} /\ f.by \in Callers
        /\ \A c \in Callers : f.buffer # None =>
             /\ f.buffer # caller[c].v
             /\ caller[c].at \in {"statement", "forward"} => f.buffer # caller[c].lambda
    BY <2>1 DEF Posting, BuffersApart
  <2>3. CASE f.call = "Invoke"
    <3> DEFINE c == f.by
    <3>1. caller[c].at = "wait" /\ caller[c].v = None /\ caller[c].lambda = None
      BY <2>1, <2>2, <2>3 DEF WaitersQueued, CallersFollow
    <3>2. /\ caller' = [caller EXCEPT ![c] = [at |-> "idle", call |-> None, data |-> None, v |-> None, lambda |-> None]]
          /\ told' = Calls!Raised(answer) /\ did' = answer
      BY <1>2, <2>3 DEF Calls!Return, Calls!Idle
    <3>3. \A i \in DOMAIN posted' : posted'[i].call = "Invoke" => posted'[i].by # c
      BY <2>1, <2>3 DEF WaitersQueued
    <3> HIDE DEF c, f
    <3>4. CallsTypes'
      BY <1>2, <2>1, <2>2, <3>2 DEF CallsTypes, Calling, CallPoints, c
    <3>5. CallersFollow'
      BY <1>2, <2>2, <3>2 DEF CallsTypes, Calling, CallPoints, CallersFollow, c
    <3>6. WaitersQueued'
      <4>1. \A i \in DOMAIN posted : posted[i] \in Posting
        BY ElementOfSeq, LenProperties DEF CallsTypes
      <4>2. ASSUME NEW i \in DOMAIN posted', posted'[i].call = "Invoke"
            PROVE  caller'[posted'[i].by].at = "wait"
        <5>1. posted'[i].by \in Callers /\ posted'[i].by # c /\ caller[posted'[i].by].at = "wait"
          BY <2>1, <3>3, <4>1, <4>2 DEF Posting, WaitersQueued
        <5> QED
          BY <3>2, <5>1 DEF CallsTypes
      <4>3. ASSUME NEW i \in DOMAIN posted', NEW j \in DOMAIN posted', i # j,
                   posted'[i].call = "Invoke", posted'[j].call = "Invoke"
            PROVE  posted'[i].by # posted'[j].by
        <5>1. i + 1 # j + 1 /\ i + 1 \in DOMAIN posted /\ j + 1 \in DOMAIN posted
          BY <2>1, <4>3
        <5>2. posted'[i] = posted[i + 1] /\ posted'[j] = posted[j + 1]
          BY <2>1
        <5>3. posted[i + 1].by # posted[j + 1].by
          BY <4>3, <5>1, <5>2 DEF WaitersQueued
        <5> QED
          BY <5>2, <5>3
      <4> QED
        BY <4>2, <4>3 DEF WaitersQueued
    <3>7. BuffersApart'
      BY <2>1, <2>2, <3>2 DEF CallsTypes, Calling, BuffersApart, c
    <3>8. CopiesHeld'
      <4> SUFFICES ASSUME NEW b \in CallBuffers, heap'[b] # None
                   PROVE  \/ \E e \in Callers : caller'[e].v = b \/ (caller'[e].at = "statement" /\ caller'[e].lambda = b)
                          \/ \E i \in DOMAIN posted' : posted'[i].buffer = b
        BY DEF CopiesHeld
      <4>1. heap[b] # None /\ b # f.buffer
        BY <1>2 DEF CallsTypes
      <4>2. CASE \E e \in Callers : caller[e].v = b \/ (caller[e].at = "statement" /\ caller[e].lambda = b)
        BY <4>1, <4>2, <2>2, <3>1, <3>2 DEF CallsTypes, c
      <4>3. CASE \E i \in DOMAIN posted : posted[i].buffer = b
        BY <4>1, <4>3, <2>1
      <4> QED
        BY <4>1, <4>2, <4>3 DEF CopiesHeld
    <3>9. Calls!TypeOK' /\ Calls!ErrorsCross'
      BY <1>2, <2>1, <3>2, <3>4 DEF Calls!TypeOK, Calls!ErrorsCross, CallsTypes, Calling,
         CallPoints, Calls!Answers, Calls!Raised
    <3> QED
      BY <3>4, <3>5, <3>6, <3>7, <3>8, <3>9
  <2>4. CASE f.call # "Invoke"
    <3>1. UNCHANGED <<caller, told, did>>
      BY <1>2, <2>4
    <3> HIDE DEF f
    <3>4. CallsTypes'
      BY <1>2, <2>1, <3>1 DEF CallsTypes
    <3>5. CallersFollow'
      BY <1>2, <2>2, <3>1 DEF CallsTypes, Calling, CallPoints, CallersFollow
    <3>6. WaitersQueued'
      <4>1. ASSUME NEW i \in DOMAIN posted', NEW j \in DOMAIN posted', i # j,
                   posted'[i].call = "Invoke", posted'[j].call = "Invoke"
            PROVE  posted'[i].by # posted'[j].by
        <5>1. i + 1 # j + 1 /\ i + 1 \in DOMAIN posted /\ j + 1 \in DOMAIN posted
          BY <2>1, <4>1
        <5>2. posted'[i] = posted[i + 1] /\ posted'[j] = posted[j + 1]
          BY <2>1
        <5>3. posted[i + 1].by # posted[j + 1].by
          BY <4>1, <5>1, <5>2 DEF WaitersQueued
        <5> QED
          BY <5>2, <5>3
      <4> QED
        BY <2>1, <3>1, <4>1 DEF WaitersQueued
    <3>7. BuffersApart'
      BY <2>1, <3>1 DEF BuffersApart
    <3>8. CopiesHeld'
      <4> SUFFICES ASSUME NEW b \in CallBuffers, heap'[b] # None
                   PROVE  \/ \E e \in Callers : caller'[e].v = b \/ (caller'[e].at = "statement" /\ caller'[e].lambda = b)
                          \/ \E i \in DOMAIN posted' : posted'[i].buffer = b
        BY DEF CopiesHeld
      <4>1. heap[b] # None /\ b # f.buffer
        BY <1>2 DEF CallsTypes
      <4>2. CASE \E i \in DOMAIN posted : posted[i].buffer = b
        BY <4>1, <4>2, <2>1
      <4> QED
        BY <3>1, <4>1, <4>2 DEF CopiesHeld
    <3>9. Calls!TypeOK' /\ Calls!ErrorsCross'
      BY <1>2, <2>1, <3>1, <3>4 DEF Calls!TypeOK, Calls!ErrorsCross, CallsTypes
    <3> QED
      BY <3>4, <3>5, <3>6, <3>7, <3>8, <3>9
  <2> QED
    BY <2>3, <2>4
<1> QED
  BY <1>1, <1>2 DEF Calls!Call

LEMMA DestroyLoopKeepsInv == ASSUME CallsInv, Calls!Destroy PROVE CallsInv'
<1> USE CallsAssumption DEF Calls!Assumptions, CallsInv
<1>1. CASE Calls!Ends("dangling")
  BY <1>1, UnchangedKeepsInv DEF Calls!Ends
<1>2. CASE /\ posted' = <<>>
           /\ heap' = [b \in CallBuffers |-> IF b \in Calls!Queued THEN None ELSE heap[b]]
           /\ UNCHANGED <<caller, told, did, callsEnd>>
  <2>1. \A c \in Callers : caller[c].at = "idle" /\ caller[c].v = None /\ caller[c].lambda = None
    BY DEF Calls!Destroy, Calls!Idle
  <2>2. posted' \in Seq(Posting) /\ Len(posted') = 0
    BY <1>2, EmptySeq
  <2>3. DOMAIN posted' = 1 .. 0
    BY <2>2, LenProperties
  <2>4. CallsTypes'
    BY <1>2, <2>2 DEF CallsTypes
  <2>5. CallersFollow' /\ WaitersQueued' /\ BuffersApart'
    BY <1>2, <2>1, <2>3 DEF CallersFollow, WaitersQueued, BuffersApart
  <2>6. CopiesHeld'
    BY <1>2, <2>1 DEF CopiesHeld, Calls!Queued, CallsTypes
  <2>7. Calls!TypeOK' /\ Calls!ErrorsCross'
    BY <1>2, <2>2, <2>4 DEF Calls!TypeOK, Calls!ErrorsCross, CallsTypes
  <2> QED
    BY <2>4, <2>5, <2>6, <2>7
<1> QED
  BY <1>1, <1>2 DEF Calls!Destroy

LEMMA CallsNextKeepsInv == ASSUME CallsInv, [Calls!Next]_(Calls!vars) PROVE CallsInv'
<1>1. CASE Calls!Next
  <2>1. ASSUME NEW c \in Callers, NEW call \in DOMAIN Calls!EventLoopVt,
               NEW data0 \in Data \union {None},
               Calls!Begin(c, call, data0)
        PROVE  CallsInv'
    BY <2>1, VtIs, BeginKeepsInv
  <2>2. CASE Calls!Create
    BY <2>2, UnchangedKeepsInv DEF Calls!Create
  <2> QED
    BY <1>1, <2>1, <2>2, CopyDataKeepsInv, CaptureKeepsCalls, EndStatementKeepsInv, ForwardKeepsInv,
       CallKeepsInv, DestroyLoopKeepsInv DEF Calls!Next
<1>2. CASE UNCHANGED Calls!vars
  BY <1>2, UnchangedKeepsInv DEF Calls!vars
<1> QED
  BY <1>1, <1>2

LEMMA CallsInvIsEnough == ASSUME CallsInv PROVE Calls!CallsAreAnswered
<1> DEFINE held == (UNION { {caller[c].v} \union
                           (IF caller[c].at = "statement" THEN {caller[c].lambda} ELSE {})
                           : c \in Callers }) \ {None}
<1>1. held \subseteq Calls!Allocated
  <2> SUFFICES ASSUME NEW b \in held PROVE b \in Calls!Allocated
    OBVIOUS
  <2>1. PICK c \in Callers : b \in {caller[c].v} \union
                                  (IF caller[c].at = "statement" THEN {caller[c].lambda} ELSE {})
    OBVIOUS
  <2>2. b = caller[c].v \/ (caller[c].at = "statement" /\ b = caller[c].lambda)
    BY <2>1
  <2>4. b # None
    OBVIOUS
  <2>3. caller[c].v \in CallBuffers \union {None} /\ caller[c].lambda \in CallBuffers \union {None}
    BY DEF CallsInv, CallsTypes, Calling
  <2> QED
    BY <2>2, <2>3, <2>4 DEF CallsInv, CallersFollow, Calls!Allocated
<1>2. Calls!Allocated \subseteq held \union Calls!Queued
  <2> SUFFICES ASSUME NEW b \in Calls!Allocated PROVE b \in held \union Calls!Queued
    OBVIOUS
  <2>1. b \in CallBuffers /\ heap[b] # None /\ b # None
    BY CallsAssumption DEF Calls!Assumptions, Calls!Allocated
  <2>2. CASE \E c \in Callers : caller[c].v = b \/ (caller[c].at = "statement" /\ caller[c].lambda = b)
    <3>1. PICK c \in Callers : caller[c].v = b \/ (caller[c].at = "statement" /\ caller[c].lambda = b)
      BY <2>2
    <3>2. b \in {caller[c].v} \union (IF caller[c].at = "statement" THEN {caller[c].lambda} ELSE {})
      BY <3>1
    <3> QED
      BY <2>1, <3>2
  <2>3. CASE \E i \in DOMAIN posted : posted[i].buffer = b
    BY <2>1, <2>3 DEF Calls!Queued
  <2> QED
    BY <2>1, <2>2, <2>3 DEF CallsInv, CopiesHeld
<1>3. Calls!NothingLeaks
  BY <1>1, <1>2 DEF Calls!NothingLeaks
<1> QED
  BY <1>3 DEF Calls!CallsAreAnswered, CallsInv

(* The calls are a part of their own. *)
LEMMA CallsAreThemselves == PartsSpec => Calls!Spec
<1>1. PartsInit => Calls!Init
  BY DEF PartsInit
<1>2. [PartsNext]_partsVars => [Calls!Next]_(Calls!vars)
  BY DEF PartsNext, FlagNext, RingNext, SingletonNext, MapNext, HandleNext,
     FunctorNext, TextNext, ChecksumNext, LoopNext, CallsNext, partsVars, callsVars, Calls!vars
<1> QED
  BY <1>1, <1>2, PTL DEF PartsSpec, Calls!Spec

(* However many threads call the C functions, and wherever memory runs out:   *)
(* no copy of the data is left behind (102, 119-122) or missing in the middle *)
(* of a call, and the caller is told of the error that there was.             *)
THEOREM CallsStayAnswered == PartsSpec => []CallsAreAnswered
<1>1. Calls!Init => CallsInv
  BY CallsInitInv
<1>2. CallsInv /\ [Calls!Next]_(Calls!vars) => CallsInv'
  BY CallsNextKeepsInv
<1>3. CallsInv => CallsAreAnswered
  BY CallsInvIsEnough DEF CallsAreAnswered
<1> QED
  BY <1>1, <1>2, <1>3, CallsAreThemselves, PTL DEF Calls!Spec
------------------------------------------------------------------------------
(* The exceptions behind handles. *)
(* The error number eno is what is left of an exception of the type o.        *)
Fits(eno, o) == \/ o \in Kinds /\ eno = Handle!ErrNoOf(o)
                \/ eno \in ErrNos /\ o = Handle!KindOf(eno)

(* What a handle, or what somebody asked of it, keeps of the exception that   *)
(* went in.                                                                   *)
Remembers(h) ==
  /\ asked[h] # None => handle[h] = None /\ Fits(asked[h], origin[h])
  /\ handle[h] \in Handle!AllErrNos => handle[h] \in entries /\ Fits(handle[h], origin[h])
  /\ handle[h] \in HandleCells =>
       /\ origin[h] \in Kinds /\ handle[h] \notin lost /\ cell[handle[h]] # None
       /\ cell[handle[h]].kind = origin[h] /\ cell[handle[h]].eno = Handle!ErrNoOf(origin[h])

(* The exceptions that a handle owns; what else is allocated is lost: its     *)
(* handle was captured into again.                                            *)
Held == { handle[h] : h \in Handles } \cap HandleCells

HandleInv ==
  /\ Handle!TypeOK /\ DOMAIN origin = Handles /\ origin = [h \in Handles |-> origin[h]]
  /\ \A h \in Handles : Remembers(h)
  /\ \A h, g \in Handles : handle[h] \in HandleCells /\ h # g => handle[h] # handle[g]
  /\ Handle!Allocated = lost \union Held

LEMMA HandleConstants ==
  /\ None # Bad /\ None \notin HandleCells /\ Bad \notin HandleCells
  /\ None \notin Handle!AllErrNos /\ Bad \notin Handle!AllErrNos
  /\ \A c \in HandleCells : c \notin Handle!AllErrNos
  /\ None \notin Handle!Exceptions /\ MaxStrays \in Nat
  /\ Kinds \subseteq { "range", "overflow", "invalid", "domain", "alloc", "exception", "unknown" }
  /\ ErrNos \subseteq Handle!AllErrNos
  /\ \A k \in Kinds : Handle!ErrNoOf(k) \in Handle!AllErrNos
<1>1. Handle!Assumptions
  BY HandleAssumption
<1>2. ErrNos \subseteq Handle!AllErrNos /\ \A k \in Kinds : Handle!ErrNoOf(k) \in Handle!AllErrNos
  BY DEF Handle!AllErrNos
<1> QED
  BY <1>1, <1>2 DEF Handle!Assumptions

LEMMA HandleInitInv == ASSUME Handle!Init PROVE HandleInv
<1>1. /\ handle = [h \in Handles |-> None] /\ cell = [c \in HandleCells |-> None]
      /\ entries = {} /\ asked = [h \in Handles |-> None] /\ origin = [h \in Handles |-> None]
      /\ lost = {} /\ exceptionStrays = 0
  BY DEF Handle!Init
<1>2. Handle!TypeOK
  BY <1>1, HandleConstants DEF Handle!TypeOK
<1>3. \A h \in Handles : Remembers(h)
  BY <1>1, HandleConstants DEF Remembers
<1>4. Handle!Allocated = {} /\ Held = {}
  BY <1>1, HandleConstants DEF Handle!Allocated, Held
<1> QED
  BY <1>1, <1>2, <1>3, <1>4, HandleConstants DEF HandleInv
------------------------------------------------------------------------------
(* What is in the cell of a handle that lets go of it is freed, and nothing   *)
(* else.                                                                      *)
LEMMA DiscardsIs ==
  ASSUME HandleInv, NEW h \in Handles, Handle!Discards(h)
  PROVE  /\ cell' \in [HandleCells -> Handle!Exceptions \union {None}] /\ entries' = entries
         /\ \A c \in HandleCells : c # handle[h] => cell'[c] = cell[c]
         /\ Handle!Allocated' = Handle!Allocated \ {handle[h]}
<1>1. cell \in [HandleCells -> Handle!Exceptions \union {None}]
  BY DEF HandleInv, Handle!TypeOK
<1>2. /\ cell' = [c \in HandleCells |-> IF c = handle[h] THEN None ELSE cell[c]] /\ entries' = entries
  BY DEF Handle!Discards
<1> QED
  BY <1>1, <1>2 DEF Handle!Allocated

(* One handle lets go of what it had, and points to no cell now.              *)
LEMMA HandleLetsGo ==
  ASSUME HandleInv, NEW h \in Handles, Handle!Discards(h), lost' = lost,
         exceptionStrays' = exceptionStrays,
         NEW x \in {None, Bad} \union Handle!AllErrNos, handle' = [handle EXCEPT ![h] = x],
         NEW a \in Handle!AllErrNos \union {None}, asked' = [asked EXCEPT ![h] = a],
         NEW o, origin' = [origin EXCEPT ![h] = o],
         a # None => x = None /\ Fits(a, o),
         x \in Handle!AllErrNos => x \in entries /\ Fits(x, o)
  PROVE  HandleInv'
<1>1. /\ handle'[h] = x /\ asked'[h] = a /\ origin'[h] = o /\ x \notin HandleCells
      /\ \A g \in Handles \ {h} : handle'[g] = handle[g] /\ asked'[g] = asked[g]
           /\ origin'[g] = origin[g]
  BY HandleConstants DEF HandleInv, Handle!TypeOK
<1>2. Handle!TypeOK' /\ DOMAIN origin' = Handles /\ origin' = [g \in Handles |-> origin'[g]]
  BY DiscardsIs DEF HandleInv, Handle!TypeOK
<1>3. ASSUME NEW g \in Handles PROVE Remembers(g)'
  <2>1. CASE g = h
    BY <1>1, <2>1, DiscardsIs DEF Remembers
  <2>2. CASE g # h
    <3>1. Remembers(g)
      BY DEF HandleInv
    <3>2. handle[g] \in HandleCells => cell'[handle[g]] = cell[handle[g]]
      BY <2>2, DiscardsIs DEF HandleInv
    <3> QED
      BY <1>1, <2>2, <3>1, <3>2, DiscardsIs DEF Remembers
  <2> QED
    BY <2>1, <2>2
<1>4. \A f, g \in Handles : handle'[f] \in HandleCells /\ f # g => handle'[f] # handle'[g]
  BY <1>1 DEF HandleInv
<1>5. Held' = Held \ {handle[h]}
  <2>1. ASSUME NEW c \in Held' PROVE c \in Held /\ c # handle[h]
    <3>1. PICK g \in Handles : c = handle'[g] /\ c \in HandleCells
      BY <2>1 DEF Held
    <3>2. g # h /\ handle'[g] = handle[g]
      BY <1>1, <3>1
    <3> QED
      BY <3>1, <3>2 DEF Held, HandleInv
  <2>2. ASSUME NEW c \in Held, c # handle[h] PROVE c \in Held'
    <3>1. PICK g \in Handles : c = handle[g] /\ c \in HandleCells
      BY <2>2 DEF Held
    <3>2. handle'[g] = c
      BY <1>1, <2>2, <3>1
    <3> QED
      BY <3>1, <3>2 DEF Held
  <2> QED
    BY <2>1, <2>2
<1>6. handle[h] \notin lost
  <2>1. CASE handle[h] \in HandleCells
    BY <2>1 DEF HandleInv, Remembers
  <2>2. CASE handle[h] \notin HandleCells
    BY <2>2 DEF HandleInv, Handle!Allocated
  <2> QED
    BY <2>1, <2>2
<1>7. Handle!Allocated' = lost' \union Held'
  BY <1>5, <1>6, DiscardsIs DEF HandleInv
<1> QED
  BY <1>2, <1>3, <1>4, <1>7 DEF HandleInv

(* What is captured over is lost if it was in a cell.                         *)
LEMMA HandleIsOverwritten ==
  ASSUME HandleInv, NEW h \in Handles, cell' = cell,
         entries \subseteq entries', entries' \subseteq Handle!AllErrNos,
         lost' = lost \union ({handle[h]} \cap HandleCells),
         exceptionStrays' \in 0 .. MaxStrays,
         NEW x \in {None, Bad} \union Handle!AllErrNos, handle' = [handle EXCEPT ![h] = x],
         NEW a \in Handle!AllErrNos \union {None}, asked' = [asked EXCEPT ![h] = a],
         NEW o, origin' = [origin EXCEPT ![h] = o],
         a # None => x = None /\ Fits(a, o),
         x \in Handle!AllErrNos => x \in entries' /\ Fits(x, o)
  PROVE  HandleInv'
<1>1. /\ handle'[h] = x /\ asked'[h] = a /\ origin'[h] = o /\ x \notin HandleCells
      /\ \A g \in Handles \ {h} : handle'[g] = handle[g] /\ asked'[g] = asked[g]
           /\ origin'[g] = origin[g]
  BY HandleConstants DEF HandleInv, Handle!TypeOK
<1>2. Handle!TypeOK' /\ DOMAIN origin' = Handles /\ origin' = [g \in Handles |-> origin'[g]]
  BY DEF HandleInv, Handle!TypeOK
<1>3. ASSUME NEW g \in Handles PROVE Remembers(g)'
  <2>1. CASE g = h
    BY <1>1, <2>1 DEF Remembers
  <2>2. CASE g # h
    <3>1. Remembers(g)
      BY DEF HandleInv
    <3>2. handle[g] \in HandleCells => handle[g] # handle[h]
      BY <2>2 DEF HandleInv
    <3> QED
      BY <1>1, <2>2, <3>1, <3>2 DEF Remembers
  <2> QED
    BY <2>1, <2>2
<1>4. \A f, g \in Handles : handle'[f] \in HandleCells /\ f # g => handle'[f] # handle'[g]
  BY <1>1 DEF HandleInv
<1>5. Held' \union ({handle[h]} \cap HandleCells) = Held
  <2>1. ASSUME NEW c \in Held' PROVE c \in Held
    <3>1. PICK g \in Handles : c = handle'[g] /\ c \in HandleCells
      BY <2>1 DEF Held
    <3>2. g # h /\ handle'[g] = handle[g]
      BY <1>1, <3>1
    <3> QED
      BY <3>1, <3>2 DEF Held
  <2>2. ASSUME NEW c \in Held, c # handle[h] PROVE c \in Held'
    <3>1. PICK g \in Handles : c = handle[g] /\ c \in HandleCells
      BY <2>2 DEF Held
    <3>2. handle'[g] = c
      BY <1>1, <2>2, <3>1
    <3> QED
      BY <3>1, <3>2 DEF Held
  <2>3. {handle[h]} \cap HandleCells \subseteq Held
    BY DEF Held
  <2>4. \A c \in Held : c \in HandleCells
    BY DEF Held
  <2> QED
    BY <2>1, <2>2, <2>3, <2>4
<1>6. Handle!Allocated' = Handle!Allocated
  BY DEF Handle!Allocated
<1>7. Handle!Allocated' = lost' \union Held'
  BY <1>5, <1>6 DEF HandleInv
<1> QED
  BY <1>2, <1>3, <1>4, <1>7 DEF HandleInv
------------------------------------------------------------------------------
LEMMA EnterKeepsInv == ASSUME HandleInv, NEW h \in Handles, Handle!Enter(h) PROVE HandleInv'
<1> DEFINE x == asked[h]
<1>1. /\ x # None /\ cell' = cell /\ entries' = entries \union {x} /\ lost' = lost
      /\ handle' = [handle EXCEPT ![h] = x] /\ asked' = [asked EXCEPT ![h] = None]
      /\ origin' = origin /\ exceptionStrays' = exceptionStrays
  BY DEF Handle!Enter, Handle!Ready
<1>2. /\ x \in Handle!AllErrNos /\ handle[h] = None /\ Fits(x, origin[h])
      /\ entries \subseteq Handle!AllErrNos /\ exceptionStrays \in 0 .. MaxStrays
  BY <1>1 DEF HandleInv, Handle!TypeOK, Remembers
<1>3. origin' = [origin EXCEPT ![h] = origin[h]]
  <2>1. origin = [g \in Handles |-> origin[g]]
    BY DEF HandleInv
  <2> QED
    BY <1>1, <2>1
<1>4. lost' = lost \union ({handle[h]} \cap HandleCells)
  BY <1>1, <1>2, HandleConstants
<1> DEFINE a == None
           o == origin[h]
<1>5. /\ asked' = [asked EXCEPT ![h] = a] /\ origin' = [origin EXCEPT ![h] = o]
      /\ a \in Handle!AllErrNos \union {None} /\ (a # None => x = None /\ Fits(a, o))
      /\ Fits(x, o)
  BY <1>1, <1>2, <1>3
<1> HIDE DEF a, o, x
<1>6. /\ x \in {None, Bad} \union Handle!AllErrNos /\ entries \subseteq entries'
      /\ entries' \subseteq Handle!AllErrNos /\ x \in entries'
      /\ exceptionStrays' \in 0 .. MaxStrays
  BY <1>1, <1>2
<1> QED
  BY <1>1, <1>4, <1>5, <1>6, HandleIsOverwritten

(* What is looked up is found, or asked for. *)
LEMMA LookGives ==
  ASSUME HandleInv, NEW h \in Handles, Handle!Ready(h), NEW eno \in Handle!AllErrNos,
         Handle!Look(h, eno)
  PROVE  \E x \in {None} \union Handle!AllErrNos, a \in Handle!AllErrNos \union {None} :
           /\ handle' = [handle EXCEPT ![h] = x] /\ asked' = [asked EXCEPT ![h] = a]
           /\ a # None => x = None /\ a = eno
           /\ x \in Handle!AllErrNos => x \in entries /\ x = eno
<1>1. asked = [asked EXCEPT ![h] = None]
  BY DEF Handle!Ready, HandleInv, Handle!TypeOK
<1>2. CASE eno \in entries /\ handle' = [handle EXCEPT ![h] = eno] /\ UNCHANGED asked
  BY <1>1, <1>2
<1>3. CASE eno \notin entries /\ handle' = [handle EXCEPT ![h] = None]
               /\ asked' = [asked EXCEPT ![h] = eno]
  BY <1>3, HandleConstants
<1> QED
  BY <1>2, <1>3 DEF Handle!Look

LEMMA CaptureErrNoKeepsInv ==
  ASSUME HandleInv, NEW h \in Handles, NEW eno \in ErrNos, Handle!CaptureErrNo(h, eno)
  PROVE  HandleInv'
<1> DEFINE o == Handle!KindOf(eno)
<1>1. /\ Handle!Ready(h) /\ Handle!Discards(h) /\ Handle!Look(h, eno)
      /\ origin' = [origin EXCEPT ![h] = o]
      /\ lost' = lost /\ exceptionStrays' = exceptionStrays
  BY DEF Handle!CaptureErrNo
<1>2. eno \in Handle!AllErrNos
  BY HandleConstants
<1>3. PICK x \in {None} \union Handle!AllErrNos, a \in Handle!AllErrNos \union {None} :
           /\ handle' = [handle EXCEPT ![h] = x] /\ asked' = [asked EXCEPT ![h] = a]
           /\ a # None => x = None /\ a = eno
           /\ x \in Handle!AllErrNos => x \in entries /\ x = eno
  BY <1>1, <1>2, LookGives
<1>4. Fits(eno, o)
  BY DEF Fits
<1> HIDE DEF o
<1>5. x \in {None, Bad} \union Handle!AllErrNos
  OBVIOUS
<1> QED
  BY <1>1, <1>3, <1>4, <1>5, HandleLetsGo

LEMMA DiscardKeepsInv == ASSUME HandleInv, NEW h \in Handles, Handle!Discard(h) PROVE HandleInv'
<1> DEFINE x == None
           a == None
           o == None
<1>1. /\ Handle!Discards(h) /\ handle' = [handle EXCEPT ![h] = x]
      /\ origin' = [origin EXCEPT ![h] = o]
      /\ lost' = lost /\ exceptionStrays' = exceptionStrays
  BY DEF Handle!Discard, Handle!Forget
<1>2. asked' = [asked EXCEPT ![h] = a]
  BY DEF Handle!Discard, Handle!Ready, HandleInv, Handle!TypeOK
<1>3. /\ x \in {None, Bad} \union Handle!AllErrNos /\ a \in Handle!AllErrNos \union {None}
      /\ (a # None => x = None /\ Fits(a, o))
           /\ (x \in Handle!AllErrNos => x \in entries /\ Fits(x, o))
  BY HandleConstants
<1> HIDE DEF x, a, o
<1> QED
  BY <1>1, <1>2, <1>3, HandleLetsGo

(* The cell that is taken was free, and nobody else's. *)
LEMMA CaptureInCellKeepsInv ==
  ASSUME HandleInv, NEW h \in Handles, NEW l \in Libraries, NEW kind \in Kinds, Handle!Ready(h),
         Handle!CaptureInCell(l, h, kind), Handle!Overwrites(h),
         origin' = [origin EXCEPT ![h] = kind], entries' = entries
  PROVE  HandleInv'
<1> DEFINE c == Handle!Free
           x == [eno |-> Handle!ErrNoOf(kind), kind |-> kind, rethrower |-> l]
<1>1. /\ HandleCells # Handle!Allocated /\ cell' = [cell EXCEPT ![c] = x]
      /\ handle' = [handle EXCEPT ![h] = c]
      /\ asked' = asked /\ exceptionStrays' = exceptionStrays
      /\ lost' = lost \union ({handle[h]} \cap HandleCells)
  BY DEF Handle!CaptureInCell, Handle!Overwrites
<1>2. c \in HandleCells /\ c \notin Handle!Allocated
  BY <1>1 DEF Handle!Free, Handle!Allocated
<1> HIDE DEF c
<1>3. x \in Handle!Exceptions /\ x # None /\ x.kind = kind /\ x.eno = Handle!ErrNoOf(kind)
  BY HandleConstants DEF Handle!Exceptions
<1> HIDE DEF x
<1>4. cell'[c] = x /\ \A d \in HandleCells \ {c} : cell'[d] = cell[d]
  BY <1>1, <1>2 DEF HandleInv, Handle!TypeOK
<1>5. /\ handle'[h] = c /\ origin'[h] = kind /\ asked'[h] = None
      /\ \A g \in Handles \ {h} : handle'[g] = handle[g] /\ asked'[g] = asked[g]
           /\ origin'[g] = origin[g]
  BY <1>1 DEF HandleInv, Handle!TypeOK, Handle!Ready
<1>6. c \notin lost /\ \A g \in Handles : handle[g] # c
  BY <1>2 DEF HandleInv, Held
<1>7. Handle!TypeOK' /\ DOMAIN origin' = Handles /\ origin' = [g \in Handles |-> origin'[g]]
  BY <1>1, <1>2, <1>3 DEF HandleInv, Handle!TypeOK
<1>8. ASSUME NEW g \in Handles PROVE Remembers(g)'
  <2>1. CASE g = h
    BY <1>1, <1>2, <1>3, <1>4, <1>5, <1>6, <2>1, HandleConstants DEF Remembers
  <2>2. CASE g # h
    <3>1. Remembers(g)
      BY DEF HandleInv
    <3>2. handle[g] \in HandleCells => handle[g] # handle[h] /\ handle[g] # c
      BY <1>6, <2>2 DEF HandleInv
    <3>3. handle[g] \in HandleCells => cell'[handle[g]] = cell[handle[g]]
            /\ (handle[g] \notin lost => handle[g] \notin lost')
      BY <1>1, <1>4, <3>2
    <3> QED
      BY <1>5, <2>2, <3>1, <3>3 DEF Remembers
  <2> QED
    BY <2>1, <2>2
<1>9. \A f, g \in Handles : handle'[f] \in HandleCells /\ f # g => handle'[f] # handle'[g]
  BY <1>5, <1>6 DEF HandleInv
<1>10. Handle!Allocated' = Handle!Allocated \union {c}
  BY <1>2, <1>3, <1>4 DEF Handle!Allocated
<1>11. lost' \union Held' = lost \union Held \union {c}
  <2>1. ASSUME NEW d \in Held' PROVE d \in Held \union {c}
    <3>1. PICK g \in Handles : d = handle'[g] /\ d \in HandleCells
      BY <2>1 DEF Held
    <3> QED
      BY <1>5, <3>1 DEF Held
  <2>2. ASSUME NEW d \in Held PROVE d \in lost' \union Held'
    <3>1. PICK g \in Handles : d = handle[g] /\ d \in HandleCells
      BY <2>2 DEF Held
    <3>2. CASE g = h
      BY <1>1, <3>1, <3>2
    <3>3. CASE g # h
      BY <1>5, <3>1, <3>3 DEF Held
    <3> QED
      BY <3>2, <3>3
  <2>3. c \in Held'
    BY <1>2, <1>5 DEF Held
  <2>4. lost \subseteq lost' /\ lost' \subseteq lost \union Held
    BY <1>1 DEF Held
  <2> QED
    BY <2>1, <2>2, <2>3, <2>4
<1> QED
  BY <1>7, <1>8, <1>9, <1>10, <1>11 DEF HandleInv

LEMMA CaptureKeepsInv ==
  ASSUME HandleInv, NEW h \in Handles, NEW l \in Libraries, NEW kind \in Kinds,
         Handle!Capture(l, h, kind)
  PROVE  HandleInv'
<1>1. /\ Handle!Ready(h) /\ origin' = [origin EXCEPT ![h] = kind] /\ entries' = entries
      /\ Handle!Overwrites(h) /\ lost' = lost \union ({handle[h]} \cap HandleCells)
  BY DEF Handle!Capture, Handle!Overwrites
<1>2. entries \subseteq entries' /\ entries' \subseteq Handle!AllErrNos
        /\ exceptionStrays \in 0 .. MaxStrays
  BY <1>1 DEF HandleInv, Handle!TypeOK
<1>3. CASE Handle!CaptureAsErrNo(h, kind)
  <2> DEFINE eno == Handle!ErrNoOf(kind)
  <2>1. Handle!Look(h, eno) /\ cell' = cell /\ exceptionStrays' = exceptionStrays
    BY <1>3 DEF Handle!CaptureAsErrNo
  <2>2. eno \in Handle!AllErrNos /\ Fits(eno, kind)
    BY HandleConstants DEF Fits
  <2> HIDE DEF eno
  <2>3. PICK x \in {None} \union Handle!AllErrNos, a \in Handle!AllErrNos \union {None} :
           /\ handle' = [handle EXCEPT ![h] = x] /\ asked' = [asked EXCEPT ![h] = a]
           /\ a # None => x = None /\ a = eno
           /\ x \in Handle!AllErrNos => x \in entries /\ x = eno
    BY <1>1, <2>1, <2>2, LookGives
  <2>4. /\ x \in {None, Bad} \union Handle!AllErrNos /\ exceptionStrays' \in 0 .. MaxStrays
        /\ a # None => x = None /\ Fits(a, kind)
        /\ x \in Handle!AllErrNos => x \in entries' /\ Fits(x, kind)
    BY <1>1, <1>2, <2>1, <2>2, <2>3
  <2> QED
    BY <1>1, <1>2, <2>1, <2>3, <2>4, HandleIsOverwritten
<1>4. CASE Handle!CaptureAsBad(h)
  <2> DEFINE x == Bad
             a == None
  <2>1. /\ handle' = [handle EXCEPT ![h] = x] /\ cell' = cell /\ asked' = asked
        /\ exceptionStrays' \in 0 .. MaxStrays
    BY <1>2, <1>4, HandleConstants DEF Handle!CaptureAsBad
  <2>2. asked' = [asked EXCEPT ![h] = a]
    BY <1>1, <2>1 DEF Handle!Ready, HandleInv, Handle!TypeOK
  <2>3. /\ x \in {None, Bad} \union Handle!AllErrNos /\ a \in Handle!AllErrNos \union {None}
        /\ (a # None => x = None /\ Fits(a, kind))
             /\ (x \in Handle!AllErrNos => x \in entries' /\ Fits(x, kind))
    BY HandleConstants
  <2> HIDE DEF x, a
  <2> QED
    BY <1>1, <1>2, <2>1, <2>2, <2>3, HandleIsOverwritten
<1>5. CASE Handle!CaptureInCell(l, h, kind)
  BY <1>1, <1>5, CaptureInCellKeepsInv
<1> QED
  BY <1>3, <1>4, <1>5 DEF Handle!Capture

(* What one handle had, another has. *)
LEMMA AdoptKeepsInv ==
  ASSUME HandleInv, NEW h \in Handles, NEW g \in Handles, Handle!Adopt(h, g) PROVE HandleInv'
<1>1. /\ asked[h] = None /\ asked[g] = None /\ handle[h] = None /\ handle[g] # None /\ h # g
      /\ handle' = [handle EXCEPT ![h] = handle[g], ![g] = None]
      /\ origin' = [origin EXCEPT ![h] = origin[g], ![g] = None]
      /\ UNCHANGED <<cell, entries, asked, lost, exceptionStrays>>
  BY DEF Handle!Adopt, Handle!Ready
<1>2. /\ handle'[h] = handle[g] /\ handle'[g] = None /\ origin'[h] = origin[g]
      /\ \A f \in Handles \ {h, g} : handle'[f] = handle[f] /\ origin'[f] = origin[f]
  BY <1>1 DEF HandleInv, Handle!TypeOK
<1>3. Handle!TypeOK' /\ DOMAIN origin' = Handles /\ origin' = [f \in Handles |-> origin'[f]]
  BY <1>1 DEF HandleInv, Handle!TypeOK
<1>4. ASSUME NEW f \in Handles PROVE Remembers(f)'
  <2>1. Remembers(f) /\ Remembers(g)
    BY DEF HandleInv
  <2>2. CASE f = h
    BY <1>1, <1>2, <2>1, <2>2 DEF Remembers
  <2>3. CASE f = g
    <3>1. handle'[f] = None /\ asked'[f] = None
      BY <1>1, <1>2, <2>3
    <3> QED
      BY <3>1, HandleConstants DEF Remembers
  <2>4. CASE f \notin {h, g}
    <3>1. handle'[f] = handle[f] /\ origin'[f] = origin[f]
      BY <1>2, <2>4
    <3> QED
      BY <1>1, <2>1, <3>1 DEF Remembers
  <2> QED
    BY <2>2, <2>3, <2>4
<1>5. ASSUME NEW e \in Handles, NEW f \in Handles, handle'[e] \in HandleCells, e # f
      PROVE  handle'[e] # handle'[f]
  <2>1. None \notin HandleCells /\ handle'[g] \notin HandleCells
    BY <1>2, HandleConstants
  <2>2. \A i, j \in Handles : handle[i] \in HandleCells /\ i # j => handle[i] # handle[j]
    BY DEF HandleInv
  <2>3. CASE e = h
    BY <1>2, <1>5, <2>1, <2>2, <2>3
  <2>4. CASE f = h
    BY <1>2, <1>5, <2>1, <2>2, <2>4
  <2>5. CASE e # h /\ f # h
    BY <1>2, <1>5, <2>1, <2>2, <2>5
  <2> QED
    BY <2>3, <2>4, <2>5
<1>6. Held' = Held
  <2>1. { handle'[f] : f \in Handles } = { handle[f] : f \in Handles }
    <3>1. \A f \in Handles : \E i \in Handles : handle'[f] = handle[i]
      <4>1. handle'[h] = handle[g] /\ handle'[g] = handle[h]
        BY <1>1, <1>2
      <4> QED
        BY <1>2, <4>1
    <3>2. \A f \in Handles : \E i \in Handles : handle[f] = handle'[i]
      <4>1. handle'[h] = handle[g] /\ handle'[g] = handle[h]
        BY <1>1, <1>2
      <4> QED
        BY <1>2, <4>1
    <3> QED
      BY <3>1, <3>2
  <2> QED
    BY <2>1 DEF Held
<1>7. Handle!Allocated' = lost' \union Held'
  BY <1>1, <1>6 DEF Handle!Allocated, HandleInv
<1> QED
  BY <1>3, <1>4, <1>5, <1>7 DEF HandleInv

LEMMA HandleNextKeepsInv == ASSUME HandleInv, [Handle!Next]_(Handle!vars) PROVE HandleInv'
<1>1. CASE UNCHANGED Handle!vars
  BY <1>1 DEF Handle!vars, HandleInv, Handle!TypeOK, Handle!Allocated, Held, Remembers
<1>2. ASSUME NEW h \in Handles, Handle!Enter(h) PROVE HandleInv'
  BY <1>2, EnterKeepsInv
<1>3. ASSUME NEW h \in Handles, Handle!Discard(h) PROVE HandleInv'
  BY <1>3, DiscardKeepsInv
<1>4. ASSUME NEW h \in Handles, NEW eno \in ErrNos, Handle!CaptureErrNo(h, eno) PROVE HandleInv'
  BY <1>4, CaptureErrNoKeepsInv
<1>5. ASSUME NEW h \in Handles, NEW l \in Libraries, NEW kind \in Kinds, Handle!Capture(l, h, kind)
      PROVE  HandleInv'
  BY <1>5, CaptureKeepsInv
<1>6. ASSUME NEW h \in Handles, NEW g \in Handles, Handle!Adopt(h, g) PROVE HandleInv'
  BY <1>6, AdoptKeepsInv
<1> QED
  BY <1>1, <1>2, <1>3, <1>4, <1>5, <1>6 DEF Handle!Next
------------------------------------------------------------------------------
(* The table of error numbers loses an invalid_argument and an exception of   *)
(* an unknown type, and nothing else.                                         *)
LEMMA KindsComeBack ==
  ASSUME NEW k \in Kinds
  PROVE  /\ \/ Handle!KindOf(Handle!ErrNoOf(k)) = k
            \/ k = "invalid" /\ Handle!KindOf(Handle!ErrNoOf(k)) = "overflow"
            \/ k = "unknown" /\ Handle!KindOf(Handle!ErrNoOf(k)) = "exception"
         /\ Handle!What(Handle!ErrNoOf(k)) = Handle!ErrNoOf(k) /\ Handle!ErrNoOf(k) # "errno_t"
<1>1. k \in { "range", "overflow", "invalid", "domain", "alloc", "exception", "unknown" }
  BY HandleConstants
<1> QED
  BY <1>1 DEF Handle!KindOf, Handle!ErrNoOf, Handle!What

LEMMA KindsSurvive == ASSUME HandleInv, "invalid" \notin Kinds PROVE Handle!KindSurvives
<1> SUFFICES ASSUME NEW h \in Handles, NEW l \in Libraries, Handle!Ready(h), handle[h] # None
             PROVE  LET threw == Handle!Thrown(l, h).kind IN
                    /\ \/ threw = origin[h]
                       \/ (origin[h] = "unknown" \/ handle[h] = Bad) /\ threw = "exception"
                    /\ Handle!KindOf(Handle!ErrNo(h)) = threw \/ origin[h] = "unknown"
                    /\ Handle!Thrown(l, h).what = "errno_t" => Handle!ErrNo(h) \in ErrNos
  BY DEF Handle!KindSurvives
<1> DEFINE e == Handle!ErrNo(h)
           t == Handle!Thrown(l, h)
<1>1. Remembers(h) /\ handle[h] \in {Bad} \union Handle!AllErrNos \union HandleCells
  BY DEF HandleInv, Handle!TypeOK
<1>2. CASE handle[h] = Bad
  <2>1. e = "EOTHER" /\ Handle!KindOf("EOTHER") = "exception"
    BY <1>2, HandleConstants DEF Handle!ErrNo, Handle!KindOf
  <2>2. t.kind = Handle!KindOf(e) /\ t.what = "Failed to capture exception"
    BY <1>2, HandleConstants DEF Handle!Thrown
  <2> QED
    BY <1>2, <2>1, <2>2
<1>3. CASE handle[h] \in Handle!AllErrNos
  <2>1. e = handle[h] /\ Fits(e, origin[h])
    BY <1>1, <1>3, HandleConstants DEF Handle!ErrNo, Remembers
  <2>2. t.kind = Handle!KindOf(e) /\ t.what = Handle!What(e)
    BY <1>3, <2>1, HandleConstants DEF Handle!Thrown
  <2> HIDE DEF e, t
  <2>3. CASE e \in ErrNos /\ origin[h] = Handle!KindOf(e)
    BY <2>2, <2>3 DEF e, t
  <2>4. CASE origin[h] \in Kinds /\ e = Handle!ErrNoOf(origin[h])
    BY <2>2, <2>4, KindsComeBack DEF e, t
  <2> QED
    BY <2>1, <2>3, <2>4 DEF Fits
<1>4. CASE handle[h] \in HandleCells
  <2>1. /\ origin[h] \in Kinds /\ cell[handle[h]].kind = origin[h]
        /\ e = Handle!ErrNoOf(origin[h])
    BY <1>1, <1>4, HandleConstants DEF Remembers, Handle!ErrNo
  <2>2. /\ t.kind = cell[handle[h]].kind \/ t.kind = Handle!KindOf(e)
        /\ t.what = "its own"
    BY <1>4, HandleConstants DEF Handle!Thrown
  <2> HIDE DEF e, t
  <2> QED
    BY <2>1, <2>2, KindsComeBack DEF e, t
<1> QED
  BY <1>1, <1>2, <1>3, <1>4

LEMMA HandleInvIsEnough == ASSUME HandleInv PROVE Handle!HandlesAreKept
<1>1. Handle!HandlesAreValid
  <2> SUFFICES ASSUME NEW h \in Handles
               PROVE  /\ handle[h] \in {None, Bad} \union entries \union Handle!Allocated
                      /\ handle[h] \in HandleCells => \A g \in Handles \ {h} : handle[g] # handle[h]
    BY DEF Handle!HandlesAreValid
  <2> QED
    BY DEF HandleInv, Handle!TypeOK, Remembers, Handle!Allocated
<1>2. Handle!CellsAreHeld
  BY DEF Handle!CellsAreHeld, HandleInv, Held
<1> QED
  BY <1>1, <1>2 DEF Handle!HandlesAreKept, HandleInv

LEMMA HandlesAreThemselves == PartsSpec => Handle!Spec
<1>1. PartsInit => Handle!Init
  BY DEF PartsInit
<1>2. [PartsNext]_partsVars => [Handle!Next]_(Handle!vars)
  BY DEF PartsNext, FlagNext, RingNext, SingletonNext, MapNext, HandleNext, FunctorNext, TextNext,
     ChecksumNext, LoopNext, CallsNext, partsVars, handleVars, Handle!vars
<1> QED
  BY <1>1, <1>2, PTL DEF PartsSpec, Handle!Spec

LEMMA HandleInvHolds == PartsSpec => []HandleInv
<1>1. Handle!Init => HandleInv
  BY HandleInitInv
<1>2. HandleInv /\ [Handle!Next]_(Handle!vars) => HandleInv'
  BY HandleNextKeepsInv
<1> QED
  BY <1>1, <1>2, HandlesAreThemselves, PTL DEF Handle!Spec

(* Whichever threads capture, adopt, rethrow and discard, whatever the types  *)
(* of the exceptions and whenever memory runs out: a handle points to an      *)
(* exception that exists, and no cell is freed twice or, unless its handle    *)
(* was captured into once more, left behind.                                  *)
THEOREM HandlesStayValid == PartsSpec => []Handle!HandlesAreKept
<1>1. HandleInv => Handle!HandlesAreKept
  BY HandleInvIsEnough
<1> QED
  BY <1>1, HandleInvHolds, PTL

(* And what comes out is of the type that went in, as the table of error      *)
(* numbers has it (69-76), as long as nobody throws an invalid_argument: that *)
(* is captured as another number than the table's (194).                      *)
THEOREM ExceptionsStayKept ==
  ASSUME "invalid" \notin Kinds
  PROVE  PartsSpec => []ExceptionsAreKept
<1>1. HandleInv => ExceptionsAreKept
  BY HandleInvIsEnough, KindsSurvive DEF ExceptionsAreKept, Handle!ExceptionsAreKept
<1> QED
  BY <1>1, HandleInvHolds, PTL
------------------------------------------------------------------------------
(* The texts of the old exceptions. *)
Members == {"what", "system", "message"}
TextMaps == [OldException!Buffers -> OldException!Texts \union {None}]
Sayings == OldException!Texts \union {None, "literal", "Unknown Win32 exception"}
Win32Literal == <<None, "Unknown Win32 exception">>

(* The exception x in e has what is allocated for e, and nothing else. *)
HoldsItsOwn(e, x, txt) ==
  /\ x \in OldException!Exceptions
  /\ x.system \in {None, <<e, "system">>} /\ x.message \in {None, <<e, "message">>}
  /\ x.delete => x.what \in {None, <<e, "what">>}
  /\ ~x.delete => x.what \in OldException!Literals \union {None}
  /\ txt[<<e, "what">>] # None <=> (x.delete /\ x.what # None)
  /\ txt[<<e, "system">>] # None <=> x.system # None
  /\ txt[<<e, "message">>] # None <=> x.message # None
  /\ x.win32 => ~x.delete /\ x.what = Win32Literal
  /\ ~x.win32 => x.system = None /\ x.message = None

(* It says s. *)
Telling(x, txt, s) ==
  /\ x.win32 => x.message # None /\ s = txt[x.message]
  /\ ~x.win32 /\ x.what = None => s = None
  /\ ~x.win32 /\ x.what # None /\ x.delete => s = txt[x.what]
  /\ ~x.win32 /\ x.what # None /\ ~x.delete => s = x.what[2]

(* The exception e is x: nothing is allocated but what it holds, and it says  *)
(* s unless memory ran out for it.                                            *)
IsGood(e, x, txt, s, isShort) ==
  /\ x = None => \A k \in Members : txt[<<e, k>>] = None
  /\ x # None => HoldsItsOwn(e, x, txt) /\ (~isShort => Telling(x, txt, s))

TextInv ==
  /\ OldException!TypeOK
  /\ said \in [OldExceptions -> Sayings]
  /\ \A e \in sliced : object[e] # None
  /\ \A e \in OldExceptions \ sliced : IsGood(e, object[e], text, said[e], e \in short)
  /\ textEnd = "freed twice" => sliced # {}

LEMMA TextInitInv == ASSUME OldException!Init PROVE TextInv
BY OldExceptionAssumption
   DEF OldException!Init, TextInv, OldException!TypeOK, IsGood, Members, Sayings, OldException!Buffers

LEMMA BuffersAre == ASSUME NEW e \in OldExceptions, NEW k \in Members
                    PROVE  <<e, k>> \in OldException!Buffers /\ <<e, k>> # None
<1>1. <<e, k>> \in OldException!Buffers
  BY DEF OldException!Buffers, Members
<1>2. None \notin OldException!Buffers
  BY OldExceptionAssumption DEF OldException!Assumptions
<1> QED
  BY <1>1, <1>2

(* What is done to the texts of the others does not matter. *)
LEMMA GoodStays ==
  ASSUME NEW e \in OldExceptions, NEW x, NEW txt, NEW txt2, NEW s, NEW isShort,
         IsGood(e, x, txt, s, isShort), \A k \in Members : txt2[<<e, k>>] = txt[<<e, k>>]
  PROVE  IsGood(e, x, txt2, s, isShort)
<1>1. ASSUME x # None PROVE HoldsItsOwn(e, x, txt2)
  BY <1>1 DEF IsGood, HoldsItsOwn, Members
<1>2. ASSUME x # None, ~isShort PROVE Telling(x, txt2, s)
  <2>1. HoldsItsOwn(e, x, txt) /\ Telling(x, txt, s)
    BY <1>2 DEF IsGood
  <2>2. x.message # None => txt2[x.message] = txt[x.message]
    BY <2>1 DEF HoldsItsOwn, Members
  <2>3. x.delete /\ x.what # None => txt2[x.what] = txt[x.what]
    BY <2>1 DEF HoldsItsOwn, Members
  <2> QED
    BY <2>1, <2>2, <2>3 DEF Telling
<1> QED
  BY <1>1, <1>2 DEF IsGood

(* One object changes, and its own texts with it. *)
LEMMA ObjectChanges ==
  ASSUME TextInv, NEW e \in OldExceptions \ sliced, NEW x \in OldException!Exceptions \union {None},
         NEW s \in Sayings, NEW isShort \in BOOLEAN, text' \in TextMaps,
         \A f \in OldExceptions \ {e}, k \in Members : text'[<<f, k>>] = text[<<f, k>>],
         object' = [object EXCEPT ![e] = x], said' = [said EXCEPT ![e] = s],
         short' = IF isShort THEN short \union {e} ELSE short \ {e},
         sliced' = sliced, textEnd' = textEnd,
         IsGood(e, x, text', s, isShort)
  PROVE  TextInv'
<1>1. OldException!TypeOK' /\ said' \in [OldExceptions -> Sayings]
  BY DEF TextInv, OldException!TypeOK, TextMaps
<1>2. \A f \in sliced' : object'[f] # None
  BY DEF TextInv, OldException!TypeOK
<1>3. ASSUME NEW f \in OldExceptions \ sliced'
      PROVE  IsGood(f, object'[f], text', said'[f], f \in short')
  <2>1. CASE f = e
    <3>1. object'[f] = x /\ said'[f] = s
      BY <2>1 DEF TextInv, OldException!TypeOK
    <3>2. (f \in short') = isShort
      BY <2>1
    <3> QED
      BY <2>1, <3>1, <3>2
  <2>2. CASE f # e
    <3>1. object'[f] = object[f] /\ said'[f] = said[f]
      BY <2>2 DEF TextInv, OldException!TypeOK
    <3>2. (f \in short') = (f \in short)
      BY <2>2
    <3>3. IsGood(f, object[f], text, said[f], f \in short)
      BY DEF TextInv
    <3>4. IsGood(f, object[f], text', said[f], f \in short)
      BY <2>2, <3>3, GoodStays
    <3> QED
      BY <3>1, <3>2, <3>4
  <2> QED
    BY <2>1, <2>2
<1>4. textEnd' = "freed twice" => sliced' # {}
  BY DEF TextInv
<1> QED
  BY <1>1, <1>2, <1>3, <1>4 DEF TextInv
------------------------------------------------------------------------------
LEMMA EndsKeepsInv ==
  ASSUME TextInv, NEW how \in {"null text", "freed twice"}, OldException!Ends(how),
         how = "freed twice" => sliced # {}
  PROVE  TextInv'
<1>1. UNCHANGED <<text, object, said, short, sliced>> /\ textEnd' = how
  BY DEF OldException!Ends
<1>2. OldException!TypeOK'
  BY <1>1 DEF TextInv, OldException!TypeOK, OldException!Buffers
<1>3. \A e \in OldExceptions \ sliced : IsGood(e, object'[e], text', said'[e], e \in short')
  BY <1>1 DEF TextInv
<1> QED
  BY <1>1, <1>2, <1>3 DEF TextInv

(* The texts t are txt but for one, and that one is v.                        *)
OnlyChanged(t, txt, e, k) ==
  \A f \in OldExceptions, j \in Members : f # e \/ j # k => t[<<f, j>>] = txt[<<f, j>>]

TextPut(t, txt, e, k, v) == t = [txt EXCEPT ![<<e, k>>] = v]

(* One text is allocated. *)
LEMMA TextChanges ==
  ASSUME NEW txt \in TextMaps, NEW e \in OldExceptions, NEW k \in Members,
         NEW v \in OldException!Texts \union {None}, NEW t, TextPut(t, txt, e, k, v)
  PROVE  t \in TextMaps /\ t[<<e, k>>] = v /\ OnlyChanged(t, txt, e, k)
<1>1. <<e, k>> \in OldException!Buffers
  BY BuffersAre
<1>2. ASSUME NEW f \in OldExceptions, NEW j \in Members, f # e \/ j # k
      PROVE  t[<<f, j>>] = txt[<<f, j>>]
  <2>1. <<f, j>> \in OldException!Buffers
    BY BuffersAre
  <2>2. <<f, j>> # <<e, k>>
    BY <1>2
  <2> QED
    BY <2>1, <2>2 DEF TextMaps, TextPut
<1> QED
  BY <1>1, <1>2 DEF TextMaps, OnlyChanged, TextPut

LEMMA ConstructKeepsInv ==
  ASSUME TextInv, NEW e \in OldExceptions, NEW literal \in {None, <<None, "literal">>},
         OldException!Construct(e, literal)
  PROVE  TextInv'
<1> DEFINE x == [win32 |-> FALSE, what |-> literal, delete |-> FALSE, system |-> None, message |-> None]
           s == IF literal = None THEN None ELSE literal[2]
<1>0. object[e] = None /\ e \notin sliced
  BY DEF OldException!Construct, TextInv
<1>1. /\ object' = [object EXCEPT ![e] = x] /\ said' = [said EXCEPT ![e] = s]
      /\ short' = short \ {e} /\ sliced' = sliced /\ textEnd' = textEnd /\ text' = text
  BY <1>0 DEF OldException!Construct, OldException!Becomes, OldException!Plain
<1>2. x \in OldException!Exceptions /\ s \in Sayings /\ text' \in TextMaps
  <2>1. CASE literal = None
    BY <1>1, <2>1 DEF OldException!Exceptions, OldException!Literals, Sayings, TextInv,
       OldException!TypeOK, TextMaps
  <2>2. CASE literal = <<None, "literal">>
    <3>1. s = "literal" \/ s = None
      BY <2>2
    <3>2. literal \in OldException!Literals
      BY <2>2 DEF OldException!Literals
    <3> QED
      BY <1>1, <3>1, <3>2 DEF OldException!Exceptions, Sayings, TextInv, OldException!TypeOK,
         TextMaps
  <2> QED
    BY <2>1, <2>2
<1>3. \A k \in Members : text'[<<e, k>>] = None
  BY <1>0, <1>1 DEF TextInv, IsGood
<1>4. HoldsItsOwn(e, x, text')
  BY <1>2, <1>3 DEF HoldsItsOwn, Members, OldException!Literals
<1>5. Telling(x, text', s)
  BY DEF Telling
<1>6. IsGood(e, x, text', s, FALSE)
  BY <1>3, <1>4, <1>5 DEF IsGood
<1> HIDE DEF x, s
<1> QED
  BY <1>0, <1>1, <1>2, <1>6, ObjectChanges

LEMMA FromTextKeepsInv ==
  ASSUME TextInv, NEW e \in OldExceptions, NEW memory \in BOOLEAN, OldException!FromText(e, memory)
  PROVE  TextInv'
<1> DEFINE b == IF memory THEN <<e, "what">> ELSE None
           x == [win32 |-> FALSE, what |-> b, delete |-> TRUE, system |-> None, message |-> None]
<1>0. object[e] = None /\ e \notin sliced
  BY DEF OldException!FromText, TextInv
<1>1. /\ object' = [object EXCEPT ![e] = x] /\ said' = [said EXCEPT ![e] = "text"]
      /\ short' = (IF ~memory THEN short \union {e} ELSE short \ {e}) /\ sliced' = sliced /\ textEnd' = textEnd
      /\ text' = IF memory THEN [text EXCEPT ![<<e, "what">>] = "text"] ELSE text
  BY <1>0 DEF OldException!FromText, OldException!Becomes, OldException!Plain
<1>2. \A k \in Members : /\ <<e, k>> \in OldException!Buffers /\ <<e, k>> # None /\ text[<<e, k>>] = None
  BY <1>0, BuffersAre DEF TextInv, IsGood
<1>3. text \in TextMaps /\ <<e, "what">> \in OldException!Buffers /\ <<e, "what">> # None
        /\ "text" # None
  BY <1>2, OldExceptionAssumption DEF TextInv, OldException!TypeOK, TextMaps, Members,
     OldException!Assumptions, OldException!Texts
<1>4. x \in OldException!Exceptions /\ "text" \in Sayings /\ text' \in TextMaps
  BY <1>1, <1>3 DEF OldException!Exceptions, Sayings, TextMaps, OldException!Texts
<1>5. \A f \in OldExceptions \ {e}, k \in Members : text'[<<f, k>>] = text[<<f, k>>]
  BY <1>1, <1>3 DEF TextMaps
<1>6. /\ text'[<<e, "what">>] = IF memory THEN "text" ELSE None
      /\ text'[<<e, "system">>] = None /\ text'[<<e, "message">>] = None
  BY <1>1, <1>2, <1>3 DEF TextMaps, Members
<1>7. HoldsItsOwn(e, x, text')
  BY <1>3, <1>4, <1>6 DEF HoldsItsOwn
<1>8. memory => Telling(x, text', "text")
  BY <1>3, <1>6 DEF Telling
<1>9. IsGood(e, x, text', "text", ~memory)
  <2>1. x # None
    BY <1>4, OldExceptionAssumption DEF OldException!Assumptions
  <2> QED
    BY <2>1, <1>7, <1>8 DEF IsGood
<1> HIDE DEF x
<1> QED
  BY <1>0, <1>1, <1>4, <1>5, <1>9, ObjectChanges

LEMMA FromWin32KeepsInv ==
  ASSUME TextInv, NEW e \in OldExceptions, OldException!FromWin32(e) PROVE TextInv'
<1> DEFINE x == [win32 |-> TRUE, what |-> Win32Literal, delete |-> FALSE,
                 system |-> <<e, "system">>, message |-> <<e, "message">>]
<1>0. object[e] = None /\ e \notin sliced
  BY DEF OldException!FromWin32, TextInv
<1>1. CASE OldException!Ends("null text")
  BY <1>1, EndsKeepsInv
<1>2. CASE /\ text' = [text EXCEPT ![<<e, "system">>] = "system message", ![<<e, "message">>] = "message"]
           /\ OldException!Becomes(e, x, "message", FALSE)
  <2>1. /\ object' = [object EXCEPT ![e] = x] /\ said' = [said EXCEPT ![e] = "message"]
        /\ short' = short \ {e} /\ sliced' = sliced /\ textEnd' = textEnd
    BY <1>0, <1>2 DEF OldException!Becomes
  <2>2. \A k \in Members : /\ <<e, k>> \in OldException!Buffers /\ <<e, k>> # None /\ text[<<e, k>>] = None
    BY <1>0, BuffersAre DEF TextInv, IsGood
  <2>3. /\ text \in TextMaps /\ "message" # None /\ "system message" # None
        /\ {"message", "system message"} \subseteq OldException!Texts
    BY OldExceptionAssumption DEF TextInv, OldException!TypeOK, TextMaps, OldException!Assumptions,
       OldException!Texts
  <2>4. /\ text' \in TextMaps
        /\ \A f \in OldExceptions \ {e}, k \in Members : text'[<<f, k>>] = text[<<f, k>>]
        /\ text'[<<e, "what">>] = None
        /\ text'[<<e, "system">>] = "system message" /\ text'[<<e, "message">>] = "message"
    <3> DEFINE t == [text EXCEPT ![<<e, "system">>] = "system message"]
    <3>1. /\ t \in TextMaps /\ t[<<e, "system">>] = "system message"
          /\ OnlyChanged(t, text, e, "system")
      <4>1. TextPut(t, text, e, "system", "system message")
        BY DEF TextPut
      <4>2. "system" \in Members /\ "system message" \in OldException!Texts \union {None}
              /\ text \in TextMaps
        BY <2>3 DEF Members
      <4> HIDE DEF t
      <4> QED
        BY <4>1, <4>2, TextChanges
    <3>2. TextPut(text', t, e, "message", "message")
      BY <1>2 DEF TextPut
    <3> HIDE DEF t
    <3>3. /\ text' \in TextMaps /\ text'[<<e, "message">>] = "message"
          /\ OnlyChanged(text', t, e, "message")
      <4>1. "message" \in Members /\ "message" \in OldException!Texts \union {None}
              /\ t \in TextMaps
        BY <2>3, <3>1 DEF Members
      <4> QED
        BY <4>1, <3>2, TextChanges
    <3> QED
      BY <2>2, <3>1, <3>3 DEF Members, OnlyChanged
  <2>5. x \in OldException!Exceptions /\ "message" \in Sayings
    BY <2>2 DEF OldException!Exceptions, OldException!Literals, Win32Literal, Sayings, Members,
       OldException!Texts
  <2>6. HoldsItsOwn(e, x, text')
    BY <2>2, <2>3, <2>4, <2>5 DEF HoldsItsOwn, Members, OldException!Literals, Win32Literal
  <2>7. Telling(x, text', "message")
    BY <2>2, <2>4 DEF Telling, Members
  <2>8. x # None
    BY <2>5, OldExceptionAssumption DEF OldException!Assumptions
  <2>9. IsGood(e, x, text', "message", FALSE)
    BY <2>6, <2>7, <2>8 DEF IsGood
  <2> HIDE DEF x
  <2> QED
    BY <1>0, <2>1, <2>4, <2>5, <2>9, ObjectChanges
<1> QED
  BY <1>1, <1>2 DEF OldException!FromWin32, Win32Literal
------------------------------------------------------------------------------
(* A copy of a text, if there is something to copy and memory for it. *)
CopyIs(r, txt, b, e, k, memory) ==
  /\ r.txt \in TextMaps /\ r.at \in {None, <<e, k>>} /\ OnlyChanged(r.txt, txt, e, k)
  /\ r.at = None => r.txt = txt
  /\ r.at # None => b # None /\ r.txt[<<e, k>>] = txt[b]
  /\ b # None /\ memory => r.at # None

LEMMA CopyStringGives ==
  ASSUME NEW txt \in TextMaps, NEW b \in OldException!Buffers \union {None},
         NEW e \in OldExceptions, NEW k \in Members, NEW memory \in BOOLEAN,
         NEW r, r = OldException!CopyString(txt, b, <<e, k>>, memory)
  PROVE  CopyIs(r, txt, b, e, k, memory)
<1>1. CASE b = None \/ ~memory
  BY <1>1 DEF OldException!CopyString, OnlyChanged, CopyIs
<1>2. CASE b # None /\ memory
  <2>1. TextPut(r.txt, txt, e, k, txt[b]) /\ r.at = <<e, k>>
    BY <1>2 DEF OldException!CopyString, TextPut
  <2>2. txt[b] \in OldException!Texts \union {None}
    BY <1>2 DEF TextMaps
  <2>3. r.txt \in TextMaps /\ r.txt[<<e, k>>] = txt[b] /\ OnlyChanged(r.txt, txt, e, k)
    BY <2>1, <2>2, TextChanges
  <2>4. <<e, k>> # None
    BY BuffersAre
  <2> QED
    BY <1>2, <2>1, <2>3, <2>4 DEF CopyIs
<1> QED
  BY <1>1, <1>2

(* A copy has texts of its own, and says what it is given to say. *)
LEMMA CopiesGives ==
  ASSUME NEW e \in OldExceptions, NEW o \in OldExceptions, o # e, NEW x, HoldsItsOwn(o, x, text),
         text \in TextMaps, NEW txt \in TextMaps, NEW asWin32 \in BOOLEAN, asWin32 => x.win32,
         NEW memory \in OldException!Memory,
         \A k \in Members : txt[<<o, k>>] = text[<<o, k>>] /\ txt[<<e, k>>] = None,
         NEW c, c = OldException!Copies(x, e, asWin32, txt, memory)
  PROVE  /\ c.txt \in TextMaps
         /\ \A f \in OldExceptions \ {e}, k \in Members : c.txt[<<f, k>>] = txt[<<f, k>>]
         /\ HoldsItsOwn(e, c.object, c.txt)
         /\ c.object.win32 = asWin32 /\ c.object.delete = x.delete
         /\ ~x.delete => c.object.what = x.what
         /\ x.what = None => c.object.what = None
         /\ memory = OldException!Enough =>
              /\ x.delete /\ x.what # None =>
                   c.object.what # None /\ c.txt[c.object.what] = text[x.what]
              /\ asWin32 /\ x.message # None =>
                   c.object.message # None /\ c.txt[c.object.message] = text[x.message]
<1> DEFINE bw == IF x.delete THEN x.what ELSE None
           bs == IF asWin32 THEN x.system ELSE None
           bm == IF asWin32 THEN x.message ELSE None
           w == OldException!CopyString(txt, bw, <<e, "what">>, memory.what)
           s == OldException!CopyString(w.txt, bs, <<e, "system">>, memory.system)
           m == OldException!CopyString(s.txt, bm, <<e, "message">>, memory.message)
<1>1. /\ bw \in {None, <<o, "what">>} /\ bs \in {None, <<o, "system">>}
      /\ bm \in {None, <<o, "message">>}
      /\ x.delete \in BOOLEAN
  BY DEF HoldsItsOwn, OldException!Exceptions
<1>2. \A k \in Members : /\ <<o, k>> \in OldException!Buffers /\ <<o, k>> # None
                         /\ <<e, k>> \in OldException!Buffers /\ <<e, k>> # None
  BY BuffersAre
<1>3. {"what", "system", "message"} = Members
  BY DEF Members
<1>4. memory.what \in BOOLEAN /\ memory.system \in BOOLEAN /\ memory.message \in BOOLEAN
  BY DEF OldException!Memory
<1>5. /\ bw \in OldException!Buffers \union {None} /\ bs \in OldException!Buffers \union {None}
      /\ bm \in OldException!Buffers \union {None}
  BY <1>1, <1>2, <1>3
<1>c. /\ c.txt = m.txt
      /\ c.object = [win32 |-> asWin32, what |-> IF x.delete THEN w.at ELSE x.what, delete |-> x.delete,
                     system |-> s.at, message |-> m.at]
  BY DEF OldException!Copies
<1> HIDE DEF bw, bs, bm
<1>w. w = OldException!CopyString(txt, bw, <<e, "what">>, memory.what)
  OBVIOUS
<1>s. s = OldException!CopyString(w.txt, bs, <<e, "system">>, memory.system)
  OBVIOUS
<1>m. m = OldException!CopyString(s.txt, bm, <<e, "message">>, memory.message)
  OBVIOUS
<1> HIDE DEF w, s, m
<1>6. CopyIs(w, txt, bw, e, "what", memory.what)
  BY <1>w, <1>3, <1>4, <1>5, CopyStringGives
<1>7. CopyIs(s, w.txt, bs, e, "system", memory.system)
  <2>1. w.txt \in TextMaps
    BY <1>6 DEF CopyIs
  <2> QED
    BY <1>s, <1>3, <1>4, <1>5, <2>1, CopyStringGives
<1>8. CopyIs(m, s.txt, bm, e, "message", memory.message)
  <2>1. s.txt \in TextMaps
    BY <1>7 DEF CopyIs
  <2> QED
    BY <1>m, <1>3, <1>4, <1>5, <2>1, CopyStringGives
<1>9. ASSUME NEW f \in OldExceptions \ {e}, NEW k \in Members
      PROVE  m.txt[<<f, k>>] = txt[<<f, k>>] /\ s.txt[<<f, k>>] = txt[<<f, k>>]
               /\ w.txt[<<f, k>>] = txt[<<f, k>>]
  <2>1. m.txt[<<f, k>>] = s.txt[<<f, k>>] /\ s.txt[<<f, k>>] = w.txt[<<f, k>>]
          /\ w.txt[<<f, k>>] = txt[<<f, k>>]
    BY <1>6, <1>7, <1>8 DEF CopyIs, OnlyChanged
  <2> QED
    BY <2>1
<1>10. /\ bs # None => w.txt[bs] = text[bs]
       /\ bm # None => s.txt[bm] = text[bm]
       /\ bw # None => txt[bw] = text[bw]
  BY <1>1, <1>3, <1>9
<1>11. /\ m.txt[<<e, "what">>] = IF w.at = None THEN None ELSE text[bw]
       /\ m.txt[<<e, "system">>] = IF s.at = None THEN None ELSE text[bs]
       /\ m.txt[<<e, "message">>] = IF m.at = None THEN None ELSE text[bm]
  <2>1. m.txt[<<e, "what">>] = s.txt[<<e, "what">>] /\ s.txt[<<e, "what">>] = w.txt[<<e, "what">>]
    BY <1>3, <1>7, <1>8 DEF CopyIs, OnlyChanged
  <2>2. m.txt[<<e, "system">>] = s.txt[<<e, "system">>]
          /\ w.txt[<<e, "system">>] = txt[<<e, "system">>]
    BY <1>3, <1>6, <1>8 DEF CopyIs, OnlyChanged
  <2>3. s.txt[<<e, "message">>] = w.txt[<<e, "message">>]
          /\ w.txt[<<e, "message">>] = txt[<<e, "message">>]
    BY <1>3, <1>6, <1>7 DEF CopyIs, OnlyChanged
  <2>4. txt[<<e, "what">>] = None /\ txt[<<e, "system">>] = None /\ txt[<<e, "message">>] = None
    BY <1>3
  <2>5. w.at # None => w.txt[<<e, "what">>] = text[bw]
    BY <1>6, <1>10 DEF CopyIs
  <2>6. s.at # None => s.txt[<<e, "system">>] = text[bs]
    BY <1>7, <1>10 DEF CopyIs
  <2>7. m.at # None => m.txt[<<e, "message">>] = text[bm]
    BY <1>8, <1>10 DEF CopyIs
  <2>8. /\ w.at = None => w.txt = txt
        /\ s.at = None => s.txt = w.txt
        /\ m.at = None => m.txt = s.txt
    BY <1>6, <1>7, <1>8 DEF CopyIs
  <2> QED
    BY <2>1, <2>2, <2>3, <2>4, <2>5, <2>6, <2>7, <2>8
<1>12. /\ bw # None => text[bw] # None
       /\ bs # None => text[bs] # None
       /\ bm # None => text[bm] # None
  BY DEF HoldsItsOwn, bw, bs, bm
<1>13. /\ w.at \in {None, <<e, "what">>} /\ s.at \in {None, <<e, "system">>}
       /\ m.at \in {None, <<e, "message">>}
       /\ w.at # None => bw # None
       /\ s.at # None => bs # None
       /\ m.at # None => bm # None
  BY <1>6, <1>7, <1>8 DEF CopyIs
<1>14. c.object \in OldException!Exceptions
  <2>1. w.at \in OldException!Buffers \union {None} /\ s.at \in OldException!Buffers \union {None}
        /\ m.at \in OldException!Buffers \union {None}
    BY <1>2, <1>3, <1>13
  <2> QED
    BY <1>1, <1>c, <2>1 DEF HoldsItsOwn, OldException!Exceptions
<1>15. HoldsItsOwn(e, c.object, c.txt)
  <2> HIDE DEF OldException!Exceptions
  <2>1. c.object.system = s.at /\ c.object.message = m.at /\ c.object.win32 = asWin32
          /\ c.object.delete = x.delete
        /\ c.object.what = IF x.delete THEN w.at ELSE x.what
    BY <1>c
  <2>2. /\ c.txt[<<e, "system">>] # None <=> s.at # None
        /\ c.txt[<<e, "message">>] # None <=> m.at # None
        /\ c.txt[<<e, "what">>] # None <=> w.at # None
    BY <1>c, <1>11, <1>12, <1>13
  <2>3. ~x.delete => w.at = None
    BY <1>13 DEF bw
  <2>4. asWin32 => ~x.delete /\ x.what = Win32Literal
    BY DEF HoldsItsOwn
  <2>5. ~asWin32 => s.at = None /\ m.at = None
    BY <1>13 DEF bs, bm
  <2>6. ~x.delete => x.what \in OldException!Literals \union {None}
    BY DEF HoldsItsOwn
  <2> QED
    BY <1>1, <1>13, <1>14, <2>1, <2>2, <2>3, <2>4, <2>5, <2>6 DEF HoldsItsOwn
<1>16. ASSUME memory = OldException!Enough
       PROVE  /\ x.delete /\ x.what # None =>
                   c.object.what # None /\ c.txt[c.object.what] = text[x.what]
              /\ asWin32 /\ x.message # None =>
                   c.object.message # None /\ c.txt[c.object.message] = text[x.message]
  <2>1. memory.what /\ memory.message
    BY <1>16 DEF OldException!Enough
  <2>2. (bw # None => w.at # None) /\ (bm # None => m.at # None)
    BY <1>6, <1>8, <2>1 DEF CopyIs
  <2>3. ASSUME x.delete, x.what # None
        PROVE  c.object.what # None /\ c.txt[c.object.what] = text[x.what]
    <3>1. bw = x.what /\ c.object.what = w.at
      BY <1>c, <2>3 DEF bw
    <3> QED
      BY <1>c, <1>11, <1>13, <2>2, <2>3, <3>1
  <2>4. ASSUME asWin32, x.message # None
        PROVE  c.object.message # None /\ c.txt[c.object.message] = text[x.message]
    <3>1. bm = x.message /\ c.object.message = m.at
      BY <1>c, <2>4 DEF bm
    <3> QED
      BY <1>c, <1>11, <1>13, <2>2, <2>4, <3>1
  <2> QED
    BY <2>3, <2>4
<1>17. x.what = None => c.object.what = None
  BY <1>c, <1>13 DEF bw
<1> QED
  BY <1>c, <1>8, <1>9, <1>15, <1>16, <1>17 DEF CopyIs

(* A copy of a whole exception is a good one. *)
LEMMA CopiesAreGood ==
  ASSUME TextInv, NEW e \in OldExceptions, NEW o \in OldExceptions, o # e, OldException!IsWhole(o),
         NEW txt \in TextMaps, NEW asWin32 \in BOOLEAN, asWin32 => object[o].win32,
         NEW memory \in OldException!Memory,
         \A k \in Members : txt[<<o, k>>] = text[<<o, k>>] /\ txt[<<e, k>>] = None,
         NEW c, c = OldException!Copies(object[o], e, asWin32, txt, memory)
  PROVE  /\ c.txt \in TextMaps /\ c.object \in OldException!Exceptions /\ c.object # None
         /\ \A f \in OldExceptions \ {e}, k \in Members : c.txt[<<f, k>>] = txt[<<f, k>>]
         /\ OldException!Says(o, asWin32) \in Sayings
         /\ IsGood(e, c.object, c.txt, OldException!Says(o, asWin32), o \in short \/ memory # OldException!Enough)
<1> DEFINE x == object[o]
<1>1. x # None /\ o \notin sliced /\ IsGood(o, x, text, said[o], o \in short)
        /\ text \in TextMaps /\ said[o] \in Sayings
  BY DEF OldException!IsWhole, TextInv, OldException!TypeOK, TextMaps
<1>2. HoldsItsOwn(o, x, text) /\ (o \notin short => Telling(x, text, said[o]))
  BY <1>1 DEF IsGood
<1> HIDE DEF x
<1>3. c = OldException!Copies(x, e, asWin32, txt, memory) /\ (asWin32 => x.win32)
  BY DEF x
<1>4. /\ c.txt \in TextMaps
      /\ \A f \in OldExceptions \ {e}, k \in Members : c.txt[<<f, k>>] = txt[<<f, k>>]
      /\ HoldsItsOwn(e, c.object, c.txt)
      /\ c.object.win32 = asWin32 /\ c.object.delete = x.delete
      /\ ~x.delete => c.object.what = x.what
      /\ x.what = None => c.object.what = None
      /\ memory = OldException!Enough =>
           /\ x.delete /\ x.what # None =>
                c.object.what # None /\ c.txt[c.object.what] = text[x.what]
           /\ asWin32 /\ x.message # None =>
                c.object.message # None /\ c.txt[c.object.message] = text[x.message]
  BY <1>1, <1>2, <1>3, CopiesGives
<1> DEFINE s == OldException!Says(o, asWin32)
<1>5. s = IF asWin32 = x.win32 THEN said[o] ELSE x.what[2]
  BY DEF OldException!Says, x
<1>6. x.win32 => ~x.delete /\ x.what = Win32Literal /\ x.what[2] = "Unknown Win32 exception"
        /\ x.what # None
  <2>1. Win32Literal # None
    BY OldExceptionAssumption DEF OldException!Assumptions, OldException!Literals, Win32Literal
  <2>2. Win32Literal[2] = "Unknown Win32 exception"
    BY DEF Win32Literal
  <2>3. x.win32 => ~x.delete /\ x.what = Win32Literal
    BY <1>2 DEF HoldsItsOwn
  <2> HIDE DEF Win32Literal
  <2> QED
    BY <2>1, <2>2, <2>3
<1>7. asWin32 # x.win32 => x.win32 /\ ~asWin32
  BY <1>2, <1>3 DEF HoldsItsOwn, OldException!Exceptions
<1>8. s \in Sayings
  BY <1>1, <1>5, <1>6, <1>7 DEF Sayings
<1> HIDE DEF s
<1>9. ASSUME o \notin short, memory = OldException!Enough PROVE Telling(c.object, c.txt, s)
  <2>1. Telling(x, text, said[o])
    BY <1>2, <1>9
  <2>2. CASE asWin32 # x.win32
    BY <1>4, <1>5, <1>6, <1>7, <2>2 DEF Telling
  <2>3. CASE asWin32 = x.win32
    BY <1>4, <1>5, <1>9, <2>1, <2>3 DEF Telling
  <2> QED
    BY <2>2, <2>3
<1>10. c.object \in OldException!Exceptions /\ c.object # None
  BY <1>4, OldExceptionAssumption DEF HoldsItsOwn, OldException!Assumptions
<1>11. IsGood(e, c.object, c.txt, s, o \in short \/ memory # OldException!Enough)
  BY <1>4, <1>9, <1>10 DEF IsGood
<1> QED
  BY <1>4, <1>8, <1>10, <1>11 DEF s

LEMMA CopyKeepsText ==
  ASSUME TextInv, NEW e \in OldExceptions, NEW o \in OldExceptions, NEW asWin32 \in BOOLEAN,
         NEW memory \in OldException!Memory, OldException!Copy(e, o, asWin32, memory)
  PROVE  TextInv'
<1> DEFINE c == OldException!Copies(object[o], e, asWin32, text, memory)
           s == OldException!Says(o, asWin32)
           isShort == o \in short \/ memory # OldException!Enough
<1>1. /\ object[e] = None /\ OldException!IsWhole(o) /\ (asWin32 => object[o].win32)
      /\ text' = c.txt /\ OldException!Becomes(e, c.object, s, isShort)
  BY DEF OldException!Copy
<1>2. e \notin sliced /\ o # e /\ text \in TextMaps /\ \A k \in Members : text[<<e, k>>] = None
  BY <1>1 DEF OldException!IsWhole, TextInv, IsGood, OldException!TypeOK, TextMaps
<1>3. c = OldException!Copies(object[o], e, asWin32, text, memory)
  OBVIOUS
<1> HIDE DEF c
<1>4. /\ c.txt \in TextMaps /\ c.object \in OldException!Exceptions /\ c.object # None
      /\ \A f \in OldExceptions \ {e}, k \in Members : c.txt[<<f, k>>] = text[<<f, k>>]
      /\ s \in Sayings
      /\ IsGood(e, c.object, c.txt, s, isShort)
  BY <1>1, <1>2, <1>3, CopiesAreGood
<1> HIDE DEF s, isShort
<1>5. /\ object' = [object EXCEPT ![e] = c.object] /\ said' = [said EXCEPT ![e] = s]
      /\ short' = (IF isShort THEN short \union {e} ELSE short \ {e})
      /\ sliced' = sliced /\ textEnd' = textEnd
  BY <1>1, <1>2 DEF OldException!Becomes
<1>6. isShort \in BOOLEAN
  BY DEF isShort
<1> QED
  BY <1>1, <1>2, <1>4, <1>5, <1>6, ObjectChanges

(* What an exception owns is freed, and nothing else. *)
LEMMA FreedIs ==
  ASSUME TextInv, NEW e \in OldExceptions, OldException!IsWhole(e)
  PROVE  /\ OldException!Freed(e) \in TextMaps
         /\ \A k \in Members : OldException!Freed(e)[<<e, k>>] = None
         /\ \A f \in OldExceptions \ {e}, k \in Members : OldException!Freed(e)[<<f, k>>] = text[<<f, k>>]
<1> DEFINE x == object[e]
<1>1. HoldsItsOwn(e, x, text) /\ text \in TextMaps
  BY DEF OldException!IsWhole, TextInv, IsGood, OldException!TypeOK, TextMaps
<1> HIDE DEF x
<1>2. OldException!Freed(e) = [b \in OldException!Buffers |-> IF b \in OldException!Owned(x) THEN None ELSE text[b]]
  BY DEF OldException!Freed, x
<1>3. \A f \in OldExceptions, k \in Members : <<f, k>> \in OldException!Buffers /\ <<f, k>> # None
  BY BuffersAre
<1>4. \A k \in Members : text[<<e, k>>] # None => <<e, k>> \in OldException!Owned(x)
  BY <1>1, <1>3 DEF HoldsItsOwn, OldException!Owned, Members
<1>5. \A f \in OldExceptions \ {e}, k \in Members : <<f, k>> \notin OldException!Owned(x)
  BY <1>1 DEF HoldsItsOwn, OldException!Owned, Members
<1>6. OldException!Freed(e) \in TextMaps
  BY <1>1, <1>2 DEF TextMaps
<1> QED
  BY <1>2, <1>3, <1>4, <1>5, <1>6

LEMMA AssignKeepsText ==
  ASSUME TextInv, NEW e \in OldExceptions, NEW o \in OldExceptions,
         NEW memory \in OldException!Memory, OldException!Assign(e, o, memory)
  PROVE  TextInv'
<1> DEFINE asWin32 == object[e].win32
           txt == OldException!Freed(e)
           c == OldException!Copies(object[o], e, asWin32, txt, memory)
           s == OldException!Says(o, asWin32)
           isShort == o \in short \/ memory # OldException!Enough
<1>1. /\ e # o /\ OldException!IsWhole(e) /\ OldException!IsWhole(o) /\ (asWin32 => object[o].win32)
      /\ text' = c.txt /\ OldException!Becomes(e, c.object, s, isShort)
  BY DEF OldException!Assign
<1>2. e \notin sliced /\ asWin32 \in BOOLEAN
  BY <1>1 DEF OldException!IsWhole, TextInv, OldException!TypeOK, OldException!Exceptions
<1>3. c = OldException!Copies(object[o], e, asWin32, txt, memory)
  OBVIOUS
<1>4. /\ txt \in TextMaps /\ \A k \in Members : txt[<<o, k>>] = text[<<o, k>>]
           /\ txt[<<e, k>>] = None
      /\ \A f \in OldExceptions \ {e}, k \in Members : txt[<<f, k>>] = text[<<f, k>>]
  BY <1>1, FreedIs
<1> HIDE DEF c, txt, asWin32
<1>5. asWin32 => object[o].win32
  BY <1>1 DEF asWin32
<1>6. /\ c.txt \in TextMaps /\ c.object \in OldException!Exceptions /\ c.object # None
      /\ \A f \in OldExceptions \ {e}, k \in Members : c.txt[<<f, k>>] = txt[<<f, k>>]
      /\ s \in Sayings
      /\ IsGood(e, c.object, c.txt, s, isShort)
  BY <1>1, <1>2, <1>3, <1>4, <1>5, CopiesAreGood
<1> HIDE DEF s, isShort
<1>7. /\ object' = [object EXCEPT ![e] = c.object] /\ said' = [said EXCEPT ![e] = s]
      /\ short' = (IF isShort THEN short \union {e} ELSE short \ {e})
      /\ sliced' = sliced /\ textEnd' = textEnd
  BY <1>1, <1>2 DEF OldException!Becomes
<1>8. isShort \in BOOLEAN
  BY DEF isShort
<1>9. \A f \in OldExceptions \ {e}, k \in Members : text'[<<f, k>>] = text[<<f, k>>]
  BY <1>1, <1>4, <1>6
<1> QED
  BY <1>1, <1>2, <1>6, <1>7, <1>8, <1>9, ObjectChanges

(* An object assigned to as its base keeps pointers to what it freed, and is  *)
(* accounted for no more; the others are as they were.                        *)
LEMMA AssignAsBaseKeepsText ==
  ASSUME TextInv, NEW e \in OldExceptions, NEW o \in OldExceptions,
         NEW memory \in OldException!Memory, OldException!AssignAsBase(e, o, memory)
  PROVE  TextInv'
<1> DEFINE txt == OldException!Freed(e)
           c == OldException!Copies(object[o], e, FALSE, txt, memory)
<1>1. /\ e # o /\ OldException!IsWhole(e) /\ OldException!IsWhole(o) /\ text' = c.txt
      /\ object' = [object EXCEPT ![e].what = c.object.what, ![e].delete = c.object.delete]
      /\ sliced' = sliced \union {e} /\ UNCHANGED <<said, short, textEnd>>
  BY DEF OldException!AssignAsBase
<1>2. c = OldException!Copies(object[o], e, FALSE, txt, memory)
  OBVIOUS
<1>3. /\ txt \in TextMaps /\ \A k \in Members : txt[<<o, k>>] = text[<<o, k>>]
           /\ txt[<<e, k>>] = None
      /\ \A f \in OldExceptions \ {e}, k \in Members : txt[<<f, k>>] = text[<<f, k>>]
  BY <1>1, FreedIs
<1> HIDE DEF c, txt
<1>4. /\ c.txt \in TextMaps /\ c.object \in OldException!Exceptions
      /\ \A f \in OldExceptions \ {e}, k \in Members : c.txt[<<f, k>>] = txt[<<f, k>>]
  <2> DEFINE asWin32 == FALSE
  <2>1. asWin32 \in BOOLEAN /\ (asWin32 => object[o].win32)
    OBVIOUS
  <2>2. c = OldException!Copies(object[o], e, asWin32, txt, memory)
    BY <1>2
  <2> HIDE DEF asWin32
  <2> QED
    BY <1>1, <1>3, <2>1, <2>2, CopiesAreGood
<1>5. object[e] \in OldException!Exceptions
        /\ object \in [OldExceptions -> OldException!Exceptions \union {None}]
  BY <1>1 DEF OldException!IsWhole, TextInv, OldException!TypeOK
<1>6. [object[e] EXCEPT !.what = c.object.what, !.delete = c.object.delete] \in OldException!Exceptions
  BY <1>4, <1>5 DEF OldException!Exceptions
<1>7. object' = [object EXCEPT ![e] = [object[e] EXCEPT !.what = c.object.what, !.delete = c.object.delete]]
  BY <1>1, <1>5
<1> DEFINE x == [object[e] EXCEPT !.what = c.object.what, !.delete = c.object.delete]
<1> HIDE DEF x
<1>8. x \in OldException!Exceptions /\ object' = [object EXCEPT ![e] = x]
  BY <1>6, <1>7 DEF x
<1>9. OldException!TypeOK' /\ said' \in [OldExceptions -> Sayings]
  BY <1>1, <1>4, <1>5, <1>8 DEF TextInv, OldException!TypeOK, TextMaps
<1>10. x # None
  BY <1>8, OldExceptionAssumption DEF OldException!Assumptions
<1>11. ASSUME NEW f \in sliced' PROVE object'[f] # None
  <2>1. f \in OldExceptions /\ (f = e \/ f \in sliced)
    BY <1>1 DEF TextInv, OldException!TypeOK
  <2>2. f # e => object'[f] = object[f] /\ object[f] # None
    BY <1>5, <1>8, <2>1 DEF TextInv
  <2>3. f = e => object'[f] = x
    BY <1>5, <1>8
  <2> QED
    BY <1>10, <2>2, <2>3
<1>12. ASSUME NEW f \in OldExceptions \ sliced'
       PROVE  IsGood(f, object'[f], text', said'[f], f \in short')
  <2>1. f # e /\ f \in OldExceptions \ sliced
    BY <1>1
  <2>2. object'[f] = object[f] /\ said'[f] = said[f] /\ (f \in short') = (f \in short)
    BY <1>1, <1>5, <1>8, <2>1
  <2>3. IsGood(f, object[f], text, said[f], f \in short)
    BY <2>1 DEF TextInv
  <2>4. \A k \in Members : text'[<<f, k>>] = text[<<f, k>>]
    BY <1>1, <1>3, <1>4, <2>1
  <2>5. IsGood(f, object[f], text', said[f], f \in short)
    BY <2>1, <2>3, <2>4, GoodStays
  <2> QED
    BY <2>2, <2>5
<1>13. textEnd' = "freed twice" => sliced' # {}
  BY <1>1
<1> QED
  BY <1>9, <1>11, <1>12, <1>13 DEF TextInv

LEMMA DestroyKeepsText ==
  ASSUME TextInv, NEW e \in OldExceptions, OldException!Destroy(e) PROVE TextInv'
<1>1. CASE e \in sliced
  <2>1. OldException!Ends("freed twice") /\ sliced # {}
    BY <1>1 DEF OldException!Destroy
  <2> QED
    BY <2>1, EndsKeepsInv
<1>2. CASE e \notin sliced
  <2>1. /\ OldException!IsWhole(e) /\ text' = OldException!Freed(e)
        /\ object' = [object EXCEPT ![e] = None] /\ said' = [said EXCEPT ![e] = None]
        /\ short' = short \ {e} /\ sliced' = sliced /\ textEnd' = textEnd
    BY <1>2 DEF OldException!Destroy, OldException!IsWhole
  <2>2. /\ text' \in TextMaps /\ \A k \in Members : text'[<<e, k>>] = None
        /\ \A f \in OldExceptions \ {e}, k \in Members : text'[<<f, k>>] = text[<<f, k>>]
    BY <2>1, FreedIs
  <2>3. IsGood(e, None, text', None, FALSE)
    BY <2>2 DEF IsGood
  <2>4. None \in Sayings
    BY DEF Sayings
  <2> QED
    BY <1>2, <2>1, <2>2, <2>3, <2>4, ObjectChanges
<1> QED
  BY <1>1, <1>2

LEMMA TextNextKeepsInv == ASSUME TextInv, OldException!Next PROVE TextInv'
<1>1. CASE OldException!SystemMessage
  <2>1. CASE OldException!Ends("null text")
    BY <2>1, EndsKeepsInv
  <2>2. CASE UNCHANGED OldException!vars
    BY <2>2 DEF OldException!vars, TextInv, OldException!TypeOK, OldException!Buffers
  <2> QED
    BY <1>1, <2>1, <2>2 DEF OldException!SystemMessage
<1>2. ASSUME NEW e \in OldExceptions, NEW literal \in {None, <<None, "literal">>},
             OldException!Construct(e, literal)
      PROVE  TextInv'
  BY <1>2, ConstructKeepsInv
<1>3. ASSUME NEW e \in OldExceptions, NEW memory \in BOOLEAN, OldException!FromText(e, memory)
      PROVE  TextInv'
  BY <1>3, FromTextKeepsInv
<1>4. ASSUME NEW e \in OldExceptions, OldException!FromWin32(e) PROVE TextInv'
  BY <1>4, FromWin32KeepsInv
<1>5. ASSUME NEW e \in OldExceptions, OldException!Destroy(e) PROVE TextInv'
  BY <1>5, DestroyKeepsText
<1>6. ASSUME NEW e \in OldExceptions, NEW o \in OldExceptions, NEW memory \in OldException!Memory,
             NEW asWin32 \in BOOLEAN, OldException!Copy(e, o, asWin32, memory)
      PROVE  TextInv'
  BY <1>6, CopyKeepsText
<1>7. ASSUME NEW e \in OldExceptions, NEW o \in OldExceptions, NEW memory \in OldException!Memory,
             OldException!Assign(e, o, memory)
      PROVE  TextInv'
  BY <1>7, AssignKeepsText
<1>8. ASSUME NEW e \in OldExceptions, NEW o \in OldExceptions, NEW memory \in OldException!Memory,
             OldException!AssignAsBase(e, o, memory)
      PROVE  TextInv'
  BY <1>8, AssignAsBaseKeepsText
<1> QED
  BY <1>1, <1>2, <1>3, <1>4, <1>5, <1>6, <1>7, <1>8 DEF OldException!Next

(* What a whole exception owns are its own texts, all of them allocated.      *)
LEMMA OwnedAre ==
  ASSUME TextInv, NEW e \in OldExceptions, OldException!IsWhole(e)
  PROVE  OldException!Owned(object[e]) = { b \in { <<e, k>> : k \in Members } : text[b] # None }
<1> DEFINE x == object[e]
<1>1. HoldsItsOwn(e, x, text)
  BY DEF OldException!IsWhole, TextInv, IsGood
<1> HIDE DEF x
<1>2. \A k \in Members : <<e, k>> # None
  BY BuffersAre
<1>3. OldException!Owned(x) \subseteq { b \in { <<e, k>> : k \in Members } : text[b] # None }
  BY <1>1, <1>2 DEF HoldsItsOwn, OldException!Owned, Members
<1>4. ASSUME NEW k \in Members, text[<<e, k>>] # None PROVE <<e, k>> \in OldException!Owned(x)
  BY <1>1, <1>2, <1>4 DEF HoldsItsOwn, OldException!Owned, Members
<1> QED
  BY <1>3, <1>4 DEF x

LEMMA TextsAreOwnedOnce == ASSUME TextInv PROVE OldException!OwnedOnce
<1>1. ASSUME NEW e \in OldException!Whole
      PROVE  /\ e \in OldExceptions
             /\ OldException!Owned(object[e]) = { b \in { <<e, k>> : k \in Members } : text[b] # None }
  BY OwnedAre DEF OldException!Whole
<1>2. ASSUME NEW e \in OldException!Whole, NEW f \in OldException!Whole, e # f
      PROVE  OldException!Owned(object[e]) \cap OldException!Owned(object[f]) = {}
  BY <1>1, <1>2
<1>3. \A e \in OldException!Whole : OldException!Owned(object[e]) \subseteq OldException!Allocated
  BY <1>1, BuffersAre DEF OldException!Allocated
<1>4. ASSUME sliced = {}, NEW b \in OldException!Allocated
      PROVE  \E e \in OldException!Whole : b \in OldException!Owned(object[e])
  <2>1. PICK e \in OldExceptions, k \in Members : b = <<e, k>> /\ text[b] # None
    BY DEF OldException!Allocated, OldException!Buffers, Members
  <2>2. object[e] # None
    BY <1>4, <2>1 DEF TextInv, IsGood
  <2>3. e \in OldException!Whole
    BY <1>4, <2>2 DEF OldException!Whole, OldException!IsWhole
  <2> QED
    BY <1>1, <2>1, <2>3
<1> QED
  BY <1>2, <1>3, <1>4 DEF OldException!OwnedOnce

LEMMA TextsSayWhatTheyDid == ASSUME TextInv PROVE OldException!SaysWhatItWas
<1> SUFFICES ASSUME NEW e \in OldExceptions, OldException!IsWhole(e)
             PROVE  /\ OldException!What(e) # None
                    /\ e \notin short =>
                         OldException!What(e) = IF said[e] = None THEN "Unknown SEv exception" ELSE said[e]
  BY DEF OldException!SaysWhatItWas, OldException!Whole
<1> DEFINE x == object[e]
           Of(t) == IF t \in OldException!Buffers THEN text[t] ELSE t[2]
           w == OldException!What(e)
<1>1. HoldsItsOwn(e, x, text) /\ (e \notin short =>
        Telling(x, text, said[e])) /\ said[e] \in Sayings
  BY DEF OldException!IsWhole, TextInv, IsGood
<1>2. w = CASE x.message # None -> Of(x.message)
            [] x.message = None /\ x.system # None -> Of(x.system)
            [] OTHER -> IF x.what = None THEN "Unknown SEv exception" ELSE Of(x.what)
  BY DEF OldException!What
<1>3. /\ \A l \in OldException!Literals : l \notin OldException!Buffers /\ l # None /\ l[2] # None
      /\ "Unknown SEv exception" # None
  <2>1. None \notin OldExceptions /\ None \notin OldException!Literals
        /\ "literal" # None /\ "Unknown Win32 exception" # None /\ "Unknown SEv exception" # None
    BY OldExceptionAssumption DEF OldException!Assumptions
  <2>2. ASSUME NEW l \in OldException!Literals
        PROVE  l[1] = None /\ l[2] \in {"literal", "Unknown Win32 exception"}
    <3>1. CASE l = <<None, "literal">>
      BY <3>1
    <3>2. CASE l = <<None, "Unknown Win32 exception">>
      BY <3>2
    <3> QED
      BY <3>1, <3>2 DEF OldException!Literals
  <2>3. \A b \in OldException!Buffers : b[1] \in OldExceptions
    BY DEF OldException!Buffers
  <2> QED
    BY <2>1, <2>2, <2>3
<1>4. \A k \in Members : <<e, k>> \in OldException!Buffers /\ <<e, k>> # None
  BY BuffersAre
<1> HIDE DEF x, w, OldException!Buffers, OldException!Literals
<1>5. /\ x.message # None => Of(x.message) = text[x.message] /\ text[x.message] # None
      /\ x.system # None => Of(x.system) = text[x.system] /\ text[x.system] # None
      /\ x.delete /\ x.what # None => Of(x.what) = text[x.what] /\ text[x.what] # None
      /\ ~x.delete /\ x.what # None => Of(x.what) = x.what[2] /\ x.what[2] # None
  BY <1>1, <1>3, <1>4 DEF HoldsItsOwn, Members
<1> HIDE DEF Of
<1>6. x.delete \in BOOLEAN /\ x.win32 \in BOOLEAN
  BY <1>1 DEF HoldsItsOwn, OldException!Exceptions
<1>7. w # None
  BY <1>2, <1>3, <1>5, <1>6
<1>8. ASSUME e \notin short PROVE w = IF said[e] = None THEN "Unknown SEv exception" ELSE said[e]
  <2>1. Telling(x, text, said[e])
    BY <1>1, <1>8
  <2>2. CASE x.win32
    BY <1>2, <1>5, <2>1, <2>2 DEF Telling
  <2>3. CASE ~x.win32
    <3>1. x.system = None /\ x.message = None
      BY <1>1, <2>3 DEF HoldsItsOwn
    <3> QED
      BY <1>2, <1>5, <1>6, <2>1, <2>3, <3>1 DEF Telling
  <2> QED
    BY <2>2, <2>3
<1> QED
  BY <1>7, <1>8 DEF w

LEMMA TextInvIsEnough == ASSUME TextInv PROVE OldException!TextsAreOwned
BY TextsAreOwnedOnce, TextsSayWhatTheyDid DEF TextInv, OldException!TextsAreOwned

LEMMA TextsAreThemselves == PartsSpec => OldException!Spec
<1>1. PartsInit => OldException!Init
  BY DEF PartsInit
<1>2. [PartsNext]_partsVars => [OldException!Next]_(OldException!vars)
  BY DEF PartsNext, FlagNext, RingNext, SingletonNext, MapNext, HandleNext, FunctorNext, TextNext,
     ChecksumNext, LoopNext, CallsNext, partsVars, textVars, OldException!vars
<1> QED
  BY <1>1, <1>2, PTL DEF PartsSpec, OldException!Spec

(* Whatever is constructed, copied, assigned and destroyed, whole or as a     *)
(* base, and whenever memory runs out: every text of an exception of the      *)
(* first library is freed by exactly one object, and what() says what the     *)
(* exception was given to say or the next best text, never a freed one.       *)
THEOREM TextsStayOwned == PartsSpec => []TextsAreOwned
<1>1. OldException!Init => TextInv
  BY TextInitInv
<1>2. TextInv /\ [OldException!Next]_(OldException!vars) => TextInv'
  <2>1. CASE UNCHANGED OldException!vars
    BY <2>1 DEF OldException!vars, TextInv, OldException!TypeOK, OldException!Buffers
  <2> QED
    BY <2>1, TextNextKeepsInv
<1>3. TextInv => TextsAreOwned
  BY TextInvIsEnough DEF TextsAreOwned
<1> QED
  BY <1>1, <1>2, <1>3, TextsAreThemselves, PTL DEF OldException!Spec
------------------------------------------------------------------------------
(* The callables of functors and views. *)
Pushed == [vt : Vars \union {Empty}, data : Functor!Callables \union {None}]

Shows(v) == view[v] # None /\ view[v].vt # Empty

(* A variable holds its own type. *)
VarsMatch == \A x \in Vars : data[x] # None => data[x].fn = x

(* A callable that can be moved from through a view is seen through no other. *)
MovableIsAlone == \A v, w \in Views :
  v # w /\ Shows(v) /\ Shows(w) /\ view[v].movable => view[v].ptr # view[w].ptr

FunctorInv ==
  /\ Functor!TypeOK /\ queue \in Seq(Pushed)
  /\ VarsMatch /\ Functor!StorageMatches
  /\ Functor!ViewsAreValid /\ MovableIsAlone
  /\ Functor!QueuedIsFull /\ Functor!ResultIsWritten /\ functorEnd # "wild"

LEMMA FunctorConstants ==
  /\ \A x \in Vars : x # None /\ x # Empty /\ x \notin Functors /\ x \in Functor!Places
  /\ \A f \in Functors : f # None /\ f # Empty /\ f \notin Vars /\ f \in Functor!Places
  /\ None # Empty /\ None \notin Functor!Callables /\ None \notin Functor!SeenThrough
BY FunctorAssumption DEF Functor!Assumptions, Functor!Places

LEMMA NothingPushed == <<>> \in Seq(Pushed) /\ DOMAIN <<>> = {}
<1>1. <<>> \in Seq(Pushed) /\ Len(<<>>) = 0
  BY EmptySeq
<1>2. DOMAIN <<>> = 1 .. Len(<<>>)
  BY <1>1, LenProperties
<1> QED
  BY <1>1, <1>2

LEMMA FunctorInitInv == ASSUME Functor!Init PROVE FunctorInv
<1>1. /\ data = [p \in Functor!Places |-> None] /\ vt = [f \in Functors |-> None]
      /\ view = [v \in Views |-> None] /\ queue = <<>> /\ popped = None /\ functorEnd = ""
  BY DEF Functor!Init
<1>2. queue \in Seq(Pushed) /\ DOMAIN queue = {}
  BY <1>1, NothingPushed
<1>3. Functor!TypeOK
  BY <1>1, <1>2 DEF Functor!TypeOK
<1>4. VarsMatch /\ Functor!StorageMatches
  BY <1>1, FunctorConstants DEF VarsMatch, Functor!StorageMatches
<1>5. Functor!ViewsAreValid /\ MovableIsAlone
  BY <1>1 DEF Functor!ViewsAreValid, MovableIsAlone, Shows
<1>6. Functor!QueuedIsFull /\ Functor!ResultIsWritten
  BY <1>1, <1>2 DEF Functor!QueuedIsFull, Functor!ResultIsWritten
<1> QED
  BY <1>1, <1>2, <1>3, <1>4, <1>5, <1>6 DEF FunctorInv

(* The views that still show something show what they did, which is there.    *)
LEMMA ViewsStay ==
  ASSUME FunctorInv,
         \A v \in Views : Shows(v)' =>
           Shows(v) /\ view'[v] = view[v] /\ data'[view[v].ptr] = data[view[v].ptr]
  PROVE  Functor!ViewsAreValid' /\ MovableIsAlone'
<1>1. ASSUME NEW v \in Views, view'[v] # None, view'[v].vt # Empty
      PROVE  data'[view'[v].ptr] = [fn |-> view'[v].vt, state |-> "full"]
  <2>1. Shows(v)'
    BY <1>1 DEF Shows
  <2>2. Shows(v) /\ view'[v] = view[v] /\ data'[view[v].ptr] = data[view[v].ptr]
    BY <2>1
  <2>3. data[view[v].ptr] = [fn |-> view[v].vt, state |-> "full"]
    BY <2>2 DEF FunctorInv, Functor!ViewsAreValid, Shows
  <2> QED
    BY <2>2, <2>3
<1>2. Functor!ViewsAreValid'
  BY <1>1 DEF Functor!ViewsAreValid
<1>3. MovableIsAlone'
  BY DEF FunctorInv, MovableIsAlone
<1> QED
  BY <1>2, <1>3

(* Where there is a callable it has a type and a state. *)
LEMMA CallableAt ==
  ASSUME FunctorInv, NEW p \in Functor!Places, data[p] # None
  PROVE  /\ data[p] \in Functor!Callables /\ data[p] = [fn |-> data[p].fn, state |-> data[p].state]
         /\ Functor!Moved(data[p]) \in Functor!Callables
         /\ Functor!Moved(data[p]).fn = data[p].fn
<1>1. data[p] \in Functor!Callables
  BY DEF FunctorInv, Functor!TypeOK
<1>2. Functor!Moved(data[p]) = [data[p] EXCEPT !.state = "moved"]
  BY DEF Functor!Moved
<1> QED
  BY <1>1, <1>2 DEF Functor!Callables

(* What is done where no view looks changes no view. *)
LEMMA PlacesChange ==
  ASSUME FunctorInv,
         data' \in [Functor!Places -> Functor!Callables \union {None}],
         vt' \in [Functors -> Vars \union {Empty, None}],
         \A p \in Functor!Places : Functor!Viewed(p) => data'[p] = data[p],
         view' = view, queue' = queue, popped' = None, functorEnd' = functorEnd,
         VarsMatch', Functor!StorageMatches'
  PROVE  FunctorInv'
<1>1. Functor!TypeOK' /\ queue' \in Seq(Pushed)
  BY DEF FunctorInv, Functor!TypeOK
<1>2. Functor!QueuedIsFull' /\ Functor!ResultIsWritten' /\ functorEnd' # "wild"
  BY DEF FunctorInv, Functor!QueuedIsFull, Functor!ResultIsWritten
<1>3. ASSUME NEW v \in Views, Shows(v)'
      PROVE  Shows(v) /\ view'[v] = view[v] /\ data'[view[v].ptr] = data[view[v].ptr]
  <2>1. Shows(v) /\ view'[v] = view[v]
    BY <1>3 DEF Shows
  <2>2. Functor!Viewed(view[v].ptr)
    BY <2>1 DEF Shows, Functor!Viewed
  <2>3. view[v].ptr \in Functor!Places
    BY <2>1 DEF FunctorInv, Functor!TypeOK, Functor!SeenThrough, Shows
  <2> QED
    BY <2>1, <2>2, <2>3
<1>4. Functor!ViewsAreValid' /\ MovableIsAlone'
  BY <1>3, ViewsStay
<1> QED
  BY <1>1, <1>2, <1>4 DEF FunctorInv

(* Once the program has ended there is nothing left. *)
LEMMA EndsKeepsFunctors ==
  ASSUME FunctorInv, NEW how \in {"large", "raw", "terminated"}, Functor!Ends(how)
  PROVE  FunctorInv'
<1>1. /\ data' = [p \in Functor!Places |-> None] /\ vt' = [f \in Functors |-> None]
      /\ view' = [v \in Views |-> None] /\ queue' = <<>> /\ popped' = None /\ functorEnd' = how
  BY DEF Functor!Ends
<1>2. queue' \in Seq(Pushed) /\ DOMAIN queue' = {}
  BY <1>1, NothingPushed
<1>3. Functor!TypeOK'
  BY <1>1, <1>2 DEF Functor!TypeOK
<1>4. VarsMatch' /\ Functor!StorageMatches'
  BY <1>1, FunctorConstants DEF VarsMatch, Functor!StorageMatches
<1>5. Functor!ViewsAreValid' /\ MovableIsAlone'
  BY <1>1 DEF Functor!ViewsAreValid, MovableIsAlone, Shows
<1>6. Functor!QueuedIsFull' /\ Functor!ResultIsWritten'
  BY <1>1, <1>2 DEF Functor!QueuedIsFull, Functor!ResultIsWritten
<1> QED
  BY <1>1, <1>2, <1>3, <1>4, <1>5, <1>6 DEF FunctorInv
------------------------------------------------------------------------------
(* A type or a state: what a place holds after a step that frames the others. *)
Typed == data \in [Functor!Places -> Functor!Callables \union {None}]
         /\ vt \in [Functors -> Vars \union {Empty, None}]

(* One variable of the caller changes: no storage does. *)
LEMMA VariableChanges ==
  ASSUME FunctorInv, NEW x \in Vars, ~Functor!Viewed(x),
         NEW d \in Functor!Callables \union {None}, d # None => d.fn = x,
         data' = [data EXCEPT ![x] = d], Functor!Keeps(<<vt, view>>)
  PROVE  FunctorInv'
<1>1. Typed /\ data' \in [Functor!Places -> Functor!Callables \union {None}] /\ x \in Functor!Places
  BY FunctorConstants DEF FunctorInv, Functor!TypeOK, Typed
<1>2. /\ view' = view /\ vt' = vt /\ queue' = queue /\ popped' = None /\ functorEnd' = functorEnd
  BY DEF Functor!Keeps
<1>3. data'[x] = d /\ \A p \in Functor!Places \ {x} : data'[p] = data[p]
  BY <1>1 DEF Typed
<1>4. \A p \in Functor!Places : Functor!Viewed(p) => data'[p] = data[p]
  BY <1>3
<1>5. VarsMatch'
  BY <1>3, FunctorConstants DEF FunctorInv, VarsMatch
<1>6. Functor!StorageMatches'
  BY <1>2, <1>3, FunctorConstants DEF FunctorInv, Functor!StorageMatches
<1> QED
  BY <1>1, <1>2, <1>4, <1>5, <1>6, PlacesChange DEF Typed

(* What no view shows: a variable or functor where there is nothing.          *)
LEMMA NothingIsViewed ==
  ASSUME FunctorInv, NEW p \in Functor!Places, data[p] = None
  PROVE  ~Functor!Viewed(p)
<1> SUFFICES ASSUME NEW v \in Views, Shows(v), view[v].ptr = p PROVE FALSE
  BY DEF Functor!Viewed, Shows
<1>1. data[p] = [fn |-> view[v].vt, state |-> "full"]
  BY DEF FunctorInv, Functor!ViewsAreValid, Shows
<1>2. view[v].vt \in Vars
  BY DEF FunctorInv, Functor!TypeOK, Functor!SeenThrough, Shows
<1>3. [fn |-> view[v].vt, state |-> "full"] \in Functor!Callables
  BY <1>2 DEF Functor!Callables
<1> QED
  BY <1>1, <1>3, FunctorConstants

LEMMA DeclareKeepsInv == ASSUME FunctorInv, NEW x \in Vars, Functor!Declare(x) PROVE FunctorInv'
<1> DEFINE d == [fn |-> x, state |-> "full"]
<1>1. data[x] = None /\ data' = [data EXCEPT ![x] = d] /\ Functor!Keeps(<<vt, view>>)
  BY DEF Functor!Declare
<1>2. d \in Functor!Callables \union {None} /\ d.fn = x
  BY DEF Functor!Callables
<1>3. ~Functor!Viewed(x)
  BY <1>1, NothingIsViewed, FunctorConstants
<1> HIDE DEF d
<1> QED
  BY <1>1, <1>2, <1>3, VariableChanges

LEMMA LeaveKeepsInv == ASSUME FunctorInv, NEW x \in Vars, Functor!Leave(x) PROVE FunctorInv'
<1> DEFINE d == None
<1>1. ~Functor!Viewed(x) /\ data' = [data EXCEPT ![x] = d] /\ Functor!Keeps(<<vt, view>>)
  BY DEF Functor!Leave
<1>2. d \in Functor!Callables \union {None} /\ (d # None => d.fn = x)
  OBVIOUS
<1> HIDE DEF d
<1> QED
  BY <1>1, <1>2, VariableChanges

(* One functor is made of what it has in its table and its storage.           *)
LEMMA FunctorChanges ==
  ASSUME FunctorInv, NEW f \in Functors, ~Functor!Viewed(f),
         NEW t \in Vars \union {Empty, None}, NEW d \in Functor!Callables \union {None},
         IF t \in {Empty, None} THEN d = None ELSE d # None /\ d.fn = t,
         vt' = [vt EXCEPT ![f] = t], data' = [data EXCEPT ![f] = d], Functor!Keeps(view)
  PROVE  FunctorInv'
<1>1. Typed /\ data' \in [Functor!Places -> Functor!Callables \union {None}] /\ f \in Functor!Places
      /\ vt' \in [Functors -> Vars \union {Empty, None}]
  BY FunctorConstants DEF FunctorInv, Functor!TypeOK, Typed
<1>2. view' = view /\ queue' = queue /\ popped' = None /\ functorEnd' = functorEnd
  BY DEF Functor!Keeps
<1>3. /\ data'[f] = d /\ \A p \in Functor!Places \ {f} : data'[p] = data[p]
      /\ vt'[f] = t /\ \A g \in Functors \ {f} : vt'[g] = vt[g]
  BY <1>1 DEF Typed
<1>4. \A p \in Functor!Places : Functor!Viewed(p) => data'[p] = data[p]
  BY <1>3
<1>5. VarsMatch'
  BY <1>3, FunctorConstants DEF FunctorInv, VarsMatch
<1>6. Functor!StorageMatches'
  BY <1>3, FunctorConstants DEF FunctorInv, Functor!StorageMatches
<1> QED
  BY <1>1, <1>2, <1>4, <1>5, <1>6, PlacesChange

LEMMA MakeEmptyKeepsInv ==
  ASSUME FunctorInv, NEW f \in Functors, Functor!MakeEmpty(f)
  PROVE  FunctorInv'
<1> DEFINE t == Empty
           d == None
<1>1. vt[f] = None /\ vt' = [vt EXCEPT ![f] = t] /\ data' = data /\ Functor!Keeps(view)
  BY DEF Functor!MakeEmpty, Functor!Keeps
<1>2. data[f] = None /\ f \in Functor!Places
  BY <1>1, FunctorConstants DEF FunctorInv, Functor!StorageMatches
<1>3. data' = [data EXCEPT ![f] = d] /\ ~Functor!Viewed(f)
  BY <1>1, <1>2, NothingIsViewed DEF FunctorInv, Functor!TypeOK
<1>4. /\ t \in Vars \union {Empty, None} /\ d \in Functor!Callables \union {None}
      /\ IF t \in {Empty, None} THEN d = None ELSE d # None /\ d.fn = t
  OBVIOUS
<1> HIDE DEF t, d
<1> QED
  BY <1>1, <1>3, <1>4, FunctorChanges

LEMMA DestroyKeepsInv == ASSUME FunctorInv, NEW f \in Functors, Functor!Destroy(f) PROVE FunctorInv'
<1> DEFINE t == None
           d == None
<1>1. vt[f] # None /\ ~Functor!Viewed(f)
  BY DEF Functor!Destroy
<1>2. ~(vt[f] # Empty /\ data[f] = None)
  BY <1>1 DEF FunctorInv, Functor!StorageMatches
<1>3. vt' = [vt EXCEPT ![f] = t] /\ data' = [data EXCEPT ![f] = d] /\ Functor!Keeps(view)
  BY <1>2 DEF Functor!Destroy
<1>4. /\ t \in Vars \union {Empty, None} /\ d \in Functor!Callables \union {None}
      /\ IF t \in {Empty, None} THEN d = None ELSE d # None /\ d.fn = t
  OBVIOUS
<1> HIDE DEF t, d
<1> QED
  BY <1>1, <1>3, <1>4, FunctorChanges

(* A functor that can be copied has what its table says. *)
LEMMA LiveHas ==
  ASSUME FunctorInv, NEW g \in Functors, Functor!Live(g)
  PROVE  /\ vt[g] \in Vars \union {Empty} /\ data[g] \in Functor!Callables \union {None}
         /\ IF vt[g] \in {Empty, None} THEN data[g] = None
            ELSE data[g] # None /\ data[g].fn = vt[g] /\ data[g].state = "full"
<1>1. /\ vt[g] \in Vars \union {Empty, None} /\ data[g] \in Functor!Callables \union {None}
      /\ IF vt[g] \in {Empty, None} THEN data[g] = None ELSE data[g] # None /\ data[g].fn = vt[g]
  BY FunctorConstants DEF FunctorInv, Functor!TypeOK, Functor!StorageMatches
<1> QED
  BY <1>1 DEF Functor!Live, Functor!Full

LEMMA FunctorCopyKeepsInv ==
  ASSUME FunctorInv, NEW f \in Functors, NEW g \in Functors, Functor!Copy(f, g)
  PROVE  FunctorInv'
<1> DEFINE t == vt[g]
           d == data[g]
<1>1. /\ vt[f] = None /\ Functor!Live(g) /\ Functor!Keeps(view)
      /\ vt' = [vt EXCEPT ![f] = t] /\ data' = [data EXCEPT ![f] = d]
  BY DEF Functor!Copy, Functor!Copied
<1>2. /\ t \in Vars \union {Empty, None} /\ d \in Functor!Callables \union {None}
      /\ IF t \in {Empty, None} THEN d = None ELSE d # None /\ d.fn = t
  BY <1>1, LiveHas
<1>3. data[f] = None /\ f \in Functor!Places
  BY <1>1, FunctorConstants DEF FunctorInv, Functor!StorageMatches
<1>4. ~Functor!Viewed(f)
  BY <1>3, NothingIsViewed
<1> HIDE DEF t, d
<1> QED
  BY <1>1, <1>2, <1>4, FunctorChanges

(* Moved from one functor to another, which had nothing of use. *)
LEMMA MovedFromKeepsInv ==
  ASSUME FunctorInv, NEW f \in Functors, NEW g \in Functors, f # g, Functor!Live(g),
         ~Functor!Viewed(f), ~Functor!Viewed(g), Functor!MovedFrom(f, g), Functor!Keeps(view)
  PROVE  FunctorInv'
<1> DEFINE t == vt[g]
           d == data[g]
<1>1. /\ t \in Vars \union {Empty} /\ d \in Functor!Callables \union {None}
      /\ IF t \in {Empty, None} THEN d = None ELSE d # None /\ d.fn = t
  BY LiveHas
<1> HIDE DEF t, d
<1>2. vt' = [vt EXCEPT ![f] = t, ![g] = Empty] /\ data' = [data EXCEPT ![f] = d, ![g] = None]
  BY DEF Functor!MovedFrom, t, d
<1>3. Typed /\ f \in Functor!Places /\ g \in Functor!Places
  BY FunctorConstants DEF FunctorInv, Functor!TypeOK, Typed
<1>4. /\ data' \in [Functor!Places -> Functor!Callables \union {None}]
      /\ vt' \in [Functors -> Vars \union {Empty, None}]
      /\ data'[f] = d /\ data'[g] = None /\ \A p \in Functor!Places \ {f, g} : data'[p] = data[p]
      /\ vt'[f] = t /\ vt'[g] = Empty /\ \A h \in Functors \ {f, g} : vt'[h] = vt[h]
  BY <1>1, <1>2, <1>3 DEF Typed
<1>5. view' = view /\ queue' = queue /\ popped' = None /\ functorEnd' = functorEnd
  BY DEF Functor!Keeps
<1>6. \A p \in Functor!Places : Functor!Viewed(p) => data'[p] = data[p]
  BY <1>4
<1>7. VarsMatch'
  BY <1>4, FunctorConstants DEF FunctorInv, VarsMatch
<1>8. Functor!StorageMatches'
  BY <1>1, <1>4, FunctorConstants DEF FunctorInv, Functor!StorageMatches
<1> QED
  BY <1>4, <1>5, <1>6, <1>7, <1>8, PlacesChange

LEMMA FunctorMoveKeepsInv ==
  ASSUME FunctorInv, NEW f \in Functors, NEW g \in Functors,
         Functor!Move(f, g) \/ Functor!Assign(f, g)
  PROVE  FunctorInv'
<1>1. CASE Functor!Move(f, g)
  <2>1. vt[f] = None /\ Functor!Live(g) /\ ~Functor!Viewed(g) /\ Functor!MovedFrom(f, g)
          /\ Functor!Keeps(view)
    BY <1>1 DEF Functor!Move
  <2>2. f # g /\ data[f] = None /\ f \in Functor!Places
    BY <2>1, FunctorConstants DEF FunctorInv, Functor!StorageMatches, Functor!Live
  <2>3. ~Functor!Viewed(f)
    BY <2>2, NothingIsViewed
  <2> QED
    BY <2>1, <2>2, <2>3, MovedFromKeepsInv
<1>2. CASE Functor!Assign(f, g)
  BY <1>2, MovedFromKeepsInv DEF Functor!Assign
<1> QED
  BY <1>1, <1>2

LEMMA FromCallableKeepsInv ==
  ASSUME FunctorInv, NEW f \in Functors, NEW x \in Vars, Functor!FromCallable(f, x)
  PROVE  FunctorInv'
<1>1. CASE x \in Large
  BY <1>1, EndsKeepsFunctors DEF Functor!FromCallable
<1>2. CASE x \notin Large
  <2> DEFINE d == data[x]
             m == Functor!Moved(d)
  <2>1. /\ vt[f] = None /\ d # None /\ ~Functor!Viewed(x) /\ Functor!Keeps(view)
        /\ vt' = [vt EXCEPT ![f] = x]
    BY <1>2 DEF Functor!FromCallable, Functor!Full
  <2>2. f # x /\ f \in Functor!Places /\ x \in Functor!Places /\ data[f] = None /\ Typed
    BY <2>1, FunctorConstants DEF FunctorInv, Functor!StorageMatches, Functor!TypeOK, Typed
  <2>3. ~Functor!Viewed(f)
    BY <2>2, NothingIsViewed
  <2>4. d \in Functor!Callables /\ d.fn = x /\ m \in Functor!Callables /\ m.fn = x
    BY <2>1, <2>2, CallableAt DEF FunctorInv, VarsMatch
  <2>5. data' = [data EXCEPT ![f] = data[x], ![x] = Functor!Moved(@)]
    BY <1>2 DEF Functor!FromCallable
  <2>6. data' = [data EXCEPT ![f] = d, ![x] = m]
    BY <2>2, <2>5 DEF Typed
  <2> HIDE DEF m, d
  <2>7. /\ data' \in [Functor!Places -> Functor!Callables \union {None}]
        /\ vt' \in [Functors -> Vars \union {Empty, None}]
        /\ data'[f] = d /\ data'[x] = m /\ \A p \in Functor!Places \ {f, x} : data'[p] = data[p]
        /\ vt'[f] = x /\ \A h \in Functors \ {f} : vt'[h] = vt[h]
    BY <2>1, <2>2, <2>4, <2>6 DEF Typed
  <2>8. view' = view /\ queue' = queue /\ popped' = None /\ functorEnd' = functorEnd
    BY <2>1 DEF Functor!Keeps
  <2>9. \A p \in Functor!Places : Functor!Viewed(p) => data'[p] = data[p]
    BY <2>1, <2>3, <2>7
  <2>10. VarsMatch'
    BY <2>4, <2>7, FunctorConstants DEF FunctorInv, VarsMatch
  <2>11. Functor!StorageMatches'
    BY <2>4, <2>7, FunctorConstants DEF FunctorInv, Functor!StorageMatches
  <2> QED
    BY <2>7, <2>8, <2>9, <2>10, <2>11, PlacesChange
<1> QED
  BY <1>1, <1>2
------------------------------------------------------------------------------
(* The views change, and what they show does not. *)
LEMMA ViewsChange ==
  ASSUME FunctorInv, Functor!Keeps(<<data, vt>>),
         view' \in [Views -> Functor!SeenThrough \union {None}],
         Functor!ViewsAreValid', MovableIsAlone'
  PROVE  FunctorInv'
<1>1. data' = data /\ vt' = vt /\ queue' = queue /\ popped' = None /\ functorEnd' = functorEnd
  BY DEF Functor!Keeps
<1>2. Functor!TypeOK' /\ queue' \in Seq(Pushed)
  BY <1>1 DEF FunctorInv, Functor!TypeOK
<1>3. Functor!QueuedIsFull' /\ Functor!ResultIsWritten' /\ functorEnd' # "wild"
  BY <1>1 DEF FunctorInv, Functor!QueuedIsFull, Functor!ResultIsWritten
<1>4. VarsMatch' /\ Functor!StorageMatches'
  BY <1>1 DEF FunctorInv, VarsMatch, Functor!StorageMatches
<1> QED
  BY <1>2, <1>3, <1>4 DEF FunctorInv

ViewTypes == view \in [Views -> Functor!SeenThrough \union {None}]

(* A new view of a callable that is there, with everybody's consent.          *)
LEMMA SeeKeepsInv ==
  ASSUME FunctorInv, NEW v \in Views, NEW t \in Vars \union {Empty}, NEW p \in Functor!Places,
         NEW movable \in BOOLEAN, Functor!See(v, t, p, movable), Functor!Given(p, movable),
         t # Empty => data[p] = [fn |-> t, state |-> "full"]
  PROVE  FunctorInv'
<1> DEFINE x == [vt |-> t, ptr |-> p, movable |-> movable]
<1>1. view[v] = None /\ view' = [view EXCEPT ![v] = x] /\ Functor!Keeps(<<data, vt>>)
  BY DEF Functor!See
<1>2. x \in Functor!SeenThrough /\ x.vt = t /\ x.ptr = p /\ x.movable = movable
  BY DEF Functor!SeenThrough
<1> HIDE DEF x
<1>3. ViewTypes /\ view' \in [Views -> Functor!SeenThrough \union {None}] /\ data' = data
  BY <1>1, <1>2 DEF ViewTypes, FunctorInv, Functor!TypeOK, Functor!Keeps
<1>4. view'[v] = x /\ \A w \in Views \ {v} : view'[w] = view[w]
  BY <1>1, <1>3 DEF ViewTypes
<1>5. ASSUME NEW w \in Views, view'[w] # None, view'[w].vt # Empty
      PROVE  data'[view'[w].ptr] = [fn |-> view'[w].vt, state |-> "full"]
  <2>1. CASE w = v
    BY <1>2, <1>3, <1>4, <1>5, <2>1
  <2>2. CASE w # v
    BY <1>3, <1>4, <1>5, <2>2 DEF FunctorInv, Functor!ViewsAreValid
  <2> QED
    BY <2>1, <2>2
<1>6. Functor!ViewsAreValid'
  BY <1>5 DEF Functor!ViewsAreValid
<1>7. ASSUME NEW u \in Views, NEW w \in Views, u # w, Shows(u)', Shows(w)', view'[u].movable
      PROVE  view'[u].ptr # view'[w].ptr
  <2>1. CASE u = v
    <3>1. view'[w] = view[w] /\ Shows(w) /\ movable
      BY <1>2, <1>4, <1>7, <2>1 DEF Shows
    <3>2. view[w].ptr # p
      BY <3>1 DEF Functor!Given, Shows
    <3> QED
      BY <1>2, <1>4, <2>1, <3>1, <3>2
  <2>2. CASE w = v
    <3>1. view'[u] = view[u] /\ Shows(u) /\ view[u].movable
      BY <1>4, <1>7, <2>2 DEF Shows
    <3>2. view[u].ptr # p
      BY <3>1 DEF Functor!Given, Shows
    <3> QED
      BY <1>2, <1>4, <2>2, <3>1, <3>2
  <2>3. CASE u # v /\ w # v
    BY <1>4, <1>7, <2>3 DEF FunctorInv, MovableIsAlone, Shows
  <2> QED
    BY <2>1, <2>2, <2>3
<1>8. MovableIsAlone'
  BY <1>7 DEF MovableIsAlone
<1> QED
  BY <1>1, <1>3, <1>6, <1>8, ViewsChange

LEMMA ViewCallableKeepsInv ==
  ASSUME FunctorInv, NEW v \in Views, NEW x \in Vars, NEW movable \in BOOLEAN,
         Functor!ViewCallable(v, x, movable)
  PROVE  FunctorInv'
<1>1. Functor!Full(x) /\ Functor!Given(x, movable) /\ Functor!See(v, x, x, movable)
  BY DEF Functor!ViewCallable
<1>2. x \in Functor!Places
  BY FunctorConstants
<1>3. data[x] = [fn |-> x, state |-> "full"]
  <2>1. data[x] # None /\ data[x].state = "full" /\ data[x].fn = x
    BY <1>1 DEF Functor!Full, FunctorInv, VarsMatch
  <2> QED
    BY <1>2, <2>1, CallableAt
<1> DEFINE t == x
<1>4. t \in Vars \union {Empty} /\ (t # Empty => data[x] = [fn |-> t, state |-> "full"])
      /\ Functor!See(v, t, x, movable)
  BY <1>1, <1>3
<1> HIDE DEF t
<1> QED
  BY <1>1, <1>2, <1>4, SeeKeepsInv

LEMMA ViewFunctorKeepsInv ==
  ASSUME FunctorInv, NEW v \in Views, NEW f \in Functors, NEW movable \in BOOLEAN,
         Functor!ViewFunctor(v, f, movable)
  PROVE  FunctorInv'
<1> DEFINE t == vt[f]
<1>1. Functor!Live(f) /\ Functor!Given(f, movable) /\ Functor!See(v, t, f, movable)
  BY DEF Functor!ViewFunctor
<1>2. f \in Functor!Places
  BY FunctorConstants
<1>3. t \in Vars \union {Empty} /\ (t # Empty =>
        data[f] # None /\ data[f].fn = t /\ data[f].state = "full")
  BY <1>1, LiveHas, FunctorConstants
<1> HIDE DEF t
<1>4. t # Empty => data[f] = [fn |-> t, state |-> "full"]
  BY <1>2, <1>3, CallableAt
<1> QED
  BY <1>1, <1>2, <1>3, <1>4, SeeKeepsInv

(* The copy shows what the view does, and neither can be moved from.          *)
LEMMA CopyViewKeepsInv ==
  ASSUME FunctorInv, NEW v \in Views, NEW w \in Views, Functor!CopyView(v, w)
  PROVE  FunctorInv'
<1> DEFINE x == [view[w] EXCEPT !.movable = FALSE]
<1>1. /\ view[v] = None /\ view[w] # None /\ Functor!Keeps(<<data, vt>>)
      /\ view' = [view EXCEPT ![v] = x, ![w].movable = FALSE]
  BY DEF Functor!CopyView
<1>2. view[w] \in Functor!SeenThrough /\ ViewTypes /\ v # w
  BY <1>1 DEF ViewTypes, FunctorInv, Functor!TypeOK
<1>3. x \in Functor!SeenThrough /\ x # None /\ x.vt = view[w].vt /\ x.ptr = view[w].ptr
        /\ x.movable = FALSE
  BY <1>2, FunctorConstants DEF Functor!SeenThrough
<1>4. view' = [view EXCEPT ![v] = x, ![w] = x]
  BY <1>1, <1>2 DEF ViewTypes
<1> HIDE DEF x
<1>5. /\ view' \in [Views -> Functor!SeenThrough \union {None}] /\ view'[v] = x /\ view'[w] = x
      /\ data' = data
      /\ \A u \in Views \ {v, w} : view'[u] = view[u]
  BY <1>1, <1>2, <1>3, <1>4 DEF ViewTypes, Functor!Keeps
<1>6. ASSUME NEW u \in Views, view'[u] # None, view'[u].vt # Empty
      PROVE  data'[view'[u].ptr] = [fn |-> view'[u].vt, state |-> "full"]
  <2>1. CASE u \in {v, w}
    BY <1>1, <1>3, <1>5, <1>6, <2>1 DEF FunctorInv, Functor!ViewsAreValid
  <2>2. CASE u \notin {v, w}
    BY <1>5, <1>6, <2>2 DEF FunctorInv, Functor!ViewsAreValid
  <2> QED
    BY <2>1, <2>2
<1>7. Functor!ViewsAreValid'
  BY <1>6 DEF Functor!ViewsAreValid
<1>8. ASSUME NEW u \in Views, NEW y \in Views, u # y, Shows(u)', Shows(y)', view'[u].movable
      PROVE  view'[u].ptr # view'[y].ptr
  <2>1. u \notin {v, w} /\ view'[u] = view[u] /\ Shows(u)
    BY <1>3, <1>5, <1>8 DEF Shows
  <2>2. CASE y \in {v, w}
    <3>1. Shows(w) /\ view'[y].ptr = view[w].ptr
      BY <1>1, <1>3, <1>5, <1>8, <2>2 DEF Shows
    <3> QED
      BY <1>8, <2>1, <3>1 DEF FunctorInv, MovableIsAlone
  <2>3. CASE y \notin {v, w}
    BY <1>5, <1>8, <2>1, <2>3 DEF FunctorInv, MovableIsAlone, Shows
  <2> QED
    BY <2>2, <2>3
<1>9. MovableIsAlone'
  BY <1>8 DEF MovableIsAlone
<1> QED
  BY <1>1, <1>5, <1>7, <1>9, ViewsChange

LEMMA MoveViewKeepsInv ==
  ASSUME FunctorInv, NEW v \in Views, NEW w \in Views, Functor!MoveView(v, w)
  PROVE  FunctorInv'
<1> DEFINE x == view[w]
           e == [x EXCEPT !.vt = Empty]
<1>1. /\ view[v] = None /\ x # None /\ Functor!Keeps(<<data, vt>>)
      /\ view' = [view EXCEPT ![v] = x, ![w].vt = Empty]
  BY DEF Functor!MoveView
<1>2. x \in Functor!SeenThrough /\ ViewTypes /\ v # w
  BY <1>1 DEF ViewTypes, FunctorInv, Functor!TypeOK
<1>3. e \in Functor!SeenThrough /\ e.vt = Empty
  BY <1>2 DEF Functor!SeenThrough
<1>4. view' = [view EXCEPT ![v] = x, ![w] = e]
  BY <1>1, <1>2 DEF ViewTypes
<1>x. x = view[w]
  OBVIOUS
<1> HIDE DEF e, x
<1>5. /\ view' \in [Views -> Functor!SeenThrough \union {None}] /\ view'[v] = x /\ view'[w] = e
      /\ data' = data
      /\ \A u \in Views \ {v, w} : view'[u] = view[u]
  BY <1>1, <1>2, <1>3, <1>4 DEF ViewTypes, Functor!Keeps
<1>6. ASSUME NEW u \in Views, view'[u] # None, view'[u].vt # Empty
      PROVE  data'[view'[u].ptr] = [fn |-> view'[u].vt, state |-> "full"]
  <2>1. CASE u = v
    BY <1>x, <1>1, <1>5, <1>6, <2>1 DEF FunctorInv, Functor!ViewsAreValid
  <2>2. CASE u # v
    BY <1>3, <1>5, <1>6, <2>2 DEF FunctorInv, Functor!ViewsAreValid
  <2> QED
    BY <2>1, <2>2
<1>7. Functor!ViewsAreValid'
  BY <1>6 DEF Functor!ViewsAreValid
<1>8. ASSUME NEW u \in Views, NEW y \in Views, u # y, Shows(u)', Shows(y)', view'[u].movable
      PROVE  view'[u].ptr # view'[y].ptr
  <2>1. u # w /\ y # w
    BY <1>3, <1>5, <1>8 DEF Shows
  <2>2. MovableIsAlone
    BY DEF FunctorInv
  <2>3. CASE u = v
    <3>1. Shows(w) /\ Shows(y) /\ view[w].movable /\ view'[u].ptr = view[w].ptr
            /\ view'[y].ptr = view[y].ptr
      BY <1>x, <1>5, <1>8, <2>1, <2>3 DEF Shows
    <3> QED
      BY <2>1, <2>2, <3>1 DEF MovableIsAlone
  <2>4. CASE y = v
    <3>1. Shows(w) /\ Shows(u) /\ view[u].movable /\ view'[y].ptr = view[w].ptr
            /\ view'[u].ptr = view[u].ptr
      BY <1>x, <1>5, <1>8, <2>1, <2>4 DEF Shows
    <3> QED
      BY <2>1, <2>2, <3>1 DEF MovableIsAlone
  <2>5. CASE u # v /\ y # v
    <3>1. Shows(u) /\ Shows(y) /\ view'[u] = view[u] /\ view'[y] = view[y]
      BY <1>5, <1>8, <2>1, <2>5 DEF Shows
    <3> QED
      BY <1>8, <2>2, <3>1 DEF MovableIsAlone
  <2> QED
    BY <2>3, <2>4, <2>5
<1>9. MovableIsAlone'
  BY <1>8 DEF MovableIsAlone
<1> QED
  BY <1>1, <1>5, <1>7, <1>9, ViewsChange

LEMMA DropViewKeepsInv == ASSUME FunctorInv, NEW v \in Views, Functor!DropView(v) PROVE FunctorInv'
<1>1. view' = [view EXCEPT ![v] = None] /\ Functor!Keeps(<<data, vt>>) /\ data' = data
  BY DEF Functor!DropView, Functor!Keeps
<1>2. view' \in [Views -> Functor!SeenThrough \union {None}]
  BY <1>1 DEF FunctorInv, Functor!TypeOK
<1>3. ASSUME NEW w \in Views, Shows(w)'
      PROVE  Shows(w) /\ view'[w] = view[w] /\ data'[view[w].ptr] = data[view[w].ptr]
  BY <1>1, <1>3 DEF Shows, FunctorInv, Functor!TypeOK
<1>4. Functor!ViewsAreValid' /\ MovableIsAlone'
  BY <1>3, ViewsStay
<1> QED
  BY <1>1, <1>2, <1>4, ViewsChange
------------------------------------------------------------------------------
(* What is moved away through a view is seen through no other, and the view   *)
(* is emptied.                                                                *)
LEMMA ViewsAreEmptied ==
  ASSUME FunctorInv, NEW v \in Views, view[v] # None,
         NEW moves \in BOOLEAN, moves => view[v].movable,
         view' = IF moves THEN [view EXCEPT ![v].vt = Empty] ELSE view,
         \A q \in Functor!Places :
           Functor!Viewed(q) /\ (q # view[v].ptr \/ ~moves \/ view[v].vt = Empty) =>
             data'[q] = data[q]
  PROVE  /\ view' \in [Views -> Functor!SeenThrough \union {None}]
         /\ Functor!ViewsAreValid' /\ MovableIsAlone'
<1> DEFINE x == view[v]
           e == [x EXCEPT !.vt = Empty]
<1>1. x \in Functor!SeenThrough /\ ViewTypes
  BY DEF ViewTypes, FunctorInv, Functor!TypeOK
<1>2. e \in Functor!SeenThrough /\ e.vt = Empty
  BY <1>1 DEF Functor!SeenThrough
<1>3. view' = IF moves THEN [view EXCEPT ![v] = e] ELSE view
  BY <1>1 DEF ViewTypes
<1> HIDE DEF e, x
<1>4. view' \in [Views -> Functor!SeenThrough \union {None}]
  BY <1>1, <1>2, <1>3 DEF ViewTypes
<1>5. ASSUME NEW w \in Views, Shows(w)'
      PROVE  Shows(w) /\ view'[w] = view[w] /\ data'[view[w].ptr] = data[view[w].ptr]
  <2>1. w = v => ~moves
    BY <1>1, <1>2, <1>3, <1>5 DEF Shows, ViewTypes
  <2>2. view'[w] = view[w] /\ Shows(w)
    BY <1>1, <1>3, <1>5, <2>1 DEF Shows, ViewTypes
  <2>3. Functor!Viewed(view[w].ptr) /\ view[w].ptr \in Functor!Places
    BY <1>1, <2>2 DEF Shows, ViewTypes, Functor!Viewed, Functor!SeenThrough
  <2>4. view[w].ptr # view[v].ptr \/ ~moves \/ view[v].vt = Empty
    BY <2>1, <2>2 DEF FunctorInv, MovableIsAlone, Shows
  <2> QED
    BY <2>2, <2>3, <2>4
<1>6. Functor!ViewsAreValid' /\ MovableIsAlone'
  BY <1>5, ViewsStay
<1> QED
  BY <1>4, <1>6

(* What a view shows. *)
LEMMA ShownIs ==
  ASSUME FunctorInv, NEW v \in Views, view[v] # None
  PROVE  /\ view[v].vt \in Vars \union {Empty} /\ view[v].ptr \in Functor!Places
         /\ view[v].movable \in BOOLEAN
         /\ view[v].vt # Empty =>
              /\ data[view[v].ptr] = [fn |-> view[v].vt, state |-> "full"]
              /\ data[view[v].ptr] \in Functor!Callables /\ data[view[v].ptr] # None
              /\ Functor!Moved(data[view[v].ptr]) \in Functor!Callables
              /\ Functor!Moved(data[view[v].ptr]).fn = view[v].vt
<1>1. view[v] \in Functor!SeenThrough
  BY DEF FunctorInv, Functor!TypeOK
<1>2. view[v].vt \in Vars \union {Empty} /\ view[v].ptr \in Functor!Places
        /\ view[v].movable \in BOOLEAN
  BY <1>1 DEF Functor!SeenThrough
<1>3. ASSUME view[v].vt # Empty
      PROVE  /\ data[view[v].ptr] = [fn |-> view[v].vt, state |-> "full"]
             /\ data[view[v].ptr] \in Functor!Callables /\ data[view[v].ptr] # None
             /\ data[view[v].ptr].fn = view[v].vt
  <2>1. data[view[v].ptr] = [fn |-> view[v].vt, state |-> "full"]
    BY <1>3 DEF FunctorInv, Functor!ViewsAreValid
  <2>2. [fn |-> view[v].vt, state |-> "full"] \in Functor!Callables
    BY <1>2, <1>3 DEF Functor!Callables
  <2> QED
    BY <2>1, <2>2, FunctorConstants
<1> QED
  BY <1>2, <1>3, CallableAt

LEMMA ToFunctorKeepsInv ==
  ASSUME FunctorInv, NEW v \in Views, NEW f \in Functors, NEW forward \in BOOLEAN,
         Functor!ToFunctor(v, f, forward)
  PROVE  FunctorInv'
<1> DEFINE t == view[v].vt
           p == view[v].ptr
           moves == view[v].movable /\ forward
<1>1. vt[f] = None /\ view[v] # None
  BY DEF Functor!ToFunctor
<1>2. CASE t \in Large
  BY <1>2, EndsKeepsFunctors DEF Functor!ToFunctor
<1>3. CASE t \notin Large
  <2>1. /\ vt' = [vt EXCEPT ![f] = t]
        /\ data' = IF t = Empty THEN data
                   ELSE [data EXCEPT ![f] = data[p], ![p] = IF moves THEN Functor!Moved(@) ELSE @]
        /\ view' = IF moves THEN [view EXCEPT ![v].vt = Empty] ELSE view
        /\ queue' = queue /\ popped' = None /\ functorEnd' = functorEnd
    BY <1>3 DEF Functor!ToFunctor, Functor!Keeps, Functor!Emptied
  <2>2. f \in Functor!Places /\ data[f] = None /\ Typed
    BY <1>1, FunctorConstants DEF FunctorInv, Functor!StorageMatches, Functor!TypeOK, Typed
  <2>3. ~Functor!Viewed(f)
    BY <2>2, NothingIsViewed
  <2>4. /\ t \in Vars \union {Empty} /\ p \in Functor!Places /\ view[v].movable \in BOOLEAN
        /\ t # Empty => /\ data[p] = [fn |-> t, state |-> "full"]
                        /\ data[p] \in Functor!Callables /\ data[p] # None /\ data[p].fn = t
                        /\ Functor!Moved(data[p]) \in Functor!Callables
                        /\ Functor!Moved(data[p]).fn = t
    BY <1>1, ShownIs
  <2> DEFINE d == IF t = Empty THEN None ELSE data[p]
             m == IF moves /\ t # Empty THEN Functor!Moved(data[p]) ELSE data[p]
  <2>5. /\ data' \in [Functor!Places -> Functor!Callables \union {None}]
        /\ data'[f] = d /\ (t # Empty => p # f /\ data'[p] = m)
        /\ \A q \in Functor!Places \ {f} : q # p \/ t = Empty => data'[q] = data[q]
    <3>1. CASE t = Empty
      BY <2>1, <2>2, <3>1 DEF Typed
    <3>2. CASE t # Empty
      <4>1. p # f /\ d = data[p] /\ m \in Functor!Callables /\ d \in Functor!Callables
        BY <2>2, <2>4, <3>2
      <4>2. data' = [data EXCEPT ![f] = d, ![p] = m]
        BY <2>1, <2>2, <2>4, <3>2, <4>1 DEF Typed
      <4> HIDE DEF d, m
      <4> QED
        BY <2>2, <2>4, <3>2, <4>1, <4>2 DEF Typed
    <3> QED
      BY <3>1, <3>2
  <2>6. /\ d \in Functor!Callables \union {None}
        /\ IF t \in {Empty, None} THEN d = None ELSE d # None /\ d.fn = t
        /\ t # Empty => m # None /\ m.fn = t /\ data[p] # None /\ data[p].fn = t
        /\ ~moves => m = data[p]
    BY <2>4, FunctorConstants
  <2> HIDE DEF d, m
  <2>7. /\ vt' \in [Functors -> Vars \union {Empty, None}] /\ vt'[f] = t
        /\ \A g \in Functors \ {f} : vt'[g] = vt[g]
    BY <2>1, <2>2, <2>4 DEF Typed
  <2>8. \A q \in Functor!Places : Functor!Viewed(q) /\ (q # p \/ ~moves \/ t = Empty) =>
          data'[q] = data[q]
    BY <2>3, <2>4, <2>5, <2>6
  <2>9. moves \in BOOLEAN /\ (moves => view[v].movable)
    BY <2>4
  <2>10. /\ view' \in [Views -> Functor!SeenThrough \union {None}]
         /\ Functor!ViewsAreValid' /\ MovableIsAlone'
    <3> HIDE DEF moves
    <3> QED
      BY <1>1, <2>1, <2>8, <2>9, ViewsAreEmptied
  <2>11. VarsMatch'
    <3> SUFFICES ASSUME NEW x \in Vars, data'[x] # None PROVE data'[x].fn = x
      BY DEF VarsMatch
    <3>1. x \in Functor!Places /\ x # f /\ (data[x] # None => data[x].fn = x)
      BY FunctorConstants DEF FunctorInv, VarsMatch
    <3>2. CASE x = p /\ t # Empty
      BY <2>5, <2>6, <3>1, <3>2
    <3>3. CASE x # p \/ t = Empty
      BY <2>5, <3>1, <3>3
    <3> QED
      BY <3>2, <3>3
  <2>12. Functor!StorageMatches'
    <3> SUFFICES ASSUME NEW g \in Functors
                 PROVE  IF vt'[g] \in {Empty, None} THEN data'[g] = None
                        ELSE data'[g] # None /\ data'[g].fn = vt'[g]
      BY DEF Functor!StorageMatches
    <3>1. g \in Functor!Places /\ IF vt[g] \in {Empty, None} THEN data[g] = None
                                  ELSE data[g] # None /\ data[g].fn = vt[g]
      BY FunctorConstants DEF FunctorInv, Functor!StorageMatches
    <3>2. CASE g = f
      BY <2>5, <2>6, <2>7, <3>2
    <3>3. CASE g # f /\ g = p /\ t # Empty
      BY <2>5, <2>6, <2>7, <3>1, <3>3
    <3>4. CASE g # f /\ (g # p \/ t = Empty)
      BY <2>5, <2>7, <3>1, <3>4
    <3> QED
      BY <3>2, <3>3, <3>4
  <2>13. Functor!TypeOK' /\ queue' \in Seq(Pushed) /\ functorEnd' # "wild"
    BY <2>1, <2>5, <2>7, <2>10 DEF FunctorInv, Functor!TypeOK
  <2>14. Functor!QueuedIsFull' /\ Functor!ResultIsWritten'
    BY <2>1 DEF FunctorInv, Functor!QueuedIsFull, Functor!ResultIsWritten
  <2> QED
    BY <2>10, <2>11, <2>12, <2>13, <2>14 DEF FunctorInv
<1> QED
  BY <1>2, <1>3

(* What is appended to the queue is a callable that is there, or none.        *)
LEMMA QueueGrows ==
  ASSUME FunctorInv, NEW t \in Vars \union {Empty}, NEW d \in Functor!Callables \union {None},
         d # None => d = [fn |-> t, state |-> "full"], Functor!Queue(t, d)
  PROVE  /\ queue' \in Seq(Pushed) /\ Functor!QueuedIsFull'
         /\ \A i \in DOMAIN queue' : queue'[i] \in Pushed
<1> DEFINE x == [vt |-> t, data |-> d]
<1>1. x \in Pushed /\ x.data = d /\ x.vt = t
  BY DEF Pushed
<1>2. queue' = Append(queue, x) /\ queue \in Seq(Pushed)
  BY DEF Functor!Queue, FunctorInv
<1> HIDE DEF x
<1>3. /\ queue' \in Seq(Pushed) /\ Len(queue') = Len(queue) + 1 /\ queue'[Len(queue) + 1] = x
      /\ \A i \in 1 .. Len(queue) : queue'[i] = queue[i]
  BY <1>1, <1>2, AppendProperties
<1>4. /\ DOMAIN queue = 1 .. Len(queue) /\ DOMAIN queue' = 1 .. Len(queue) + 1 /\ Len(queue) \in Nat
  BY <1>2, <1>3, LenProperties
<1>5. ASSUME NEW i \in DOMAIN queue', queue'[i].data # None
      PROVE  queue'[i].data = [fn |-> queue'[i].vt, state |-> "full"]
  <2>1. CASE i = Len(queue) + 1
    BY <1>1, <1>3, <1>5, <2>1
  <2>2. CASE i # Len(queue) + 1
    <3>1. i \in DOMAIN queue /\ queue'[i] = queue[i]
      BY <1>3, <1>4, <2>2
    <3> QED
      BY <1>5, <3>1 DEF FunctorInv, Functor!QueuedIsFull
  <2> QED
    BY <2>1, <2>2
<1>6. Functor!QueuedIsFull'
  BY <1>5 DEF Functor!QueuedIsFull
<1> QED
  BY <1>3, <1>6, ElementOfSeq, <1>4

LEMMA PushKeepsInv ==
  ASSUME FunctorInv, NEW v \in Views, NEW forward \in BOOLEAN, Functor!Push(v, forward)
  PROVE  FunctorInv'
<1> DEFINE t == view[v].vt
           p == view[v].ptr
           moves == view[v].movable /\ forward
           d == IF t = Empty THEN None ELSE data[p]
<1>1. /\ view[v] # None /\ popped' = None /\ vt' = vt /\ functorEnd' = functorEnd
      /\ view' = IF moves THEN [view EXCEPT ![v].vt = Empty] ELSE view
  BY DEF Functor!Push, Functor!Extract, Functor!Emptied
<1>2. \/ data' = data /\ queue' = queue
      \/ /\ Functor!Queue(t, d)
         /\ data' = IF t # Empty /\ moves THEN [data EXCEPT ![p] = Functor!Moved(@)] ELSE data
      \/ Functor!Queue(t, None) /\ data' = data
  BY DEF Functor!Push
<1>3. /\ t \in Vars \union {Empty} /\ p \in Functor!Places /\ view[v].movable \in BOOLEAN
      /\ t # Empty => /\ data[p] = [fn |-> t, state |-> "full"]
                      /\ data[p] \in Functor!Callables /\ data[p] # None /\ data[p].fn = t
                      /\ Functor!Moved(data[p]) \in Functor!Callables
                      /\ Functor!Moved(data[p]).fn = t
  BY <1>1, ShownIs
<1>4. Typed
  BY DEF FunctorInv, Functor!TypeOK, Typed
<1>5. d \in Functor!Callables \union {None} /\ (d # None => d = [fn |-> t, state |-> "full"])
  BY <1>3
<1>6. /\ queue' \in Seq(Pushed) /\ Functor!QueuedIsFull'
      /\ \A i \in DOMAIN queue' : queue'[i] \in Pushed
  <2> HIDE DEF d, t
  <2>1. CASE queue' = queue
    BY <2>1 DEF FunctorInv, Functor!QueuedIsFull, Functor!TypeOK, Pushed
  <2>2. CASE Functor!Queue(t, d)
    BY <1>3, <1>5, <2>2, QueueGrows
  <2>3. CASE Functor!Queue(t, None)
    <3> DEFINE n == None
    <3>1. n \in Functor!Callables \union {None} /\ (n # None => n = [fn |-> t, state |-> "full"])
          /\ Functor!Queue(t, n)
      BY <2>3
    <3> HIDE DEF n
    <3> QED
      BY <1>3, <3>1, QueueGrows
  <2> QED
    BY <1>2, <2>1, <2>2, <2>3
<1>7. /\ data' \in [Functor!Places -> Functor!Callables \union {None}]
      /\ \A q \in Functor!Places : q # p \/ ~moves \/ t = Empty => data'[q] = data[q]
      /\ data[p] = None => data'[p] = None
      /\ data[p] # None => data'[p] # None /\ data'[p].fn = data[p].fn
  <2>1. CASE data' = data
    BY <1>4, <2>1 DEF Typed
  <2>2. CASE t # Empty /\ moves /\ data' = [data EXCEPT ![p] = Functor!Moved(@)]
    <3> DEFINE m == Functor!Moved(data[p])
    <3>1. data' = [data EXCEPT ![p] = m] /\ m \in Functor!Callables /\ m.fn = data[p].fn /\ m # None
      BY <1>3, <1>4, <2>2, FunctorConstants DEF Typed
    <3> HIDE DEF m
    <3> QED
      BY <1>3, <1>4, <2>2, <3>1 DEF Typed
  <2> QED
    BY <1>2, <2>1, <2>2
<1>8. moves \in BOOLEAN /\ (moves => view[v].movable)
  BY <1>3
<1>9. /\ view' \in [Views -> Functor!SeenThrough \union {None}]
      /\ Functor!ViewsAreValid' /\ MovableIsAlone'
  <2> HIDE DEF moves
  <2> QED
    BY <1>1, <1>7, <1>8, ViewsAreEmptied
<1>10. VarsMatch'
  <2> SUFFICES ASSUME NEW x \in Vars, data'[x] # None PROVE data'[x].fn = x
    BY DEF VarsMatch
  <2>1. x \in Functor!Places /\ (data[x] # None => data[x].fn = x)
    BY FunctorConstants DEF FunctorInv, VarsMatch
  <2> QED
    BY <1>7, <2>1
<1>11. Functor!StorageMatches'
  <2> SUFFICES ASSUME NEW g \in Functors
               PROVE  IF vt'[g] \in {Empty, None} THEN data'[g] = None
                      ELSE data'[g] # None /\ data'[g].fn = vt'[g]
    BY DEF Functor!StorageMatches
  <2>1. g \in Functor!Places /\ IF vt[g] \in {Empty, None} THEN data[g] = None
                                ELSE data[g] # None /\ data[g].fn = vt[g]
    BY FunctorConstants DEF FunctorInv, Functor!StorageMatches
  <2>2. (data[g] = None => data'[g] = None)
          /\ (data[g] # None => data'[g] # None /\ data'[g].fn = data[g].fn)
    BY <1>7, <2>1
  <2> QED
    BY <1>1, <2>1, <2>2
<1>12. Functor!TypeOK' /\ functorEnd' # "wild"
  BY <1>1, <1>6, <1>7, <1>9 DEF FunctorInv, Functor!TypeOK, Pushed
<1>13. Functor!ResultIsWritten'
  BY <1>1 DEF Functor!ResultIsWritten
<1> QED
  BY <1>6, <1>9, <1>10, <1>11, <1>12, <1>13 DEF FunctorInv

(* What was called tells what became of the call. *)
LEMMA PopTells ==
  ASSUME NEW form \in Functor!Forms, NEW threw \in BOOLEAN
  PROVE  Functor!Told(form, threw) = "nothing" <=> ~threw
BY DEF Functor!Told, Functor!Forms

LEMMA PopKeepsInv ==
  ASSUME FunctorInv, NEW form \in Functor!Forms, NEW threw \in BOOLEAN,
         Functor!Pop(form, threw) \/ Functor!PopNothing(form)
  PROVE  FunctorInv'
<1>1. CASE Functor!Ends("terminated") \/ Functor!Ends("raw")
  BY <1>1, EndsKeepsFunctors
<1>2. ASSUME UNCHANGED <<data, vt, view, functorEnd>>, Functor!ResultIsWritten',
             queue' \in Seq(Pushed), \A i \in DOMAIN queue' : queue'[i] \in Pushed, Functor!QueuedIsFull'
      PROVE  FunctorInv'
  <2>1. Functor!TypeOK'
    BY <1>2 DEF FunctorInv, Functor!TypeOK, Pushed
  <2>2. VarsMatch' /\ Functor!StorageMatches' /\ Functor!ViewsAreValid' /\ MovableIsAlone'
    BY <1>2 DEF FunctorInv, VarsMatch, Functor!StorageMatches, Functor!ViewsAreValid,
       MovableIsAlone, Shows
  <2> QED
    BY <1>2, <2>1, <2>2 DEF FunctorInv
<1>3. CASE Functor!PopNothing(form)
  <2>1. /\ popped' = [success |-> FALSE, res |-> "raw", told |-> Functor!Told(form, FALSE)]
        /\ UNCHANGED <<data, vt, view, functorEnd>> /\ queue' = queue
    BY <1>3 DEF Functor!PopNothing
  <2>2. Functor!ResultIsWritten'
    BY <2>1 DEF Functor!ResultIsWritten
  <2>3. queue' \in Seq(Pushed) /\ Functor!QueuedIsFull'
          /\ \A i \in DOMAIN queue' : queue'[i] \in Pushed
    BY <2>1 DEF FunctorInv, Functor!QueuedIsFull, Functor!TypeOK, Pushed
  <2> QED
    BY <1>2, <2>1, <2>2, <2>3
<1>4. CASE /\ queue # <<>> /\ queue' = Tail(queue)
           /\ popped' = [success |-> TRUE, res |-> IF threw THEN "default" ELSE "value",
                         told |-> Functor!Told(form, threw)]
           /\ UNCHANGED <<data, vt, view, functorEnd>>
  <2>1. Functor!ResultIsWritten'
    BY <1>4, PopTells DEF Functor!ResultIsWritten
  <2>2. queue \in Seq(Pushed) /\ Len(queue) \in Nat /\ DOMAIN queue = 1 .. Len(queue)
    BY LenProperties DEF FunctorInv
  <2>3. /\ queue' \in Seq(Pushed) /\ Len(queue') = Len(queue) - 1
        /\ \A i \in 1 .. Len(queue') : queue'[i] = queue[i + 1]
    BY <1>4, <2>2, HeadTailProperties
  <2>4. DOMAIN queue' = 1 .. Len(queue')
    BY <2>3, LenProperties
  <2>5. ASSUME NEW i \in DOMAIN queue'
        PROVE  /\ queue'[i] \in Pushed
               /\ queue'[i].data # None => queue'[i].data = [fn |-> queue'[i].vt, state |-> "full"]
    <3>1. i + 1 \in DOMAIN queue /\ queue'[i] = queue[i + 1]
      BY <2>2, <2>3, <2>4
    <3> QED
      BY <3>1 DEF FunctorInv, Functor!QueuedIsFull, Functor!TypeOK, Pushed
  <2>6. Functor!QueuedIsFull'
    BY <2>5 DEF Functor!QueuedIsFull
  <2> QED
    BY <1>2, <1>4, <2>1, <2>3, <2>5, <2>6
<1> QED
  BY <1>1, <1>3, <1>4 DEF Functor!Pop

LEMMA FunctorNextKeepsInv == ASSUME FunctorInv, [Functor!Next]_(Functor!vars) PROVE FunctorInv'
<1>1. CASE UNCHANGED Functor!vars
  <2>1. /\ UNCHANGED <<data, vt, view, queue, popped, functorEnd>>
    BY <1>1 DEF Functor!vars
  <2>2. Functor!TypeOK' /\ queue' \in Seq(Pushed) /\ functorEnd' # "wild"
    BY <2>1 DEF FunctorInv, Functor!TypeOK
  <2>3. VarsMatch' /\ Functor!StorageMatches' /\ Functor!ViewsAreValid' /\ MovableIsAlone'
    BY <2>1 DEF FunctorInv, VarsMatch, Functor!StorageMatches, Functor!ViewsAreValid,
       MovableIsAlone, Shows
  <2>4. Functor!QueuedIsFull' /\ Functor!ResultIsWritten'
    BY <2>1 DEF FunctorInv, Functor!QueuedIsFull, Functor!ResultIsWritten
  <2> QED
    BY <2>2, <2>3, <2>4 DEF FunctorInv
<1>2. ASSUME NEW x \in Vars, Functor!Declare(x) \/ Functor!Leave(x) PROVE FunctorInv'
  BY <1>2, DeclareKeepsInv, LeaveKeepsInv
<1>3. ASSUME NEW f \in Functors, Functor!MakeEmpty(f) \/ Functor!Destroy(f) PROVE FunctorInv'
  BY <1>3, MakeEmptyKeepsInv, DestroyKeepsInv
<1>4. ASSUME NEW f \in Functors, NEW x \in Vars, Functor!FromCallable(f, x) PROVE FunctorInv'
  BY <1>4, FromCallableKeepsInv
<1>5. ASSUME NEW f \in Functors, NEW g \in Functors,
             Functor!Copy(f, g) \/ Functor!Move(f, g) \/ Functor!Assign(f, g)
      PROVE  FunctorInv'
  BY <1>5, FunctorCopyKeepsInv, FunctorMoveKeepsInv
<1>6. ASSUME NEW v \in Views, Functor!DropView(v) PROVE FunctorInv'
  BY <1>6, DropViewKeepsInv
<1>7. ASSUME NEW v \in Views, NEW movable \in BOOLEAN, NEW x \in Vars,
             Functor!ViewCallable(v, x, movable)
      PROVE  FunctorInv'
  BY <1>7, ViewCallableKeepsInv
<1>8. ASSUME NEW v \in Views, NEW movable \in BOOLEAN, NEW f \in Functors,
             Functor!ViewFunctor(v, f, movable) \/ Functor!ToFunctor(v, f, movable)
      PROVE  FunctorInv'
  BY <1>8, ViewFunctorKeepsInv, ToFunctorKeepsInv
<1>9. ASSUME NEW v \in Views, NEW movable \in BOOLEAN, Functor!Push(v, movable) PROVE FunctorInv'
  BY <1>9, PushKeepsInv
<1>10. ASSUME NEW v \in Views, NEW w \in Views, Functor!CopyView(v, w) \/ Functor!MoveView(v, w)
       PROVE  FunctorInv'
  BY <1>10, CopyViewKeepsInv, MoveViewKeepsInv
<1>11. ASSUME NEW form \in Functor!Forms, Functor!PopNothing(form) PROVE FunctorInv'
  BY <1>11, PopKeepsInv
<1>12. ASSUME NEW form \in Functor!Forms, NEW threw \in BOOLEAN, Functor!Pop(form, threw)
       PROVE  FunctorInv'
  BY <1>12, PopKeepsInv
<1> QED
  BY <1>1, <1>2, <1>3, <1>4, <1>5, <1>6, <1>7, <1>8, <1>9, <1>10, <1>11, <1>12 DEF Functor!Next

LEMMA FunctorsAreThemselves == PartsSpec => Functor!Spec
<1>1. PartsInit => Functor!Init
  BY DEF PartsInit
<1>2. [PartsNext]_partsVars => [Functor!Next]_(Functor!vars)
  BY DEF PartsNext, FlagNext, RingNext, SingletonNext, MapNext, HandleNext, FunctorNext, TextNext,
     ChecksumNext, LoopNext, CallsNext, partsVars, functorVars, Functor!vars
<1> QED
  BY <1>1, <1>2, PTL DEF PartsSpec, Functor!Spec

(* However callables are wrapped, viewed, copied, moved and pushed: a storage *)
(* has an object of its table's type, a view that is not empty shows one that *)
(* was not moved away, and only such a one is called from the queue.          *)
THEOREM FunctorsStayWhole == PartsSpec => []FunctorsAreWhole
<1>1. Functor!Init => FunctorInv
  BY FunctorInitInv
<1>2. FunctorInv /\ [Functor!Next]_(Functor!vars) => FunctorInv'
  BY FunctorNextKeepsInv
<1>3. FunctorInv => FunctorsAreWhole
  BY DEF FunctorInv, FunctorsAreWhole, Functor!FunctorsAreWhole
<1> QED
  BY <1>1, <1>2, <1>3, FunctorsAreThemselves, PTL DEF Functor!Spec
------------------------------------------------------------------------------
(* The ring buffer. *)

(* The cells from the read index to the write index. *)
LiveAt(r, p) == IF r.ri <= r.wi THEN r.ri <= p /\ p < r.wi ELSE r.ri <= p \/ p < r.wi

HoldsLive(r) == r.buffer # None =>
  /\ r.buffer \in Ring!Cells(r.capacity)
  /\ \A p \in 0 .. r.capacity - 1 : r.buffer[p] # Raw <=> LiveAt(r, p)

RingOK(r) ==
  /\ r \in Ring!Object /\ r.capacity >= 4 /\ r.wi < r.capacity /\ r.ri < r.capacity
  /\ HoldsLive(r)

(* The inductive invariant. *)
RingInv ==
  /\ ring \in [Rings -> Ring!Object \union {None}]
  /\ \A x \in Rings : ring[x] # None => RingOK(ring[x])
  /\ result \in RingValues \union {None} /\ ringWild \in BOOLEAN
------------------------------------------------------------------------------
LEMMA RingConstants ==
  /\ MaxCapacity \in Nat /\ Capacities \subseteq 0 .. MaxCapacity /\ \A c \in Capacities : c >= 4
  /\ Raw \notin RingValues /\ None \notin RingValues
  /\ None \notin Ring!Buffers /\ None \notin Ring!Object
BY RingAssumption, Zenon DEF Ring!Assumptions

(* What the masks compute. *)
LEMMA ModIs ==
  ASSUME NEW c \in Nat, c > 0, NEW a \in Int
  PROVE  /\ a \in 0 .. c - 1 => a % c = a
         /\ a \in c .. 2 * c - 1 => a % c = a - c
         /\ a \in 1 - c .. -1 => a % c = a + c
         /\ a = -c => a % c = 0
<1>1. a \in 0 .. c - 1 => a % c = a
  BY SMTT(20)
<1>2. a \in c .. 2 * c - 1 => a % c = a - c
  BY SMTT(20)
<1>3. a \in 1 - c .. -1 => a % c = a + c
  BY SMTT(20)
<1>4. a = -c => a % c = 0
  BY SMTT(20)
<1> QED
  BY <1>1, <1>2, <1>3, <1>4

LEMMA RingNumbers ==
  ASSUME NEW r, RingOK(r)
  PROVE  /\ r.capacity \in Nat /\ r.capacity >= 4 /\ r.capacity <= MaxCapacity
         /\ r.wi \in 0 .. r.capacity - 1 /\ r.ri \in 0 .. r.capacity - 1
         /\ r.wi \in Nat /\ r.ri \in Nat
BY RingConstants DEF RingOK, Ring!Object

LEMMA SizeIs ==
  ASSUME NEW r, RingOK(r)
  PROVE  /\ Ring!Size(r) = IF r.ri <= r.wi THEN r.wi - r.ri ELSE r.wi - r.ri + r.capacity
         /\ Ring!Size(r) \in 0 .. r.capacity - 1 /\ Ring!Size(r) \in Nat
<1> DEFINE c == r.capacity
<1> DEFINE a == r.wi - r.ri
<1>1. c \in Nat /\ c > 0 /\ a \in Int /\ a \in 1 - c .. c - 1
  BY RingNumbers
<1>2. /\ a \in 0 .. c - 1 => a % c = a
      /\ a \in 1 - c .. -1 => a % c = a + c
  <2> HIDE DEF a, c
  <2> QED
    BY <1>1, ModIs
<1>3. Ring!Size(r) = a % c
  BY DEF Ring!Size
<1>4. Ring!Size(r) = IF a >= 0 THEN a ELSE a + c
  <2> HIDE DEF a, c
  <2> QED
    BY <1>1, <1>2, <1>3
<1> QED
  BY <1>4, RingNumbers

LEMMA PlaceIs ==
  ASSUME NEW r, RingOK(r), NEW i \in 0 .. r.capacity - 1
  PROVE  /\ Ring!Place(r, i) = IF r.ri + i < r.capacity THEN r.ri + i ELSE r.ri + i - r.capacity
         /\ Ring!Place(r, i) \in 0 .. r.capacity - 1
<1> DEFINE c == r.capacity
<1> DEFINE a == r.ri + i
<1>1. c \in Nat /\ c > 0 /\ a \in Int /\ a \in 0 .. 2 * c - 2
  BY RingNumbers
<1>2. /\ a \in 0 .. c - 1 => a % c = a
      /\ a \in c .. 2 * c - 1 => a % c = a - c
  <2> HIDE DEF a, c
  <2> QED
    BY <1>1, ModIs
<1>3. Ring!Place(r, i) = a % c
  BY DEF Ring!Place
<1>4. Ring!Place(r, i) = (IF a < c THEN a ELSE a - c) /\ Ring!Place(r, i) \in 0 .. c - 1
  <2> HIDE DEF a, c
  <2> QED
    BY <1>1, <1>2, <1>3
<1> QED
  BY <1>4, RingNumbers

LEMMA LivePlaces ==
  ASSUME NEW r, RingOK(r)
  PROVE  /\ \A i \in 0 .. r.capacity - 1 : LiveAt(r, Ring!Place(r, i)) <=> i < Ring!Size(r)
         /\ \A p \in 0 .. r.capacity - 1 :
              LiveAt(r, p) <=> \E i \in 0 .. Ring!Size(r) - 1 : p = Ring!Place(r, i)
<1>1. ASSUME NEW i \in 0 .. r.capacity - 1
      PROVE  LiveAt(r, Ring!Place(r, i)) <=> i < Ring!Size(r)
  BY RingNumbers, SizeIs, PlaceIs DEF LiveAt
<1>2. ASSUME NEW p \in 0 .. r.capacity - 1
      PROVE  \E i \in 0 .. r.capacity - 1 : p = Ring!Place(r, i)
  <2>1. CASE r.ri <= p
    <3>1. p - r.ri \in 0 .. r.capacity - 1 /\ r.ri + (p - r.ri) = p
      BY <2>1, RingNumbers
    <3>2. p = Ring!Place(r, p - r.ri)
      BY <3>1, PlaceIs, RingNumbers
    <3> QED
      BY <3>1, <3>2
  <2>2. CASE p < r.ri
    <3>1. p - r.ri + r.capacity \in 0 .. r.capacity - 1
      BY <2>2, RingNumbers
    <3>2. p = Ring!Place(r, p - r.ri + r.capacity)
      BY <3>1, PlaceIs, RingNumbers
    <3> QED
      BY <3>1, <3>2
  <2> QED
    BY <2>1, <2>2, RingNumbers
<1>3. ASSUME NEW i \in 0 .. Ring!Size(r) - 1 PROVE i \in 0 .. r.capacity - 1 /\ i < Ring!Size(r)
  BY SizeIs, RingNumbers
<1>4. ASSUME NEW p \in 0 .. r.capacity - 1
      PROVE  LiveAt(r, p) <=> \E i \in 0 .. Ring!Size(r) - 1 : p = Ring!Place(r, i)
  <2>1. PICK i \in 0 .. r.capacity - 1 : p = Ring!Place(r, i)
    BY <1>2
  <2>2. LiveAt(r, p) <=> i < Ring!Size(r)
    BY <1>1, <2>1
  <2>3. i < Ring!Size(r) => i \in 0 .. Ring!Size(r) - 1
    BY SizeIs, RingNumbers
  <2>4. ASSUME NEW j \in 0 .. Ring!Size(r) - 1, p = Ring!Place(r, j) PROVE LiveAt(r, p)
    BY <1>1, <1>3, <2>4
  <2> QED
    BY <2>1, <2>2, <2>3, <2>4
<1> QED
  BY <1>1, <1>4

(* The contents are a sequence of what the live cells hold. *)
LEMMA ContentsAre ==
  ASSUME NEW r, RingOK(r), r.buffer # None
  PROVE  /\ Ring!Contents(r) \in Seq(RingValues) /\ Len(Ring!Contents(r)) = Ring!Size(r)
         /\ \A i \in 1 .. Ring!Size(r) : /\ Ring!Contents(r)[i] = r.buffer[Ring!Place(r, i - 1)]
                                         /\ r.buffer[Ring!Place(r, i - 1)] \in RingValues
<1> DEFINE s == Ring!Contents(r)
<1>1. Ring!Size(r) \in Nat
  BY SizeIs
<1>2. ASSUME NEW i \in 1 .. Ring!Size(r) PROVE r.buffer[Ring!Place(r, i - 1)] \in RingValues
  <2>1. i - 1 \in 0 .. r.capacity - 1 /\ i - 1 < Ring!Size(r)
    BY SizeIs, RingNumbers
  <2>2. Ring!Place(r, i - 1) \in 0 .. r.capacity - 1 /\ LiveAt(r, Ring!Place(r, i - 1))
    BY <2>1, PlaceIs, LivePlaces
  <2> QED
    BY <2>2 DEF RingOK, HoldsLive, Ring!Cells
<1>3. s = [i \in 1 .. Ring!Size(r) |-> r.buffer[Ring!Place(r, i - 1)]]
  BY DEF Ring!Contents
<1>4. s \in [1 .. Ring!Size(r) -> RingValues]
  BY <1>2, <1>3
<1>5. s \in Seq(RingValues) /\ Len(s) = Ring!Size(r)
  <2> HIDE DEF s
  <2> QED
    BY <1>1, <1>4
<1> QED
  BY <1>2, <1>3, <1>5

LEMMA RingsAgree ==
  ASSUME NEW q, RingOK(q), q.buffer # None, NEW s \in Seq(RingValues), Len(s) = Ring!Size(q),
         \A i \in 1 .. Ring!Size(q) : q.buffer[Ring!Place(q, i - 1)] = s[i]
  PROVE  Ring!Contents(q) = s
BY ContentsAre, SeqEqual
------------------------------------------------------------------------------
(* What a larger block holds is what the smaller one held, in the same      *)
(* order; the last cell of the smaller one is where it goes on.             *)
LEMMA ExpandedIs ==
  ASSUME NEW r, RingOK(r), r.buffer # None, 2 * r.capacity <= MaxCapacity,
         Ring!Size(r) = r.capacity - 1
  PROVE  LET e == Ring!Expanded(r) IN
         /\ RingOK(e) /\ e.buffer # None /\ e.capacity = 2 * r.capacity
         /\ Ring!Size(e) = Ring!Size(r) /\ Ring!Contents(e) = Ring!Contents(r)
<1> DEFINE e == Ring!Expanded(r)
<1> DEFINE c == r.capacity
<1> DEFINE n == 2 * r.capacity
<1> DEFINE z == Ring!Size(r)
<1>1. r \in Ring!Object /\ c \in Nat /\ c >= 4 /\ n \in 0 .. MaxCapacity /\ MaxCapacity \in Nat
      /\ r.wi \in 0 .. c - 1 /\ r.ri \in 0 .. c - 1 /\ z = c - 1
  BY RingNumbers, RingConstants DEF RingOK
<1>2. z = IF r.ri <= r.wi THEN r.wi - r.ri ELSE r.wi - r.ri + c
  BY SizeIs
<1> DEFINE b == Ring!Copied(r, n)
<1>3. b = [p \in 0 .. n - 1 |-> IF \E i \in 0 .. z - 1 : p = (r.ri + i) % n
                                THEN r.buffer[p % c] ELSE Raw]
  BY DEF Ring!Copied
<1> HIDE DEF b, n, z, c
<1>n. n = 2 * c
  BY DEF n, c
<1>4. \A i \in 0 .. z - 1 : (r.ri + i) % n = r.ri + i
  <2>1. ASSUME NEW i \in 0 .. z - 1 PROVE (r.ri + i) % n = r.ri + i
    <3>1. r.ri + i \in Int /\ r.ri + i \in 0 .. n - 1 /\ n \in Nat /\ n > 0
      BY <1>1, <1>n
    <3> HIDE DEF Ring!Size
    <3> QED
      BY <3>1, ModIs
  <2> QED
    BY <2>1
<1>5. \A p \in 0 .. n - 1 :
        (\E i \in 0 .. z - 1 : p = (r.ri + i) % n) <=> r.ri <= p /\ p < r.ri + z
  <2>1. ASSUME NEW p \in 0 .. n - 1, NEW i \in 0 .. z - 1, p = (r.ri + i) % n
        PROVE  r.ri <= p /\ p < r.ri + z
    BY <1>1, <1>4, <2>1
  <2>2. ASSUME NEW p \in 0 .. n - 1, r.ri <= p, p < r.ri + z
        PROVE  \E i \in 0 .. z - 1 : p = (r.ri + i) % n
    <3>1. p - r.ri \in 0 .. z - 1 /\ r.ri + (p - r.ri) = p
      BY <1>1, <2>2
    <3> QED
      BY <1>4, <3>1
  <2> QED
    BY <2>1, <2>2
<1>6. \A p \in 0 .. n - 1 :
        b[p] = IF r.ri <= p /\ p < r.ri + z THEN r.buffer[p % c] ELSE Raw
  BY <1>3, <1>5
<1>7. ASSUME NEW i \in 1 .. z
      PROVE  /\ r.ri + (i - 1) \in 0 .. n - 1 /\ b[r.ri + (i - 1)] = r.buffer[Ring!Place(r, i - 1)]
             /\ r.buffer[Ring!Place(r, i - 1)] \in RingValues
  <2>1. r.ri + (i - 1) \in 0 .. n - 1 /\ r.ri <= r.ri + (i - 1) /\ r.ri + (i - 1) < r.ri + z
    BY <1>1, <1>n
  <2>2. Ring!Place(r, i - 1) = (r.ri + (i - 1)) % c
    BY DEF Ring!Place, c
  <2>3. b[r.ri + (i - 1)] = r.buffer[(r.ri + (i - 1)) % c]
    BY <1>6, <2>1
  <2>4. r.buffer[Ring!Place(r, i - 1)] \in RingValues
    BY ContentsAre DEF z
  <2> QED
    BY <2>1, <2>2, <2>3, <2>4
<1>8. \A p \in 0 .. n - 1 : IF r.ri <= p /\ p < r.ri + z THEN b[p] \in RingValues ELSE b[p] = Raw
  <2>1. ASSUME NEW p \in 0 .. n - 1, r.ri <= p, p < r.ri + z PROVE b[p] \in RingValues
    <3>1. p - r.ri + 1 \in 1 .. z /\ r.ri + ((p - r.ri + 1) - 1) = p
      BY <1>1, <2>1
    <3>2. b[r.ri + ((p - r.ri + 1) - 1)] \in RingValues
      BY <1>7, <3>1
    <3> QED
      BY <3>1, <3>2
  <2> QED
    BY <1>6, <2>1
<1>9. b \in Ring!Cells(n) /\ b \in Ring!Buffers /\ b # None
  <2>1. b \in Ring!Cells(n)
    <3>1. b = [p \in 0 .. n - 1 |-> b[p]]
      BY <1>3
    <3> QED
      BY <1>8, <3>1 DEF Ring!Cells
  <2>2. b \in Ring!Buffers
    BY <1>1, <2>1 DEF Ring!Buffers
  <2> QED
    BY <2>1, <2>2, RingConstants
<1>10. /\ e \in Ring!Object /\ e.capacity = n /\ e.buffer = b /\ e.ri = r.ri
       /\ e.wi = IF r.wi < r.ri THEN r.wi + c ELSE r.wi
  <2>1. e = [r EXCEPT !.capacity = n, !.buffer = b,
                      !.wi = IF r.wi < r.ri THEN r.wi + c ELSE r.wi]
    BY DEF Ring!Expanded, b, n, c
  <2> HIDE DEF e
  <2>2. (IF r.wi < r.ri THEN r.wi + c ELSE r.wi) \in 0 .. MaxCapacity
    BY <1>1, <1>n
  <2> QED
    BY <1>1, <1>9, <2>1, <2>2 DEF Ring!Object
<1> HIDE DEF e
<1>11. e.wi = r.ri + z /\ e.wi < n /\ e.ri < n /\ n >= 4 /\ e.ri <= e.wi
  BY <1>1, <1>2, <1>10, <1>n
<1>12. RingOK(e)
  <2>1. \A p \in 0 .. n - 1 : b[p] # Raw <=> LiveAt(e, p)
    BY <1>8, <1>10, <1>11, RingConstants DEF LiveAt
  <2> QED
    BY <1>9, <1>10, <1>11, <2>1 DEF RingOK, HoldsLive
<1>13. Ring!Size(e) = z
  BY <1>1, <1>10, <1>11, <1>12, SizeIs
<1>14. Ring!Contents(e) = Ring!Contents(r)
  <2>1. \A i \in 1 .. z : Ring!Place(e, i - 1) = r.ri + (i - 1)
    <3>1. ASSUME NEW i \in 1 .. z PROVE Ring!Place(e, i - 1) = r.ri + (i - 1)
      <4>1. i - 1 \in 0 .. n - 1 /\ r.ri + (i - 1) < n
        BY <1>1, <1>n
      <4> QED
        BY <1>10, <1>12, <4>1, PlaceIs
    <3> QED
      BY <3>1
  <2>2. /\ Ring!Contents(r) \in Seq(RingValues) /\ Len(Ring!Contents(r)) = z
        /\ \A i \in 1 .. z : Ring!Contents(r)[i] = r.buffer[Ring!Place(r, i - 1)]
    BY ContentsAre DEF z
  <2>3. \A i \in 1 .. z : e.buffer[Ring!Place(e, i - 1)] = Ring!Contents(r)[i]
    BY <1>7, <1>10, <2>1, <2>2
  <2> QED
    BY <1>9, <1>10, <1>12, <1>13, <2>2, <2>3, RingsAgree
<1> QED
  BY <1>9, <1>10, <1>12, <1>13, <1>14 DEF e, n, z

(* push_back() expands when there is one free cell left, and never later.   *)
LEMMA RoomyIs ==
  ASSUME NEW r, RingOK(r), r.buffer # None, Ring!Roomy(r).capacity <= MaxCapacity
  PROVE  LET e == Ring!Roomy(r) IN
         /\ RingOK(e) /\ e.buffer # None /\ Ring!Size(e) < e.capacity - 1
         /\ Ring!Contents(e) = Ring!Contents(r) /\ Ring!Size(e) = Ring!Size(r)
<1> DEFINE c == r.capacity
<1> DEFINE a == r.ri - r.wi - 1
<1>1. c \in Nat /\ c >= 4 /\ a \in Int /\ a \in -c .. c - 2
  BY RingNumbers
<1>2. a % c = IF a >= 0 THEN a ELSE IF a = -c THEN 0 ELSE a + c
  <2> HIDE DEF a, c
  <2>1. c > 0 /\ (a >= 0 => a \in 0 .. c - 1) /\ (a < 0 /\ a # -c => a \in 1 - c .. -1)
    BY <1>1
  <2> QED
    BY <1>1, <2>1, ModIs
<1>3. a % c = 0 <=> Ring!Size(r) = c - 1
  BY <1>2, SizeIs, RingNumbers
<1>4. Ring!Roomy(r) = IF a % c = 0 THEN Ring!Expanded(r) ELSE r
  BY DEF Ring!Roomy
<1>5. CASE Ring!Size(r) = c - 1
  <2>1. Ring!Roomy(r) = Ring!Expanded(r)
    BY <1>3, <1>4, <1>5
  <2>2. Ring!Expanded(r).capacity = 2 * r.capacity
    BY DEF RingOK, Ring!Object, Ring!Expanded
  <2>3. 2 * r.capacity <= MaxCapacity
    BY <2>1, <2>2
  <2> HIDE DEF a
  <2>4. /\ RingOK(Ring!Expanded(r)) /\ Ring!Expanded(r).buffer # None
        /\ Ring!Size(Ring!Expanded(r)) = Ring!Size(r)
        /\ Ring!Contents(Ring!Expanded(r)) = Ring!Contents(r)
    BY <1>5, <2>3, ExpandedIs
  <2> QED
    BY <1>1, <1>5, <2>1, <2>2, <2>4
<1>6. CASE Ring!Size(r) # c - 1
  <2>1. Ring!Roomy(r) = r
    BY <1>3, <1>4, <1>6
  <2> QED
    BY <1>6, <2>1, SizeIs, RingNumbers
<1> QED
  BY <1>5, <1>6

LEMMA PushIs ==
  ASSUME NEW r, RingOK(r), r.buffer # None, Ring!Size(r) < r.capacity - 1, NEW v \in RingValues
  PROVE  LET q == [r EXCEPT !.buffer[r.wi] = v, !.wi = (@ + 1) % r.capacity] IN
         /\ r.buffer[r.wi] = Raw
         /\ RingOK(q) /\ q.buffer # None /\ Ring!Contents(q) = Append(Ring!Contents(r), v)
<1> DEFINE q == [r EXCEPT !.buffer[r.wi] = v, !.wi = (@ + 1) % r.capacity]
<1> DEFINE c == r.capacity
<1> DEFINE z == Ring!Size(r)
<1> DEFINE b == [r.buffer EXCEPT ![r.wi] = v]
<1> DEFINE w == (r.wi + 1) % r.capacity
<1>1. /\ r \in Ring!Object /\ c \in Nat /\ c >= 4 /\ c \in 0 .. MaxCapacity /\ z \in Nat /\ z < c - 1
      /\ r.wi \in 0 .. c - 1 /\ r.ri \in 0 .. c - 1
  BY RingNumbers, RingConstants, SizeIs DEF RingOK
<1>2. z = IF r.ri <= r.wi THEN r.wi - r.ri ELSE r.wi - r.ri + c
  BY SizeIs
<1>3. w = (IF r.wi + 1 < c THEN r.wi + 1 ELSE 0) /\ w \in 0 .. c - 1
  <2>1. r.wi + 1 \in Int /\ c > 0 /\ r.wi + 1 \in 0 .. 2 * c - 1
    BY <1>1
  <2>2. w = (r.wi + 1) % c
    OBVIOUS
  <2> HIDE DEF w, c
  <2> QED
    BY <1>1, <2>1, <2>2, ModIs
<1>4. r.buffer \in Ring!Cells(c) /\ \A p \in 0 .. c - 1 : r.buffer[p] # Raw <=> LiveAt(r, p)
  BY DEF RingOK, HoldsLive
<1>5. r.buffer[r.wi] = Raw
  BY <1>1, <1>4 DEF LiveAt
<1>6. /\ b \in Ring!Cells(c) /\ b \in Ring!Buffers /\ b # None /\ b[r.wi] = v
      /\ \A p \in 0 .. c - 1 : p # r.wi => b[p] = r.buffer[p]
  <2>1. b \in Ring!Cells(c) /\ b[r.wi] = v /\ \A p \in 0 .. c - 1 : p # r.wi => b[p] = r.buffer[p]
    BY <1>1, <1>4 DEF Ring!Cells
  <2>2. b \in Ring!Buffers
    BY <1>1, <2>1 DEF Ring!Buffers
  <2> QED
    BY <2>1, <2>2, RingConstants
<1>7. q \in Ring!Object /\ q.capacity = c /\ q.buffer = b /\ q.ri = r.ri /\ q.wi = w
  <2>1. q = [r EXCEPT !.buffer = b, !.wi = w]
    BY DEF Ring!Object
  <2>2. w \in 0 .. MaxCapacity
    BY <1>1, <1>3, RingConstants
  <2> HIDE DEF q, b, w
  <2> QED
    BY <1>1, <1>6, <2>1, <2>2 DEF Ring!Object
<1>z. z = Ring!Size(r) /\ c = r.capacity
  OBVIOUS
<1> HIDE DEF q, b, w, z, c
<1>8. RingOK(q)
  <2>1. \A p \in 0 .. c - 1 : b[p] # Raw <=> LiveAt(q, p)
    <3>1. ASSUME NEW p \in 0 .. c - 1 PROVE b[p] # Raw <=> LiveAt(q, p)
      <4>1. CASE p = r.wi
        BY <1>1, <1>2, <1>3, <1>6, <1>7, <4>1, RingConstants DEF LiveAt
      <4>2. CASE p # r.wi
        <5>1. LiveAt(q, p) <=> LiveAt(r, p)
          BY <1>1, <1>2, <1>3, <1>7, <4>2 DEF LiveAt
        <5> QED
          BY <1>4, <1>6, <4>2, <5>1
      <4> QED
        BY <4>1, <4>2
    <3> QED
      BY <3>1
  <2> QED
    BY <1>1, <1>3, <1>6, <1>7, <2>1 DEF RingOK, HoldsLive
<1>9. Ring!Size(q) = z + 1
  BY <1>1, <1>2, <1>3, <1>7, <1>8, SizeIs
<1>10. ASSUME NEW i \in 1 .. z + 1
       PROVE  q.buffer[Ring!Place(q, i - 1)] = IF i = z + 1 THEN v ELSE r.buffer[Ring!Place(r, i - 1)]
  <2>1. i - 1 \in 0 .. c - 1
    BY <1>1
  <2>2. Ring!Place(q, i - 1) = Ring!Place(r, i - 1) /\ Ring!Place(r, i - 1) \in 0 .. c - 1
    BY <1>z, <1>7, <1>8, <2>1, PlaceIs
  <2>3. Ring!Place(r, i - 1) = IF r.ri + (i - 1) < c THEN r.ri + (i - 1) ELSE r.ri + (i - 1) - c
    BY <1>z, <2>1, PlaceIs
  <2>4. Ring!Place(r, i - 1) = r.wi <=> i = z + 1
    BY <1>1, <1>2, <2>3
  <2> QED
    BY <1>6, <1>7, <2>2, <2>4
<1>11. Ring!Contents(q) = Append(Ring!Contents(r), v)
  <2>1. /\ Ring!Contents(r) \in Seq(RingValues) /\ Len(Ring!Contents(r)) = z
        /\ \A i \in 1 .. z : Ring!Contents(r)[i] = r.buffer[Ring!Place(r, i - 1)]
    BY <1>z, ContentsAre
  <2> DEFINE s == Append(Ring!Contents(r), v)
  <2>2. /\ s \in Seq(RingValues) /\ Len(s) = z + 1 /\ s[z + 1] = v
        /\ \A i \in 1 .. z : s[i] = Ring!Contents(r)[i]
    BY <2>1, AppendProperties
  <2> HIDE DEF s
  <2>3. \A i \in 1 .. z + 1 : q.buffer[Ring!Place(q, i - 1)] = s[i]
    <3>1. ASSUME NEW i \in 1 .. z + 1 PROVE q.buffer[Ring!Place(q, i - 1)] = s[i]
      <4>1. CASE i = z + 1
        BY <1>10, <2>2, <4>1
      <4>2. CASE i # z + 1
        <5>1. i \in 1 .. z
          BY <1>1, <4>2
        <5> QED
          BY <1>10, <2>1, <2>2, <4>2, <5>1
      <4> QED
        BY <4>1, <4>2
    <3> QED
      BY <3>1
  <2>4. Ring!Contents(q) = s
    BY <1>6, <1>7, <1>8, <1>9, <2>2, <2>3, RingsAgree
  <2> QED
    BY <2>4 DEF s
<1> QED
  BY <1>5, <1>6, <1>7, <1>8, <1>11 DEF q

LEMMA PopIs ==
  ASSUME NEW r, RingOK(r), r.buffer # None, Ring!Size(r) # 0
  PROVE  LET q == [r EXCEPT !.buffer[r.ri] = Raw, !.ri = (@ + 1) % r.capacity] IN
         /\ RingOK(q) /\ q.buffer # None
         /\ Ring!Contents(q) = Tail(Ring!Contents(r))
<1> DEFINE q == [r EXCEPT !.buffer[r.ri] = Raw, !.ri = (@ + 1) % r.capacity]
<1> DEFINE c == r.capacity
<1> DEFINE z == Ring!Size(r)
<1> DEFINE b == [r.buffer EXCEPT ![r.ri] = Raw]
<1> DEFINE w == (r.ri + 1) % r.capacity
<1>1. /\ r \in Ring!Object /\ c \in Nat /\ c >= 4 /\ c \in 0 .. MaxCapacity
      /\ z \in Nat /\ z # 0 /\ z <= c - 1
      /\ r.wi \in 0 .. c - 1 /\ r.ri \in 0 .. c - 1
  BY RingNumbers, RingConstants, SizeIs DEF RingOK
<1>2. z = IF r.ri <= r.wi THEN r.wi - r.ri ELSE r.wi - r.ri + c
  BY SizeIs
<1>3. w = (IF r.ri + 1 < c THEN r.ri + 1 ELSE 0) /\ w \in 0 .. c - 1
  <2>1. r.ri + 1 \in Int /\ c > 0 /\ r.ri + 1 \in 0 .. 2 * c - 1
    BY <1>1
  <2>2. w = (r.ri + 1) % c
    OBVIOUS
  <2> HIDE DEF w, c
  <2> QED
    BY <1>1, <2>1, <2>2, ModIs
<1>4. r.buffer \in Ring!Cells(c) /\ \A p \in 0 .. c - 1 : r.buffer[p] # Raw <=> LiveAt(r, p)
  BY DEF RingOK, HoldsLive
<1>5. /\ b \in Ring!Cells(c) /\ b \in Ring!Buffers /\ b # None /\ b[r.ri] = Raw
      /\ \A p \in 0 .. c - 1 : p # r.ri => b[p] = r.buffer[p]
  <2>1. b \in Ring!Cells(c) /\ b[r.ri] = Raw /\ \A p \in 0 .. c - 1 : p # r.ri => b[p] = r.buffer[p]
    BY <1>1, <1>4 DEF Ring!Cells
  <2>2. b \in Ring!Buffers
    BY <1>1, <2>1 DEF Ring!Buffers
  <2> QED
    BY <2>1, <2>2, RingConstants
<1>6. q \in Ring!Object /\ q.capacity = c /\ q.buffer = b /\ q.ri = w /\ q.wi = r.wi
  <2>1. q = [r EXCEPT !.buffer = b, !.ri = w]
    BY DEF Ring!Object
  <2>2. w \in 0 .. MaxCapacity
    BY <1>1, <1>3, RingConstants
  <2> HIDE DEF q, b, w
  <2> QED
    BY <1>1, <1>5, <2>1, <2>2 DEF Ring!Object
<1>z. z = Ring!Size(r) /\ c = r.capacity
  OBVIOUS
<1> HIDE DEF q, b, w, z, c
<1>7. RingOK(q)
  <2>1. \A p \in 0 .. c - 1 : b[p] # Raw <=> LiveAt(q, p)
    <3>1. ASSUME NEW p \in 0 .. c - 1 PROVE b[p] # Raw <=> LiveAt(q, p)
      <4>1. CASE p = r.ri
        BY <1>1, <1>2, <1>3, <1>5, <1>6, <4>1 DEF LiveAt
      <4>2. CASE p # r.ri
        <5>1. LiveAt(q, p) <=> LiveAt(r, p)
          BY <1>1, <1>2, <1>3, <1>6, <4>2 DEF LiveAt
        <5> QED
          BY <1>4, <1>5, <4>2, <5>1
      <4> QED
        BY <4>1, <4>2
    <3> QED
      BY <3>1
  <2> QED
    BY <1>1, <1>3, <1>5, <1>6, <2>1 DEF RingOK, HoldsLive
<1>8. Ring!Size(q) = z - 1
  BY <1>1, <1>2, <1>3, <1>6, <1>7, SizeIs
<1>9. ASSUME NEW i \in 1 .. z - 1
      PROVE  q.buffer[Ring!Place(q, i - 1)] = r.buffer[Ring!Place(r, (i + 1) - 1)]
  <2>1. i - 1 \in 0 .. c - 1 /\ (i + 1) - 1 \in 0 .. c - 1
    BY <1>1
  <2>2. /\ Ring!Place(q, i - 1) = IF w + (i - 1) < c THEN w + (i - 1) ELSE w + (i - 1) - c
        /\ Ring!Place(q, i - 1) \in 0 .. c - 1
    BY <1>6, <1>7, <2>1, PlaceIs
  <2>3. Ring!Place(r, (i + 1) - 1) =
          IF r.ri + ((i + 1) - 1) < c THEN r.ri + ((i + 1) - 1) ELSE r.ri + ((i + 1) - 1) - c
    BY <1>z, <2>1, PlaceIs
  <2>4. Ring!Place(q, i - 1) = Ring!Place(r, (i + 1) - 1) /\ Ring!Place(q, i - 1) # r.ri
    BY <1>1, <1>3, <2>2, <2>3
  <2> QED
    BY <1>5, <1>6, <2>2, <2>4
<1>10. Ring!Contents(q) = Tail(Ring!Contents(r))
  <2>1. /\ Ring!Contents(r) \in Seq(RingValues) /\ Len(Ring!Contents(r)) = z
        /\ \A i \in 1 .. z : Ring!Contents(r)[i] = r.buffer[Ring!Place(r, i - 1)]
    BY <1>z, ContentsAre
  <2> DEFINE s == Tail(Ring!Contents(r))
  <2>2. /\ s \in Seq(RingValues) /\ Len(s) = z - 1
        /\ \A i \in 1 .. z - 1 : s[i] = Ring!Contents(r)[i + 1]
    <3>1. Ring!Contents(r) # <<>>
      BY <1>1, <2>1, EmptySeq
    <3> QED
      BY <2>1, <3>1, HeadTailProperties
  <2> HIDE DEF s
  <2>3. \A i \in 1 .. z - 1 : q.buffer[Ring!Place(q, i - 1)] = s[i]
    <3>1. ASSUME NEW i \in 1 .. z - 1 PROVE q.buffer[Ring!Place(q, i - 1)] = s[i]
      <4>1. i + 1 \in 1 .. z
        BY <1>1
      <4> QED
        BY <1>9, <2>1, <2>2, <4>1
    <3> QED
      BY <3>1
  <2>4. Ring!Contents(q) = s
    BY <1>5, <1>6, <1>7, <1>8, <2>2, <2>3, RingsAgree
  <2> QED
    BY <2>4 DEF s
<1> QED
  BY <1>5, <1>6, <1>7, <1>10 DEF q

(* front() and back() find the ends. *)
LEMMA EndsAre ==
  ASSUME NEW r, RingOK(r), r.buffer # None, Ring!Size(r) # 0
  PROVE  /\ r.buffer[r.ri] = Head(Ring!Contents(r)) /\ r.buffer[r.ri] \in RingValues
         /\ r.wi # 0 => /\ r.buffer[r.wi - 1] = Ring!Contents(r)[Len(Ring!Contents(r))]
                        /\ r.buffer[r.wi - 1] \in RingValues
<1> DEFINE c == r.capacity
<1> DEFINE z == Ring!Size(r)
<1>1. /\ c \in Nat /\ c >= 4 /\ z \in Nat /\ z # 0 /\ z <= c - 1
      /\ r.wi \in 0 .. c - 1 /\ r.ri \in 0 .. c - 1
      /\ z = IF r.ri <= r.wi THEN r.wi - r.ri ELSE r.wi - r.ri + c
  BY RingNumbers, SizeIs
<1>2. /\ Ring!Contents(r) \in Seq(RingValues) /\ Len(Ring!Contents(r)) = z
      /\ \A i \in 1 .. z : /\ Ring!Contents(r)[i] = r.buffer[Ring!Place(r, i - 1)]
                           /\ r.buffer[Ring!Place(r, i - 1)] \in RingValues
  BY ContentsAre
<1>3. \A i \in 0 .. c - 1 : Ring!Place(r, i) = IF r.ri + i < c THEN r.ri + i ELSE r.ri + i - c
  BY PlaceIs
<1> HIDE DEF c, z
<1>4. r.buffer[r.ri] = Ring!Contents(r)[1] /\ r.buffer[r.ri] \in RingValues
  <2>1. Ring!Place(r, 1 - 1) = r.ri /\ 1 \in 1 .. z
    BY <1>1, <1>3
  <2> QED
    BY <1>2, <2>1
<1>5. Head(Ring!Contents(r)) = Ring!Contents(r)[1]
  OBVIOUS
<1>6. ASSUME r.wi # 0
      PROVE  r.buffer[r.wi - 1] = Ring!Contents(r)[z] /\ r.buffer[r.wi - 1] \in RingValues
  <2>1. Ring!Place(r, z - 1) = r.wi - 1 /\ z \in 1 .. z
    BY <1>1, <1>3, <1>6
  <2> QED
    BY <1>2, <2>1
<1> QED
  BY <1>2, <1>4, <1>5, <1>6

(* The copy has what is live, and nothing else was there.                   *)
LEMMA CopiedIs ==
  ASSUME NEW r, RingOK(r), r.buffer # None
  PROVE  Ring!Copied(r, r.capacity) = r.buffer
<1> DEFINE c == r.capacity
<1>1. Ring!Copied(r, c) =
        [p \in 0 .. c - 1 |-> IF \E i \in 0 .. Ring!Size(r) - 1 : p = Ring!Place(r, i)
                              THEN r.buffer[p % c] ELSE Raw]
  BY DEF Ring!Copied, Ring!Place
<1>2. \A p \in 0 .. c - 1 : p % c = p
  <2>1. c \in Nat /\ c > 0
    BY RingNumbers
  <2> HIDE DEF c
  <2>2. ASSUME NEW p \in 0 .. c - 1 PROVE p % c = p
    BY <2>1, ModIs
  <2> QED
    BY <2>2
<1>3. /\ r.buffer \in Ring!Cells(c) /\ \A p \in 0 .. c - 1 : r.buffer[p] # Raw <=> LiveAt(r, p)
  BY DEF RingOK, HoldsLive
<1>4. \A p \in 0 .. c - 1 : LiveAt(r, p) <=> \E i \in 0 .. Ring!Size(r) - 1 : p = Ring!Place(r, i)
  BY LivePlaces
<1> HIDE DEF c
<1>5. Ring!Copied(r, c) = [p \in 0 .. c - 1 |-> r.buffer[p]]
  BY <1>1, <1>2, <1>3, <1>4
<1>6. r.buffer = [p \in 0 .. c - 1 |-> r.buffer[p]]
  BY <1>3 DEF Ring!Cells
<1>7. Ring!Copied(r, c) = r.buffer
  BY <1>5, <1>6
<1> QED
  BY <1>7 DEF c
------------------------------------------------------------------------------
(* A call that leaves one object as r. *)
LEMMA RingChanges ==
  ASSUME RingInv, NEW x \in Rings, NEW r, r = None \/ RingOK(r), Ring!Set(x, r),
         result' \in RingValues \union {None}
  PROVE  RingInv' /\ ring'[x] = r
<1>1. ring' = [ring EXCEPT ![x] = r] /\ ringWild' = ringWild
  BY DEF Ring!Set
<1>2. r \in Ring!Object \union {None}
  BY DEF RingOK
<1>3. /\ ring' \in [Rings -> Ring!Object \union {None}] /\ ring'[x] = r
      /\ \A y \in Rings : y # x => ring'[y] = ring[y]
  BY <1>1, <1>2 DEF RingInv
<1>4. \A y \in Rings : ring'[y] # None => RingOK(ring'[y])
  BY <1>3 DEF RingInv
<1> QED
  BY <1>1, <1>3, <1>4 DEF RingInv

LEMMA WildKeepsInv == ASSUME RingInv, Ring!Wild PROVE RingInv'
BY DEF RingInv, Ring!Wild

LEMMA UsableIs ==
  ASSUME RingInv, NEW x \in Rings, Ring!Usable(x)
  PROVE  RingOK(ring[x]) /\ ring[x].buffer # None
BY DEF RingInv, Ring!Usable

LEMMA ConstructKeepsRing ==
  ASSUME RingInv, NEW x \in Rings, NEW c \in Capacities, Ring!Construct(x, c)
  PROVE  RingInv'
<1> DEFINE r == [capacity |-> c, buffer |-> Ring!RawBuffer(c), wi |-> 0, ri |-> 0]
<1>1. c \in 0 .. MaxCapacity /\ c >= 4 /\ MaxCapacity \in Nat
  BY RingConstants
<1>2. Ring!RawBuffer(c) \in Ring!Cells(c) /\ \A p \in 0 .. c - 1 : Ring!RawBuffer(c)[p] = Raw
  BY DEF Ring!RawBuffer, Ring!Cells
<1>3. Ring!RawBuffer(c) \in Ring!Buffers
  BY <1>1, <1>2 DEF Ring!Buffers
<1>4. r \in Ring!Object /\ r.capacity = c /\ r.buffer = Ring!RawBuffer(c) /\ r.wi = 0 /\ r.ri = 0
  BY <1>1, <1>3 DEF Ring!Object
<1>5. Ring!Set(x, r) /\ result' = None
  BY DEF Ring!Construct
<1> HIDE DEF r
<1>6. RingOK(r)
  <2>1. \A p \in 0 .. c - 1 : ~LiveAt(r, p)
    BY <1>1, <1>4 DEF LiveAt
  <2> QED
    BY <1>1, <1>2, <1>4, <2>1 DEF RingOK, HoldsLive
<1> QED
  BY <1>5, <1>6, RingChanges

LEMMA RingCopies ==
  ASSUME RingInv, NEW x \in Rings, NEW y \in Rings, Ring!Copy(x, y)
  PROVE  /\ RingInv'
         /\ ~ringWild' => ring'[x] = ring[y] /\ Ring!Usable(y)
<1> DEFINE r == [ring[y] EXCEPT !.buffer = Ring!Copied(ring[y], ring[y].capacity)]
<1>1. RingOK(ring[y]) /\ ring[y].buffer # None /\ Ring!Usable(y)
  BY UsableIs DEF Ring!Copy
<1>2. r = ring[y]
  <2>1. Ring!Copied(ring[y], ring[y].capacity) = ring[y].buffer
    BY <1>1, CopiedIs
  <2>2. ring[y] \in Ring!Object
    BY <1>1 DEF RingOK
  <2> QED
    BY <2>1, <2>2 DEF Ring!Object
<1>3. (Ring!Set(x, r) /\ result' = None) \/ Ring!Wild
  BY DEF Ring!Copy
<1> HIDE DEF r
<1>4. CASE Ring!Set(x, r) /\ result' = None
  BY <1>1, <1>2, <1>4, RingChanges
<1>5. CASE Ring!Wild
  BY <1>5, WildKeepsInv DEF Ring!Wild
<1> QED
  BY <1>3, <1>4, <1>5

LEMMA RingMoves ==
  ASSUME RingInv, NEW x \in Rings, NEW y \in Rings, Ring!Move(x, y)
  PROVE  RingInv' /\ ring'[x] = ring[y] /\ Ring!Usable(y)
<1> DEFINE r == [ring[y] EXCEPT !.buffer = None]
<1>1. RingOK(ring[y]) /\ ring[y].buffer # None /\ x # y /\ Ring!Usable(y)
  BY UsableIs DEF Ring!Move
<1>2. RingOK(r)
  <2>1. ring[y] \in Ring!Object
    BY <1>1 DEF RingOK
  <2>2. /\ r \in Ring!Object /\ r.capacity = ring[y].capacity /\ r.buffer = None
        /\ r.wi = ring[y].wi /\ r.ri = ring[y].ri
    BY <2>1 DEF Ring!Object
  <2> QED
    BY <1>1, <2>2 DEF RingOK, HoldsLive
<1>3. ring' = [ring EXCEPT ![x] = ring[y], ![y] = r] /\ result' = None /\ ringWild' = ringWild
  BY DEF Ring!Move, RingInv
<1> HIDE DEF r
<1>4. /\ ring' \in [Rings -> Ring!Object \union {None}] /\ ring'[x] = ring[y] /\ ring'[y] = r
      /\ \A u \in Rings : u # x /\ u # y => ring'[u] = ring[u]
  BY <1>1, <1>2, <1>3 DEF RingInv, RingOK
<1>5. \A u \in Rings : ring'[u] # None => RingOK(ring'[u])
  BY <1>1, <1>2, <1>4 DEF RingInv
<1> QED
  BY <1>1, <1>3, <1>4, <1>5 DEF RingInv

LEMMA RingPushes ==
  ASSUME RingInv, NEW x \in Rings, NEW v \in RingValues, Ring!PushBack(x, v)
  PROVE  /\ RingInv' /\ Ring!Usable(x) /\ ring'[x] # None /\ ring'[x].buffer # None
         /\ Ring!Contents(ring'[x]) = Append(Ring!Contents(ring[x]), v)
<1> DEFINE r == Ring!Roomy(ring[x])
<1> DEFINE q == [r EXCEPT !.buffer[r.wi] = v, !.wi = (@ + 1) % r.capacity]
<1>1. RingOK(ring[x]) /\ ring[x].buffer # None /\ Ring!Usable(x)
  BY UsableIs DEF Ring!PushBack
<1>2. r.capacity <= MaxCapacity /\ IF r.buffer[r.wi] = Raw THEN Ring!Set(x, q) /\ result' = None ELSE Ring!Wild
  BY DEF Ring!PushBack
<1>3. /\ RingOK(r) /\ r.buffer # None /\ Ring!Size(r) < r.capacity - 1
      /\ Ring!Contents(r) = Ring!Contents(ring[x])
  BY <1>1, <1>2, RoomyIs
<1>r. r = Ring!Roomy(ring[x])
  OBVIOUS
<1> HIDE DEF r
<1>4. /\ r.buffer[r.wi] = Raw /\ RingOK(q) /\ q.buffer # None
      /\ Ring!Contents(q) = Append(Ring!Contents(r), v)
  BY <1>3, PushIs
<1>5. Ring!Set(x, q) /\ result' = None
  BY <1>2, <1>4
<1> HIDE DEF q
<1>6. RingInv' /\ ring'[x] = q
  BY <1>4, <1>5, RingChanges
<1>7. q # None
  BY <1>4, RingConstants DEF RingOK
<1> QED
  BY <1>1, <1>3, <1>4, <1>6, <1>7

LEMMA RingPops ==
  ASSUME RingInv, NEW x \in Rings, Ring!PopFront(x)
  PROVE  /\ RingInv' /\ Ring!Usable(x) /\ ring'[x] # None /\ ring'[x].buffer # None
         /\ Ring!Contents(ring'[x]) = Tail(Ring!Contents(ring[x]))
         /\ result' = Head(Ring!Contents(ring[x]))
<1> DEFINE r == ring[x]
<1> DEFINE q == [r EXCEPT !.buffer[r.ri] = Raw, !.ri = (@ + 1) % r.capacity]
<1>1. RingOK(r) /\ r.buffer # None /\ Ring!Usable(x)
  BY UsableIs DEF Ring!PopFront
<1>2. Ring!Size(r) # 0 /\ result' = r.buffer[r.ri] /\ Ring!Set(x, q)
  BY DEF Ring!PopFront
<1>3. r = ring[x]
  OBVIOUS
<1> HIDE DEF r
<1>4. RingOK(q) /\ q.buffer # None /\ Ring!Contents(q) = Tail(Ring!Contents(r))
  BY <1>1, <1>2, PopIs
<1>5. r.buffer[r.ri] = Head(Ring!Contents(r)) /\ r.buffer[r.ri] \in RingValues
  BY <1>1, <1>2, EndsAre
<1> HIDE DEF q
<1>6. RingInv' /\ ring'[x] = q
  BY <1>2, <1>4, <1>5, RingChanges
<1>7. q # None
  BY <1>4, RingConstants DEF RingOK
<1> QED
  BY <1>1, <1>2, <1>3, <1>4, <1>5, <1>6, <1>7

LEMMA RingShowsFront ==
  ASSUME RingInv, NEW x \in Rings, Ring!Front(x)
  PROVE  /\ RingInv' /\ Ring!Usable(x) /\ ring' = ring
         /\ result' = Head(Ring!Contents(ring[x]))
<1>1. RingOK(ring[x]) /\ ring[x].buffer # None /\ Ring!Usable(x)
  BY UsableIs DEF Ring!Front
<1>2. /\ Ring!Size(ring[x]) # 0 /\ result' = ring[x].buffer[ring[x].ri]
      /\ ring' = ring /\ ringWild' = ringWild
  BY DEF Ring!Front
<1>3. result' = Head(Ring!Contents(ring[x])) /\ result' \in RingValues
  BY <1>1, <1>2, EndsAre
<1> QED
  BY <1>1, <1>2, <1>3 DEF RingInv

LEMMA RingShowsBack ==
  ASSUME RingInv, NEW x \in Rings, Ring!Back(x)
  PROVE  /\ RingInv' /\ Ring!Usable(x)
         /\ ~ringWild' => /\ ring' = ring
                          /\ result' = Ring!Contents(ring[x])[Len(Ring!Contents(ring[x]))]
<1>1. RingOK(ring[x]) /\ ring[x].buffer # None /\ Ring!Usable(x)
  BY UsableIs DEF Ring!Back
<1>2. CASE ring[x].wi = 0
  <2>1. Ring!Wild
    BY <1>2 DEF Ring!Back
  <2> QED
    BY <1>1, <2>1, WildKeepsInv DEF Ring!Wild
<1>3. CASE ring[x].wi # 0
  <2>1. /\ Ring!Size(ring[x]) # 0 /\ result' = ring[x].buffer[ring[x].wi - 1]
        /\ ring' = ring /\ ringWild' = ringWild
    BY <1>3 DEF Ring!Back
  <2>2. /\ result' = Ring!Contents(ring[x])[Len(Ring!Contents(ring[x]))]
        /\ result' \in RingValues
    BY <1>1, <1>3, <2>1, EndsAre
  <2> QED
    BY <1>1, <2>1, <2>2 DEF RingInv
<1> QED
  BY <1>2, <1>3

LEMMA RingNextKeepsInv == ASSUME RingInv, [Ring!Next]_(Ring!vars) PROVE RingInv'
<1>1. ASSUME NEW x \in Rings, NEW c \in Capacities, Ring!Construct(x, c) PROVE RingInv'
  BY <1>1, ConstructKeepsRing
<1>2. ASSUME NEW x \in Rings, NEW y \in Rings, Ring!Copy(x, y) \/ Ring!Move(x, y) PROVE RingInv'
  BY <1>2, RingCopies, RingMoves
<1>3. ASSUME NEW x \in Rings, NEW v \in RingValues, Ring!PushBack(x, v) PROVE RingInv'
  BY <1>3, RingPushes
<1>4. ASSUME NEW x \in Rings, Ring!Destroy(x) PROVE RingInv'
  BY <1>4, RingChanges DEF Ring!Destroy
<1>5. ASSUME NEW x \in Rings, Ring!PopFront(x) \/ Ring!Back(x) \/ Ring!Front(x) PROVE RingInv'
  BY <1>5, RingPops, RingShowsBack, RingShowsFront
<1>6. ASSUME NEW x \in Rings, Ring!TryPopNothing(x) PROVE RingInv'
  BY <1>6 DEF Ring!TryPopNothing, RingInv
<1>7. CASE UNCHANGED Ring!vars
  BY <1>7 DEF Ring!vars, RingInv
<1> QED
  BY <1>1, <1>2, <1>3, <1>4, <1>5, <1>6, <1>7 DEF Ring!Next

(* What the call of an object does to its contents. *)
LEMMA RingActs ==
  ASSUME RingInv, NEW x \in Rings, ~ringWild'
  PROVE  LET old == Ring!Seq0(x)
             new == Ring!Seq0(x)'
         IN  /\ \A v \in RingValues : Ring!PushBack(x, v) => new = Append(old, v)
             /\ Ring!PopFront(x) => new = Tail(old) /\ result' = Head(old)
             /\ \A y \in Rings : Ring!Copy(x, y) \/ Ring!Move(x, y) => new = Ring!Seq0(y)
             /\ Ring!Front(x) => new = old /\ result' = Head(old)
             /\ Ring!Back(x) => new = old /\ result' = old[Len(old)]
<1>1. Ring!Usable(x) => Ring!Seq0(x) = Ring!Contents(ring[x])
  BY DEF Ring!Seq0
<1>2. ring'[x] # None /\ ring'[x].buffer # None => Ring!Seq0(x)' = Ring!Contents(ring'[x])
  BY DEF Ring!Seq0, Ring!Usable
<1>3. ring' = ring => Ring!Seq0(x)' = Ring!Seq0(x)
  BY DEF Ring!Seq0, Ring!Usable
<1>4. ASSUME NEW v \in RingValues, Ring!PushBack(x, v)
      PROVE  Ring!Seq0(x)' = Append(Ring!Seq0(x), v)
  BY <1>1, <1>2, <1>4, RingPushes
<1>5. ASSUME Ring!PopFront(x)
      PROVE  Ring!Seq0(x)' = Tail(Ring!Seq0(x)) /\ result' = Head(Ring!Seq0(x))
  BY <1>1, <1>2, <1>5, RingPops
<1>6. ASSUME NEW y \in Rings, Ring!Copy(x, y) \/ Ring!Move(x, y)
      PROVE  Ring!Seq0(x)' = Ring!Seq0(y)
  <2>1. ring'[x] = ring[y] /\ Ring!Usable(y)
    BY <1>6, RingCopies, RingMoves
  <2> QED
    BY <1>2, <2>1 DEF Ring!Seq0, Ring!Usable
<1>7. ASSUME Ring!Front(x) PROVE Ring!Seq0(x)' = Ring!Seq0(x) /\ result' = Head(Ring!Seq0(x))
  BY <1>1, <1>3, <1>7, RingShowsFront
<1>8. ASSUME Ring!Back(x)
      PROVE  Ring!Seq0(x)' = Ring!Seq0(x) /\ result' = Ring!Seq0(x)[Len(Ring!Seq0(x))]
  BY <1>1, <1>3, <1>8, RingShowsBack
<1> QED
  BY <1>4, <1>5, <1>6, <1>7, <1>8

LEMMA RingInvIsEnough == ASSUME RingInv PROVE Ring!TypeOK /\ Ring!LiveCells
<1>1. ASSUME NEW x \in Rings, ring[x] # None PROVE Ring!IsRing(ring[x])
  <2>1. RingOK(ring[x])
    BY <1>1 DEF RingInv
  <2> QED
    BY <2>1, RingNumbers DEF RingOK, HoldsLive, Ring!IsRing
<1>2. ASSUME NEW x \in Rings, Ring!Usable(x), NEW i \in 0 .. ring[x].capacity - 1
      PROVE  ring[x].buffer[Ring!Place(ring[x], i)] # Raw <=> i < Ring!Size(ring[x])
  <2>1. RingOK(ring[x]) /\ ring[x].buffer # None
    BY <1>2, UsableIs
  <2> QED
    BY <1>2, <2>1, PlaceIs, LivePlaces DEF RingOK, HoldsLive
<1> QED
  BY <1>1, <1>2 DEF RingInv, Ring!TypeOK, Ring!LiveCells

LEMMA RingIsItself == PartsSpec => Ring!Spec
<1>1. PartsInit => Ring!Init
  BY DEF PartsInit
<1>2. [PartsNext]_partsVars => [Ring!Next]_(Ring!vars)
  BY DEF PartsNext, FlagNext, RingNext, SingletonNext, MapNext, HandleNext,
     FunctorNext, TextNext, ChecksumNext, LoopNext, CallsNext, partsVars, ringVars, Ring!vars
<1> QED
  BY <1>1, <1>2, PTL DEF PartsSpec, Ring!Spec

(* However rings are filled, emptied, copied and moved, wrap and double: the *)
(* live cells are those between the indices (184-221), and every call does   *)
(* to them what it would do to a queue, up to the first call of a copy       *)
(* constructor or of back() that is undefined.                               *)
THEOREM RingStaysQueue == PartsSpec => RingIsQueue
<1>1. Ring!Init => RingInv
  BY DEF Ring!Init, RingInv
<1>2. RingInv /\ [Ring!Next]_(Ring!vars) => RingInv'
  BY RingNextKeepsInv
<1>3. RingInv => Ring!TypeOK /\ Ring!LiveCells
  BY RingInvIsEnough
<1>4. RingInv /\ [Ring!Next]_(Ring!vars) =>
        [~ringWild' => \A x \in Rings :
           LET old == Ring!Seq0(x)
               new == Ring!Seq0(x)'
           IN  /\ \A v \in RingValues : Ring!PushBack(x, v) => new = Append(old, v)
               /\ Ring!PopFront(x) => new = Tail(old) /\ result' = Head(old)
               /\ \A y \in Rings : Ring!Copy(x, y) \/ Ring!Move(x, y) => new = Ring!Seq0(y)
               /\ Ring!Front(x) => new = old /\ result' = Head(old)
               /\ Ring!Back(x) => new = old /\ result' = old[Len(old)]]_(Ring!vars)
  BY RingActs
<1>5. Ring!Spec => [](Ring!TypeOK /\ Ring!LiveCells) /\ Ring!ActsAsQueue
  BY <1>1, <1>2, <1>3, <1>4, PTL DEF Ring!Spec, Ring!ActsAsQueue
<1> QED
  BY <1>5, RingIsItself DEF RingIsQueue, Ring!RingIsQueue
------------------------------------------------------------------------------
(* The map of buckets. *)

(* What the cells of a depth and the records of the threads can be.         *)
MapPoints == {"idle", "seek", "make", "swap", "found"}
Arrays(d) == [Map!Cells(d) -> IF d = Depth - 1 THEN Values \union {Raw} ELSE Nodes \union {None}]
AnyArray == UNION { Arrays(d) : d \in Map!Depths }
Finder == [at : MapPoints, key : Keys \union {None}, value : Values \union {None},
           had : BOOLEAN, node : Nodes \union {None}, depth : Map!Depths,
           own : Nodes \union {None}]

MapTypes ==
  /\ bucket \in [Nodes -> AnyArray \union {None}] /\ buckets \in Nodes
  /\ thread \in [MapThreads -> Finder]
  /\ \A t \in MapThreads : thread[t].at = "idle" => thread[t] = Map!Idle
  /\ mapLife \in {"live", "cleared", "destroyed", "wild"}
  /\ written \in [Keys -> Values \union {None}]

(* The path of each key: a bucket, or None, at each depth. *)
Paths == [Keys -> [Map!Depths -> Nodes \union {None}]]

FollowsCells(path) == \A key \in Keys :
  /\ path[key][0] = buckets
  /\ \A d \in 0 .. Depth - 2 :
       path[key][d + 1] = IF path[key][d] = None THEN None
                          ELSE bucket[path[key][d]][Map!Index(key, d)]

(* Nothing is below a bucket but on the path of a key. *)
CellsAreFollowed(path) == \A key \in Keys, d \in 0 .. Depth - 2 : path[key][d] # None =>
  \A i \in Map!Cells(d) : bucket[path[key][d]][i] # None =>
    \E k \in Keys : path[k][d] = path[key][d] /\ Map!Index(k, d) = i

(* Paths that part do not join again. *)
PathsPart(path) == \A key, k \in Keys, d, e \in Map!Depths :
  path[key][d] = path[k][e] /\ path[key][d] # None =>
    d = e /\ \A c \in 0 .. d - 1 : Map!Index(key, c) = Map!Index(k, c)

(* A path has no gap. *)
PathsGoOn(path) == \A key \in Keys, d \in Map!Depths :
  path[key][d] # None => \A c \in 0 .. d - 1 : path[key][c] # None

(* A bucket on a path has the cells of its depth.                           *)
BucketsFit(path) == \A key \in Keys, d \in Map!Depths :
  path[key][d] # None => bucket[path[key][d]] \in Arrays(d)

(* A bucket that is not swapped in yet is its thread's alone, and empty. *)
OwnsApart(path) == \A t \in MapThreads : thread[t].own # None =>
  /\ bucket[thread[t].own] = Map!NewBucket(thread[t].depth + 1)
  /\ \A key \in Keys, d \in Map!Depths : path[key][d] # thread[t].own
  /\ \A u \in MapThreads : u # t => thread[u].own # thread[t].own

(* What is allocated is on a path, or about to be.                          *)
AllHeld(path) == \A n \in Nodes : bucket[n] # None =>
  \/ \E key \in Keys, d \in Map!Depths : path[key][d] = n
  \/ \E t \in MapThreads : thread[t].own = n

(* A search is on its key's path, and does not end before a key that was    *)
(* there when it began.                                                     *)
Finds(path, f) ==
  /\ f.key \in Keys
  /\ f.node # None => f.node = path[f.key][f.depth]
  /\ f.node = None => f.at = "found" /\ f.value = None
  /\ f.at = "seek" => f.value = None
  /\ f.had => f.node # None /\ \A d \in Map!Depths : path[f.key][d] # None
  /\ f.at = "found" /\ f.node # None => f.depth = Depth - 1
  /\ f.at = "swap" => f.own # None /\ f.depth < Depth - 1

FindersFollow(path) == \A t \in MapThreads :
  /\ thread[t].at # "idle" => Finds(path, thread[t])
  /\ thread[t].at # "swap" => thread[t].own = None

(* What was put under a key is in the last bucket of its path.              *)
WrittenIsThere(path) == \A key \in Keys : written[key] # None =>
  /\ \A d \in Map!Depths : path[key][d] # None
  /\ bucket[path[key][Depth - 1]][Map!Index(key, Depth - 1)] = written[key]

MapLives(path) ==
  /\ FollowsCells(path) /\ CellsAreFollowed(path) /\ PathsPart(path) /\ PathsGoOn(path)
  /\ BucketsFit(path) /\ OwnsApart(path) /\ AllHeld(path)
  /\ FindersFollow(path) /\ WrittenIsThere(path)

(* All is freed with the map; where the root is larger, not all.            *)
MapIsOver ==
  /\ \A t \in MapThreads : thread[t] = Map!Idle
  /\ RootSize = IndexSize => bucket = [n \in Nodes |-> None]

(* The inductive invariant. *)
MapInv ==
  /\ MapTypes
  /\ mapLife = "live" => \E path \in Paths : MapLives(path)
  /\ mapLife \in {"cleared", "destroyed"} => MapIsOver
  /\ mapLife = "wild" => \A t \in MapThreads : thread[t].at # "found"

------------------------------------------------------------------------------
(* What the constants give, and a new bucket. *)
LEMMA MapConstants ==
  /\ Depth \in Nat /\ Depth >= 2 /\ 0 \in Map!Depths /\ Depth - 1 \in Map!Depths
  /\ \A d \in 0 .. Depth - 2 : d \in Map!Depths /\ d + 1 \in Map!Depths /\ d # Depth - 1 /\ d \in Int
  /\ \A d \in Map!Depths : d \in Int /\ (d # Depth - 1 => d \in 0 .. Depth - 2)
  /\ \A d \in 0 .. Depth - 2 : d + 1 # 0 /\ d + 1 - 1 = d
  /\ \A d \in Map!Depths : d # 0 => d - 1 \in 0 .. Depth - 2 /\ d - 1 + 1 = d
  /\ None \notin Nodes /\ None \notin Values /\ Raw \notin Values
  /\ Nodes \subseteq Nat /\ Nodes # {} /\ Keys # {}
  /\ \A key \in Keys, d \in Map!Depths : Map!Index(key, d) \in Map!Cells(d)
  /\ \A key, k \in Keys :
       (\A d \in Map!Depths : Map!Index(key, d) = Map!Index(k, d)) => key = k
<1>1. /\ Depth \in Nat \ {0, 1} /\ None \notin Values \union Nodes /\ Raw \notin Values
      /\ Nodes \subseteq Nat /\ Nodes # {} /\ Keys # {}
      /\ \A key \in Keys, d \in Map!Depths : Map!Index(key, d) \in Map!Cells(d)
      /\ \A key, k \in Keys :
           (\A d \in Map!Depths : Map!Index(key, d) = Map!Index(k, d)) => key = k
  BY MapAssumption, Zenon DEF Map!Assumptions
<1>2. Depth \in Nat /\ Depth >= 2
  BY <1>1
<1>3. /\ 0 \in Map!Depths /\ Depth - 1 \in Map!Depths
      /\ \A d \in 0 .. Depth - 2 : d \in Map!Depths /\ d + 1 \in Map!Depths /\ d # Depth - 1 /\ d \in Int
      /\ \A d \in Map!Depths : d \in Int /\ (d # Depth - 1 => d \in 0 .. Depth - 2)
      /\ \A d \in 0 .. Depth - 2 : d + 1 # 0 /\ d + 1 - 1 = d
      /\ \A d \in Map!Depths : d # 0 => d - 1 \in 0 .. Depth - 2 /\ d - 1 + 1 = d
  BY <1>2 DEF Map!Depths
<1> QED
  BY <1>1, <1>2, <1>3

LEMMA NoneIsNoArray == ASSUME NEW d \in Map!Depths PROVE None \notin Arrays(d)
<1>1. None \notin [Map!Cells(d) -> Nodes \union Values \union {None, Raw}]
  BY MapAssumption DEF Map!Assumptions
<1>2. Arrays(d) \subseteq [Map!Cells(d) -> Nodes \union Values \union {None, Raw}]
  BY DEF Arrays
<1> QED
  BY <1>1, <1>2

LEMMA NewBucketFits ==
  ASSUME NEW d \in Map!Depths
  PROVE  /\ Map!NewBucket(d) \in Arrays(d) /\ Map!NewBucket(d) # None
         /\ Map!NewBucket(d) \in AnyArray
         /\ d # Depth - 1 => \A i \in Map!Cells(d) : Map!NewBucket(d)[i] = None
<1>1. Map!NewBucket(d) \in Arrays(d)
  BY DEF Map!NewBucket, Arrays
<1> QED
  BY <1>1, NoneIsNoArray DEF Map!NewBucket, AnyArray

LEMMA SomeLeast == ASSUME NEW S, S \subseteq Nat, S # {} PROVE \E n \in S : \A m \in S : n <= m
<1> DEFINE less == { p \in Nat \X Nat : p[1] < p[2] }
<1>1. IsWellFoundedOn(less, Nat)
  BY NatLessThanWellFounded DEF OpToRel
<1>2. PICK n \in S : \A m \in S : ~(<<m, n>> \in less)
  <2> HIDE DEF less
  <2> QED
    BY <1>1, WFMin
<1>3. \A m \in S : m \in Nat /\ n \in Nat /\ ~(m < n)
  BY <1>2
<1> QED
  BY <1>3

LEMMA FreshIs == ASSUME Nodes # Map!Allocated PROVE Map!Fresh \in Nodes /\ bucket[Map!Fresh] = None
<1>1. Nodes \ Map!Allocated # {} /\ Nodes \ Map!Allocated \subseteq Nat
  BY MapConstants DEF Map!Allocated
<1>2. \E n \in Nodes \ Map!Allocated : \A m \in Nodes \ Map!Allocated : n <= m
  BY <1>1, SomeLeast
<1>3. Map!Fresh \in Nodes \ Map!Allocated
  BY <1>2 DEF Map!Fresh
<1> QED
  BY <1>3 DEF Map!Allocated

------------------------------------------------------------------------------
LEMMA MapInitInv == ASSUME Map!Init PROVE MapInv
<1> DEFINE path == [key \in Keys |-> [d \in Map!Depths |-> IF d = 0 THEN buckets ELSE None]]
<1>0. /\ bucket = [n \in Nodes |-> IF n = buckets THEN Map!NewBucket(0) ELSE None]
      /\ thread = [t \in MapThreads |-> Map!Idle] /\ mapLife = "live"
      /\ written = [k \in Keys |-> None]
  BY DEF Map!Init
<1>1. buckets \in Nodes
  <2>1. \E n \in Nodes : \A m \in Nodes : n <= m
    BY MapConstants, SomeLeast
  <2>2. buckets = CHOOSE n \in Nodes : \A m \in Nodes : n <= m
    BY DEF Map!Init
  <2> QED
    BY <2>1, <2>2
<1>2. Map!Idle \in Finder
  BY MapConstants DEF Map!Idle, Finder, MapPoints
<1>3. MapTypes
  BY <1>0, <1>1, <1>2, MapConstants, NewBucketFits DEF MapTypes
<1>4. path \in Paths
  BY <1>1 DEF Paths
<1>5. \A key \in Keys, d \in Map!Depths : path[key][d] = IF d = 0 THEN buckets ELSE None
  OBVIOUS
<1> HIDE DEF path
<1>6. bucket[buckets] = Map!NewBucket(0) /\ 0 \in Map!Depths /\ buckets # None /\ 0 # Depth - 1
  BY <1>0, <1>1, MapConstants
<1>7. FollowsCells(path)
  BY <1>5, <1>6, NewBucketFits, MapConstants DEF FollowsCells
<1>8. CellsAreFollowed(path)
  BY <1>5, <1>6, NewBucketFits, MapConstants DEF CellsAreFollowed
<1>9. PathsPart(path) /\ PathsGoOn(path)
  BY <1>5, MapConstants DEF PathsPart, PathsGoOn
<1>10. BucketsFit(path)
  BY <1>5, <1>6, NewBucketFits DEF BucketsFit
<1>11. OwnsApart(path) /\ FindersFollow(path)
  BY <1>0 DEF OwnsApart, FindersFollow, Map!Idle
<1>12. AllHeld(path)
  BY <1>0, <1>5, <1>6, MapConstants DEF AllHeld
<1>13. WrittenIsThere(path)
  BY <1>0 DEF WrittenIsThere
<1> QED
  BY <1>0, <1>3, <1>4, <1>7, <1>8, <1>9, <1>10, <1>11, <1>12, <1>13 DEF MapInv, MapLives

(* A step that moves one thread and nothing else. *)
LEMMA FinderMoves ==
  ASSUME NEW path \in Paths, MapTypes, MapLives(path),
         NEW t \in MapThreads, NEW f \in Finder,
         bucket' = bucket, buckets' = buckets, written' = written,
         thread' = [thread EXCEPT ![t] = f],
         thread[t].own = None, f.own = None,
         f.at # "swap", f.at # "idle" => Finds(path, f), f.at = "idle" => f = Map!Idle,
         mapLife' = mapLife
  PROVE  MapTypes' /\ MapLives(path)'
<1>1. thread' \in [MapThreads -> Finder] /\ thread'[t] = f /\ \A u \in MapThreads : u # t => thread'[u] = thread[u]
  BY DEF MapTypes
<1>2. MapTypes'
  BY <1>1 DEF MapTypes, Map!Idle
<1>3. FollowsCells(path)' /\ CellsAreFollowed(path)' /\ PathsPart(path)' /\ PathsGoOn(path)'
      /\ BucketsFit(path)' /\ WrittenIsThere(path)'
  BY DEF MapLives, FollowsCells, CellsAreFollowed, PathsPart, PathsGoOn, BucketsFit, WrittenIsThere
<1>4. \A u \in MapThreads : thread'[u].own = thread[u].own
  BY <1>1
<1>5. \A u \in MapThreads : thread[u].own # None => thread'[u] = thread[u]
  BY <1>1
<1>6. OwnsApart(path)' /\ AllHeld(path)'
  BY <1>4, <1>5 DEF MapLives, OwnsApart, AllHeld
<1>7. FindersFollow(path)'
  BY <1>1 DEF MapLives, FindersFollow, Finds
<1> QED
  BY <1>2, <1>3, <1>6, <1>7 DEF MapLives

(* One level down, a thread keeps what it came with. *)
LEMMA DownIs ==
  ASSUME MapTypes, NEW t \in MapThreads, NEW n \in Nodes \union {None}, NEW at \in MapPoints,
         thread[t].depth + 1 \in Map!Depths, Map!Down(t, n, at)
  PROVE  \E f \in Finder :
           /\ thread' = [thread EXCEPT ![t] = f]
           /\ f.at = at /\ f.key = thread[t].key /\ f.value = thread[t].value
           /\ f.had = thread[t].had /\ f.node = n /\ f.depth = thread[t].depth + 1 /\ f.own = None
<1> DEFINE f == [thread[t] EXCEPT !.at = at, !.node = n, !.depth = thread[t].depth + 1, !.own = None]
<1>1. thread[t] \in Finder
  BY DEF MapTypes
<1>2. /\ f \in Finder /\ f.at = at /\ f.key = thread[t].key /\ f.value = thread[t].value
      /\ f.had = thread[t].had /\ f.node = n /\ f.depth = thread[t].depth + 1 /\ f.own = None
  BY <1>1 DEF Finder
<1>3. thread' = [thread EXCEPT ![t] = f]
  BY DEF Map!Down
<1> HIDE DEF f
<1> QED
  BY <1>2, <1>3

(* What a thread finds in its cell. *)
LEMMA HereIs ==
  ASSUME NEW path \in Paths, MapTypes, MapLives(path), NEW t \in MapThreads,
         thread[t].at \in {"seek", "make", "swap"}
  PROVE  /\ thread[t].key \in Keys /\ thread[t].node \in Nodes
         /\ thread[t].node = path[thread[t].key][thread[t].depth]
         /\ thread[t].depth # Depth - 1 =>
              /\ thread[t].depth \in 0 .. Depth - 2
              /\ Map!Here(t) = path[thread[t].key][thread[t].depth + 1]
              /\ Map!Here(t) \in Nodes \union {None}
<1>1. Finds(path, thread[t]) /\ thread[t].node # None /\ thread[t] \in Finder
  BY DEF MapTypes, MapLives, FindersFollow, Finds
<1>2. thread[t].key \in Keys /\ thread[t].node \in Nodes /\ thread[t].depth \in Map!Depths
      /\ thread[t].node = path[thread[t].key][thread[t].depth]
  BY <1>1 DEF Finds, Finder
<1>3. ASSUME thread[t].depth # Depth - 1
      PROVE  /\ thread[t].depth \in 0 .. Depth - 2
             /\ Map!Here(t) = path[thread[t].key][thread[t].depth + 1]
             /\ Map!Here(t) \in Nodes \union {None}
  <2>1. thread[t].depth \in 0 .. Depth - 2 /\ thread[t].depth + 1 \in Map!Depths
    BY <1>2, <1>3, MapConstants
  <2>2. Map!Here(t) = path[thread[t].key][thread[t].depth + 1]
    BY <1>1, <1>2, <2>1 DEF MapLives, FollowsCells, Map!Here
  <2> QED
    BY <1>2, <2>1, <2>2 DEF Paths
<1> QED
  BY <1>2, <1>3

------------------------------------------------------------------------------
LEMMA CalledKeepsInv ==
  ASSUME MapInv, NEW t \in MapThreads, NEW key \in Keys, NEW value \in Values \union {None},
         NEW at \in {"seek", "make"}, at = "seek" => value = None, Map!Called(t, key, value, at)
  PROVE  MapInv'
<1> DEFINE had == written[key] # None
<1> DEFINE f == [Map!Idle EXCEPT !.at = at, !.key = key, !.value = value,
                                 !.had = had, !.node = buckets]
<1>1. /\ thread[t] = Map!Idle /\ thread' = [thread EXCEPT ![t] = f]
      /\ bucket' = bucket /\ buckets' = buckets /\ written' = written
      /\ mapLife' = IF mapLife = "live" THEN mapLife ELSE "wild"
      /\ mapLife \in {"live", "cleared"}
  BY DEF Map!Called
<1>2. /\ MapTypes /\ f \in Finder /\ f.at = at /\ f.key = key /\ f.value = value
      /\ f.had = had /\ f.node = buckets /\ f.depth = 0 /\ f.own = None
  <2>1. MapTypes /\ buckets \in Nodes /\ at \in MapPoints /\ had \in BOOLEAN
    BY DEF MapInv, MapTypes, MapPoints
  <2>2. f = [Map!Idle EXCEPT !.at = at, !.key = key, !.value = value, !.had = had, !.node = buckets]
    OBVIOUS
  <2> HIDE DEF f, had
  <2>3. /\ f \in Finder /\ f.at = at /\ f.key = key /\ f.value = value
        /\ f.had = had /\ f.node = buckets /\ f.depth = 0 /\ f.own = None
    <3>1. Map!Idle \in Finder /\ Map!Idle.depth = 0 /\ Map!Idle.own = None
      BY MapConstants DEF Map!Idle, Finder, MapPoints
    <3> QED
      BY <2>1, <2>2, <3>1 DEF Finder
  <2> QED
    BY <2>1, <2>3
<1>h. had <=> written[key] # None
  OBVIOUS
<1> HIDE DEF f, had
<1>3. CASE mapLife = "live"
  <2>1. PICK path \in Paths : MapLives(path)
    BY <1>3 DEF MapInv
  <2>2. Finds(path, f)
    <3>1. buckets # None
      BY <1>2, MapConstants DEF MapTypes
    <3>2. path[key][0] = buckets /\ (written[key] # None => \A d \in Map!Depths : path[key][d] # None)
      BY <2>1 DEF MapLives, FollowsCells, WrittenIsThere
    <3> QED
      BY <1>2, <1>h, <3>1, <3>2 DEF Finds
  <2>3. MapTypes' /\ MapLives(path)'
    <3>1. thread[t].own = None /\ mapLife' = mapLife
      BY <1>1, <1>3 DEF Map!Idle
    <3> QED
      BY <1>1, <1>2, <2>1, <2>2, <3>1, FinderMoves
  <2> QED
    BY <1>1, <1>3, <2>3 DEF MapInv
<1>4. CASE mapLife = "cleared"
  <2>1. thread' \in [MapThreads -> Finder] /\ thread'[t] = f /\ \A u \in MapThreads : u # t => thread'[u] = thread[u]
    BY <1>1, <1>2 DEF MapTypes
  <2>2. \A u \in MapThreads : thread'[u].at # "found"
    BY <1>2, <1>4, <2>1 DEF MapInv, MapIsOver, Map!Idle
  <2>3. MapTypes'
    BY <1>1, <1>2, <1>4, <2>1 DEF MapTypes, Map!Idle
  <2> QED
    BY <1>1, <1>4, <2>2, <2>3 DEF MapInv
<1> QED
  BY <1>1, <1>3, <1>4

(* Whoever is inside is so while the map lives, or in undefined behaviour.  *)
LEMMA MapLivesOn ==
  ASSUME MapInv, mapLife # "wild", NEW t \in MapThreads, thread[t].at # "idle"
  PROVE  mapLife = "live" /\ \E path \in Paths : MapLives(path)
BY DEF MapInv, MapTypes, MapIsOver, Map!Idle

LEMMA SeekKeepsInv ==
  ASSUME MapInv, mapLife # "wild", NEW t \in MapThreads, Map!Seek(t)
  PROVE  MapInv'
<1>1. /\ thread[t].at = "seek" /\ buckets' = buckets /\ mapLife' = mapLife
      /\ bucket' = bucket /\ written' = written
  BY DEF Map!Seek, Map!Stay
<1>2. mapLife = "live" /\ MapTypes
  BY <1>1, MapLivesOn DEF MapInv
<1>3. PICK path \in Paths : MapLives(path)
  BY <1>1, MapLivesOn
<1>4. Finds(path, thread[t]) /\ thread[t].own = None /\ thread[t] \in Finder
  BY <1>1, <1>2, <1>3 DEF MapTypes, MapLives, FindersFollow
<1>5. /\ thread[t].key \in Keys /\ thread[t].node \in Nodes
      /\ thread[t].node = path[thread[t].key][thread[t].depth]
      /\ thread[t].depth # Depth - 1 =>
           /\ thread[t].depth \in 0 .. Depth - 2
           /\ Map!Here(t) = path[thread[t].key][thread[t].depth + 1]
           /\ Map!Here(t) \in Nodes \union {None}
  BY <1>1, <1>2, <1>3, HereIs
<1>6. ASSUME NEW f \in Finder, thread' = [thread EXCEPT ![t] = f], Finds(path, f),
             f.at \in {"seek", "found"}, f.own = None
      PROVE  MapInv'
  <2>1. MapTypes' /\ MapLives(path)'
    BY <1>1, <1>2, <1>3, <1>4, <1>6, FinderMoves
  <2> QED
    BY <1>1, <1>2, <2>1 DEF MapInv
<1>7. CASE thread[t].depth = Depth - 1
  <2> DEFINE f == [thread[t] EXCEPT !.at = "found"]
  <2>1. thread' = [thread EXCEPT ![t] = f]
    BY <1>7, <1>2 DEF Map!Seek, MapTypes
  <2>2. /\ f \in Finder /\ f.at = "found" /\ f.own = None /\ f.key = thread[t].key /\ f.node = thread[t].node
        /\ f.depth = thread[t].depth /\ f.had = thread[t].had /\ f.value = thread[t].value
    BY <1>4 DEF Finder, MapPoints
  <2>3. Finds(path, f)
    BY <1>4, <1>5, <1>7, <2>2, MapConstants DEF Finds
  <2> HIDE DEF f
  <2> QED
    BY <1>6, <2>1, <2>2, <2>3
<1>8. CASE thread[t].depth # Depth - 1
  <2> DEFINE at == IF Map!Here(t) = None THEN "found" ELSE "seek"
  <2>1. thread[t].depth + 1 \in Map!Depths
    BY <1>5, <1>8, MapConstants
  <2>2. PICK f \in Finder :
          /\ thread' = [thread EXCEPT ![t] = f]
          /\ f.at = at /\ f.key = thread[t].key /\ f.value = thread[t].value
          /\ f.had = thread[t].had /\ f.node = Map!Here(t)
          /\ f.depth = thread[t].depth + 1 /\ f.own = None
    <3>1. Map!Down(t, Map!Here(t), at)
      BY <1>8 DEF Map!Seek
    <3>2. Map!Here(t) \in Nodes \union {None} /\ at \in MapPoints
      BY <1>5, <1>8 DEF MapPoints
    <3> QED
      BY <1>2, <2>1, <3>1, <3>2, DownIs
  <2>4. thread[t].had => Map!Here(t) # None /\ \A d \in Map!Depths : path[thread[t].key][d] # None
    BY <1>4, <1>5, <1>8, <2>1 DEF Finds
  <2>5. thread[t].value = None
    BY <1>1, <1>4 DEF Finds
  <2>6. Finds(path, f)
    BY <1>4, <1>5, <1>8, <2>2, <2>4, <2>5, MapConstants DEF Finds
  <2> QED
    BY <1>6, <2>2, <2>6
<1> QED
  BY <1>7, <1>8

------------------------------------------------------------------------------
(* What is on no path may change. *)
LEMMA PathsAreFramed ==
  ASSUME NEW path \in Paths, MapTypes, MapLives(path), buckets' = buckets, written' = written,
         \A key \in Keys, d \in Map!Depths :
           path[key][d] # None => bucket'[path[key][d]] = bucket[path[key][d]]
  PROVE  /\ FollowsCells(path)' /\ CellsAreFollowed(path)' /\ PathsPart(path)' /\ PathsGoOn(path)'
         /\ BucketsFit(path)' /\ WrittenIsThere(path)'
<1>1. FollowsCells(path)' /\ CellsAreFollowed(path)'
  <2>1. \A key \in Keys, d \in 0 .. Depth - 2 :
          path[key][d] # None => bucket'[path[key][d]] = bucket[path[key][d]]
    BY MapConstants
  <2> QED
    BY <2>1 DEF MapLives, FollowsCells, CellsAreFollowed
<1>2. PathsPart(path)' /\ PathsGoOn(path)' /\ BucketsFit(path)'
  BY DEF MapLives, PathsPart, PathsGoOn, BucketsFit
<1>3. WrittenIsThere(path)'
  BY MapConstants DEF MapLives, WrittenIsThere
<1> QED
  BY <1>1, <1>2, <1>3

LEMMA MakeKeepsInv ==
  ASSUME MapInv, mapLife # "wild", NEW t \in MapThreads, Map!Make(t)
  PROVE  MapInv'
<1>1. thread[t].at = "make" /\ buckets' = buckets /\ mapLife' = mapLife /\ written' = written
  BY DEF Map!Make, Map!Stay
<1>2. mapLife = "live" /\ MapTypes
  BY <1>1, MapLivesOn DEF MapInv
<1>3. PICK path \in Paths : MapLives(path)
  BY <1>1, MapLivesOn
<1>4. Finds(path, thread[t]) /\ thread[t].own = None /\ thread[t] \in Finder
  BY <1>1, <1>2, <1>3 DEF MapTypes, MapLives, FindersFollow
<1>5. /\ thread[t].key \in Keys /\ thread[t].node \in Nodes
      /\ thread[t].node = path[thread[t].key][thread[t].depth]
      /\ thread[t].depth # Depth - 1 =>
           /\ thread[t].depth \in 0 .. Depth - 2
           /\ Map!Here(t) = path[thread[t].key][thread[t].depth + 1]
           /\ Map!Here(t) \in Nodes \union {None}
  BY <1>1, <1>2, <1>3, HereIs
<1>6. ASSUME NEW f \in Finder, thread' = [thread EXCEPT ![t] = f], Finds(path, f),
             f.at \in {"make", "found"}, f.own = None, bucket' = bucket
      PROVE  MapInv'
  <2>1. MapTypes' /\ MapLives(path)'
    BY <1>1, <1>2, <1>3, <1>4, <1>6, FinderMoves
  <2> QED
    BY <1>1, <1>2, <2>1 DEF MapInv
<1>7. ASSUME thread[t].depth = Depth - 1, thread' = [thread EXCEPT ![t].at = "found"], bucket' = bucket
      PROVE  MapInv'
  <2> DEFINE f == [thread[t] EXCEPT !.at = "found"]
  <2>1. thread' = [thread EXCEPT ![t] = f]
    BY <1>7
  <2>2. /\ f \in Finder /\ f.at = "found" /\ f.own = None /\ f.key = thread[t].key /\ f.node = thread[t].node
        /\ f.depth = thread[t].depth /\ f.had = thread[t].had /\ f.value = thread[t].value
    BY <1>4 DEF Finder, MapPoints
  <2>3. Finds(path, f)
    BY <1>4, <1>5, <1>7, <2>2, MapConstants DEF Finds
  <2> HIDE DEF f
  <2> QED
    BY <1>6, <1>7, <2>1, <2>2, <2>3
<1>8. ASSUME thread[t].depth < Depth - 1, Map!Here(t) # None,
             Map!Down(t, Map!Here(t), "make"), bucket' = bucket
      PROVE  MapInv'
  <2>0. thread[t].depth # Depth - 1
    BY <1>8, MapConstants
  <2>1. thread[t].depth + 1 \in Map!Depths
    BY <1>5, <2>0, MapConstants
  <2>2. PICK f \in Finder :
          /\ thread' = [thread EXCEPT ![t] = f]
          /\ f.at = "make" /\ f.key = thread[t].key /\ f.value = thread[t].value
          /\ f.had = thread[t].had /\ f.node = Map!Here(t)
          /\ f.depth = thread[t].depth + 1 /\ f.own = None
    <3>1. Map!Here(t) \in Nodes \union {None} /\ "make" \in MapPoints
      BY <1>5, <2>0 DEF MapPoints
    <3> QED
      BY <1>2, <1>8, <2>1, <3>1, DownIs
  <2>3. Finds(path, f)
    BY <1>4, <1>5, <1>8, <2>0, <2>2 DEF Finds
  <2> QED
    BY <1>6, <1>8, <2>2, <2>3
<1>9. ASSUME thread[t].depth < Depth - 1, Nodes # Map!Allocated,
             thread' = [thread EXCEPT ![t].at = "swap", ![t].own = Map!Fresh],
             bucket' = [bucket EXCEPT ![Map!Fresh] = Map!NewBucket(thread[t].depth + 1)]
      PROVE  MapInv'
  <2> DEFINE n == Map!Fresh
  <2> DEFINE f == [thread[t] EXCEPT !.at = "swap", !.own = n]
  <2>0. n \in Nodes /\ bucket[n] = None
    BY <1>9, FreshIs
  <2>1. thread[t].depth \in Map!Depths /\ thread[t].depth # Depth - 1 /\ thread[t].depth + 1 \in Map!Depths
        /\ thread[t].depth + 1 # 0
    <3>1. thread[t].depth # Depth - 1
      BY <1>9, MapConstants
    <3> QED
      BY <1>5, <3>1, MapConstants
  <2>2. thread' = [thread EXCEPT ![t] = f]
    BY <1>2, <1>9 DEF MapTypes
  <2> HIDE DEF n
  <2>3. /\ f \in Finder /\ f.at = "swap" /\ f.own = n /\ f.key = thread[t].key /\ f.node = thread[t].node
        /\ f.depth = thread[t].depth /\ f.had = thread[t].had /\ f.value = thread[t].value
    BY <1>4, <2>0 DEF Finder, MapPoints
  <2> HIDE DEF f
  <2>4. thread' \in [MapThreads -> Finder] /\ thread'[t] = f /\ \A u \in MapThreads : u # t => thread'[u] = thread[u]
    BY <1>2, <2>2, <2>3 DEF MapTypes
  <2>5. /\ bucket' \in [Nodes -> AnyArray \union {None}]
        /\ bucket'[n] = Map!NewBucket(thread[t].depth + 1)
        /\ \A m \in Nodes : m # n => bucket'[m] = bucket[m]
    BY <1>2, <1>9, <2>0, <2>1, NewBucketFits DEF MapTypes, n
  <2>6. MapTypes'
    BY <1>1, <1>2, <2>3, <2>4, <2>5 DEF MapTypes, Map!Idle
  <2>7. \A key \in Keys, d \in Map!Depths :
          path[key][d] # None => path[key][d] # n /\ bucket'[path[key][d]] = bucket[path[key][d]]
    <3>1. ASSUME NEW key \in Keys, NEW d \in Map!Depths, path[key][d] # None
          PROVE  path[key][d] # n /\ path[key][d] \in Nodes
      BY <1>3, <2>0, <3>1, NoneIsNoArray DEF MapLives, BucketsFit, Paths
    <3> QED
      BY <2>5, <3>1
  <2>8. /\ FollowsCells(path)' /\ CellsAreFollowed(path)' /\ PathsPart(path)' /\ PathsGoOn(path)'
        /\ BucketsFit(path)' /\ WrittenIsThere(path)'
    BY <1>1, <1>2, <1>3, <2>7, PathsAreFramed
  <2>9. n # None /\ \A key \in Keys, d \in Map!Depths : path[key][d] # n
    BY <2>0, <2>7, MapConstants
  <2>10. ASSUME NEW u \in MapThreads, u # t, thread[u].own # None PROVE thread[u].own # n /\ thread[u].own \in Nodes
    <3>1. bucket[thread[u].own] = Map!NewBucket(thread[u].depth + 1) /\ thread[u].own \in Nodes
      BY <1>2, <1>3, <2>10 DEF MapLives, OwnsApart, MapTypes, Finder
    <3>2. thread[u].depth + 1 \in Map!Depths
      <4>1. thread[u].at = "swap"
        BY <1>3, <2>10 DEF MapLives, FindersFollow
      <4>2. Finds(path, thread[u]) /\ thread[u] \in Finder
        BY <1>2, <1>3, <4>1 DEF MapLives, FindersFollow, MapTypes
      <4>3. thread[u].depth \in Map!Depths /\ thread[u].depth < Depth - 1
        BY <4>1, <4>2 DEF Finds, Finder
      <4> QED
        BY <4>3, MapConstants
    <3> QED
      BY <2>0, <3>1, <3>2, NewBucketFits
  <2>11. OwnsApart(path)'
    <3>1. ASSUME NEW u \in MapThreads, thread'[u].own # None, u # t
          PROVE  /\ bucket'[thread'[u].own] = Map!NewBucket(thread'[u].depth + 1)
                 /\ \A key \in Keys, d \in Map!Depths : path[key][d] # thread'[u].own
                 /\ \A v \in MapThreads : v # u => thread'[v].own # thread'[u].own
      <4>1. thread'[u] = thread[u] /\ thread[u].own # n /\ thread[u].own \in Nodes
        BY <2>4, <2>10, <3>1
      <4>2. \A v \in MapThreads : thread'[v].own = thread[v].own \/ thread'[v].own = n
        BY <2>3, <2>4
      <4> QED
        BY <1>3, <2>5, <3>1, <4>1, <4>2 DEF MapLives, OwnsApart
    <3>2. /\ bucket'[n] = Map!NewBucket(thread'[t].depth + 1)
          /\ \A v \in MapThreads : v # t => thread'[v].own # n
      <4>1. \A v \in MapThreads : v # t => thread'[v].own # n
        BY <2>4, <2>9, <2>10
      <4> QED
        BY <2>3, <2>4, <2>5, <4>1
    <3> QED
      BY <2>3, <2>4, <2>9, <3>1, <3>2 DEF OwnsApart
  <2>12. AllHeld(path)'
    <3>1. ASSUME NEW m \in Nodes, bucket'[m] # None
          PROVE  \/ \E key \in Keys, d \in Map!Depths : path[key][d] = m
                 \/ \E u \in MapThreads : thread'[u].own = m
      <4>1. CASE m = n
        BY <2>3, <2>4, <4>1
      <4>2. CASE m # n
        <5>1. \/ \E key \in Keys, d \in Map!Depths : path[key][d] = m
              \/ \E u \in MapThreads : thread[u].own = m
          BY <1>3, <2>5, <3>1, <4>2 DEF MapLives, AllHeld
        <5>2. thread[t].own # m
          BY <1>4, MapConstants
        <5> QED
          BY <2>4, <5>1, <5>2
      <4> QED
        BY <4>1, <4>2
    <3> QED
      BY <3>1 DEF AllHeld
  <2>13. FindersFollow(path)'
    <3>1. Finds(path, f)
      BY <1>4, <1>5, <1>9, <2>3, <2>9, MapConstants DEF Finds
    <3> QED
      BY <1>3, <2>3, <2>4, <3>1 DEF MapLives, FindersFollow, Finds
  <2>14. MapLives(path)'
    BY <2>8, <2>11, <2>12, <2>13 DEF MapLives
  <2> QED
    BY <1>1, <1>2, <2>6, <2>14 DEF MapInv
<1> QED
  BY <1>7, <1>8, <1>9 DEF Map!Make

------------------------------------------------------------------------------
(* The thread that comes second frees its bucket and goes on in the other.  *)
LEMMA SecondComes ==
  ASSUME NEW path \in Paths, MapTypes, MapLives(path), mapLife = "live", NEW t \in MapThreads,
         thread[t].at = "swap", buckets' = buckets, written' = written, mapLife' = mapLife,
         Map!Here(t) # None, Map!Down(t, Map!Here(t), "make"),
         bucket' = [bucket EXCEPT ![thread[t].own] = None]
  PROVE  MapInv'
<1> DEFINE n == thread[t].own
<1>1. Finds(path, thread[t]) /\ thread[t] \in Finder
  BY DEF MapTypes, MapLives, FindersFollow
<1>2. n \in Nodes /\ n # None /\ thread[t].depth < Depth - 1 /\ thread[t].depth \in Map!Depths
  BY <1>1 DEF Finds, Finder
<1>3. thread[t].depth # Depth - 1 /\ thread[t].depth \in 0 .. Depth - 2 /\ thread[t].depth + 1 \in Map!Depths
  BY <1>2, MapConstants
<1>4. Map!Here(t) = path[thread[t].key][thread[t].depth + 1] /\ Map!Here(t) \in Nodes
  BY <1>3, HereIs
<1>5. PICK f \in Finder :
        /\ thread' = [thread EXCEPT ![t] = f]
        /\ f.at = "make" /\ f.key = thread[t].key /\ f.value = thread[t].value
        /\ f.had = thread[t].had /\ f.node = Map!Here(t)
        /\ f.depth = thread[t].depth + 1 /\ f.own = None
  <2>1. Map!Here(t) \in Nodes \union {None} /\ "make" \in MapPoints
    BY <1>4 DEF MapPoints
  <2> QED
    BY <1>3, <2>1, DownIs
<1>6. thread' \in [MapThreads -> Finder] /\ thread'[t] = f /\ \A u \in MapThreads : u # t => thread'[u] = thread[u]
  BY <1>5 DEF MapTypes
<1> HIDE DEF n
<1>7. /\ bucket' \in [Nodes -> AnyArray \union {None}] /\ bucket'[n] = None
      /\ \A m \in Nodes : m # n => bucket'[m] = bucket[m]
  BY <1>2 DEF MapTypes, n
<1>8. MapTypes'
  BY <1>5, <1>6, <1>7 DEF MapTypes, Map!Idle
<1>9. /\ \A key \in Keys, d \in Map!Depths : path[key][d] # n
      /\ \A u \in MapThreads : u # t => thread[u].own # n
  BY <1>2 DEF MapLives, OwnsApart, n
<1>10. /\ FollowsCells(path)' /\ CellsAreFollowed(path)' /\ PathsPart(path)' /\ PathsGoOn(path)'
       /\ BucketsFit(path)' /\ WrittenIsThere(path)'
  <2>1. \A key \in Keys, d \in Map!Depths : path[key][d] # None => path[key][d] \in Nodes
    BY DEF Paths
  <2>2. \A key \in Keys, d \in Map!Depths : path[key][d] # None => bucket'[path[key][d]] = bucket[path[key][d]]
    BY <1>7, <1>9, <2>1
  <2> QED
    BY <2>2, PathsAreFramed
<1>11. OwnsApart(path)'
  <2>1. ASSUME NEW u \in MapThreads, thread'[u].own # None
        PROVE  /\ bucket'[thread'[u].own] = Map!NewBucket(thread'[u].depth + 1)
               /\ \A key \in Keys, d \in Map!Depths : path[key][d] # thread'[u].own
               /\ \A v \in MapThreads : v # u => thread'[v].own # thread'[u].own
    <3>1. u # t /\ thread'[u] = thread[u] /\ thread[u].own # n /\ thread[u].own \in Nodes
      BY <1>5, <1>6, <1>9, <2>1 DEF Finder
    <3>2. \A v \in MapThreads : thread'[v].own = thread[v].own \/ thread'[v].own = None
      BY <1>5, <1>6
    <3> QED
      BY <1>7, <2>1, <3>1, <3>2 DEF MapLives, OwnsApart
  <2> QED
    BY <2>1 DEF OwnsApart
<1>12. AllHeld(path)'
  <2>1. ASSUME NEW m \in Nodes, bucket'[m] # None
        PROVE  \/ \E key \in Keys, d \in Map!Depths : path[key][d] = m
               \/ \E u \in MapThreads : thread'[u].own = m
    <3>1. m # n
      BY <1>7, <2>1
    <3>2. \/ \E key \in Keys, d \in Map!Depths : path[key][d] = m
          \/ \E u \in MapThreads : thread[u].own = m
      BY <1>7, <2>1, <3>1 DEF MapLives, AllHeld
    <3> QED
      BY <1>6, <3>1, <3>2 DEF n
  <2> QED
    BY <2>1 DEF AllHeld
<1>13. FindersFollow(path)'
  <2>1. Finds(path, f)
    BY <1>1, <1>3, <1>4, <1>5 DEF Finds
  <2> QED
    BY <1>5, <1>6, <2>1 DEF MapLives, FindersFollow, Finds
<1>14. MapLives(path)'
  BY <1>10, <1>11, <1>12, <1>13 DEF MapLives
<1> QED
  BY <1>8, <1>14 DEF MapInv

(* The paths when the thread t has put its bucket into the tree. *)
(* The thread that comes first extends every path through its cell.         *)
Grown(path, t) == [key \in Keys |-> [d \in Map!Depths |->
  IF /\ d = thread[t].depth + 1 /\ path[key][thread[t].depth] = thread[t].node
     /\ Map!Index(key, thread[t].depth) = Map!Index(thread[t].key, thread[t].depth)
  THEN thread[t].own ELSE path[key][d]]]

LEMMA FirstComes ==
  ASSUME NEW path \in Paths, MapTypes, MapLives(path), mapLife = "live", NEW t \in MapThreads,
         thread[t].at = "swap", buckets' = buckets, written' = written, mapLife' = mapLife,
         Map!Here(t) = None, Map!Down(t, thread[t].own, "make"),
         bucket' = [bucket EXCEPT ![thread[t].node][Map!Index(thread[t].key, thread[t].depth)] =
                      thread[t].own]
  PROVE  MapInv'
<1> DEFINE own == thread[t].own
<1> DEFINE n == thread[t].node
<1> DEFINE k == thread[t].key
<1> DEFINE e == thread[t].depth
<1> DEFINE i == Map!Index(k, e)
<1>1. Finds(path, thread[t]) /\ thread[t] \in Finder
  BY DEF MapTypes, MapLives, FindersFollow
<1>2. own \in Nodes /\ own # None /\ e < Depth - 1 /\ e \in Map!Depths
  BY <1>1 DEF Finds, Finder
<1>3. e # Depth - 1 /\ e \in 0 .. Depth - 2 /\ e + 1 \in Map!Depths /\ e \in Nat /\ e + 1 # 0
  BY <1>2, MapConstants DEF Map!Depths
<1>4. /\ k \in Keys /\ n \in Nodes /\ n = path[k][e] /\ n # None /\ path[k][e + 1] = None
      /\ i \in Map!Cells(e) /\ bucket[n] \in Arrays(e) /\ bucket[n][i] = None
  <2>1. k \in Keys /\ n \in Nodes /\ n = path[k][e] /\ Map!Here(t) = path[k][e + 1]
    BY <1>3, HereIs
  <2>2. n # None
    BY <2>1, MapConstants
  <2>3. bucket[n] \in Arrays(e)
    BY <1>2, <2>1, <2>2 DEF MapLives, BucketsFit
  <2>4. bucket[n][i] = None
    BY DEF Map!Here
  <2> QED
    BY <1>2, <2>1, <2>2, <2>3, <2>4, MapConstants
<1>5. PICK f \in Finder :
        /\ thread' = [thread EXCEPT ![t] = f]
        /\ f.at = "make" /\ f.key = k /\ f.value = thread[t].value
        /\ f.had = thread[t].had /\ f.node = own /\ f.depth = e + 1 /\ f.own = None
  <2>1. own \in Nodes \union {None} /\ "make" \in MapPoints
    BY <1>2 DEF MapPoints
  <2>2. PICK f \in Finder :
          /\ thread' = [thread EXCEPT ![t] = f]
          /\ f.at = "make" /\ f.key = thread[t].key /\ f.value = thread[t].value
          /\ f.had = thread[t].had /\ f.node = thread[t].own
          /\ f.depth = thread[t].depth + 1 /\ f.own = None
    <3>1. PICK b \in Nodes : b = thread[t].own
      BY <1>2
    <3>2. Map!Down(t, b, "make") /\ b \in Nodes \union {None} /\ "make" \in MapPoints
          /\ thread[t].depth + 1 \in Map!Depths
      BY <1>3, <2>1, <3>1
    <3>3. \E f \in Finder :
            /\ thread' = [thread EXCEPT ![t] = f]
            /\ f.at = "make" /\ f.key = thread[t].key /\ f.value = thread[t].value
            /\ f.had = thread[t].had /\ f.node = b
            /\ f.depth = thread[t].depth + 1 /\ f.own = None
      BY <3>2, DownIs
    <3> QED
      BY <3>1, <3>3
  <2> QED
    BY <2>2
<1>6. thread' \in [MapThreads -> Finder] /\ thread'[t] = f /\ \A u \in MapThreads : u # t => thread'[u] = thread[u]
  BY <1>5 DEF MapTypes
<1>7. /\ bucket[own] = Map!NewBucket(e + 1)
      /\ \A key \in Keys, d \in Map!Depths : path[key][d] # own
      /\ \A u \in MapThreads : u # t => thread[u].own # own
  BY <1>2 DEF MapLives, OwnsApart
<1>8. own # n
  BY <1>2, <1>4, <1>7
<1>9. PICK grown \in Paths : \A key \in Keys, d \in Map!Depths :
        grown[key][d] = IF d = e + 1 /\ path[key][e] = n /\ Map!Index(key, e) = i THEN own ELSE path[key][d]
  <2> DEFINE g == Grown(path, t)
  <2>1. g \in Paths
    BY <1>2 DEF Grown, Paths
  <2>2. \A key \in Keys, d \in Map!Depths :
          g[key][d] = IF d = e + 1 /\ path[key][e] = n /\ Map!Index(key, e) = i THEN own ELSE path[key][d]
    BY DEF Grown
  <2> QED
    BY <2>1, <2>2
<1>11. /\ bucket'[n] = [bucket[n] EXCEPT ![i] = own]
       /\ \A m \in Nodes : m # n => bucket'[m] = bucket[m]
  BY <1>4 DEF MapTypes
<1> HIDE DEF own, n, k, e, i
<1>12. bucket'[n] \in Arrays(e) /\ bucket'[n] # None
  <2>1. bucket'[n] \in Arrays(e)
    BY <1>2, <1>3, <1>4, <1>11 DEF Arrays
  <2> QED
    BY <1>2, <2>1, NoneIsNoArray
<1>13. bucket' \in [Nodes -> AnyArray \union {None}]
  <2>1. bucket'[n] \in AnyArray
    BY <1>2, <1>12 DEF AnyArray
  <2>2. bucket' = [m \in Nodes |-> bucket'[m]]
    BY DEF MapTypes
  <2>3. \A m \in Nodes : bucket'[m] \in AnyArray \union {None}
    BY <1>11, <2>1 DEF MapTypes
  <2> QED
    BY <2>2, <2>3
<1>14. MapTypes'
  BY <1>5, <1>6, <1>13 DEF MapTypes, Map!Idle
<1>15. /\ bucket'[n][i] = own
       /\ \A j \in Map!Cells(e) : j # i => bucket'[n][j] = bucket[n][j]
  BY <1>4, <1>11 DEF Arrays
<1>16. \A key \in Keys, d \in Map!Depths : path[key][d] = n => d = e
  BY <1>2, <1>4 DEF MapLives, PathsPart
(* A path that goes on through the cell ended there before. *)
<1>17. ASSUME NEW key \in Keys, path[key][e] = n, Map!Index(key, e) = i
       PROVE  path[key][e + 1] = None
  BY <1>3, <1>4, <1>17 DEF MapLives, FollowsCells
<1>18. \A key \in Keys, d \in Map!Depths : path[key][d] # None => grown[key][d] = path[key][d]
  BY <1>9, <1>17
<1>19. \A key \in Keys, d \in Map!Depths : grown[key][d] = own <=>
         d = e + 1 /\ path[key][e] = n /\ Map!Index(key, e) = i
  BY <1>7, <1>9
<1>20. \A key \in Keys, d \in Map!Depths : grown[key][d] # own => grown[key][d] = path[key][d]
  BY <1>9
<1>21. FollowsCells(grown)'
  <2>1. ASSUME NEW key \in Keys PROVE grown[key][0] = buckets'
    BY <1>3, <1>9, MapConstants DEF MapLives, FollowsCells
  <2>2. ASSUME NEW key \in Keys, NEW d \in 0 .. Depth - 2
        PROVE  grown[key][d + 1] = IF grown[key][d] = None THEN None
                                   ELSE bucket'[grown[key][d]][Map!Index(key, d)]
    <3>0. d \in Map!Depths /\ d + 1 \in Map!Depths /\ d \in Int /\ d # Depth - 1
          /\ Map!Index(key, d) \in Map!Cells(d)
      BY MapConstants
    <3>1. path[key][d + 1] = IF path[key][d] = None THEN None
                             ELSE bucket[path[key][d]][Map!Index(key, d)]
      BY DEF MapLives, FollowsCells
    <3>2. CASE grown[key][d] = own
      <4>1. d = e + 1 /\ path[key][d] = None
        BY <1>17, <1>19, <3>0, <3>2
      <4>2. path[key][d + 1] = None /\ grown[key][d + 1] # own
        BY <1>3, <1>19, <3>0, <3>1, <4>1
      <4>3. bucket'[own][Map!Index(key, d)] = None
        BY <1>2, <1>7, <1>8, <1>11, <3>0, <4>1, NewBucketFits
      <4> QED
        BY <1>2, <1>20, <3>0, <3>2, <4>2, <4>3
    <3>3. CASE grown[key][d] # own /\ path[key][d] = n /\ Map!Index(key, d) = i
      <4>1. d = e /\ grown[key][d] = n
        BY <1>16, <1>20, <3>0, <3>3
      <4>2. grown[key][d + 1] = own
        BY <1>19, <3>0, <3>3, <4>1
      <4> QED
        BY <1>4, <1>15, <3>3, <4>1, <4>2
    <3>4. CASE grown[key][d] # own /\ ~(path[key][d] = n /\ Map!Index(key, d) = i)
      <4>1. grown[key][d] = path[key][d]
        BY <1>20, <3>0, <3>4
      <4>2. grown[key][d + 1] = path[key][d + 1]
        <5>1. d + 1 = e + 1 => d = e
          BY <1>3, <3>0
        <5> QED
          BY <1>9, <3>0, <3>4, <5>1
      <4>3. ASSUME path[key][d] # None
            PROVE  bucket'[path[key][d]][Map!Index(key, d)] = bucket[path[key][d]][Map!Index(key, d)]
        <5>1. path[key][d] \in Nodes
          BY <3>0, <4>3 DEF Paths
        <5>2. CASE path[key][d] = n
          BY <1>15, <1>16, <3>0, <3>4, <5>2
        <5> QED
          BY <1>11, <5>1, <5>2
      <4> QED
        BY <3>1, <4>1, <4>2, <4>3
    <3> QED
      BY <3>2, <3>3, <3>4
  <2> QED
    BY <2>1, <2>2 DEF FollowsCells
<1>22. CellsAreFollowed(grown)'
  <2>1. ASSUME NEW key \in Keys, NEW d \in 0 .. Depth - 2, grown[key][d] # None,
               NEW j \in Map!Cells(d), bucket'[grown[key][d]][j] # None
        PROVE  \E h \in Keys : grown[h][d] = grown[key][d] /\ Map!Index(h, d) = j
    <3>0. d \in Map!Depths /\ d + 1 \in Map!Depths /\ d \in Int /\ d # Depth - 1
      BY MapConstants
    <3>1. CASE grown[key][d] = own
      <4>1. d = e + 1
        BY <1>19, <3>0, <3>1
      <4>2. bucket'[own][j] = None
        BY <1>2, <1>7, <1>8, <1>11, <3>0, <4>1, NewBucketFits
      <4> QED
        BY <2>1, <3>1, <4>2
    <3>2. CASE grown[key][d] # own
      <4>1. grown[key][d] = path[key][d] /\ path[key][d] \in Nodes
        BY <1>20, <2>1, <3>0, <3>2 DEF Paths
      <4>2. CASE path[key][d] = n /\ j = i
        <5>1. d = e /\ grown[k][d] = n
          BY <1>2, <1>4, <1>16, <1>18, <3>0, <4>2
        <5> QED
          BY <1>4, <4>1, <4>2, <5>1 DEF i
      <4>3. CASE ~(path[key][d] = n /\ j = i)
        <5>1. bucket[path[key][d]][j] # None
          <6>1. CASE path[key][d] = n
            BY <1>15, <1>16, <2>1, <3>0, <4>1, <4>3, <6>1
          <6>2. CASE path[key][d] # n
            BY <1>11, <2>1, <4>1, <6>2
          <6> QED
            BY <6>1, <6>2
        <5>2. PICK h \in Keys : path[h][d] = path[key][d] /\ Map!Index(h, d) = j
          BY <2>1, <4>1, <5>1 DEF MapLives, CellsAreFollowed
        <5>3. grown[h][d] = path[h][d]
          BY <1>18, <2>1, <3>0, <4>1, <5>2
        <5> QED
          BY <4>1, <5>2, <5>3
      <4> QED
        BY <4>2, <4>3
    <3> QED
      BY <3>1, <3>2
  <2> QED
    BY <2>1 DEF CellsAreFollowed
<1>23. PathsPart(grown)'
  <2>1. ASSUME NEW key \in Keys, NEW h \in Keys, NEW d \in Map!Depths, NEW c \in Map!Depths,
               grown[key][d] = grown[h][c], grown[key][d] # None
        PROVE  d = c /\ \A b \in 0 .. d - 1 : Map!Index(key, b) = Map!Index(h, b)
    <3>1. CASE grown[key][d] = own
      <4>1. /\ d = e + 1 /\ c = e + 1 /\ path[key][e] = n /\ path[h][e] = n
            /\ Map!Index(key, e) = i /\ Map!Index(h, e) = i
        BY <1>19, <2>1, <3>1
      <4>2. \A b \in 0 .. e - 1 : Map!Index(key, b) = Map!Index(h, b)
        BY <1>2, <1>4, <4>1 DEF MapLives, PathsPart
      <4>3. \A b \in 0 .. d - 1 : b = e \/ b \in 0 .. e - 1
        BY <1>3, <4>1
      <4> QED
        BY <4>1, <4>2, <4>3
    <3>2. CASE grown[key][d] # own
      BY <1>20, <2>1, <3>2 DEF MapLives, PathsPart
    <3> QED
      BY <3>1, <3>2
  <2> QED
    BY <2>1 DEF PathsPart
<1>24. PathsGoOn(grown)'
  <2>1. ASSUME NEW key \in Keys, NEW d \in Map!Depths, grown[key][d] # None, NEW c \in 0 .. d - 1
        PROVE  grown[key][c] # None
    <3>0. c \in Map!Depths /\ d \in Int
      BY MapConstants DEF Map!Depths
    <3>1. path[key][c] # None
      <4>1. CASE grown[key][d] = own
        <5>1. d = e + 1 /\ path[key][e] = n
          BY <1>19, <4>1
        <5>2. c = e \/ c \in 0 .. e - 1
          BY <1>3, <5>1
        <5> QED
          BY <1>2, <1>4, <5>1, <5>2 DEF MapLives, PathsGoOn
      <4>2. CASE grown[key][d] # own
        BY <1>20, <2>1, <4>2 DEF MapLives, PathsGoOn
      <4> QED
        BY <4>1, <4>2
    <3> QED
      BY <1>18, <3>0, <3>1
  <2> QED
    BY <2>1 DEF PathsGoOn
<1>25. BucketsFit(grown)'
  <2>1. ASSUME NEW key \in Keys, NEW d \in Map!Depths, grown[key][d] # None
        PROVE  bucket'[grown[key][d]] \in Arrays(d)
    <3>1. CASE grown[key][d] = own
      <4>1. d = e + 1
        BY <1>19, <3>1
      <4> QED
        BY <1>2, <1>7, <1>8, <1>11, <3>1, <4>1, NewBucketFits
    <3>2. CASE grown[key][d] # own
      <4>1. grown[key][d] = path[key][d] /\ path[key][d] \in Nodes
        BY <1>20, <2>1, <3>2 DEF Paths
      <4>2. CASE path[key][d] = n
        BY <1>12, <1>16, <4>1, <4>2
      <4>3. CASE path[key][d] # n
        BY <1>11, <2>1, <4>1, <4>3 DEF MapLives, BucketsFit
      <4> QED
        BY <4>2, <4>3
    <3> QED
      BY <3>1, <3>2
  <2> QED
    BY <2>1 DEF BucketsFit
<1>26. OwnsApart(grown)'
  <2>1. ASSUME NEW u \in MapThreads, thread'[u].own # None
        PROVE  /\ bucket'[thread'[u].own] = Map!NewBucket(thread'[u].depth + 1)
               /\ \A key \in Keys, d \in Map!Depths : grown[key][d] # thread'[u].own
               /\ \A v \in MapThreads : v # u => thread'[v].own # thread'[u].own
    <3>1. u # t /\ thread'[u] = thread[u] /\ thread[u].own # own /\ thread[u].own \in Nodes
      BY <1>5, <1>6, <1>7, <2>1 DEF Finder
    <3>2. \A v \in MapThreads : thread'[v].own = thread[v].own \/ thread'[v].own = None
      BY <1>5, <1>6
    <3>3. /\ bucket[thread[u].own] = Map!NewBucket(thread[u].depth + 1)
          /\ \A key \in Keys, d \in Map!Depths : path[key][d] # thread[u].own
          /\ \A v \in MapThreads : v # u => thread[v].own # thread[u].own
      BY <2>1, <3>1 DEF MapLives, OwnsApart
    <3>4. thread[u].own # n
      BY <1>2, <1>4, <3>3
    <3> QED
      BY <1>11, <1>20, <2>1, <3>1, <3>2, <3>3, <3>4
  <2> QED
    BY <2>1 DEF OwnsApart
<1>27. AllHeld(grown)'
  <2>1. ASSUME NEW m \in Nodes, bucket'[m] # None
        PROVE  \/ \E key \in Keys, d \in Map!Depths : grown[key][d] = m
               \/ \E u \in MapThreads : thread'[u].own = m
    <3>1. CASE m = own
      <4>1. grown[k][e + 1] = own
        BY <1>3, <1>4, <1>19 DEF i
      <4> QED
        BY <1>3, <1>4, <3>1, <4>1
    <3>2. CASE m = n
      <4>1. grown[k][e] = n
        BY <1>2, <1>4, <1>18
      <4> QED
        BY <1>2, <1>4, <3>2, <4>1
    <3>3. CASE m # own /\ m # n
      <4>1. \/ \E key \in Keys, d \in Map!Depths : path[key][d] = m
            \/ \E u \in MapThreads : thread[u].own = m
        BY <1>11, <2>1, <3>3 DEF MapLives, AllHeld
      <4>2. m # None
        BY MapConstants
      <4>3. ASSUME NEW u \in MapThreads, thread[u].own = m PROVE thread'[u].own = m
        BY <1>6, <3>3, <4>3 DEF own
      <4> QED
        BY <1>18, <4>1, <4>2, <4>3
    <3> QED
      BY <3>1, <3>2, <3>3
  <2> QED
    BY <2>1 DEF AllHeld
<1>28. FindersFollow(grown)'
  <2>1. Finds(grown, f)
    <3>1. grown[k][e + 1] = own
      BY <1>3, <1>4, <1>19 DEF i
    <3>2. f.had => \A d \in Map!Depths : grown[k][d] # None
      BY <1>1, <1>5, <1>18 DEF Finds, k
    <3> QED
      BY <1>2, <1>4, <1>5, <3>1, <3>2 DEF Finds
  <2>2. ASSUME NEW u \in MapThreads, thread[u].at # "idle", Finds(path, thread[u])
        PROVE  Finds(grown, thread[u])
    <3>1. thread[u].depth \in Map!Depths
      BY DEF MapTypes, Finder
    <3> QED
      BY <1>18, <2>2, <3>1 DEF Finds
  <2>3. ASSUME NEW u \in MapThreads
        PROVE  /\ thread'[u].at # "idle" => Finds(grown, thread'[u])
               /\ thread'[u].at # "swap" => thread'[u].own = None
    BY <1>5, <1>6, <2>1, <2>2 DEF MapLives, FindersFollow
  <2> QED
    BY <2>3 DEF FindersFollow, Finds
<1>29. WrittenIsThere(grown)'
  <2>1. ASSUME NEW key \in Keys, written[key] # None
        PROVE  /\ \A d \in Map!Depths : grown[key][d] # None
               /\ bucket'[grown[key][Depth - 1]][Map!Index(key, Depth - 1)] = written[key]
    <3>1. /\ \A d \in Map!Depths : path[key][d] # None
          /\ bucket[path[key][Depth - 1]][Map!Index(key, Depth - 1)] = written[key]
      BY <2>1 DEF MapLives, WrittenIsThere
    <3>2. Depth - 1 \in Map!Depths /\ Depth - 1 # e
      BY <1>3, MapConstants
    <3>3. path[key][Depth - 1] \in Nodes /\ path[key][Depth - 1] # n
      BY <1>16, <3>1, <3>2 DEF Paths
    <3> QED
      BY <1>11, <1>18, <3>1, <3>2, <3>3
  <2> QED
    BY <2>1 DEF WrittenIsThere
<1>30. MapLives(grown)'
  BY <1>21, <1>22, <1>23, <1>24, <1>25, <1>26, <1>27, <1>28, <1>29 DEF MapLives
<1> QED
  BY <1>14, <1>30 DEF MapInv

LEMMA SwapKeepsInv ==
  ASSUME MapInv, mapLife # "wild", SwapOperands = "exchange first", NEW t \in MapThreads, Map!Swap(t)
  PROVE  MapInv'
<1> DEFINE i == Map!Index(thread[t].key, thread[t].depth)
<1> DEFINE swapped == [bucket EXCEPT ![thread[t].node][i] = IF @ = None THEN thread[t].own ELSE @]
<1>1. thread[t].at = "swap" /\ buckets' = buckets /\ mapLife' = mapLife /\ written' = written
  BY DEF Map!Swap, Map!Stay
<1>2. mapLife = "live" /\ MapTypes
  BY <1>1, MapLivesOn DEF MapInv
<1>3. PICK path \in Paths : MapLives(path)
  BY <1>1, MapLivesOn
<1>4. \/ /\ Map!Here(t) # None /\ Map!Down(t, Map!Here(t), "make")
         /\ bucket' = [swapped EXCEPT ![thread[t].own] = None]
      \/ /\ Map!Here(t) = None /\ Map!Down(t, thread[t].own, "make")
         /\ bucket' = swapped
  BY DEF Map!Swap
<1>5. thread[t].node \in Nodes
  BY <1>1, <1>2, <1>3, HereIs
<1>6. Map!Here(t) = bucket[thread[t].node][i]
  BY DEF Map!Here
<1>7. CASE Map!Here(t) # None
  <2>1. swapped = bucket
    <3> DEFINE b == bucket[thread[t].node]
    <3>1. b \in Arrays(thread[t].depth)
      <4>1. thread[t].depth \in Map!Depths /\ thread[t].key \in Keys
            /\ thread[t].node = path[thread[t].key][thread[t].depth] /\ thread[t].node # None
        BY <1>1, <1>2, <1>3, HereIs, MapConstants DEF MapTypes, Finder
      <4> QED
        BY <1>3, <4>1 DEF MapLives, BucketsFit
    <3>2. [b EXCEPT ![i] = b[i]] = b
      BY <3>1 DEF Arrays
    <3>3. swapped = [bucket EXCEPT ![thread[t].node] = [b EXCEPT ![i] = b[i]]]
      BY <1>6, <1>7
    <3>4. bucket = [bucket EXCEPT ![thread[t].node] = b]
      BY <1>2, <1>5 DEF MapTypes
    <3> HIDE DEF b, i, swapped
    <3> QED
      BY <3>2, <3>3, <3>4
  <2> HIDE DEF swapped
  <2> QED
    BY <1>1, <1>2, <1>3, <1>4, <1>7, <2>1, SecondComes
<1>8. CASE Map!Here(t) = None
  <2>1. swapped = [bucket EXCEPT ![thread[t].node][i] = thread[t].own]
    BY <1>5, <1>6, <1>8
  <2> HIDE DEF swapped
  <2> QED
    BY <1>1, <1>2, <1>3, <1>4, <1>8, <2>1, FirstComes
<1> QED
  BY <1>7, <1>8

(* Only the paths of one key end in its cell. *)
LEMMA CellsAreKeys ==
  ASSUME NEW path \in Paths, MapLives(path), NEW key \in Keys, NEW k \in Keys,
         path[key][Depth - 1] = path[k][Depth - 1], path[key][Depth - 1] # None,
         Map!Index(key, Depth - 1) = Map!Index(k, Depth - 1)
  PROVE  key = k
<1>1. \A c \in 0 .. Depth - 1 - 1 : Map!Index(key, c) = Map!Index(k, c)
  BY MapConstants DEF MapLives, PathsPart
<1>2. \A c \in Map!Depths : c = Depth - 1 \/ c \in 0 .. Depth - 1 - 1
  BY MapConstants DEF Map!Depths
<1>3. \A c \in Map!Depths : Map!Index(key, c) = Map!Index(k, c)
  BY <1>1, <1>2
<1> QED
  BY <1>3, MapConstants

LEMMA ReturnKeepsInv ==
  ASSUME MapInv, mapLife # "wild", NEW t \in MapThreads, Map!Return(t)
  PROVE  MapInv'
<1> DEFINE k == thread[t].key
<1> DEFINE n == thread[t].node
<1> DEFINE v == thread[t].value
<1> DEFINE i == Map!Index(k, thread[t].depth)
<1>1. /\ thread[t].at = "found" /\ buckets' = buckets /\ mapLife' = mapLife
      /\ thread' = [thread EXCEPT ![t] = Map!Idle]
  BY DEF Map!Return, Map!Stay
<1>2. mapLife = "live" /\ MapTypes
  BY <1>1, MapLivesOn DEF MapInv
<1>3. PICK path \in Paths : MapLives(path)
  BY <1>1, MapLivesOn
<1>4. Finds(path, thread[t]) /\ thread[t].own = None /\ thread[t] \in Finder
  BY <1>1, <1>2, <1>3 DEF MapTypes, MapLives, FindersFollow
<1>5. Map!Idle \in Finder /\ Map!Idle.own = None /\ Map!Idle.at = "idle"
  BY MapConstants DEF Map!Idle, Finder, MapPoints
<1>6. CASE v = None
  <2>1. bucket' = bucket /\ written' = written
    BY <1>6 DEF Map!Return
  <2>2. MapTypes' /\ MapLives(path)'
    BY <1>1, <1>2, <1>3, <1>4, <1>5, <2>1, FinderMoves
  <2> QED
    BY <1>1, <1>2, <2>2 DEF MapInv
<1>7. CASE v # None
  <2>1. bucket' = [bucket EXCEPT ![n][i] = v] /\ written' = [written EXCEPT ![k] = v]
    BY <1>7 DEF Map!Return
  <2>2. k \in Keys /\ n \in Nodes /\ v \in Values /\ thread[t].depth = Depth - 1
        /\ n = path[k][Depth - 1] /\ n # None
    BY <1>1, <1>4, <1>7, MapConstants DEF Finds, Finder
  <2>3. i = Map!Index(k, Depth - 1) /\ i \in Map!Cells(Depth - 1) /\ Depth - 1 \in Map!Depths
    BY <2>2, MapConstants
  <2>4. bucket[n] \in Arrays(Depth - 1)
    BY <1>3, <2>2, <2>3 DEF MapLives, BucketsFit
  <2>5. /\ bucket'[n] = [bucket[n] EXCEPT ![i] = v]
        /\ \A m \in Nodes : m # n => bucket'[m] = bucket[m]
    BY <1>2, <2>1, <2>2 DEF MapTypes
  <2> HIDE DEF k, n, v, i
  <2>6. bucket'[n] \in Arrays(Depth - 1) /\ bucket'[n][i] = v
        /\ \A j \in Map!Cells(Depth - 1) : j # i => bucket'[n][j] = bucket[n][j]
    BY <2>2, <2>3, <2>4, <2>5 DEF Arrays
  <2>7. bucket' \in [Nodes -> AnyArray \union {None}]
    <3>1. bucket'[n] \in AnyArray
      BY <2>3, <2>6 DEF AnyArray
    <3>2. bucket' = [m \in Nodes |-> bucket'[m]]
      BY <1>2, <2>1 DEF MapTypes
    <3>3. \A m \in Nodes : bucket'[m] \in AnyArray \union {None}
      BY <1>2, <2>5, <3>1 DEF MapTypes
    <3> QED
      BY <3>2, <3>3
  <2>8. thread' \in [MapThreads -> Finder] /\ thread'[t] = Map!Idle /\ \A u \in MapThreads : u # t => thread'[u] = thread[u]
    BY <1>1, <1>2, <1>5 DEF MapTypes
  <2>9. written' \in [Keys -> Values \union {None}] /\ written'[k] = v
        /\ \A key \in Keys : key # k => written'[key] = written[key]
    BY <1>2, <2>1, <2>2 DEF MapTypes
  <2>10. MapTypes'
    BY <1>1, <1>2, <2>7, <2>8, <2>9 DEF MapTypes, Map!Idle
  <2>11. \A key \in Keys, d \in Map!Depths : path[key][d] = n => d = Depth - 1
    BY <1>3, <2>2, <2>3 DEF MapLives, PathsPart
  <2>12. \A key \in Keys, d \in Map!Depths : path[key][d] # None => path[key][d] \in Nodes
    BY DEF Paths
  <2>13. \A key \in Keys, d \in 0 .. Depth - 2 : path[key][d] # None => bucket'[path[key][d]] = bucket[path[key][d]]
    BY <2>5, <2>11, <2>12, MapConstants
  <2>14. FollowsCells(path)' /\ CellsAreFollowed(path)' /\ PathsPart(path)' /\ PathsGoOn(path)'
    BY <1>1, <1>3, <2>13 DEF MapLives, FollowsCells, CellsAreFollowed, PathsPart, PathsGoOn
  <2>15. BucketsFit(path)'
    <3>1. ASSUME NEW key \in Keys, NEW d \in Map!Depths, path[key][d] # None
          PROVE  bucket'[path[key][d]] \in Arrays(d)
      <4>1. CASE path[key][d] = n
        BY <2>6, <2>11, <4>1
      <4>2. CASE path[key][d] # n
        BY <1>3, <2>5, <2>12, <3>1, <4>2 DEF MapLives, BucketsFit
      <4> QED
        BY <4>1, <4>2
    <3> QED
      BY <3>1 DEF BucketsFit
  <2>16. OwnsApart(path)'
    <3>1. ASSUME NEW u \in MapThreads, thread'[u].own # None
          PROVE  /\ bucket'[thread'[u].own] = Map!NewBucket(thread'[u].depth + 1)
                 /\ \A key \in Keys, d \in Map!Depths : path[key][d] # thread'[u].own
                 /\ \A w \in MapThreads : w # u => thread'[w].own # thread'[u].own
      <4>1. thread'[u] = thread[u] /\ thread[u].own # None /\ thread[u].own \in Nodes
        BY <1>2, <1>5, <2>8, <3>1 DEF MapTypes, Finder
      <4>2. \A w \in MapThreads : thread'[w].own = thread[w].own
        BY <1>4, <1>5, <2>8
      <4>3. thread[u].own # n
        BY <1>3, <2>2, <2>3, <4>1 DEF MapLives, OwnsApart
      <4> QED
        BY <1>3, <2>5, <4>1, <4>2, <4>3 DEF MapLives, OwnsApart
    <3> QED
      BY <3>1 DEF OwnsApart
  <2>17. AllHeld(path)'
    <3>1. ASSUME NEW m \in Nodes, bucket'[m] # None
          PROVE  \/ \E key \in Keys, d \in Map!Depths : path[key][d] = m
                 \/ \E u \in MapThreads : thread'[u].own = m
      <4>1. CASE m = n
        BY <2>2, <2>3, <4>1
      <4>2. CASE m # n
        <5>1. \/ \E key \in Keys, d \in Map!Depths : path[key][d] = m
              \/ \E u \in MapThreads : thread[u].own = m
          BY <1>3, <2>5, <3>1, <4>2 DEF MapLives, AllHeld
        <5>2. \A u \in MapThreads : thread'[u].own = thread[u].own
          BY <1>4, <1>5, <2>8
        <5> QED
          BY <5>1, <5>2
      <4> QED
        BY <4>1, <4>2
    <3> QED
      BY <3>1 DEF AllHeld
  <2>18. FindersFollow(path)'
    BY <1>3, <1>5, <2>8 DEF MapLives, FindersFollow, Finds
  <2>19. WrittenIsThere(path)'
    <3>1. ASSUME NEW key \in Keys, written'[key] # None
          PROVE  /\ \A d \in Map!Depths : path[key][d] # None
                 /\ bucket'[path[key][Depth - 1]][Map!Index(key, Depth - 1)] = written'[key]
      <4>1. CASE key = k
        <5>1. \A d \in Map!Depths : d = Depth - 1 \/ d \in 0 .. Depth - 1 - 1
          BY MapConstants DEF Map!Depths
        <5>2. \A d \in Map!Depths : path[k][d] # None
          BY <1>3, <2>2, <2>3, <5>1 DEF MapLives, PathsGoOn
        <5> QED
          BY <2>2, <2>3, <2>6, <2>9, <4>1, <5>2
      <4>2. CASE key # k
        <5>1. /\ written[key] # None /\ \A d \in Map!Depths : path[key][d] # None
              /\ bucket[path[key][Depth - 1]][Map!Index(key, Depth - 1)] = written[key]
          BY <1>3, <2>9, <3>1, <4>2 DEF MapLives, WrittenIsThere
        <5>2. path[key][Depth - 1] = n => Map!Index(key, Depth - 1) # i
          BY <1>3, <2>2, <2>3, <4>2, CellsAreKeys
        <5>3. path[key][Depth - 1] \in Nodes /\ Map!Index(key, Depth - 1) \in Map!Cells(Depth - 1)
          BY <2>3, <2>12, <5>1, MapConstants
        <5> QED
          BY <2>5, <2>6, <2>9, <4>2, <5>1, <5>2, <5>3
      <4> QED
        BY <4>1, <4>2
    <3> QED
      BY <3>1 DEF WrittenIsThere
  <2>20. MapLives(path)'
    BY <2>14, <2>15, <2>16, <2>17, <2>18, <2>19 DEF MapLives
  <2> QED
    BY <1>1, <1>2, <2>10, <2>20 DEF MapInv
<1> QED
  BY <1>6, <1>7

------------------------------------------------------------------------------
(* A function that is defined depth by depth has no other solution.         *)
LEMMA DepthByDepth ==
  ASSUME NEW n \in Nat, NEW f, NEW g,
         f[0] = g[0], \A e \in 0 .. n : e # 0 /\ f[e - 1] = g[e - 1] => f[e] = g[e]
  PROVE  \A e \in 0 .. n : f[e] = g[e]
<1> DEFINE S == { e \in 0 .. n : f[e] # g[e] }
<1>1. SUFFICES ASSUME S # {} PROVE FALSE
  OBVIOUS
<1>2. PICK e \in S : \A d \in S : e <= d
  <2>1. S \subseteq Nat
    OBVIOUS
  <2> HIDE DEF S
  <2> QED
    BY <1>1, <2>1, SomeLeast
<1>3. e \in 0 .. n /\ f[e] # g[e] /\ e # 0
  OBVIOUS
<1>4. e - 1 \in 0 .. n /\ ~(e <= e - 1)
  BY <1>3
<1>5. f[e - 1] = g[e - 1]
  BY <1>2, <1>4
<1> QED
  BY <1>3, <1>5

LEMMA OnPathIs ==
  ASSUME NEW path \in Paths, FollowsCells(path), NEW key \in Keys, NEW d \in Map!Depths
  PROVE  Map!OnPath(key, d) = path[key][d]
<1> DEFINE Step(n, e) == IF e = 0 THEN buckets
                         ELSE IF n[e - 1] = None THEN None ELSE bucket[n[e - 1]][Map!Index(key, e - 1)]
<1> DEFINE IsPath(n) == n = [e \in 0 .. d |-> Step(n, e)]
<1> DEFINE n == CHOOSE n : IsPath(n)
<1> DEFINE p == [e \in 0 .. d |-> path[key][e]]
<1>1. d \in Nat
  BY DEF Map!Depths, MapConstants
<1>2. \A e \in 0 .. d : e \in Map!Depths
  BY <1>1, MapConstants DEF Map!Depths
<1>3. \A e \in 0 .. d : p[e] = Step(p, e)
  <2>1. path[key][0] = buckets
    BY DEF FollowsCells
  <2>2. ASSUME NEW e \in 0 .. d, e # 0
        PROVE  path[key][e] = IF path[key][e - 1] = None THEN None
                              ELSE bucket[path[key][e - 1]][Map!Index(key, e - 1)]
    <3>1. e - 1 \in 0 .. Depth - 2 /\ e - 1 + 1 = e
      BY <1>2, <2>2, MapConstants
    <3> QED
      BY <3>1 DEF FollowsCells
  <2>3. \A e \in 0 .. d : e # 0 => e - 1 \in 0 .. d
    BY <1>1
  <2> QED
    BY <1>1, <2>1, <2>2, <2>3
<1>4. IsPath(p)
  BY <1>3
<1>5. IsPath(n)
  <2> HIDE DEF p, IsPath
  <2> QED
    BY <1>4
<1>6. \A e \in 0 .. d : n[e] = Step(n, e)
  <2> HIDE DEF n
  <2> QED
    BY <1>5
<1>7. Map!OnPath(key, d) = n[d]
  BY DEF Map!OnPath
<1>8. \A e \in 0 .. d : n[e] = p[e]
  <2>1. n[0] = p[0] /\ \A e \in 0 .. d : e # 0 /\ n[e - 1] = p[e - 1] => n[e] = p[e]
    <3> HIDE DEF n, p
    <3> QED
      BY <1>1, <1>3, <1>6
  <2> HIDE DEF n, p
  <2> QED
    BY <1>1, <2>1, DepthByDepth
<1>9. n[d] = p[d] /\ p[d] = path[key][d]
  BY <1>1, <1>8
<1> QED
  BY <1>7, <1>9

(* What clear() and the destructor free is what is on a path.               *)
LEMMA ReleasedIs ==
  ASSUME RootSize = IndexSize, NEW path \in Paths, MapTypes, MapLives(path)
  PROVE  Map!Released = { m \in Nodes : \E key \in Keys, d \in Map!Depths : path[key][d] = m }
<1> DEFINE Step(r, d) == IF d = 0 THEN {buckets}
                         ELSE { bucket[n][i] : n \in r[d - 1], i \in Map!Cells(1) } \ {None}
<1> DEFINE IsTree(r) == r = [d \in 0 .. Depth - 1 |-> Step(r, d)]
<1> DEFINE r == CHOOSE r : IsTree(r)
<1> DEFINE Level(d) == { path[key][d] : key \in Keys } \ {None}
<1> DEFINE p == [d \in 0 .. Depth - 1 |-> Level(d)]
<1>1. Depth - 1 \in Nat /\ Map!Depths = 0 .. Depth - 1
  BY MapConstants DEF Map!Depths
<1>2. \A d \in Map!Depths : Map!Cells(d) = Map!Cells(1)
  BY DEF Map!Cells
<1>3. Level(0) = {buckets}
  BY MapConstants DEF MapLives, FollowsCells, MapTypes
<1>4. ASSUME NEW d \in Map!Depths, d # 0
      PROVE  Level(d) = { bucket[n][i] : n \in Level(d - 1), i \in Map!Cells(1) } \ {None}
  <2>1. d - 1 \in 0 .. Depth - 2 /\ d - 1 + 1 = d /\ d - 1 \in Map!Depths
    BY <1>4, MapConstants
  <2>2. \A key \in Keys : path[key][d] = IF path[key][d - 1] = None THEN None
                                         ELSE bucket[path[key][d - 1]][Map!Index(key, d - 1)]
    BY <2>1 DEF MapLives, FollowsCells
  <2>3. \A key \in Keys : Map!Index(key, d - 1) \in Map!Cells(1)
    BY <1>2, <2>1, MapConstants
  <2>4. ASSUME NEW key \in Keys, path[key][d - 1] # None, NEW i \in Map!Cells(1),
               bucket[path[key][d - 1]][i] # None
        PROVE  \E k \in Keys : path[k][d] = bucket[path[key][d - 1]][i]
    <3>1. PICK k \in Keys : path[k][d - 1] = path[key][d - 1] /\ Map!Index(k, d - 1) = i
      BY <1>2, <2>1, <2>4 DEF MapLives, CellsAreFollowed
    <3> QED
      BY <2>2, <2>4, <3>1
  <2>5. \A c, n : n \in Level(c) <=> n # None /\ \E key \in Keys : n = path[key][c]
    OBVIOUS
  <2> HIDE DEF Level
  <2>6. ASSUME NEW n, n \in Level(d)
        PROVE  n \in { bucket[m][i] : m \in Level(d - 1), i \in Map!Cells(1) } \ {None}
    <3>1. PICK key \in Keys : n = path[key][d] /\ n # None
      BY <2>5, <2>6
    <3>2. path[key][d - 1] # None /\ n = bucket[path[key][d - 1]][Map!Index(key, d - 1)]
      BY <2>2, <3>1
    <3>3. path[key][d - 1] \in Level(d - 1) /\ Map!Index(key, d - 1) \in Map!Cells(1)
      BY <2>3, <2>5, <3>2
    <3> QED
      BY <3>1, <3>2, <3>3
  <2>7. ASSUME NEW m \in Level(d - 1), NEW i \in Map!Cells(1), bucket[m][i] # None
        PROVE  bucket[m][i] \in Level(d)
    <3>1. PICK key \in Keys : m = path[key][d - 1] /\ m # None
      BY <2>5, <2>7
    <3>2. PICK k \in Keys : path[k][d] = bucket[path[key][d - 1]][i]
      BY <2>4, <2>7, <3>1
    <3> QED
      BY <2>5, <2>7, <3>1, <3>2
  <2>8. Level(d) \subseteq { bucket[m][i] : m \in Level(d - 1), i \in Map!Cells(1) } \ {None}
    BY <2>6
  <2>9. { bucket[m][i] : m \in Level(d - 1), i \in Map!Cells(1) } \ {None} \subseteq Level(d)
    BY <2>7
  <2> QED
    BY <2>8, <2>9
<1>5. \A f : Step(f, 0) = {buckets}
  OBVIOUS
<1>6. \A f, d : d # 0 => Step(f, d) = { bucket[n][i] : n \in f[d - 1], i \in Map!Cells(1) } \ {None}
  OBVIOUS
<1>7. \A d \in 0 .. Depth - 1 : d # 0 => d - 1 \in 0 .. Depth - 1
  BY <1>1
<1>8. \A d \in 0 .. Depth - 1 : p[d] = Level(d)
  <2> HIDE DEF Level
  <2> QED
    OBVIOUS
<1>9. 0 \in 0 .. Depth - 1
  BY <1>1
<1>10. \A d \in 0 .. Depth - 1 : p[d] = Step(p, d)
  <2>1. ASSUME NEW d \in 0 .. Depth - 1, d # 0 PROVE p[d] = Step(p, d)
    <3> HIDE DEF Level
    <3>1. Level(d) = { bucket[n][i] : n \in Level(d - 1), i \in Map!Cells(1) } \ {None}
      BY <1>1, <1>4, <2>1
    <3>2. p[d] = Level(d) /\ p[d - 1] = Level(d - 1)
      BY <1>7, <1>8, <2>1
    <3>3. Step(p, d) = { bucket[n][i] : n \in p[d - 1], i \in Map!Cells(1) } \ {None}
      BY <1>6, <2>1
    <3> HIDE DEF p, Step
    <3> QED
      BY <3>1, <3>2, <3>3
  <2>2. p[0] = Step(p, 0)
    <3> HIDE DEF p, Level, Step
    <3> QED
      BY <1>3, <1>8, <1>5, <1>9
  <2> HIDE DEF p, Step
  <2> QED
    BY <2>1, <2>2
<1>11. IsTree(p)
  <2>1. p = [d \in 0 .. Depth - 1 |-> p[d]]
    BY Zenon
  <2>2. [d \in 0 .. Depth - 1 |-> p[d]] = [d \in 0 .. Depth - 1 |-> Step(p, d)]
    <3> HIDE DEF p, Step
    <3> QED
      BY <1>10, Zenon
  <2> QED
    <3> HIDE DEF p, Step
    <3> QED
      BY <2>1, <2>2
<1>12. IsTree(r)
  <2> HIDE DEF p, IsTree
  <2> QED
    BY <1>11
<1>13. \A d \in 0 .. Depth - 1 : r[d] = Step(r, d)
  <2> HIDE DEF r, Step
  <2>1. r = [d \in 0 .. Depth - 1 |-> Step(r, d)]
    BY <1>12
  <2> QED
    BY <2>1, Zenon
<1>14. Map!Released = UNION { r[d] : d \in 0 .. Depth - 1 }
  BY DEF Map!Released
<1>15. \A d \in 0 .. Depth - 1 : r[d] = p[d]
  <2>1. r[0] = p[0]
    <3> HIDE DEF r, p, Step
    <3> QED
      BY <1>10, <1>13, <1>5, <1>9
  <2>2. ASSUME NEW d \in 0 .. Depth - 1, d # 0, r[d - 1] = p[d - 1] PROVE r[d] = p[d]
    <3>1. Step(r, d) = Step(p, d)
      <4>1. /\ Step(r, d) = { bucket[n][i] : n \in r[d - 1], i \in Map!Cells(1) } \ {None}
            /\ Step(p, d) = { bucket[n][i] : n \in p[d - 1], i \in Map!Cells(1) } \ {None}
        BY <1>6, <2>2
      <4> HIDE DEF r, p, Step
      <4> QED
        BY <2>2, <4>1
    <3> HIDE DEF r, p, Step
    <3> QED
      BY <1>10, <1>13, <3>1
  <2> HIDE DEF r, p
  <2> QED
    BY <1>1, <2>1, <2>2, DepthByDepth
<1>16. \A key \in Keys, d \in Map!Depths : path[key][d] \in Nodes \union {None}
  BY DEF Paths
<1>17. UNION { p[d] : d \in 0 .. Depth - 1 } = { m \in Nodes : \E key \in Keys, d \in Map!Depths : path[key][d] = m }
  <2>1. \A d, m : m \in Level(d) <=> m # None /\ \E key \in Keys : path[key][d] = m
    OBVIOUS
  <2> HIDE DEF p, Level
  <2>2. ASSUME NEW d \in 0 .. Depth - 1, NEW m \in p[d]
        PROVE  m \in Nodes /\ \E key \in Keys, e \in Map!Depths : path[key][e] = m
    BY <1>1, <1>8, <1>16, <2>1, <2>2
  <2>3. ASSUME NEW key \in Keys, NEW d \in Map!Depths, path[key][d] \in Nodes
        PROVE  d \in 0 .. Depth - 1 /\ path[key][d] \in p[d]
    <3>1. path[key][d] # None
      BY <2>3, MapConstants
    <3> QED
      BY <1>1, <1>8, <2>1, <3>1
  <2> QED
    BY <2>2, <2>3
<1>18. UNION { r[d] : d \in 0 .. Depth - 1 } = UNION { p[d] : d \in 0 .. Depth - 1 }
  <2> HIDE DEF r, p
  <2> QED
    BY <1>15
<1> HIDE DEF r, p
<1> QED
  BY <1>14, <1>17, <1>18

------------------------------------------------------------------------------
LEMMA ReleaseKeepsInv ==
  ASSUME MapInv, NEW after \in {"cleared", "destroyed"}, Map!Release(after)
  PROVE  MapInv'
<1>1. /\ \A t \in MapThreads : thread[t] = Map!Idle
      /\ mapLife \in {"live", "cleared"} /\ buckets' = buckets /\ thread' = thread /\ written' = written
      /\ mapLife' = IF mapLife = "live" THEN after ELSE "wild"
      /\ bucket' = IF mapLife # "live" THEN bucket
                   ELSE [n \in Nodes |-> IF n \in Map!Released THEN None ELSE bucket[n]]
  BY DEF Map!Release
<1>2. MapTypes
  BY DEF MapInv
<1>3. Map!Idle.at = "idle" /\ Map!Idle.own = None
  BY DEF Map!Idle
<1>4. CASE mapLife = "live"
  <2>1. PICK path \in Paths : MapLives(path)
    BY <1>4 DEF MapInv
  <2>2. ASSUME NEW n \in Nodes, bucket[n] # None, RootSize = IndexSize PROVE n \in Map!Released
    <3>1. \E key \in Keys, d \in Map!Depths : path[key][d] = n
      BY <1>1, <1>3, <2>1, <2>2, MapConstants DEF MapLives, AllHeld
    <3> QED
      BY <1>2, <2>1, <2>2, <3>1, ReleasedIs
  <2>3. RootSize = IndexSize => bucket' = [n \in Nodes |-> None]
    BY <1>1, <1>4, <2>2
  <2>4. MapTypes'
    <3>1. bucket' \in [Nodes -> AnyArray \union {None}]
      BY <1>1, <1>2, <1>4 DEF MapTypes
    <3> QED
      BY <1>1, <1>2, <1>4, <3>1 DEF MapTypes
  <2> QED
    BY <1>1, <1>4, <2>3, <2>4 DEF MapInv, MapIsOver, Map!Idle
<1>5. CASE mapLife = "cleared"
  BY <1>1, <1>2, <1>3, <1>5 DEF MapInv, MapTypes, Map!Idle
<1> QED
  BY <1>1, <1>4, <1>5

LEMMA MapNextKeepsInv ==
  ASSUME MapInv, Map!Next, SwapOperands = "exchange first"
  PROVE  MapInv'
<1>1. mapLife # "wild"
  BY DEF Map!Next
<1>2. ASSUME NEW t \in MapThreads, NEW key \in Keys,
             \/ \E value \in Values : Map!Insert(t, key, value)
             \/ Map!FindOrEmplace(t, key) \/ Map!Find(t, key)
      PROVE  MapInv'
  <2>1. \E value \in Values \union {None}, at \in {"seek", "make"} :
          (at = "seek" => value = None) /\ Map!Called(t, key, value, at)
    BY <1>2 DEF Map!Insert, Map!FindOrEmplace, Map!Find
  <2> QED
    BY <2>1, CalledKeepsInv
<1>3. ASSUME NEW t \in MapThreads, Map!Seek(t) \/ Map!Make(t) \/ Map!Swap(t) \/ Map!Return(t)
      PROVE  MapInv'
  BY <1>1, <1>3, SeekKeepsInv, MakeKeepsInv, SwapKeepsInv, ReturnKeepsInv
<1>4. ASSUME Map!Clear \/ Map!Destroy PROVE MapInv'
  BY <1>4, ReleaseKeepsInv DEF Map!Clear, Map!Destroy
<1> QED
  BY <1>2, <1>3, <1>4 DEF Map!Next

LEMMA SearchesAreRight ==
  ASSUME MapInv
  PROVE  Map!TypeOK /\ Map!InsertedIsThere /\ Map!FoundIsThere
<1>1. MapTypes
  BY DEF MapInv
<1>2. ASSUME NEW path \in Paths, MapLives(path), mapLife = "live"
      PROVE  Map!InsertedIsThere /\ Map!FoundIsThere
  <2>1. \A key \in Keys, d \in Map!Depths : Map!OnPath(key, d) = path[key][d]
    BY <1>2, OnPathIs DEF MapLives
  <2>2. Depth - 1 \in Map!Depths
    BY MapConstants
  <2>3. Map!InsertedIsThere
    BY <1>2, <2>1, <2>2 DEF MapLives, WrittenIsThere, Map!InsertedIsThere
  <2>4. Map!FoundIsThere
    BY <1>2, <2>1, <2>2 DEF MapLives, FindersFollow, Finds, Map!FoundIsThere
  <2> QED
    BY <2>3, <2>4
<1>3. ASSUME mapLife # "live" PROVE Map!InsertedIsThere /\ Map!FoundIsThere
  BY <1>1, <1>3 DEF MapInv, MapTypes, MapIsOver, Map!Idle, Map!InsertedIsThere, Map!FoundIsThere
<1>4. \A n \in Map!Allocated : \A i \in DOMAIN bucket[n] :
        bucket[n][i] \in Nodes \union Values \union {None, Raw}
  <2>1. ASSUME NEW n \in Map!Allocated, NEW i \in DOMAIN bucket[n]
        PROVE  bucket[n][i] \in Nodes \union Values \union {None, Raw}
    <3>1. PICK d \in Map!Depths : bucket[n] \in Arrays(d)
      BY <1>1 DEF MapTypes, AnyArray, Map!Allocated
    <3> QED
      BY <3>1 DEF Arrays
  <2> QED
    BY <2>1
<1>5. Map!TypeOK
  BY <1>1, <1>4 DEF MapTypes, Finder, MapPoints, Map!TypeOK
<1> QED
  BY <1>2, <1>3, <1>5 DEF MapInv

LEMMA BucketsAreHeld == ASSUME MapInv, RootSize = IndexSize PROVE Map!NothingLeaks
<1>1. MapTypes
  BY DEF MapInv
<1>2. ASSUME NEW path \in Paths, MapLives(path), mapLife = "live"
      PROVE  Map!NothingLeaks
  <2>1. Map!Released \subseteq Map!Allocated
    BY <1>1, <1>2, ReleasedIs, NoneIsNoArray, MapConstants DEF MapLives, BucketsFit, Map!Allocated
  <2>2. { thread[t].own : t \in MapThreads } \ {None} \subseteq Map!Allocated
    <3>1. ASSUME NEW t \in MapThreads, thread[t].own # None PROVE thread[t].own \in Map!Allocated
      <4>1. thread[t].at = "swap" /\ thread[t] \in Finder
        BY <1>1, <1>2, <3>1 DEF MapLives, FindersFollow, MapTypes
      <4>2. Finds(path, thread[t])
        BY <1>2, <4>1 DEF MapLives, FindersFollow
      <4>3. thread[t].own \in Nodes /\ thread[t].depth \in Map!Depths /\ thread[t].depth # Depth - 1
        BY <3>1, <4>1, <4>2, MapConstants DEF Finds, Finder
      <4>4. bucket[thread[t].own] = Map!NewBucket(thread[t].depth + 1) /\ thread[t].depth + 1 \in Map!Depths
        BY <1>2, <3>1, <4>3, MapConstants DEF MapLives, OwnsApart
      <4> QED
        BY <4>3, <4>4, NewBucketFits DEF Map!Allocated
    <3> QED
      BY <3>1
  <2>3. Map!Allocated \subseteq Map!Released \union ({ thread[t].own : t \in MapThreads } \ {None})
    <3>1. ASSUME NEW n \in Nodes, bucket[n] # None
          PROVE  n \in Map!Released \/ n \in { thread[t].own : t \in MapThreads } \ {None}
      <4>1. n # None
        BY MapConstants
      <4>2. \/ \E key \in Keys, d \in Map!Depths : path[key][d] = n
            \/ \E t \in MapThreads : thread[t].own = n
        BY <1>2, <3>1 DEF MapLives, AllHeld
      <4>3. CASE \E key \in Keys, d \in Map!Depths : path[key][d] = n
        BY <1>1, <1>2, <4>3, ReleasedIs
      <4>4. CASE \E t \in MapThreads : thread[t].own = n
        BY <4>1, <4>4
      <4> QED
        BY <4>2, <4>3, <4>4
    <3> QED
      BY <3>1 DEF Map!Allocated
  <2>4. Map!NothingLeaks
    BY <1>2, <2>1, <2>2, <2>3 DEF Map!NothingLeaks
  <2> QED
    BY <2>4
<1>3. ASSUME mapLife # "live" PROVE Map!NothingLeaks
  BY <1>1, <1>3 DEF MapInv, MapTypes, MapIsOver, Map!NothingLeaks, Map!Allocated
<1> QED
  BY <1>2, <1>3 DEF MapInv

LEMMA MapIsItself == PartsSpec => Map!Spec
<1>1. PartsInit => Map!Init
  BY DEF PartsInit
<1>2. [PartsNext]_partsVars => [Map!Next]_(Map!vars)
  BY DEF PartsNext, FlagNext, RingNext, SingletonNext, MapNext, HandleNext,
     FunctorNext, TextNext, ChecksumNext, LoopNext, CallsNext, partsVars, mapVars, Map!vars
<1> QED
  BY <1>1, <1>2, PTL DEF PartsSpec, Map!Spec

LEMMA MapInvHolds == ASSUME SwapOperands = "exchange first" PROVE PartsSpec => []MapInv
<1>1. Map!Init => MapInv
  BY MapInitInv
<1>2. MapInv /\ [Map!Next]_(Map!vars) => MapInv'
  <2>1. ASSUME MapInv, UNCHANGED Map!vars PROVE MapInv'
    <3>1. bucket' = bucket /\ buckets' = buckets /\ thread' = thread /\ mapLife' = mapLife /\ written' = written
      BY <2>1 DEF Map!vars
    <3>2. MapTypes' /\ (MapIsOver => MapIsOver')
      BY <2>1, <3>1 DEF MapInv, MapTypes, MapIsOver
    <3>3. ASSUME NEW path \in Paths, MapLives(path) PROVE MapLives(path)'
      <4>1. FollowsCells(path)' /\ CellsAreFollowed(path)'
        BY <3>1, <3>3 DEF MapLives, FollowsCells, CellsAreFollowed
      <4>2. PathsPart(path)' /\ PathsGoOn(path)'
        BY <3>3 DEF MapLives, PathsPart, PathsGoOn
      <4>3. BucketsFit(path)' /\ OwnsApart(path)' /\ AllHeld(path)' /\ WrittenIsThere(path)'
        BY <3>1, <3>3 DEF MapLives, BucketsFit, OwnsApart, AllHeld, WrittenIsThere
      <4>4. FindersFollow(path)'
        BY <3>1, <3>3 DEF MapLives, FindersFollow, Finds
      <4> QED
        BY <4>1, <4>2, <4>3, <4>4 DEF MapLives
    <3> QED
      BY <2>1, <3>1, <3>2, <3>3 DEF MapInv
  <2> QED
    BY <2>1, MapNextKeepsInv
<1> QED
  BY <1>1, <1>2, MapIsItself, PTL DEF Map!Spec

(* What was inserted is found by every later search, and a call returns     *)
(* what is on its key's path, whichever threads make buckets for one cell   *)
(* at once (352) and whatever the size of the root: where the exchange      *)
(* comes first (354).                                                       *)
THEOREM MapStaysSearched ==
  ASSUME SwapOperands = "exchange first"
  PROVE  PartsSpec => [](Map!InsertedIsThere /\ Map!FoundIsThere)
BY MapInvHolds, SearchesAreRight, PTL

(* And every bucket is in the tree or one thread's, and freed with the map: *)
(* where the bits of an index divide those of a key, so that the root is as *)
(* large as the other arrays, which is how clear() and the destructor walk  *)
(* it (177).                                                                *)
THEOREM MapStaysSafe ==
  ASSUME SwapOperands = "exchange first", RootSize = IndexSize
  PROVE  PartsSpec => []MapIsSafe
<1>1. MapInv => MapIsSafe
  BY SearchesAreRight, BucketsAreHeld DEF MapIsSafe, Map!MapIsSafe
<1> QED
  BY <1>1, MapInvHolds, PTL
------------------------------------------------------------------------------
(* The event loop. *)

LoopProofs == INSTANCE EventLoopProofs WITH
  pc <- loopPc, Functors <- Jobs, Invoked <- {}, Failing <- Jobs, Throwing <- {},
  PushMayFail <- FALSE, MaxThrown <- 0

(* What the proofs ask of the constants. *)
LEMMA LoopHolds == LoopProofs!Assumptions
BY LoopAssumption DEF Loop!Assumptions, LoopProofs!Assumptions, Loop!AllThreads,
   LoopProofs!AllThreads, Loop!LoopThreads, LoopProofs!LoopThreads, Loop!IsFiniteSet,
   LoopProofs!IsFiniteSet

(* The instances of the proofs and of the models say the same. *)
LEMMA SameLoop ==
  /\ Loop!Init <=> LoopProofs!Init
  /\ Loop!Next <=> LoopProofs!Next
  /\ Loop!vars = LoopProofs!vars
BY DEF Loop!Init, LoopProofs!Init, Loop!AllThreads, LoopProofs!AllThreads,
       Loop!LoopThreads, LoopProofs!LoopThreads, Loop!Next, LoopProofs!Next,
       Loop!PostStep, LoopProofs!PostStep, Loop!Push, LoopProofs!Push, Loop!Goto,
       LoopProofs!Goto, Loop!queue, LoopProofs!queue, Loop!runFlags, LoopProofs!runFlags,
       Loop!counts, LoopProofs!counts, Loop!events, LoopProofs!events, Loop!posting,
       LoopProofs!posting, Loop!Construct, LoopProofs!Construct, Loop!Uncount,
       LoopProofs!Uncount, Loop!Wake, LoopProofs!Wake, Loop!AfterWake,
       LoopProofs!AfterWake, Loop!Await, LoopProofs!Await, Loop!Post, LoopProofs!Post,
       Loop!InUse, LoopProofs!InUse, Loop!LoopStep, LoopProofs!LoopStep, Loop!Check,
       LoopProofs!Check, Loop!LoadStopping, LoopProofs!LoadStopping, Loop!Look,
       LoopProofs!Look, Loop!Back, LoopProofs!Back, Loop!StoreRunning,
       LoopProofs!StoreRunning, Loop!CountThread, LoopProofs!CountThread,
       Loop!LoadRunning, LoopProofs!LoadRunning, Loop!LoadQueueItems,
       LoopProofs!LoadQueueItems, Loop!Pop, LoopProofs!Pop, Loop!HeadIsReady,
       LoopProofs!HeadIsReady, Loop!Call, LoopProofs!Call, Loop!Destroy,
       LoopProofs!Destroy, Loop!Discount, LoopProofs!Discount, Loop!CountWaiting,
       LoopProofs!CountWaiting, Loop!WaitFlag, LoopProofs!WaitFlag, Loop!LookForMore,
       LoopProofs!LookForMore, Loop!SignalEnded, LoopProofs!SignalEnded, Loop!CallLoop,
       LoopProofs!CallLoop, Loop!Run, LoopProofs!Run, Loop!At, LoopProofs!At,
       Loop!StopPoints, LoopProofs!StopPoints, Loop!StoreStopping,
       LoopProofs!StoreStopping, Loop!StopStep, LoopProofs!StopStep, Loop!Halt,
       LoopProofs!Halt, Loop!Join, LoopProofs!Join, Loop!Drain, LoopProofs!Drain,
       Loop!WaitLoopEnded, LoopProofs!WaitLoopEnded, Loop!Finish, LoopProofs!Finish,
       Loop!vars, LoopProofs!vars, Loop!Queue!Init, LoopProofs!Queue!Init,
       Loop!Queue!Reserve, LoopProofs!Queue!Reserve, Loop!Queue!Commit,
       LoopProofs!Queue!Commit, Loop!Queue!Take, LoopProofs!Queue!Take, Loop!Queue!Finish,
       LoopProofs!Queue!Finish, Loop!Range, LoopProofs!Range, Loop!Queue!Range,
       LoopProofs!Queue!Range

LEMMA SameLoopSafety ==
  /\ Loop!LoopIsCounted <=> LoopProofs!LoopIsCounted
  /\ Loop!ManagedAreJoined <=> LoopProofs!ManagedAreJoined
BY DEF Loop!LoopIsCounted, LoopProofs!LoopIsCounted, Loop!TypeOK, LoopProofs!TypeOK,
       Loop!AllThreads, LoopProofs!AllThreads, Loop!LoopThreads, LoopProofs!LoopThreads,
       Loop!PostPoints, LoopProofs!PostPoints, Loop!EnterPoints, LoopProofs!EnterPoints,
       Loop!LoopPoints, LoopProofs!LoopPoints, Loop!StopPoints, LoopProofs!StopPoints,
       Loop!ThreadsCounted, LoopProofs!ThreadsCounted, Loop!At, LoopProofs!At,
       Loop!ManagedAreJoined, LoopProofs!ManagedAreJoined, Loop!Cardinality,
       LoopProofs!Cardinality, Loop!IsFiniteSet, LoopProofs!IsFiniteSet

(* A step of another part leaves this one alone. *)
LEMMA LoopIsItself == PartsSpec => LoopProofs!Spec
<1>1. PartsInit => LoopProofs!Init
  BY SameLoop DEF PartsInit
<1>2. [PartsNext]_partsVars => [LoopProofs!Next]_(LoopProofs!vars)
  BY SameLoop DEF PartsNext, FlagNext, RingNext, SingletonNext, MapNext, HandleNext,
     FunctorNext, TextNext, ChecksumNext, LoopNext, CallsNext, partsVars, loopVars,
     LoopProofs!vars, LoopProofs!queue, LoopProofs!runFlags, LoopProofs!counts,
     LoopProofs!events, LoopProofs!posting
<1> QED
  BY <1>1, <1>2, PTL DEF PartsSpec, LoopProofs!Spec

(* The threads in the loop and those asleep are counted exactly, for any   *)
(* number of threads and of functors that fail.                            *)
THEOREM LoopStaysCounted == PartsSpec => []LoopIsCounted
<1>1. LoopProofs!Spec => []LoopProofs!LoopIsCounted
  BY LoopHolds, LoopProofs!ThreadsAreCounted
<1>2. LoopProofs!LoopIsCounted => LoopIsCounted
  BY SameLoopSafety DEF LoopIsCounted
<1> QED
  BY <1>1, <1>2, LoopIsItself, PTL

(* While stop() waits for the threads of the program, the managed ones are  *)
(* gone and none is started, however many threads stop the loop.            *)
THEOREM ManagedStayJoined == PartsSpec => []ManagedAreJoined
<1>1. LoopProofs!Spec => []LoopProofs!ManagedAreJoined
  BY LoopHolds, LoopProofs!ManagedStayJoined
<1>2. LoopProofs!ManagedAreJoined => ManagedAreJoined
  BY SameLoopSafety DEF ManagedAreJoined
<1> QED
  BY <1>1, <1>2, LoopIsItself, PTL
==============================================================================
