--------------------------- MODULE SharedSingleton ---------------------------
(***************************************************************************)
(* shared_singleton (src/old_addtl/shared_singleton.h): an object that is  *)
(* created when it is first asked for and deleted by its last holder.      *)
(* Holders are `instance` objects, in slots; a thread works on one slot at *)
(* a time, and nobody else on that slot.                                   *)
(*                                                                         *)
(* Each operation on ref_count is one step, and so is a section under the  *)
(* mutex: the counts it looks at are changed without it, the pointer not.  *)
(***************************************************************************)
EXTENDS Integers, FiniteSets

CONSTANTS
  Slots,       \* variables of type instance
  Objects,     \* the objects that can be created
  MaxStrays,   \* bound: copies of an empty instance
  None

(* What the constants have to be. *)
Assumptions == IsFiniteSet(Slots) /\ MaxStrays \in Nat /\ None \notin Objects

VARIABLES
  refCount,    \* ref_count
  instance,    \* the static pointer
  pointer,     \* pointer_ of each slot
  slot,        \* where each slot is: "none", "made", or inside a call
  alive,       \* the objects that were created and not deleted
  strays       \* copies of an empty instance so far (history)

vars == <<refCount, instance, pointer, slot, alive, strays>>

Points == { "none", "made", "look", "create", "uncount", "lock", "delete", "wild" }

TypeOK ==
  /\ refCount \in Int
  /\ instance \in Objects \union {None}
  /\ pointer \in [Slots -> Objects \union {None}]
  /\ slot \in [Slots -> Points]
  /\ alive \subseteq Objects
  /\ strays \in 0 .. MaxStrays

Init ==
  /\ refCount = 0 /\ instance = None
  /\ pointer = [s \in Slots |-> None]
  /\ slot = [s \in Slots |-> "none"]
  /\ alive = {} /\ strays = 0

At(points) == { s \in Slots : slot[s] \in points }

(* What nobody points to; an address that is used again would only hide a  *)
(* second deletion.                                                         *)
Fresh == Objects \ (alive \union { pointer[s] : s \in Slots })

Goto(s, from, to) == slot[s] = from /\ slot' = [slot EXCEPT ![s] = to]

(* 47-50 *)
MakeEmpty(s) ==
  /\ Goto(s, "none", "made")
  /\ UNCHANGED <<refCount, instance, pointer, alive, strays>>

(* 122: counted before there is anything to count. *)
Get(s) ==
  /\ Goto(s, "none", "look")
  /\ refCount' = refCount + 1
  /\ UNCHANGED <<instance, pointer, alive, strays>>

(* 123-127, and 137 if there is an instance *)
Look(s) ==
  /\ Goto(s, "look", IF instance = None THEN "create" ELSE "made")
  /\ pointer' = [pointer EXCEPT ![s] = instance]
  /\ UNCHANGED <<refCount, instance, alive, strays>>

(* Slip: another thread may have created it since. *)
CreateAlways(s) == \E o \in Fresh :
  /\ Goto(s, "create", "made")
  /\ alive' = alive \union {o}
  /\ instance' = o
  /\ pointer' = [pointer EXCEPT ![s] = instance']
  /\ UNCHANGED <<refCount, strays>>

(* 128-137: under the mutex, unless another thread was first. *)
Create(s) ==
  /\ Goto(s, "create", "made")
  /\ \/ instance = None /\ \E o \in Fresh : alive' = alive \union {o} /\ instance' = o
     \/ instance # None /\ UNCHANGED <<alive, instance>>
  /\ pointer' = [pointer EXCEPT ![s] = instance']
  /\ UNCHANGED <<refCount, strays>>

(* 52-55: a copy of an empty instance is counted too, and never uncounted.  *)
Copy(s, t) ==
  /\ slot[t] = "made" /\ Goto(s, "none", "made")
  /\ pointer' = [pointer EXCEPT ![s] = pointer[t]]
  /\ refCount' = refCount + 1
  /\ strays' = IF pointer[t] = None THEN strays + 1 ELSE strays
  /\ strays' <= MaxStrays
  /\ UNCHANGED <<instance, alive>>

(* Slip: whoever is assigned to is counted. *)
AssignCounts(s, t) ==
  /\ s # t /\ slot[t] = "made"
  /\ Goto(s, "made", IF pointer[t] = None THEN "uncount" ELSE "made")
  /\ pointer' = [pointer EXCEPT ![s] = pointer[t]]
  /\ refCount' = refCount + 1
  /\ UNCHANGED <<instance, alive, strays>>

(* 57-66: an empty instance is counted before it is known what is assigned. *)
Assign(s, t) ==
  /\ s # t /\ slot[t] = "made"
  /\ Goto(s, "made", IF pointer[t] = None THEN "uncount" ELSE "made")
  /\ pointer' = [pointer EXCEPT ![s] = pointer[t]]
  /\ refCount' = IF pointer[s] = None THEN refCount + 1 ELSE refCount
  /\ UNCHANGED <<instance, alive, strays>>

(* 68: if that was empty, too, it is uncounted; the last one to be counted  *)
(* deletes nothing here.                                                    *)
Uncount(s) ==
  /\ Goto(s, "uncount", "made")
  /\ refCount' = refCount - 1
  /\ UNCHANGED <<instance, pointer, alive, strays>>

(* 74-78: the destructor *)
Destroy(s) ==
  /\ Goto(s, "made", IF pointer[s] # None /\ refCount = 1 THEN "lock" ELSE "none")
  /\ refCount' = IF pointer[s] # None THEN refCount - 1 ELSE refCount
  /\ pointer' = [pointer EXCEPT ![s] = IF slot'[s] = "lock" THEN @ ELSE None]
  /\ UNCHANGED <<instance, alive, strays>>

(* Slip: the count is not looked at again under the mutex. *)
RemoveBlindly(s) ==
  /\ Goto(s, "lock", "delete")
  /\ instance' = None
  /\ UNCHANGED <<refCount, pointer, alive, strays>>

(* 80-84: under the mutex, unless somebody holds it again. *)
Remove(s) ==
  /\ Goto(s, "lock", IF refCount = 0 THEN "delete" ELSE "none")
  /\ instance' = IF refCount = 0 THEN None ELSE instance
  /\ pointer' = [pointer EXCEPT ![s] = IF refCount = 0 THEN @ ELSE None]
  /\ UNCHANGED <<refCount, alive, strays>>

(* 85-86: undefined if the object was deleted before. *)
Delete(s) ==
  /\ Goto(s, "delete", IF pointer[s] \in alive THEN "none" ELSE "wild")
  /\ alive' = alive \ {pointer[s]}
  /\ pointer' = [pointer EXCEPT ![s] = IF @ \in alive THEN None ELSE @]
  /\ UNCHANGED <<refCount, instance, strays>>

Next ==
  /\ At({"wild"}) = {}
  /\ \E s \in Slots :
       \/ MakeEmpty(s) \/ Get(s) \/ Look(s) \/ Create(s)
       \/ Uncount(s) \/ Destroy(s) \/ Remove(s) \/ Delete(s)
       \/ \E t \in Slots : Copy(s, t) \/ Assign(s, t)

Spec == Init /\ [][Next]_vars
------------------------------------------------------------------------------
Holders == { s \in At({"made"}) : pointer[s] # None }

(* ref_count counts the holders, those who are about to be one and those    *)
(* who are no more, plus the copies of empty instances, for ever: after one *)
(* of those (54) no destructor finds the count to be 1.                     *)
HoldersCounted == refCount = Cardinality(Holders \union At({"look", "create", "uncount"})) + strays

(* All holders share one object, which is alive: no holder's destructor has *)
(* deleted it although another thread took hold of it meanwhile.            *)
HeldIsAlive == \A s \in Holders : pointer[s] = instance /\ instance \in alive

SingletonIsShared == TypeOK /\ HoldersCounted /\ HeldIsAlive

(* "reference counted, so it gets destroyed when no longer in use" (39): an *)
(* object that is about to be deleted (86) was not deleted before, and no   *)
(* other thread is about to delete it.                                      *)
DestroyedOnce == \A s \in At({"delete"}) :
  pointer[s] \in alive /\ \A t \in At({"delete"}) \ {s} : pointer[t] # pointer[s]
==============================================================================
