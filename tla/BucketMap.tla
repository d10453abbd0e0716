------------------------------ MODULE BucketMap ------------------------------
(***************************************************************************)
(* concurrent_bucket_map (src/old_addtl/concurrent_bucket_map.h): a tree   *)
(* of arrays, indexed by the bits of the key from the top.  Threads insert *)
(* and find without a lock: a bucket that is missing is allocated and      *)
(* swapped in, and the thread that comes second gives its own back.        *)
(*                                                                         *)
(* The unrolled forms for 8-bit indices do what the recursive ones do.     *)
(* Values are of a basic type, as the header asks for: one access each.    *)
(***************************************************************************)
EXTENDS Integers, FiniteSets

CONSTANTS
  Threads, Values,
  Keys,            \* the keys that are used
  IndexSize,       \* bucket_size
  RootSize,        \* root_bucket_size
  Depth,           \* bucket_depth
  Nodes,           \* numbers of the buckets that can be allocated
  SwapOperands,    \* in the order of 354 ("exchange first") or of 356
  None, Raw

Depths == 0 .. Depth - 1
Cells(d) == 0 .. (IF d = 0 THEN RootSize ELSE IndexSize) - 1

(* 267, 334 *)
Index(key, d) == (key \div IndexSize ^ (Depth - 1 - d)) % Cardinality(Cells(d))

(* What the constants have to be; the static_assert of line 88.  The two    *)
(* facts about Index are what the bound of the keys gives by arithmetic:    *)
(* the digits of a key are cells, and no other key has the same.  A smaller *)
(* root would be read beyond its end by 177, and is left out.               *)
Assumptions ==
  /\ IndexSize \in Nat \ {0, 1} /\ RootSize \in Nat \ {0} /\ RootSize >= IndexSize
  /\ Depth \in Nat \ {0, 1} /\ Nodes \subseteq Nat /\ IsFiniteSet(Nodes) /\ Nodes # {}
  /\ Keys # {} /\ Keys \subseteq 0 .. RootSize * IndexSize ^ (Depth - 1) - 1
  /\ \A key \in Keys, d \in Depths : Index(key, d) \in Cells(d)
  /\ \A key, k \in Keys : (\A d \in Depths : Index(key, d) = Index(k, d)) => key = k
  /\ SwapOperands \in {"exchange first", "comparand first"}
  /\ Raw \notin Values /\ None \notin Values \union Nodes
  /\ \A d \in Depths : None \notin [Cells(d) -> Nodes \union Values \union {None, Raw}]

VARIABLES
  bucket,      \* the allocated arrays: None, or what their cells hold
  buckets,     \* buckets_
  thread,      \* where each thread is in its call, and with what
  life,        \* "live", "cleared", "destroyed", or "wild": undefined behaviour
  written      \* the value that was last put under each key (history)

vars == <<bucket, buckets, thread, life, written>>

(* 342-350: the pointers are zeroed, the values are not.                    *)
NewBucket(d) == [i \in Cells(d) |-> IF d = Depth - 1 THEN Raw ELSE None]

Allocated == { n \in Nodes : bucket[n] # None }
Fresh == CHOOSE n \in Nodes \ Allocated : \A m \in Nodes \ Allocated : n <= m

Idle == [at |-> "idle", key |-> None, value |-> None, had |-> FALSE,
         node |-> None, depth |-> 0, own |-> None]

TypeOK ==
  /\ buckets \in Nodes
  /\ \A n \in Allocated : \A i \in DOMAIN bucket[n] : bucket[n][i] \in Nodes \union Values \union {None, Raw}
  /\ \A t \in Threads : thread[t].at \in {"idle", "seek", "make", "swap", "found"}
  /\ life \in {"live", "cleared", "destroyed", "wild"}

(* 86-91 *)
Init ==
  /\ buckets = CHOOSE n \in Nodes : \A m \in Nodes : n <= m
  /\ bucket = [n \in Nodes |-> IF n = buckets THEN NewBucket(0) ELSE None]
  /\ thread = [t \in Threads |-> Idle]
  /\ life = "live"
  /\ written = [k \in Keys |-> None]

(* The bucket of the depth d on the key's path; None where it ends.         *)
OnPath(key, d) ==
  LET n[e \in 0 .. d] ==
        IF e = 0 THEN buckets
        ELSE IF n[e - 1] = None THEN None ELSE bucket[n[e - 1]][Index(key, e - 1)]
  IN  n[d]

(* 171-189: it looks at bucket_size cells of the root, too.                 *)
Released ==
  LET r[d \in 0 .. Depth - 1] ==
        IF d = 0 THEN {buckets}
        ELSE { bucket[n][i] : n \in r[d - 1], i \in Cells(1) } \ {None}
  IN  UNION { r[d] : d \in 0 .. Depth - 1 }
------------------------------------------------------------------------------
Here(t) == bucket[thread[t].node][Index(thread[t].key, thread[t].depth)]

(* One level down, to the bucket n. *)
Down(t, n, at) == thread' = [thread EXCEPT
  ![t] = [@ EXCEPT !.at = at, !.node = n, !.depth = thread[t].depth + 1, !.own = None]]

Stay(t, at) == thread[t].at = at /\ UNCHANGED <<buckets, life>>

(* A call on a map that was cleared or destroyed reads freed memory.        *)
Called(t, key, value, at) ==
  /\ thread[t] = Idle /\ life \in {"live", "cleared"}
  /\ thread' = [thread EXCEPT ![t] =
       [Idle EXCEPT !.at = at, !.key = key, !.value = value,
                    !.had = written[key] # None, !.node = buckets]]
  /\ life' = IF life = "live" THEN life ELSE "wild"
  /\ UNCHANGED <<bucket, buckets, written>>

(* 141-144 *)
Insert(t, key, value) == Called(t, key, value, "make")

(* 147-150 *)
FindOrEmplace(t, key) == Called(t, key, None, "make")

(* 152-162: contains, find *)
Find(t, key) == Called(t, key, None, "seek")

(* 264-280, 215-261: one level of find_bucket_. *)
Seek(t) ==
  /\ Stay(t, "seek")
  /\ IF thread[t].depth = Depth - 1 THEN thread' = [thread EXCEPT ![t].at = "found"]
     ELSE Down(t, Here(t), IF Here(t) = None THEN "found" ELSE "seek")
  /\ UNCHANGED <<bucket, written>>

(* 331-351, 377-381, 282-328: one level of make_bucket_; a bucket is missing*)
(* or not when it is looked at.                                             *)
Make(t) ==
  /\ Stay(t, "make")
  /\ \/ /\ thread[t].depth = Depth - 1
        /\ thread' = [thread EXCEPT ![t].at = "found"]
        /\ UNCHANGED bucket
     \/ /\ thread[t].depth < Depth - 1 /\ Here(t) # None
        /\ Down(t, Here(t), "make")
        /\ UNCHANGED bucket
     \/ /\ thread[t].depth < Depth - 1 /\ Here(t) = None /\ Nodes # Allocated
        /\ thread' = [thread EXCEPT ![t].at = "swap", ![t].own = Fresh]
        /\ bucket' = [bucket EXCEPT ![Fresh] = NewBucket(thread[t].depth + 1)]
  /\ UNCHANGED written

(* Slip: the thread that comes second goes on with its own bucket. *)
KeepOwn(t) ==
  /\ Stay(t, "swap")
  /\ bucket' = [bucket EXCEPT ![thread[t].node][Index(thread[t].key, thread[t].depth)] =
                  IF @ = None THEN thread[t].own ELSE @]
  /\ Down(t, thread[t].own, "make")
  /\ UNCHANGED written

(* 351-373.  __sync_val_compare_and_swap takes the comparand first: in the  *)
(* order of 356 it compares with the new bucket, and stores nothing.        *)
Swap(t) ==
  LET comparand == IF SwapOperands = "exchange first" THEN None ELSE thread[t].own
      exchange  == IF SwapOperands = "exchange first" THEN thread[t].own ELSE None
      i == Index(thread[t].key, thread[t].depth)
      old == Here(t)
      set == [bucket EXCEPT ![thread[t].node][i] = IF @ = comparand THEN exchange ELSE @]
  IN  /\ Stay(t, "swap")
      /\ \/ old # None /\ bucket' = [set EXCEPT ![thread[t].own] = None] /\ Down(t, old, "make")
         \/ old = None /\ bucket' = set /\ Down(t, thread[t].own, "make")
      /\ UNCHANGED written

(* 143: the value is moved into the cell, without a lock; 149, 155, 161:    *)
(* the others return where it is.                                           *)
Return(t) ==
  /\ Stay(t, "found")
  /\ IF thread[t].value = None THEN UNCHANGED <<bucket, written>>
     ELSE /\ bucket' = [bucket EXCEPT
               ![thread[t].node][Index(thread[t].key, thread[t].depth)] = thread[t].value]
          /\ written' = [written EXCEPT ![thread[t].key] = thread[t].value]
  /\ thread' = [thread EXCEPT ![t] = Idle]

(* 93-96, 165-168: both free every bucket and keep the pointer; the caller  *)
(* sees to it that nobody else is inside.                                   *)
Release(after) ==
  /\ \A t \in Threads : thread[t] = Idle
  /\ life \in {"live", "cleared"}
  /\ life' = IF life = "live" THEN after ELSE "wild"
  /\ bucket' = IF life # "live" THEN bucket
               ELSE [n \in Nodes |-> IF n \in Released THEN None ELSE bucket[n]]
  /\ UNCHANGED <<buckets, thread, written>>

Clear == Release("cleared")

Destroy == Release("destroyed")

Next ==
  /\ life # "wild"
  /\ \/ \E t \in Threads :
          \/ \E key \in Keys :
               \/ \E value \in Values : Insert(t, key, value)
               \/ FindOrEmplace(t, key) \/ Find(t, key)
          \/ Seek(t) \/ Make(t) \/ Swap(t) \/ Return(t)
     \/ Clear \/ Destroy

Spec == Init /\ [][Next]_vars
------------------------------------------------------------------------------
(* What was inserted last under a key is what the next search for it gets   *)
(* to: no bucket that holds a value is replaced by another thread's, and    *)
(* nobody goes on writing to one that was given back.                       *)
InsertedIsThere == life = "live" => \A key \in Keys :
  written[key] # None =>
    LET n == OnPath(key, Depth - 1) IN n # None /\ bucket[n][Index(key, Depth - 1)] = written[key]

(* A search that began after a key was inserted finds it, and whatever a    *)
(* call returns is on the key's path.                                       *)
FoundIsThere == \A t \in Threads : thread[t].at = "found" =>
  /\ thread[t].had => thread[t].node # None
  /\ thread[t].node # None => thread[t].node = OnPath(thread[t].key, Depth - 1)

(* Every bucket is in the tree, or is the one a thread is about to swap in; *)
(* the destructor leaves none.  Of clear() nothing is said: "does not       *)
(* release memory" (164), but 167 frees every bucket, and a call after it   *)
(* reads freed memory, where the model ends.                                *)
NothingLeaks ==
  /\ life = "live" => Allocated = Released \union ({ thread[t].own : t \in Threads } \ {None})
  /\ life = "destroyed" => Allocated = {}

MapIsSafe == TypeOK /\ InsertedIsThere /\ FoundIsThere /\ NothingLeaks
==============================================================================
