----------------------------- MODULE SharedLock -----------------------------
(***************************************************************************)
(* What sev::AtomicSharedMutex promises its callers, without its counters: *)
(* a lock that many threads may share, or that one thread may first claim  *)
(* (no new thread gets a share) and then hold alone.                       *)
(*                                                                         *)
(* SharedMutex.tla implements this specification step by step; the modules *)
(* of the code that uses a mutex (FunctorQueue.tla) are built on these     *)
(* actions instead of on the counters.                                     *)
(***************************************************************************)
CONSTANT Threads

VARIABLES
  sharers,    \* the threads that hold a share
  claims,     \* the thread that holds the (partial) unique claim, as a set
  exclusive   \* the thread, of claims, that is known to be alone

vars == <<sharers, claims, exclusive>>

TypeOK ==
  /\ sharers \subseteq Threads
  /\ claims \subseteq Threads
  /\ exclusive \subseteq claims

Init == sharers = {} /\ claims = {} /\ exclusive = {}

(* A share is granted while nobody else has a claim; the holder of the     *)
(* claim may take one too and thereby stops being exclusive (downgrade).   *)
Share(t) ==
  /\ t \notin sharers
  /\ claims \subseteq {t}
  /\ sharers' = sharers \union {t}
  /\ exclusive' = exclusive \ {t}
  /\ UNCHANGED claims

Unshare(t) ==
  /\ t \in sharers
  /\ sharers' = sharers \ {t}
  /\ UNCHANGED <<claims, exclusive>>

(* The claim keeps new sharers out; those that are in may stay.            *)
Claim(t) ==
  /\ claims = {}
  /\ claims' = {t}
  /\ UNCHANGED <<sharers, exclusive>>

(* The claim becomes a full lock once the last share is gone.              *)
Complete(t) ==
  /\ t \in claims \ exclusive
  /\ sharers = {}
  /\ exclusive' = {t}
  /\ UNCHANGED <<sharers, claims>>

(* The last sharer gives its share up and is alone, in one step.           *)
Promote(t) ==
  /\ t \in claims
  /\ sharers = {t}
  /\ sharers' = {}
  /\ exclusive' = {t}
  /\ UNCHANGED claims

Release(t) ==
  /\ t \in claims
  /\ claims' = claims \ {t}
  /\ exclusive' = exclusive \ {t}
  /\ UNCHANGED sharers

Next == \E t \in Threads :
  Share(t) \/ Unshare(t) \/ Claim(t) \/ Complete(t) \/ Promote(t) \/ Release(t)

Spec == Init /\ [][Next]_vars
=============================================================================
