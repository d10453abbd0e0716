------------------------- MODULE LiteEventLoopProofs -------------------------
(***************************************************************************)
(* Proofs about LiteEventLoop, for any number of clients, functors and     *)
(* timers, both builds, and any bounds: what the variables hold, that      *)
(* join() waits for what was queued before it, and that a timer with an    *)
(* interval goes on.                                                       *)
(***************************************************************************)
EXTENDS LiteEventLoop, SequenceTheorems, TLAPS

Queueable == Posts \union Syncs \union {Hollow}

(* Where a client is that waits, or waited, in join().                      *)
JoinPoints == {"joinPoke", "joining", "early"}

(* The loop has a timer in hand where it uses one.                          *)
TimerInHand == loop \in {"holding", "timerWait", "callTimer", "rearm"} => tf \in Timer

(* m_Cancel is lowered before a timer is called, so that what it is after-  *)
(* wards, the functor of that timer did.                                    *)
CancelIsAsked == (loop = "callTimer" => ~cancel) /\ (loop = "rearm" => cancel = asked)

(* Only the owner starts a loop, and only when there is none.               *)
OnlyTheOwner == \A c \in Clients : call[c] \in {"run", "runSync", "destroy"} => c = Owner
LoopIsOver ==
  /\ thread \in {"none", "gone"} => loop \in {"off", "terminated"}
  /\ client[Owner] \in {"stopPoke", "stopTest", "stopJoin", "stopped"} => thread # "sync"
  /\ client[Owner] = "stopped" => thread # "joinable"

(* The loop has a functor of the queue in hand. *)
Held == loop \in HoldPoints

(* The functor f is done with before the one at the place i of the queue.   *)
Called(f, i) == \/ Held /\ f = cur
                \/ \E j \in 1 .. Len(immediate) : j < i /\ f = immediate[j]

(* The functor of join() is in the queue once, or in hand, and what was     *)
(* queued before it is ahead of it.                                         *)
SyncIsBehind(c) ==
  /\ \A i \in 1 .. Len(immediate) : immediate[i] = <<"sync", c>> =>
       /\ client[c] \in JoinPoints
       /\ \A f \in before[c] : Called(f, i)
       /\ ~(Held /\ cur = <<"sync", c>>)
       /\ \A j \in 1 .. Len(immediate) : immediate[j] = <<"sync", c>> => i = j
  /\ Held /\ cur = <<"sync", c>> => client[c] \in JoinPoints /\ before[c] = {}

JoinOrder ==
  /\ loop \in {"sync", "again", "callPoke"} => cur \in Syncs
  /\ \A c \in Clients : SyncIsBehind(c)

(* The inductive invariant: a loop that was terminated leaves the queue as  *)
(* it was.                                                                  *)
LiteInv ==
  /\ TypeOK /\ TimerInHand /\ CancelIsAsked /\ OnlyTheOwner /\ LoopIsOver
  /\ loop # "terminated" => JoinOrder
------------------------------------------------------------------------------
LEMMA LiteInitInv == ASSUME Init PROVE LiteInv
<1>1. immediate = <<>> /\ immediate \in Seq(Queueable) /\ Len(immediate) = 0
  BY EmptySeq DEF Init, Queueable
<1>2. /\ client \in [Clients -> ClientPoints] /\ before \in [Clients -> SUBSET Posts]
      /\ call \in [Clients -> Calls]
  BY DEF Init, ClientPoints, Calls
<1>3. TypeOK
  <2>1. MaxTime \in Nat /\ MaxCalls \in Nat /\ 0 \in 0 .. MaxTime /\ 0 \in 0 .. MaxCalls
    BY TimesAssumption
  <2>2. immediate \in Seq(Posts \union Syncs \union {Hollow}) /\ timeout \subseteq Timer
    BY <1>1 DEF Init, Queueable
  <2>3. {running, poked, cancel, asked} \subseteq BOOLEAN
    BY DEF Init
  <2> QED
    BY <1>2, <2>1, <2>2, <2>3 DEF Init, TypeOK, LoopPoints, HoldPoints
<1>4. JoinOrder
  BY <1>1 DEF Init, JoinOrder, SyncIsBehind, Held, HoldPoints
<1> QED
  BY <1>3, <1>4, OwnerAssumption DEF Init, LiteInv, TimerInHand, CancelIsAsked, OnlyTheOwner, LoopIsOver

LEMMA TypesOfLite ==
  ASSUME LiteInv
  PROVE  /\ immediate \in Seq(Queueable) /\ Len(immediate) \in Nat
         /\ client \in [Clients -> ClientPoints] /\ before \in [Clients -> SUBSET Posts]
         /\ call \in [Clients -> Calls]
         /\ cur \in Queueable \union {None} /\ loop \in LoopPoints
         /\ Posts \intersect Syncs = {} /\ None \notin Posts /\ Hollow \notin Posts
<1>1. immediate \in Seq(Queueable)
  BY DEF LiteInv, TypeOK, Queueable
<1> QED
  BY <1>1, LenProperties, NamesAssumption DEF LiteInv, TypeOK, Queueable

(* The functor in hand is called, or stays in hand, and nobody leaves      *)
(* join() but by it.                                                        *)
KeepsPlaces ==
  /\ Held' => Held /\ cur' = cur
  /\ loop' \in {"sync", "again", "callPoke"} => cur' \in Syncs
  /\ \A c \in Clients : client[c] \in JoinPoints =>
       client'[c] \in JoinPoints \/ (Held /\ cur = <<"sync", c>> /\ ~Held')
  /\ \A c \in Clients : \A f \in before'[c] :
       f \in before[c] /\ (Held /\ f = cur => Held')

LEMMA InHandStays ==
  ASSUME LiteInv, loop # "terminated", KeepsPlaces, NEW c \in Clients,
         Held', cur' = <<"sync", c>>
  PROVE  client'[c] \in JoinPoints /\ before'[c] = {}
<1>1. SyncIsBehind(c)
  BY DEF LiteInv, JoinOrder
<1>2. Held /\ cur = <<"sync", c>>
  BY DEF KeepsPlaces
<1>3. client[c] \in JoinPoints /\ before[c] = {}
  BY <1>1, <1>2 DEF SyncIsBehind
<1> QED
  BY <1>3 DEF KeepsPlaces

LEMMA PlaceStays ==
  ASSUME LiteInv, loop # "terminated", KeepsPlaces, NEW c \in Clients,
         NEW i \in 1 .. Len(immediate), immediate[i] = <<"sync", c>>
  PROVE  /\ client'[c] \in JoinPoints
         /\ ~(Held' /\ cur' = <<"sync", c>>)
         /\ \A f \in before'[c] :
              \/ Held' /\ f = cur'
              \/ \E j \in 1 .. Len(immediate) : j < i /\ f = immediate[j]
<1>1. SyncIsBehind(c)
  BY DEF LiteInv, JoinOrder
<1>2. client[c] \in JoinPoints /\ ~(Held /\ cur = <<"sync", c>>)
  BY <1>1 DEF SyncIsBehind
<1>3. ASSUME NEW f \in before'[c]
      PROVE  \/ Held' /\ f = cur'
             \/ \E j \in 1 .. Len(immediate) : j < i /\ f = immediate[j]
  <2>1. f \in before[c] /\ (Held /\ f = cur => Held')
    BY DEF KeepsPlaces
  <2>2. Called(f, i)
    BY <1>1, <2>1 DEF SyncIsBehind
  <2> QED
    BY <2>1, <2>2 DEF Called, KeepsPlaces
<1> QED
  BY <1>2, <1>3 DEF KeepsPlaces

LEMMA OrderStays ==
  ASSUME LiteInv, loop # "terminated", KeepsPlaces, immediate' = immediate
  PROVE  JoinOrder'
<1>1. ASSUME NEW c \in Clients PROVE SyncIsBehind(c)'
  <2>1. SyncIsBehind(c)
    BY DEF LiteInv, JoinOrder
  <2>2. ASSUME NEW i \in 1 .. Len(immediate'), immediate'[i] = <<"sync", c>>
        PROVE  /\ client'[c] \in JoinPoints
               /\ \A f \in before'[c] : Called(f, i)'
               /\ ~(Held' /\ cur' = <<"sync", c>>)
               /\ \A j \in 1 .. Len(immediate') : immediate'[j] = <<"sync", c>> => i = j
    BY <2>1, <2>2, PlaceStays DEF SyncIsBehind, Called
  <2> QED
    BY <2>2, InHandStays DEF SyncIsBehind
<1> QED
  BY <1>1 DEF JoinOrder, KeepsPlaces

LEMMA OrderOfNothing ==
  ASSUME LiteInv, loop # "terminated", KeepsPlaces, immediate' = <<>>
  PROVE  JoinOrder'
<1>1. ASSUME NEW c \in Clients PROVE SyncIsBehind(c)'
  <2>1. Len(immediate') = 0
    BY EmptySeq
  <2>2. ASSUME NEW i \in 1 .. Len(immediate') PROVE FALSE
    BY <2>1, <2>2
  <2> QED
    BY <2>2, InHandStays DEF SyncIsBehind
<1> QED
  BY <1>1 DEF JoinOrder, KeepsPlaces

LEMMA OrderOfMore ==
  ASSUME LiteInv, loop # "terminated", KeepsPlaces,
         NEW g \in Posts \union {Hollow}, immediate' = Append(immediate, g)
  PROVE  JoinOrder'
<1>1. /\ immediate \in Seq(Queueable) /\ g \in Queueable /\ Len(immediate) \in Nat
      /\ Posts \intersect Syncs = {}
  BY TypesOfLite DEF Queueable
<1>2. /\ Len(immediate') = Len(immediate) + 1
      /\ \A i \in 1 .. Len(immediate) : immediate'[i] = immediate[i]
      /\ immediate'[Len(immediate) + 1] = g
  BY <1>1, AppendProperties
<1>3. ASSUME NEW c \in Clients PROVE SyncIsBehind(c)'
  <2>1. SyncIsBehind(c)
    BY DEF LiteInv, JoinOrder
  <2>2. g # <<"sync", c>>
    BY <1>1 DEF Syncs, Hollow
  <2>3. ASSUME NEW i \in 1 .. Len(immediate'), immediate'[i] = <<"sync", c>>
        PROVE  i \in 1 .. Len(immediate) /\ immediate[i] = <<"sync", c>>
    <3>1. i # Len(immediate) + 1
      BY <1>2, <2>2, <2>3
    <3>2. i \in 1 .. Len(immediate)
      BY <1>1, <1>2, <3>1
    <3> QED
      BY <1>2, <2>3, <3>2
  <2>4. ASSUME NEW i \in 1 .. Len(immediate'), immediate'[i] = <<"sync", c>>
        PROVE  /\ client'[c] \in JoinPoints
               /\ \A f \in before'[c] : Called(f, i)'
               /\ ~(Held' /\ cur' = <<"sync", c>>)
               /\ \A j \in 1 .. Len(immediate') : immediate'[j] = <<"sync", c>> => i = j
    <3>1. i \in 1 .. Len(immediate) /\ immediate[i] = <<"sync", c>>
      BY <2>4, <2>3
    <3>2. \A f \in before'[c] : Called(f, i)'
      BY <1>1, <1>2, <3>1, PlaceStays DEF Called
    <3>3. ASSUME NEW j \in 1 .. Len(immediate'), immediate'[j] = <<"sync", c>> PROVE i = j
      <4>1. j \in 1 .. Len(immediate) /\ immediate[j] = <<"sync", c>>
        BY <2>3, <3>3
      <4> QED
        BY <2>1, <3>1, <4>1 DEF SyncIsBehind
    <3> QED
      BY <3>1, <3>2, <3>3, PlaceStays
  <2> QED
    BY <2>4, InHandStays DEF SyncIsBehind
<1> QED
  BY <1>3 DEF JoinOrder, KeepsPlaces

(* The functor of join() comes last. *)
LEMMA OrderOfJoin ==
  ASSUME LiteInv, loop # "terminated", NEW d \in Clients,
         client[d] = "idle", client'[d] \in JoinPoints,
         \A c \in Clients \ {d} : client'[c] = client[c] /\ before'[c] = before[c],
         before'[d] = Pending \intersect Posts,
         immediate' = Append(immediate, <<"sync", d>>),
         loop' = loop, cur' = cur
  PROVE  JoinOrder'
<1> DEFINE g == <<"sync", d>>
<1>1. /\ immediate \in Seq(Queueable) /\ g \in Queueable /\ Len(immediate) \in Nat
      /\ Posts \intersect Syncs = {}
  BY TypesOfLite DEF Queueable, Syncs
<1>2. /\ Len(immediate') = Len(immediate) + 1
      /\ \A i \in 1 .. Len(immediate) : immediate'[i] = immediate[i]
      /\ immediate'[Len(immediate) + 1] = g
      /\ Held' <=> Held
  BY <1>1, AppendProperties DEF Held
<1>3. ASSUME NEW c \in Clients \ {d} PROVE SyncIsBehind(c)'
  <2>1. SyncIsBehind(c)
    BY DEF LiteInv, JoinOrder
  <2>2. g # <<"sync", c>>
    OBVIOUS
  <2>3. ASSUME NEW i \in 1 .. Len(immediate'), immediate'[i] = <<"sync", c>>
        PROVE  /\ client'[c] \in JoinPoints
               /\ \A f \in before'[c] : Called(f, i)'
               /\ ~(Held' /\ cur' = <<"sync", c>>)
               /\ \A j \in 1 .. Len(immediate') : immediate'[j] = <<"sync", c>> => i = j
    <3>1. i \in 1 .. Len(immediate) /\ immediate[i] = <<"sync", c>>
      BY <1>1, <1>2, <2>2, <2>3
    <3>2. ASSUME NEW f \in before'[c] PROVE Called(f, i)'
      <4>1. Called(f, i)
        BY <2>1, <3>1 DEF SyncIsBehind
      <4> QED
        BY <1>1, <1>2, <3>1, <4>1 DEF Called
    <3>3. ASSUME NEW j \in 1 .. Len(immediate'), immediate'[j] = <<"sync", c>> PROVE i = j
      <4>1. j \in 1 .. Len(immediate) /\ immediate[j] = <<"sync", c>>
        BY <1>1, <1>2, <2>2, <3>3
      <4> QED
        BY <2>1, <3>1, <4>1 DEF SyncIsBehind
    <3> QED
      BY <1>2, <2>1, <3>1, <3>2, <3>3 DEF SyncIsBehind
  <2>4. Held' /\ cur' = <<"sync", c>> => client'[c] \in JoinPoints /\ before'[c] = {}
    BY <1>2, <2>1 DEF SyncIsBehind
  <2> QED
    BY <2>3, <2>4 DEF SyncIsBehind
<1>4. SyncIsBehind(d)'
  <2>1. SyncIsBehind(d) /\ client[d] \notin JoinPoints
    BY DEF LiteInv, JoinOrder, JoinPoints
  <2>2. ~(Held' /\ cur' = <<"sync", d>>)
    BY <1>2, <2>1 DEF SyncIsBehind
  <2>3. \A i \in 1 .. Len(immediate) : immediate[i] # <<"sync", d>>
    BY <2>1 DEF SyncIsBehind
  <2>4. ASSUME NEW i \in 1 .. Len(immediate'), immediate'[i] = <<"sync", d>>
        PROVE  i = Len(immediate) + 1
    BY <1>1, <1>2, <2>3, <2>4
  <2>5. ASSUME NEW f \in before'[d], NEW i, i = Len(immediate) + 1 PROVE Called(f, i)'
    <3>1. f \in Posts /\ (f \in ToSet(immediate) \/ f \in InHand)
      BY DEF Pending
    <3>2. CASE f \in ToSet(immediate)
      <4>1. PICK j \in 1 .. Len(immediate) : f = immediate[j]
        BY <1>1, <3>2, LenProperties DEF ToSet
      <4> QED
        BY <1>1, <1>2, <2>5, <4>1 DEF Called
    <3>3. CASE f \in InHand
      <4>1. loop \in {"sync", "again", "callPoke"} => cur \in Syncs
        BY DEF LiteInv, JoinOrder
      <4> QED
        BY <1>1, <3>1, <3>3, <4>1 DEF InHand, Called, Held, HoldPoints
    <3> QED
      BY <3>1, <3>2, <3>3
  <2>6. ASSUME NEW i \in 1 .. Len(immediate'), immediate'[i] = <<"sync", d>>
        PROVE  /\ \A f \in before'[d] : Called(f, i)'
               /\ \A j \in 1 .. Len(immediate') : immediate'[j] = <<"sync", d>> => i = j
    <3>1. i = Len(immediate) + 1
      BY <2>4, <2>6
    <3>2. \A f \in before'[d] : Called(f, i)'
      BY <2>5, <3>1
    <3> QED
      BY <2>4, <3>1, <3>2
  <2> QED
    BY <2>2, <2>6 DEF SyncIsBehind
<1>5. loop' \in {"sync", "again", "callPoke"} => cur' \in Syncs
  BY DEF LiteInv, JoinOrder
<1> QED
  BY <1>3, <1>4, <1>5 DEF JoinOrder

(* What was first in the queue is in hand. *)
LEMMA OrderOfNext ==
  ASSUME LiteInv, loop = "immediate", loop' = "call", immediate # <<>>,
         cur' = Head(immediate), immediate' = Tail(immediate),
         client' = client, before' = before
  PROVE  JoinOrder'
<1>1. immediate \in Seq(Queueable) /\ ~Held /\ Held'
  BY TypesOfLite DEF Held, HoldPoints
<1>2. /\ Len(immediate) \in Nat \ {0} /\ cur' = immediate[1]
      /\ Len(immediate') = Len(immediate) - 1
      /\ \A i \in 1 .. Len(immediate') : immediate'[i] = immediate[i + 1]
  BY <1>1, HeadTailProperties, EmptySeq, LenProperties
<1>3. ASSUME NEW c \in Clients PROVE SyncIsBehind(c)'
  <2>1. SyncIsBehind(c)
    BY DEF LiteInv, JoinOrder
  <2>2. ASSUME NEW i \in 1 .. Len(immediate'), immediate'[i] = <<"sync", c>>
        PROVE  /\ client'[c] \in JoinPoints
               /\ \A f \in before'[c] : Called(f, i)'
               /\ ~(Held' /\ cur' = <<"sync", c>>)
               /\ \A j \in 1 .. Len(immediate') : immediate'[j] = <<"sync", c>> => i = j
    <3>1. i + 1 \in 1 .. Len(immediate) /\ immediate[i + 1] = <<"sync", c>> /\ i \in Nat
      BY <1>2, <2>2
    <3>2. 1 \in 1 .. Len(immediate) /\ i + 1 # 1
      BY <1>2, <3>1
    <3>3. immediate[1] # <<"sync", c>>
      BY <2>1, <3>1, <3>2 DEF SyncIsBehind
    <3>4. ASSUME NEW j \in 1 .. Len(immediate'), immediate'[j] = <<"sync", c>> PROVE i = j
      <4>1. j + 1 \in 1 .. Len(immediate) /\ immediate[j + 1] = <<"sync", c>>
        BY <1>2, <3>4
      <4>2. i + 1 = j + 1
        BY <2>1, <3>1, <4>1 DEF SyncIsBehind
      <4> QED
        BY <3>1, <4>2
    <3>5. ASSUME NEW f \in before'[c] PROVE Called(f, i)'
      <4>1. Called(f, i + 1)
        BY <2>1, <3>1, <3>5 DEF SyncIsBehind
      <4>2. PICK j \in 1 .. Len(immediate) : j < i + 1 /\ f = immediate[j]
        BY <1>1, <4>1 DEF Called
      <4>3. CASE j = 1
        BY <1>1, <1>2, <4>2, <4>3 DEF Called
      <4>4. CASE j # 1
        <5>1. j - 1 \in 1 .. Len(immediate') /\ j - 1 < i /\ immediate'[j - 1] = f
          <6>1. j - 1 \in 1 .. Len(immediate') /\ (j - 1) + 1 = j /\ j - 1 < i
            BY <1>2, <3>1, <4>2, <4>4
          <6> QED
            BY <1>2, <4>2, <6>1
        <5> QED
          BY <5>1 DEF Called
      <4> QED
        BY <4>3, <4>4
    <3> QED
      BY <1>2, <2>1, <3>1, <3>3, <3>4, <3>5 DEF SyncIsBehind
  <2>3. ASSUME Held', cur' = <<"sync", c>>
        PROVE  client'[c] \in JoinPoints /\ before'[c] = {}
    <3>1. 1 \in 1 .. Len(immediate) /\ immediate[1] = <<"sync", c>>
      BY <1>2, <2>3
    <3>2. \A f \in before[c] : Called(f, 1)
      BY <2>1, <3>1 DEF SyncIsBehind
    <3>3. \A f \in before[c] : FALSE
      BY <1>1, <1>2, <3>2 DEF Called
    <3> QED
      BY <2>1, <3>1, <3>3 DEF SyncIsBehind
  <2> QED
    BY <2>2, <2>3 DEF SyncIsBehind
<1> QED
  BY <1>3 DEF JoinOrder
------------------------------------------------------------------------------
(* Everything but the order. *)
Rest == TypeOK /\ TimerInHand /\ CancelIsAsked /\ OnlyTheOwner /\ LoopIsOver

LEMMA QueueMore ==
  ASSUME LiteInv, NEW f \in Queueable
  PROVE  Append(immediate, f) \in Seq(Posts \union Syncs \union {Hollow})
<1>1. immediate \in Seq(Queueable)
  BY TypesOfLite
<1> QED
  BY <1>1, AppendProperties DEF Queueable

(* A call begins. *)
LEMMA MayBeginIs ==
  ASSUME LiteInv, NEW c \in Clients, NEW to \in ClientPoints, MayBegin(c, to)
  PROVE  /\ client[c] = "idle" /\ client'[c] = to
         /\ \A d \in Clients \ {c} : client'[d] = client[d]
         /\ client' \in [Clients -> ClientPoints]
         /\ calls' \in 0 .. MaxCalls
         /\ thread = "sync" => c # Owner
<1>1. calls' \in 0 .. MaxCalls
  BY TimesAssumption DEF MayBegin, LiteInv, TypeOK
<1>2. client[c] = "idle" /\ client' = [client EXCEPT ![c] = to] /\ (thread = "sync" => c # Owner)
  BY DEF MayBegin, Goto
<1> QED
  BY <1>1, <1>2, TypesOfLite

LEMMA BeginIs ==
  ASSUME LiteInv, NEW c \in Clients, NEW what \in Calls,
         NEW to \in ClientPoints, Begin(c, what, to)
  PROVE  /\ client[c] = "idle" /\ client'[c] = to /\ call'[c] = what
         /\ \A d \in Clients \ {c} : client'[d] = client[d] /\ call'[d] = call[d]
         /\ client' \in [Clients -> ClientPoints]
         /\ call' \in [Clients -> Calls]
         /\ calls' \in 0 .. MaxCalls
         /\ thread = "sync" => c # Owner
<1>1. MayBegin(c, to) /\ call' = [call EXCEPT ![c] = what]
  BY DEF Begin
<1> QED
  BY <1>1, MayBeginIs, TypesOfLite

LEMMA ImmediateKeepsInv ==
  ASSUME LiteInv, loop # "terminated", NEW c \in Clients, Immediate(c)
  PROVE  LiteInv'
<1>1. PICK f \in Posts \ Pending :
        Begin(c, "other", "poke") /\ immediate' = Append(immediate, f)
  BY DEF Immediate
<1>2. UNCHANGED <<clock, flags, timeout, loopVars, before>>
  BY DEF Immediate
<1>3. /\ client[c] = "idle" /\ client'[c] = "poke" /\ call'[c] = "other"
      /\ \A d \in Clients \ {c} : client'[d] = client[d] /\ call'[d] = call[d]
      /\ client' \in [Clients -> ClientPoints]
      /\ call' \in [Clients -> Calls]
      /\ calls' \in 0 .. MaxCalls
  BY <1>1, BeginIs DEF ClientPoints, Calls
<1>4. immediate' \in Seq(Posts \union Syncs \union {Hollow})
  BY <1>1, QueueMore DEF Queueable
<1>5. Rest'
  BY <1>2, <1>3, <1>4, OwnerAssumption DEF LiteInv, Rest, TypeOK, TimerInHand, CancelIsAsked, OnlyTheOwner,
     LoopIsOver, clock, flags, loopVars
<1>6. KeepsPlaces
  BY <1>2, <1>3 DEF KeepsPlaces, Held, HoldPoints, LiteInv, JoinOrder, JoinPoints, loopVars
<1> QED
  BY <1>1, <1>2, <1>5, <1>6, OrderOfMore DEF LiteInv, Rest

LEMMA TimeoutKeepsInv ==
  ASSUME LiteInv, loop # "terminated", NEW c \in Clients, Timeout(c)
  PROVE  LiteInv'
<1>1. PICK k \in Timers, d \in Delays, i \in Intervals :
        /\ Begin(c, "other", "poke")
        /\ timeout' = timeout \union
             {[functor |-> k, time |-> now + (IF i = 0 THEN d ELSE i), interval |-> i]}
  BY DEF Timeout
<1>2. UNCHANGED <<clock, flags, immediate, loopVars, before>>
  BY DEF Timeout
<1>3. /\ client[c] = "idle" /\ client'[c] = "poke" /\ call'[c] = "other"
      /\ \A e \in Clients \ {c} : client'[e] = client[e] /\ call'[e] = call[e]
      /\ client' \in [Clients -> ClientPoints]
      /\ call' \in [Clients -> Calls]
      /\ calls' \in 0 .. MaxCalls
  BY <1>1, BeginIs DEF ClientPoints, Calls
<1>4. timeout' \subseteq Timer
  <2>1. d \in Nat /\ i \in Nat /\ now \in Nat
    BY TimesAssumption DEF LiteInv, TypeOK
  <2>2. now + (IF i = 0 THEN d ELSE i) \in Nat
    BY <2>1
  <2> QED
    BY <1>1, <2>2 DEF LiteInv, TypeOK, Timer
<1>5. Rest'
  BY <1>2, <1>3, <1>4, OwnerAssumption DEF LiteInv, Rest, TypeOK, TimerInHand, CancelIsAsked,
     OnlyTheOwner, LoopIsOver, clock, flags, loopVars
<1>6. KeepsPlaces
  BY <1>2, <1>3 DEF KeepsPlaces, Held, HoldPoints, LiteInv, JoinOrder, JoinPoints, loopVars
<1> QED
  BY <1>2, <1>5, <1>6, OrderStays DEF LiteInv, Rest

LEMMA JoinKeepsInv ==
  ASSUME LiteInv, loop # "terminated", NEW c \in Clients, Join(c)
  PROVE  LiteInv'
<1>1. PICK what \in {"join", "joinEmpty"} : Begin(c, what, "joinPoke")
  BY DEF Join
<1>2. /\ immediate' = Append(immediate, <<"sync", c>>)
      /\ before' = [before EXCEPT ![c] = Pending \intersect Posts]
      /\ UNCHANGED <<clock, flags, timeout, loopVars>>
  BY DEF Join
<1>3. /\ client[c] = "idle" /\ client'[c] = "joinPoke" /\ call'[c] = what
      /\ \A d \in Clients \ {c} : client'[d] = client[d] /\ call'[d] = call[d]
      /\ client' \in [Clients -> ClientPoints]
      /\ call' \in [Clients -> Calls]
      /\ calls' \in 0 .. MaxCalls
  BY <1>1, BeginIs DEF ClientPoints, Calls
<1>4. immediate' \in Seq(Posts \union Syncs \union {Hollow})
  BY <1>2, QueueMore DEF Queueable, Syncs
<1>5. /\ before' \in [Clients -> SUBSET Posts] /\ before'[c] = Pending \intersect Posts
      /\ \A d \in Clients \ {c} : before'[d] = before[d]
  BY <1>2, TypesOfLite
<1>6. Rest'
  BY <1>1, <1>2, <1>3, <1>4, <1>5, OwnerAssumption DEF LiteInv, Rest, TypeOK, TimerInHand, CancelIsAsked,
     OnlyTheOwner, LoopIsOver, clock, flags, loopVars
<1>7. JoinOrder'
  BY <1>2, <1>3, <1>5, OrderOfJoin DEF JoinPoints, loopVars
<1> QED
  BY <1>6, <1>7 DEF LiteInv, Rest

LEMMA PokeKeepsInv ==
  ASSUME LiteInv, loop # "terminated", NEW c \in Clients, Poke(c) \/ WakeEarly(c)
  PROVE  LiteInv'
<1>1. PICK from \in {"poke", "joinPoke", "stopPoke", "joining"}, to \in {"idle", "joining", "stopTest", "early"} :
        /\ Goto(c, from, to)
        /\ from = "poke" => to = "idle"
        /\ from = "joinPoke" => to = "joining"
        /\ from = "stopPoke" => to = "stopTest"
        /\ from = "joining" => to = "early"
  BY DEF Poke, WakeEarly
<1>2. /\ UNCHANGED <<clock, running, cancel, thread, queues, loopVars, call, calls, before>>
      /\ poked' \in BOOLEAN
  BY DEF Poke, WakeEarly, flags, LiteInv, TypeOK
<1>3. /\ client[c] = from /\ client'[c] = to
      /\ \A d \in Clients \ {c} : client'[d] = client[d]
      /\ client' \in [Clients -> ClientPoints]
  BY <1>1, TypesOfLite DEF Goto, ClientPoints
<1>4. Rest'
  BY <1>1, <1>2, <1>3, OwnerAssumption DEF LiteInv, Rest, TypeOK, TimerInHand, CancelIsAsked, OnlyTheOwner,
     LoopIsOver, clock, queues, loopVars
<1>5. KeepsPlaces
  BY <1>1, <1>2, <1>3 DEF KeepsPlaces, Held, HoldPoints, LiteInv, JoinOrder, JoinPoints, loopVars
<1> QED
  BY <1>2, <1>4, <1>5, OrderStays DEF LiteInv, Rest, queues

LEMMA ClearKeepsInv ==
  ASSUME LiteInv, loop # "terminated", NEW c \in Clients, Clear(c)
  PROVE  LiteInv'
<1>1. PICK to \in {"idle", "clearTimers"} : MayBegin(c, to)
  BY DEF Clear
<1>2. /\ immediate' = <<>> /\ before' = [d \in Clients |-> before[d] \ ToSet(immediate)]
      /\ UNCHANGED <<clock, flags, loopVars>> /\ timeout' \subseteq timeout
  BY DEF Clear
<1>3. /\ client[c] = "idle" /\ client'[c] = to
      /\ \A d \in Clients \ {c} : client'[d] = client[d]
      /\ client' \in [Clients -> ClientPoints]
      /\ calls' \in 0 .. MaxCalls
  BY <1>1, MayBeginIs DEF ClientPoints
<1>4. /\ call' \in [Clients -> Calls]
      /\ \A d \in Clients : call'[d] \in {call[d], "other", "joinCleared"}
  BY TypesOfLite DEF Clear, Forget, Calls
<1>5. immediate' \in Seq(Posts \union Syncs \union {Hollow})
  BY <1>2, EmptySeq
<1>6. /\ before' \in [Clients -> SUBSET Posts]
      /\ \A d \in Clients : before'[d] \subseteq before[d]
  BY <1>2, TypesOfLite
<1>7. Rest'
  BY <1>2, <1>3, <1>4, <1>5, <1>6, OwnerAssumption DEF LiteInv, Rest, TypeOK, TimerInHand, CancelIsAsked,
     OnlyTheOwner, LoopIsOver, clock, flags, loopVars
<1>8. KeepsPlaces
  BY <1>2, <1>3, <1>6 DEF KeepsPlaces, Held, HoldPoints, LiteInv, JoinOrder, JoinPoints, loopVars
<1> QED
  BY <1>2, <1>7, <1>8, OrderOfNothing DEF LiteInv, Rest

LEMMA ClearTimersKeepsInv ==
  ASSUME LiteInv, loop # "terminated", NEW c \in Clients, ClearTimers(c)
  PROVE  LiteInv'
<1>1. /\ timeout' = {} /\ client' = [client EXCEPT ![c] = "idle"] /\ client[c] = "clearTimers"
      /\ UNCHANGED <<clock, flags, immediate, loopVars, call, calls, before>>
  BY DEF ClearTimers, Goto
<1>2. /\ client'[c] = "idle" /\ \A d \in Clients \ {c} : client'[d] = client[d]
      /\ client' \in [Clients -> ClientPoints]
  BY <1>1, TypesOfLite DEF ClientPoints
<1>3. Rest'
  BY <1>1, <1>2, OwnerAssumption DEF LiteInv, Rest, TypeOK, TimerInHand, CancelIsAsked, OnlyTheOwner,
     LoopIsOver, clock, flags, loopVars
<1>4. KeepsPlaces
  BY <1>1, <1>2 DEF KeepsPlaces, Held, HoldPoints, LiteInv, JoinOrder, JoinPoints, loopVars
<1> QED
  BY <1>1, <1>3, <1>4, OrderStays DEF LiteInv, Rest
------------------------------------------------------------------------------
LEMMA StopKeepsInv ==
  ASSUME LiteInv, loop # "terminated", NEW c \in Clients, Stop(c)
  PROVE  LiteInv'
<1>1. PICK what \in Stops : Begin(c, what, "stopPoke") /\ (what # "stop" => c = Owner)
  BY DEF Stop
<1>2. running' = FALSE /\ UNCHANGED <<clock, poked, cancel, thread, queues, loopVars, before>>
  BY DEF Stop
<1>3. /\ client[c] = "idle" /\ client'[c] = "stopPoke" /\ call'[c] = what
      /\ \A d \in Clients \ {c} : client'[d] = client[d] /\ call'[d] = call[d]
      /\ client' \in [Clients -> ClientPoints]
      /\ call' \in [Clients -> Calls]
      /\ calls' \in 0 .. MaxCalls
      /\ thread = "sync" => c # Owner
  BY <1>1, BeginIs DEF ClientPoints, Calls
<1>4. OnlyTheOwner' /\ LoopIsOver'
  BY <1>1, <1>2, <1>3, OwnerAssumption DEF LiteInv, OnlyTheOwner, LoopIsOver, loopVars, Stops
<1>5. Rest'
  BY <1>2, <1>3, <1>4 DEF LiteInv, Rest, TypeOK, TimerInHand, CancelIsAsked, clock, queues, loopVars
<1>6. KeepsPlaces
  BY <1>2, <1>3 DEF KeepsPlaces, Held, HoldPoints, LiteInv, JoinOrder, JoinPoints, loopVars
<1> QED
  BY <1>2, <1>5, <1>6, OrderStays DEF LiteInv, Rest, queues

LEMMA StopTestKeepsInv ==
  ASSUME LiteInv, loop # "terminated", NEW c \in Clients, StopTest(c)
  PROVE  LiteInv'
<1> DEFINE to == IF thread = "joinable" THEN "stopJoin" ELSE "stopped"
<1>1. /\ client[c] = "stopTest" /\ client' = [client EXCEPT ![c] = to]
      /\ UNCHANGED <<clock, flags, queues, loopVars, call, calls, before>>
  BY DEF StopTest, Goto
<1>2. /\ client'[c] = to /\ \A d \in Clients \ {c} : client'[d] = client[d]
      /\ client' \in [Clients -> ClientPoints]
  BY <1>1, TypesOfLite DEF ClientPoints
<1>3. Rest'
  BY <1>1, <1>2, OwnerAssumption DEF LiteInv, Rest, TypeOK, TimerInHand, CancelIsAsked, OnlyTheOwner,
     LoopIsOver, clock, flags, queues, loopVars
<1>4. KeepsPlaces
  BY <1>1, <1>2 DEF KeepsPlaces, Held, HoldPoints, LiteInv, JoinOrder, JoinPoints, loopVars
<1> QED
  BY <1>1, <1>3, <1>4, OrderStays DEF LiteInv, Rest, queues

LEMMA StopJoinKeepsInv ==
  ASSUME LiteInv, loop # "terminated", NEW c \in Clients, StopJoin(c)
  PROVE  LiteInv'
<1>1. /\ client[c] = "stopJoin"
      /\ UNCHANGED <<clock, running, poked, cancel, queues, cur, tf, asked, call, calls, before>>
  BY DEF StopJoin
<1>2. CASE /\ loop = "off" /\ UNCHANGED loop /\ thread' = "none"
           /\ client' = [client EXCEPT ![c] = "stopped"]
  <2>1. /\ client'[c] = "stopped" /\ \A d \in Clients \ {c} : client'[d] = client[d]
        /\ client' \in [Clients -> ClientPoints]
    BY <1>2, TypesOfLite DEF ClientPoints
  <2>2. Rest'
    BY <1>1, <1>2, <2>1, OwnerAssumption DEF LiteInv, Rest, TypeOK, TimerInHand, CancelIsAsked,
       OnlyTheOwner, LoopIsOver, clock, queues
  <2>3. KeepsPlaces
    BY <1>1, <1>2, <2>1 DEF KeepsPlaces, Held, HoldPoints, LiteInv, JoinOrder, JoinPoints
  <2> QED
    BY <1>1, <2>2, <2>3, OrderStays DEF LiteInv, Rest, queues
<1>3. CASE loop' = "terminated" /\ UNCHANGED <<client, thread>>
  BY <1>1, <1>3 DEF LiteInv, TypeOK, TimerInHand, CancelIsAsked, OnlyTheOwner, LoopIsOver, clock,
     queues, LoopPoints, HoldPoints
<1> QED
  BY <1>2, <1>3 DEF StopJoin, Goto

LEMMA AfterStopKeepsInv ==
  ASSUME LiteInv, loop # "terminated", NEW c \in Clients, AfterStop(c)
  PROVE  LiteInv'
<1>1. /\ client[c] = "stopped" /\ client' = [client EXCEPT ![c] = "idle"]
      /\ call' = [call EXCEPT ![c] = "other"] /\ before' = [before EXCEPT ![c] = {}]
      /\ UNCHANGED <<clock, poked, cancel, cur, tf, asked, calls>>
  BY DEF AfterStop, Return, Goto
<1>2. /\ client'[c] = "idle" /\ call'[c] = "other" /\ before'[c] = {}
      /\ \A d \in Clients \ {c} :
           client'[d] = client[d] /\ call'[d] = call[d] /\ before'[d] = before[d]
      /\ client' \in [Clients -> ClientPoints] /\ before' \in [Clients -> SUBSET Posts]
      /\ call' \in [Clients -> Calls]
  BY <1>1, TypesOfLite DEF ClientPoints, Calls
<1>3. \A d \in Clients :
        (client[d] \in JoinPoints => client'[d] \in JoinPoints) /\ before'[d] \subseteq before[d]
  BY <1>1, <1>2 DEF JoinPoints
<1>4. call[c] # "stop" => c = Owner /\ loop = "off" /\ thread \in {"none", "gone"}
  <2>1. call[c] \in {"run", "runSync", "destroy", "stop"}
    BY DEF AfterStop
  <2> QED
    BY <1>1, <2>1 DEF LiteInv, OnlyTheOwner, LoopIsOver, TypeOK
<1>5. CASE /\ call[c] \in {"run", "runSync"}
           /\ running' = TRUE /\ loop' = "top"
           /\ thread' = IF call[c] = "run" THEN "joinable" ELSE "sync"
           /\ UNCHANGED queues
  <2>1. Rest'
    BY <1>1, <1>2, <1>4, <1>5, OwnerAssumption DEF LiteInv, Rest, TypeOK, TimerInHand, CancelIsAsked,
       OnlyTheOwner, LoopIsOver, clock, queues, LoopPoints, HoldPoints
  <2>2. KeepsPlaces
    BY <1>3, <1>4, <1>5 DEF KeepsPlaces, Held, HoldPoints
  <2> QED
    BY <1>5, <2>1, <2>2, OrderStays DEF LiteInv, Rest, queues
<1>6. CASE /\ call[c] = "destroy"
           /\ immediate' = <<>> /\ timeout' = {} /\ thread' = "gone"
           /\ UNCHANGED <<running, loop>>
  <2>1. immediate' \in Seq(Posts \union Syncs \union {Hollow})
    BY <1>6, EmptySeq
  <2>2. Rest'
    BY <1>1, <1>2, <1>4, <1>6, <2>1, OwnerAssumption DEF LiteInv, Rest, TypeOK, TimerInHand, CancelIsAsked,
       OnlyTheOwner, LoopIsOver, clock
  <2>3. KeepsPlaces
    BY <1>3, <1>4, <1>6 DEF KeepsPlaces, Held, HoldPoints
  <2> QED
    BY <1>6, <2>2, <2>3, OrderOfNothing DEF LiteInv, Rest
<1>7. CASE call[c] = "stop" /\ UNCHANGED <<running, loop, thread, queues>>
  <2>1. Rest'
    BY <1>1, <1>2, <1>7, OwnerAssumption DEF LiteInv, Rest, TypeOK, TimerInHand, CancelIsAsked,
       OnlyTheOwner, LoopIsOver, clock, queues
  <2>2. KeepsPlaces
    BY <1>1, <1>3, <1>7 DEF KeepsPlaces, Held, HoldPoints, LiteInv, JoinOrder
  <2> QED
    BY <1>7, <2>1, <2>2, OrderStays DEF LiteInv, Rest, queues
<1> QED
  BY <1>5, <1>6, <1>7 DEF AfterStop
------------------------------------------------------------------------------
(* The loop goes on with nothing in hand: what its steps have in common.    *)
LEMMA NothingInHand ==
  ASSUME LiteInv, loop # "terminated", loop \notin HoldPoints,
         loop' \notin HoldPoints \union {"callPoke"}, client' = client, before' = before
  PROVE  KeepsPlaces
BY DEF KeepsPlaces, Held, HoldPoints

LEMMA TopKeepsInv == ASSUME LiteInv, loop # "terminated", Top \/ Unpoke PROVE LiteInv'
<1>1. UNCHANGED <<clock, running, cancel, queues, cur, tf, asked, callVars, calls>>
  BY DEF Top, Unpoke
<1>2. /\ loop \in {"top", "unpoke"} /\ loop' \in {"off", "unpoke", "immediate"}
      /\ loop' = "off" \/ thread' = thread
      /\ thread' = thread \/ (thread = "sync" /\ thread' = "none")
      /\ poked' \in BOOLEAN
  BY DEF Top, Unpoke, LoopGoto, LiteInv, TypeOK
<1>3. Rest'
  BY <1>1, <1>2, OwnerAssumption DEF LiteInv, Rest, TypeOK, TimerInHand, CancelIsAsked, OnlyTheOwner,
     LoopIsOver, clock, queues, callVars, LoopPoints, HoldPoints
<1> QED
  BY <1>1, <1>2, <1>3, NothingInHand, OrderStays DEF HoldPoints, LiteInv, Rest, queues, callVars

LEMMA PopImmediateKeepsInv ==
  ASSUME LiteInv, loop # "terminated", PopImmediate
  PROVE  LiteInv'
<1>1. loop = "immediate" /\ UNCHANGED <<clock, flags, timeout, tf, asked, callVars, calls>>
  BY DEF PopImmediate, LoopGoto
<1>2. CASE immediate # <<>>
  <2>1. cur' = Head(immediate) /\ immediate' = Tail(immediate) /\ loop' = "call"
    BY <1>2 DEF PopImmediate, LoopGoto
  <2>2. immediate' \in Seq(Queueable) /\ cur' \in Queueable
    BY <1>2, <2>1, TypesOfLite, HeadTailProperties
  <2>3. /\ immediate' \in Seq(Posts \union Syncs \union {Hollow})
        /\ cur' \in Posts \union Syncs \union {Hollow, None}
    BY <2>2 DEF Queueable
  <2>4. Rest'
    BY <1>1, <2>1, <2>3 DEF LiteInv, Rest, TypeOK, TimerInHand, CancelIsAsked, OnlyTheOwner,
       LoopIsOver, clock, flags, callVars, LoopPoints, HoldPoints
  <2> QED
    BY <1>1, <1>2, <2>1, <2>4, OrderOfNext DEF LiteInv, Rest, callVars
<1>3. CASE immediate = <<>>
  <2>1. loop' = "timers" /\ UNCHANGED <<cur, immediate>>
    BY <1>3 DEF PopImmediate, LoopGoto
  <2>2. Rest'
    BY <1>1, <2>1 DEF LiteInv, Rest, TypeOK, TimerInHand, CancelIsAsked, OnlyTheOwner,
       LoopIsOver, clock, flags, callVars, LoopPoints, HoldPoints
  <2> QED
    BY <1>1, <2>1, <2>2, NothingInHand, OrderStays DEF HoldPoints, LiteInv, Rest, callVars
<1> QED
  BY <1>2, <1>3

LEMMA CallKeepsInv == ASSUME LiteInv, loop # "terminated", Call PROVE LiteInv'
<1>1. /\ loop = "call" /\ loop' = "immediate" /\ cur' = None
      /\ before' = [c \in Clients |-> before[c] \ {cur}] /\ cancel' \in {cancel, TRUE}
      /\ UNCHANGED <<clock, running, poked, thread, queues, tf, asked, client, call, calls>>
  BY DEF Call, LoopGoto
<1>2. /\ before' \in [Clients -> SUBSET Posts]
      /\ \A c \in Clients : \A f \in before'[c] : f \in before[c] /\ f # cur
  BY <1>1, TypesOfLite
<1>3. Rest'
  BY <1>1, <1>2 DEF LiteInv, Rest, TypeOK, TimerInHand, CancelIsAsked, OnlyTheOwner,
     LoopIsOver, clock, queues, LoopPoints, HoldPoints
<1>4. KeepsPlaces
  BY <1>1, <1>2 DEF KeepsPlaces, Held, HoldPoints
<1> QED
  BY <1>1, <1>3, <1>4, OrderStays DEF LiteInv, Rest, queues

LEMMA CallSyncKeepsInv == ASSUME LiteInv, loop # "terminated", CallSync PROVE LiteInv'
<1>1. /\ loop = "call" /\ loop' \in {"sync", "again"} /\ cur \in Syncs
      /\ UNCHANGED <<clock, flags, queues, cur, tf, asked, callVars, calls>>
  BY DEF CallSync, Syncs
<1>2. Rest'
  BY <1>1 DEF LiteInv, Rest, TypeOK, TimerInHand, CancelIsAsked, OnlyTheOwner,
     LoopIsOver, clock, flags, queues, callVars, LoopPoints, HoldPoints
<1>3. KeepsPlaces
  BY <1>1 DEF KeepsPlaces, Held, HoldPoints, callVars
<1> QED
  BY <1>1, <1>2, <1>3, OrderStays DEF LiteInv, Rest, queues

(* The functor of join() ends the wait of its own client only. *)
LEMMA SyncNotifyIs ==
  ASSUME LiteInv, loop # "terminated", SyncNotify
  PROVE  \E c \in Clients :
           /\ loop = "sync" /\ loop' = "immediate" /\ cur = <<"sync", c>> /\ cur' = None
           /\ client[c] = "joining" /\ client'[c] = "idle"
           /\ call'[c] = "other" /\ before'[c] = {}
           /\ \A d \in Clients \ {c} :
                client'[d] = client[d] /\ call'[d] = call[d] /\ before'[d] = before[d]
           /\ client' \in [Clients -> ClientPoints] /\ before' \in [Clients -> SUBSET Posts]
           /\ call' \in [Clients -> Calls]
<1>1. PICK c \in Clients : cur = <<"sync", c>> /\ Return(c, "joining")
  BY DEF SyncNotify
<1>2. /\ client[c] = "joining" /\ client' = [client EXCEPT ![c] = "idle"]
      /\ call' = [call EXCEPT ![c] = "other"] /\ before' = [before EXCEPT ![c] = {}]
      /\ loop = "sync" /\ loop' = "immediate" /\ cur' = None
  BY <1>1 DEF SyncNotify, Return, Goto, LoopGoto
<1>3. /\ client'[c] = "idle" /\ call'[c] = "other" /\ before'[c] = {}
      /\ \A d \in Clients \ {c} :
           client'[d] = client[d] /\ call'[d] = call[d] /\ before'[d] = before[d]
      /\ client' \in [Clients -> ClientPoints] /\ before' \in [Clients -> SUBSET Posts]
      /\ call' \in [Clients -> Calls]
  BY <1>2, TypesOfLite DEF ClientPoints, Calls
<1> QED
  BY <1>1, <1>2, <1>3

LEMMA SyncNotifyKeepsInv == ASSUME LiteInv, loop # "terminated", SyncNotify PROVE LiteInv'
<1>1. UNCHANGED <<clock, flags, queues, tf, asked, calls>>
  BY DEF SyncNotify
<1>2. PICK c \in Clients :
        /\ loop = "sync" /\ loop' = "immediate" /\ cur = <<"sync", c>> /\ cur' = None
        /\ client[c] = "joining" /\ client'[c] = "idle"
        /\ call'[c] = "other" /\ before'[c] = {}
        /\ \A d \in Clients \ {c} :
             client'[d] = client[d] /\ call'[d] = call[d] /\ before'[d] = before[d]
        /\ client' \in [Clients -> ClientPoints] /\ before' \in [Clients -> SUBSET Posts]
        /\ call' \in [Clients -> Calls]
  BY SyncNotifyIs
<1>3. Rest'
  BY <1>1, <1>2, OwnerAssumption DEF LiteInv, Rest, TypeOK, TimerInHand, CancelIsAsked, OnlyTheOwner,
     LoopIsOver, clock, flags, queues, LoopPoints, HoldPoints
<1>4. cur \notin Posts
  BY <1>2, TypesOfLite DEF Syncs
<1>5. \A d \in Clients : \A f \in before'[d] : f \in before[d] /\ f # cur
  BY <1>2, <1>4, TypesOfLite
<1>6. KeepsPlaces
  BY <1>2, <1>5 DEF KeepsPlaces, Held, HoldPoints
<1> QED
  BY <1>1, <1>3, <1>6, OrderStays DEF LiteInv, Rest, queues

LEMMA SyncAgainKeepsInv ==
  ASSUME LiteInv, loop # "terminated", SyncAgain
  PROVE  LiteInv'
<1>1. /\ loop = "again" /\ loop' = "callPoke" /\ immediate' = Append(immediate, Hollow)
      /\ UNCHANGED <<clock, flags, timeout, cur, tf, asked, callVars, calls>>
  BY DEF SyncAgain, LoopGoto
<1>2. cur \in Syncs /\ cur \notin Posts
  BY TypesOfLite DEF SyncAgain, Syncs
<1>3. immediate' \in Seq(Posts \union Syncs \union {Hollow})
  BY <1>1, QueueMore DEF Queueable
<1>4. Rest'
  BY <1>1, <1>3 DEF LiteInv, Rest, TypeOK, TimerInHand, CancelIsAsked, OnlyTheOwner,
     LoopIsOver, clock, flags, callVars, LoopPoints, HoldPoints
<1>5. \A d \in Clients : \A f \in before'[d] : f \in before[d] /\ f # cur
  BY <1>1, <1>2, TypesOfLite DEF callVars
<1>6. KeepsPlaces
  BY <1>1, <1>2, <1>5 DEF KeepsPlaces, Held, HoldPoints, callVars
<1> QED
  BY <1>1, <1>4, <1>6, OrderOfMore DEF LiteInv, Rest

LEMMA CallPokeKeepsInv == ASSUME LiteInv, loop # "terminated", CallPoke PROVE LiteInv'
<1>1. /\ loop = "callPoke" /\ loop' = "immediate" /\ cur' = None /\ poked' = TRUE
      /\ UNCHANGED <<clock, running, cancel, thread, queues, tf, asked, callVars, calls>>
  BY DEF CallPoke, LoopGoto
<1>2. Rest'
  BY <1>1 DEF LiteInv, Rest, TypeOK, TimerInHand, CancelIsAsked, OnlyTheOwner,
     LoopIsOver, clock, queues, callVars, LoopPoints, HoldPoints
<1> QED
  BY <1>1, <1>2, NothingInHand, OrderStays DEF HoldPoints, LiteInv, Rest, queues, callVars

LEMMA CallFailsKeepsInv == ASSUME LiteInv, loop # "terminated", CallFails PROVE LiteInv'
<1>1. loop' = "terminated" /\ UNCHANGED <<clock, flags, queues, cur, tf, asked, callVars, calls>>
  BY DEF CallFails, LoopGoto
<1> QED
  BY <1>1 DEF LiteInv, TypeOK, TimerInHand, CancelIsAsked, OnlyTheOwner, LoopIsOver, clock, flags,
     queues, callVars, LoopPoints, HoldPoints

LEMMA LookAtTimersKeepsInv ==
  ASSUME LiteInv, loop # "terminated", LookAtTimers
  PROVE  LiteInv'
<1>1. /\ loop = "timers" /\ timeout' \subseteq timeout
      /\ UNCHANGED <<clock, running, poked, thread, immediate, cur, asked, callVars, calls>>
  BY DEF LookAtTimers
<1>2. \/ loop' = "idle" /\ UNCHANGED <<tf, cancel>>
      \/ /\ tf' \in timeout
         /\ \/ loop' = "callTimer" /\ cancel' = FALSE
            \/ loop' \in {"timerWait", "holding"} /\ UNCHANGED cancel
  BY DEF LookAtTimers, Earliest
<1>3. Rest'
  BY <1>1, <1>2 DEF LiteInv, Rest, TypeOK, TimerInHand, CancelIsAsked, OnlyTheOwner,
     LoopIsOver, clock, callVars, LoopPoints, HoldPoints
<1> QED
  BY <1>1, <1>2, <1>3, NothingInHand, OrderStays DEF HoldPoints, LiteInv, Rest, callVars

LEMMA PutBackKeepsInv == ASSUME LiteInv, loop # "terminated", PutBack PROVE LiteInv'
<1>1. /\ loop = "holding" /\ loop' = "timerWait" /\ timeout' = timeout \union {tf}
      /\ UNCHANGED <<clock, flags, immediate, cur, tf, asked, callVars, calls>>
  BY DEF PutBack, LoopGoto
<1>2. Rest'
  BY <1>1 DEF LiteInv, Rest, TypeOK, TimerInHand, CancelIsAsked, OnlyTheOwner,
     LoopIsOver, clock, flags, callVars, LoopPoints, HoldPoints
<1> QED
  BY <1>1, <1>2, NothingInHand, OrderStays DEF HoldPoints, LiteInv, Rest, callVars

LEMMA WaitKeepsInv == ASSUME LiteInv, loop # "terminated", Wait PROVE LiteInv'
<1>1. /\ loop \in {"timerWait", "idle"} /\ loop' = "top" /\ tf' \in {tf, None}
      /\ UNCHANGED <<clock, running, cancel, thread, queues, cur, asked, callVars, calls>>
      /\ poked' \in BOOLEAN
  BY DEF Wait, TimerWait, Idle, LoopGoto, WakeUp, LiteInv, TypeOK
<1>2. Rest'
  BY <1>1 DEF LiteInv, Rest, TypeOK, TimerInHand, CancelIsAsked, OnlyTheOwner,
     LoopIsOver, clock, queues, callVars, LoopPoints, HoldPoints
<1> QED
  BY <1>1, <1>2, NothingInHand, OrderStays DEF HoldPoints, LiteInv, Rest, queues, callVars

LEMMA CallTimerKeepsInv == ASSUME LiteInv, loop # "terminated", CallTimer PROVE LiteInv'
<1>1. PICK cancelled \in BOOLEAN :
        /\ loop = "callTimer" /\ loop' = "rearm"
        /\ cancel' = (cancel \/ cancelled) /\ asked' = cancelled
  BY DEF CallTimer, LoopGoto
<1>2. UNCHANGED <<clock, running, poked, thread, queues, cur, tf, callVars, calls>>
  BY DEF CallTimer
<1>3. cancel' \in BOOLEAN /\ asked' \in BOOLEAN /\ cancel' = asked'
  BY <1>1 DEF LiteInv, CancelIsAsked
<1>4. Rest'
  BY <1>1, <1>2, <1>3 DEF LiteInv, Rest, TypeOK, TimerInHand, CancelIsAsked, OnlyTheOwner,
     LoopIsOver, clock, queues, callVars, LoopPoints, HoldPoints
<1> QED
  BY <1>1, <1>2, <1>4, NothingInHand, OrderStays DEF HoldPoints, LiteInv, Rest, queues, callVars

LEMMA RearmKeepsInv == ASSUME LiteInv, loop # "terminated", Rearm PROVE LiteInv'
<1>1. /\ loop = "rearm" /\ loop' = "timers" /\ tf' = None /\ asked' = FALSE
      /\ UNCHANGED <<clock, flags, immediate, cur, callVars, calls>>
  BY DEF Rearm, LoopGoto
<1>2. timeout' \subseteq Timer
  <2>1. tf \in Timer /\ timeout \subseteq Timer
    BY <1>1 DEF LiteInv, TypeOK, TimerInHand
  <2>2. tf.time \in Nat /\ tf.interval \in Nat
    BY <2>1, TimesAssumption DEF Timer
  <2>3. [tf EXCEPT !.time = @ + tf.interval] \in Timer
    BY <2>1, <2>2 DEF Timer
  <2> QED
    BY <2>1, <2>3 DEF Rearm
<1>3. Rest'
  BY <1>1, <1>2 DEF LiteInv, Rest, TypeOK, TimerInHand, CancelIsAsked, OnlyTheOwner,
     LoopIsOver, clock, flags, callVars, LoopPoints, HoldPoints
<1> QED
  BY <1>1, <1>3, NothingInHand, OrderStays DEF HoldPoints, LiteInv, Rest, callVars

LEMMA TickKeepsInv == ASSUME LiteInv, loop # "terminated", Tick PROVE LiteInv'
<1>1. /\ now < MaxTime /\ now' = now + 1
      /\ UNCHANGED <<build, flags, queues, loopVars, callVars, calls>>
  BY DEF Tick
<1>2. now' \in 0 .. MaxTime
  <2>1. MaxTime \in Nat /\ now \in 0 .. MaxTime
    BY TimesAssumption DEF LiteInv, TypeOK
  <2> QED
    BY <1>1, <2>1
<1>3. Rest'
  BY <1>1, <1>2 DEF LiteInv, Rest, TypeOK, TimerInHand, CancelIsAsked, OnlyTheOwner,
     LoopIsOver, flags, queues, loopVars, callVars
<1>4. KeepsPlaces
  BY <1>1 DEF KeepsPlaces, Held, HoldPoints, LiteInv, JoinOrder, loopVars, callVars
<1> QED
  BY <1>1, <1>3, <1>4, OrderStays DEF LiteInv, Rest, queues
------------------------------------------------------------------------------
LEMMA LiteNextKeepsInv == ASSUME LiteInv, [Next]_vars PROVE LiteInv'
<1>1. CASE UNCHANGED vars
  BY <1>1 DEF LiteInv, TypeOK, TimerInHand, CancelIsAsked, OnlyTheOwner, LoopIsOver, JoinOrder,
     SyncIsBehind, Called, Held, vars, clock, flags, queues, loopVars, callVars
<1>2. CASE Next
  <2>1. loop # "terminated"
    BY <1>2 DEF Next
  <2>2. CASE LoopStep
    BY <2>1, <2>2, TopKeepsInv, PopImmediateKeepsInv, CallKeepsInv, CallSyncKeepsInv,
       SyncNotifyKeepsInv, SyncAgainKeepsInv, CallPokeKeepsInv, CallFailsKeepsInv, LookAtTimersKeepsInv,
       PutBackKeepsInv, CallTimerKeepsInv, RearmKeepsInv DEF LoopStep
  <2>3. CASE Wait \/ Tick
    BY <2>1, <2>3, WaitKeepsInv, TickKeepsInv
  <2>4. CASE \E c \in Clients : Start(c) \/ Continue(c) \/ WakeEarly(c)
    BY <2>1, <2>4, ImmediateKeepsInv, TimeoutKeepsInv, JoinKeepsInv, ClearKeepsInv, StopKeepsInv,
       PokeKeepsInv, ClearTimersKeepsInv, StopTestKeepsInv, StopJoinKeepsInv, AfterStopKeepsInv
       DEF Start, Continue
  <2> QED
    BY <1>2, <2>2, <2>3, <2>4 DEF Next
<1> QED
  BY <1>1, <1>2

LEMMA LiteInvariant == Spec => []LiteInv
<1>1. Init => LiteInv
  BY LiteInitInv
<1>2. LiteInv /\ [Next]_vars => LiteInv'
  BY LiteNextKeepsInv
<1> QED
  BY <1>1, <1>2, PTL DEF Spec

(* What the variables hold: the queue only what was posted, or what join()  *)
(* moved away; and a timer that was put back, or rearmed, has a time.       *)
THEOREM LiteStaysTyped == Spec => []TypeOK
<1>1. LiteInv => TypeOK
  BY DEF LiteInv
<1> QED
  BY <1>1, LiteInvariant, PTL

(* join() is woken up when what was queued before it is done (123), however *)
(* many clients join the loop, clear it and stop it.                        *)
THEOREM JoinStaysBehind == Spec => JoinWaits
<1>1. ASSUME LiteInv, [Next]_vars, NEW c \in Clients,
             client[c] = "joining", client'[c] = "idle"
      PROVE  before[c] = {}
  <2>1. Next /\ loop # "terminated"
    BY <1>1 DEF Next, vars, callVars
  <2>2. CASE SyncNotify
    <3>1. PICK d \in Clients :
            /\ loop = "sync" /\ cur = <<"sync", d>>
            /\ \A e \in Clients \ {d} : client'[e] = client[e]
      BY <1>1, <2>1, <2>2, SyncNotifyIs
    <3>2. d = c
      BY <1>1, <3>1
    <3> QED
      BY <1>1, <2>1, <3>1, <3>2 DEF LiteInv, JoinOrder, SyncIsBehind, Held, HoldPoints
  <2>3. CASE LoopStep /\ ~SyncNotify
    <3>1. client' = client
      BY <2>3 DEF LoopStep, Top, Unpoke, PopImmediate, Call, CallSync, SyncAgain, CallPoke, CallFails,
         LookAtTimers, PutBack, CallTimer, Rearm, callVars
    <3> QED
      BY <1>1, <3>1
  <2>4. CASE Wait \/ Tick
    BY <1>1, <2>4 DEF Wait, TimerWait, Idle, Tick, callVars
  <2>5. ASSUME NEW d \in Clients, Start(d) \/ Continue(d) \/ WakeEarly(d)
        PROVE  before[c] = {}
    <3>1. CASE Start(d)
      BY <1>1, <3>1, TypesOfLite DEF Start, Immediate, Timeout, Join, Clear, Stop, Begin, MayBegin, Goto
    <3>2. CASE Continue(d) \/ WakeEarly(d)
      BY <1>1, <3>2, TypesOfLite DEF Continue, WakeEarly, Poke, ClearTimers, StopTest, StopJoin,
         AfterStop, Return, Goto
    <3> QED
      BY <2>5, <3>1, <3>2
  <2> QED
    BY <2>1, <2>2, <2>3, <2>4, <2>5 DEF Next
<1>2. LiteInv /\ [Next]_vars =>
        [\A c \in Clients : client[c] = "joining" /\ client'[c] = "idle" => before[c] = {}]_vars
  BY <1>1
<1> QED
  BY <1>2, LiteInvariant, PTL DEF Spec, JoinWaits
------------------------------------------------------------------------------
(* What may happen to a timer: it stays, or its functor goes on in another. *)
GoesOn(t) ==
  \/ \E next \in Timed' : next.functor = t.functor
  \/ loop = "rearm" /\ asked
  \/ loop' = "terminated"
  \/ \E c \in Clients : Clear(c) \/ ClearTimers(c)
  \/ thread' = "gone"

LEMMA TimerStays == ASSUME NEW t \in Timed, t \in Timed' PROVE GoesOn(t)
BY DEF GoesOn

LEMMA HandStays ==
  ASSUME timeout \subseteq timeout', tf' = tf, NEW t \in Timed,
         loop \in {"holding", "callTimer", "rearm"} =>
           loop' \in {"holding", "callTimer", "rearm"} \/ tf \in timeout'
  PROVE  GoesOn(t)
<1>1. t \in Timed'
  BY DEF Timed
<1> QED
  BY <1>1, TimerStays

LEMMA ClientsKeepTimers ==
  ASSUME LiteInv, NEW c \in Clients, Start(c) \/ Continue(c) \/ WakeEarly(c), NEW t \in Timed
  PROVE  GoesOn(t)
<1>1. CASE Clear(c) \/ ClearTimers(c)
  BY <1>1 DEF GoesOn
<1>2. CASE AfterStop(c)
  <2>1. CASE thread' = "gone"
    BY <2>1 DEF GoesOn
  <2>2. CASE UNCHANGED <<running, loop, thread, queues>>
    <3>1. timeout' = timeout /\ tf' = tf /\ loop' = loop
      BY <1>2, <2>2 DEF AfterStop, queues
    <3> QED
      BY <3>1, HandStays
  <2>3. CASE call[c] \in {"run", "runSync"} /\ UNCHANGED queues
    <3>1. loop \in {"off", "terminated"}
      BY <1>2, <2>3 DEF AfterStop, Return, Goto, LiteInv, OnlyTheOwner, LoopIsOver, TypeOK
    <3>2. timeout' = timeout /\ tf' = tf
      BY <1>2, <2>3 DEF AfterStop, queues
    <3> QED
      BY <3>1, <3>2, HandStays
  <2> QED
    BY <1>2, <2>1, <2>2, <2>3 DEF AfterStop
<1>3. CASE StopJoin(c)
  <2>1. timeout' = timeout /\ tf' = tf /\ (loop' = loop \/ loop' = "terminated")
    BY <1>3 DEF StopJoin, queues
  <2> QED
    BY <2>1, HandStays DEF GoesOn
<1>4. CASE Immediate(c) \/ Timeout(c) \/ Join(c) \/ Stop(c) \/ Poke(c) \/ StopTest(c) \/ WakeEarly(c)
  <2>1. timeout \subseteq timeout' /\ tf' = tf /\ loop' = loop
    BY <1>4 DEF Immediate, Timeout, Join, Stop, Poke, StopTest, WakeEarly, queues, loopVars
  <2> QED
    BY <2>1, HandStays
<1> QED
  BY <1>1, <1>2, <1>3, <1>4 DEF Start, Continue

LEMMA LoopKeepsTimers ==
  ASSUME LiteInv, loop # "terminated", LoopStep \/ Wait \/ Tick, NEW t \in Timed, t.interval > 0
  PROVE  GoesOn(t)
<1>1. CASE Top \/ Unpoke \/ PopImmediate \/ Call \/ CallSync \/ SyncNotify \/ SyncAgain \/ CallPoke \/ Wait
  <2>1. /\ timeout' = timeout
        /\ loop \in {"top", "unpoke", "immediate", "call", "sync", "again", "callPoke", "timerWait", "idle"}
    BY <1>1 DEF Top, Unpoke, PopImmediate, Call, CallSync, SyncNotify, SyncAgain, CallPoke, Wait, TimerWait,
       Idle, LoopGoto, queues
  <2>2. t \in Timed'
    BY <2>1 DEF Timed
  <2> QED
    BY <2>2, TimerStays
<1>2. CASE CallFails
  BY <1>2 DEF CallFails, LoopGoto, GoesOn
<1>3. CASE LookAtTimers
  <2>1. loop = "timers" /\ t \in timeout
    BY <1>3 DEF LookAtTimers, Timed
  <2>2. CASE timeout' = timeout
    BY <2>1, <2>2, TimerStays DEF Timed
  <2>3. CASE /\ timeout' = timeout \ {tf'} /\ loop' \in {"callTimer", "holding"}
    BY <2>1, <2>3, TimerStays DEF Timed
  <2> QED
    BY <1>3, <2>2, <2>3 DEF LookAtTimers
<1>4. CASE PutBack \/ CallTimer \/ Tick
  <2>1. /\ timeout \subseteq timeout' /\ tf' = tf
        /\ loop' = loop \/ loop' = "rearm" \/ tf \in timeout'
    BY <1>4 DEF PutBack, CallTimer, Tick, LoopGoto, queues, loopVars
  <2> QED
    BY <2>1, HandStays
<1>5. CASE Rearm
  <2>1. loop = "rearm" /\ loop' = "timers" /\ tf \in Timer /\ cancel = asked /\ timeout \subseteq Timer
    BY <1>5 DEF Rearm, LoopGoto, LiteInv, TimerInHand, CancelIsAsked, TypeOK
  <2>2. CASE asked
    BY <2>1, <2>2 DEF GoesOn
  <2>3. CASE ~asked /\ t # tf
    <3>1. t \in timeout /\ timeout \subseteq timeout'
      BY <1>5, <2>1, <2>3 DEF Timed, Rearm
    <3> QED
      BY <3>1, TimerStays DEF Timed
  <2>4. CASE ~asked /\ t = tf
    <3> DEFINE next == [tf EXCEPT !.time = @ + tf.interval]
    <3>1. next \in timeout' /\ next.functor = t.functor
      BY <1>5, <2>1, <2>4 DEF Rearm, Timer
    <3> QED
      BY <3>1 DEF Timed, GoesOn
  <2> QED
    BY <2>2, <2>3, <2>4
<1> QED
  BY <1>1, <1>2, <1>3, <1>4, <1>5 DEF LoopStep

(* A timer with an interval is called again and again, in either build,     *)
(* unless its own functor calls cancel() (117) or somebody clears the loop  *)
(* or destroys it: what one functor asks is not another's end.              *)
THEOREM IntervalStaysKept == Spec => IntervalKept
<1>1. ASSUME LiteInv, [Next]_vars, NEW t \in Timed, t.interval > 0
      PROVE  GoesOn(t) \/ UNCHANGED vars
  <2>1. CASE Next
    <3>1. loop # "terminated"
      BY <2>1 DEF Next
    <3>2. CASE LoopStep \/ Wait \/ Tick
      BY <1>1, <3>1, <3>2, LoopKeepsTimers
    <3>3. CASE \E c \in Clients : Start(c) \/ Continue(c) \/ WakeEarly(c)
      BY <1>1, <3>3, ClientsKeepTimers
    <3> QED
      BY <2>1, <3>2, <3>3 DEF Next
  <2> QED
    BY <1>1, <2>1
<1>2. LiteInv /\ [Next]_vars =>
        [\A t \in Timed : t.interval > 0 =>
           \/ \E next \in Timed' : next.functor = t.functor
           \/ loop = "rearm" /\ asked
           \/ loop' = "terminated"
           \/ \E c \in Clients : Clear(c) \/ ClearTimers(c)
           \/ thread' = "gone"]_vars
  BY <1>1 DEF GoesOn
<1> QED
  BY <1>2, LiteInvariant, PTL DEF Spec, IntervalKept
==============================================================================
