--------------------------- MODULE EventLoopProofs ---------------------------
(***************************************************************************)
(* Proofs about EventLoop, for any number of threads of every kind and any *)
(* functors, failing ones included.                                        *)
(***************************************************************************)
EXTENDS EventLoop, FiniteSetTheorems, TLAPS

(* Where the threads of each kind can be. *)
OwnPoints(t) ==
  IF t \in Posters THEN {"idle"} \union PostPoints
  ELSE IF t \in LoopThreads
    THEN {"idle", "unborn", "check", "signal", "ended"} \union EnterPoints \union LoopPoints
    ELSE {"idle"} \union StopPoints

OwnWays == \A t \in AllThreads : pc[t] \in OwnPoints(t)

(* What is ready is in the queue, and a poster at work has a functor. *)
QueueOK ==
  /\ fifo \in Seq(Functors)
  /\ committed \subseteq Range(fifo)
  /\ taken \in [LoopThreads -> Functors \union {None}]
  /\ \A p \in Posters : pc[p] # "idle" => job[p] \in Functors

(* The inductive invariant.  A constructor that throws leaves its place in  *)
(* the queue and is taken out of the count.                                 *)
IInv ==
  /\ TypeOK /\ OwnWays /\ QueueOK
  /\ ThreadsCounted /\ ManagedAreJoined
  /\ Throwing = {} => ItemsCounted

(* Until somebody calls stop(), whoever got past the start has set Running. *)
NotStopped ==
  /\ ~Stopping
  /\ \A s \in Stoppers : pc[s] = "idle"
  /\ \A t \in LoopThreads : pc[t] # "unrun"
  /\ ~Running => \A t \in LoopThreads :
       pc[t] \in {"idle", "unborn", "check", "ended", "enter", "run"}

(* NoLostPost has to hold already for a thread that is about to sleep: what *)
(* it missed sets Flag, and Flag stays up until a thread wakes up.          *)
NoLostPostYet ==
  HeadIsReady /\ At({"sleep", "asleep"}) # {} =>
    \/ Flag
    \/ At({"wake"}) # {}
    \/ \E t \in LoopThreads : pc[t] \notin {"sleep", "asleep", "unborn", "ended"}

WakeInv == IInv /\ NotStopped /\ NoLostPostYet
------------------------------------------------------------------------------
(* The sets of threads at given points are finite. *)
LEMMA AtIsFinite == ASSUME Assumptions PROVE \A points : IsFiniteSet(At(points))
<1> TAKE points
<1>1. At(points) \subseteq AllThreads
  BY DEF At
<1> QED
  BY <1>1, FS_Subset DEF Assumptions

In(x, points) == IF x \in points THEN 1 ELSE 0

(* A thread that moves takes itself along from one count to another. *)
LEMMA MoveCounts ==
  ASSUME Assumptions, TypeOK, NEW t \in AllThreads, NEW from, NEW to, Goto(t, from, to), NEW points
  PROVE  /\ Cardinality(At(points)) \in Nat /\ Cardinality(At(points)') \in Nat
         /\ Cardinality(At(points)')
              = Cardinality(At(points)) + In(to, points) - In(from, points)
<1> DEFINE W == At(points)
<1>1. IsFiniteSet(W) /\ Cardinality(W) \in Nat
  BY AtIsFinite, FS_CardinalityType
<1>2. /\ to \in points => W' = W \union {t}
      /\ to \notin points => W' = W \ {t}
      /\ t \in W <=> from \in points
  BY DEF At, Goto, TypeOK
<1>3. /\ Cardinality(W \union {t}) = IF t \in W THEN Cardinality(W) ELSE Cardinality(W) + 1
      /\ Cardinality(W \ {t}) = IF t \in W THEN Cardinality(W) - 1 ELSE Cardinality(W)
      /\ IsFiniteSet(W \union {t}) /\ IsFiniteSet(W \ {t})
  BY <1>1, FS_AddElement, FS_RemoveElement
<1>4. Cardinality(W') \in Nat
  BY <1>2, <1>3, FS_CardinalityType
<1>5. Cardinality(W') = Cardinality(W) + In(to, points) - In(from, points)
  <2> DEFINE all == W \union {t}
             rest == W \ {t}
  <2>1. CASE to \in points
    <3>1. W' = all
      BY <2>1, <1>2
    <3>2. Cardinality(all) = IF from \in points THEN Cardinality(W) ELSE Cardinality(W) + 1
      BY <1>2, <1>3
    <3> HIDE DEF W, all
    <3> QED
      BY <2>1, <3>1, <3>2, <1>1 DEF In
  <2>2. CASE to \notin points
    <3>1. W' = rest
      BY <2>2, <1>2
    <3>2. Cardinality(rest) = IF from \in points THEN Cardinality(W) - 1 ELSE Cardinality(W)
      BY <1>2, <1>3
    <3> HIDE DEF W, rest
    <3> QED
      BY <2>2, <3>1, <3>2, <1>1 DEF In
  <2> QED
    BY <2>1, <2>2
<1> QED
  BY <1>1, <1>4, <1>5

LEMMA InitInv == ASSUME Assumptions PROVE Init => IInv
<1> SUFFICES ASSUME Init PROVE IInv
  OBVIOUS
<1> USE DEF Init
<1>1. TypeOK
  <2>1. {Running, Stopping, Flag, LoopEndedFlag} \subseteq BOOLEAN
    BY Zenon
  <2> QED
    BY <2>1 DEF TypeOK
<1>2. OwnWays
  BY DEF Assumptions, OwnWays, OwnPoints, LoopThreads, AllThreads
<1>3. QueueOK
  BY DEF Assumptions, QueueOK, Queue!Init, LoopThreads, AllThreads
<1>4. /\ At(LoopPoints) = {} /\ At({"asleep", "awake"}) = {} /\ At(ItemPoints) = {}
      /\ At({"drain", "loopEnded", "finish"}) = {}
  BY DEF At, LoopPoints, ItemPoints
<1>5. ThreadsCounted /\ ItemsCounted /\ ManagedAreJoined
  <2>1. Cardinality({}) = 0 /\ Len(fifo) = 0
    BY FS_EmptySet DEF Queue!Init
  <2>2. ThreadsCounted
    BY <1>4, <2>1 DEF ThreadsCounted
  <2>3. ItemsCounted
    BY <1>4, <2>1 DEF ItemsCounted
  <2>4. ManagedAreJoined
    BY <1>4 DEF ManagedAreJoined
  <2> QED
    BY <2>2, <2>3, <2>4
<1> QED
  BY <1>1, <1>2, <1>3, <1>5 DEF IInv
------------------------------------------------------------------------------
(* Every step but stop()'s Join moves one thread, and counts it.            *)
CountsWith(from, to) ==
  /\ ThreadsIn' = ThreadsIn + In(to, LoopPoints) - In(from, LoopPoints)
  /\ ThreadsWaiting' = ThreadsWaiting + In(to, {"asleep", "awake"}) - In(from, {"asleep", "awake"})
  /\ Throwing = {} => QueueItems' = QueueItems + Len(fifo') - Len(fifo)
                                      + In(to, ItemPoints) - In(from, ItemPoints)

(* The points of stop() at which the managed threads are gone. *)
JoinedPoints == { "drain", "loopEnded", "finish" }

LegalMove(t, from, to) ==
  /\ Goto(t, from, to) /\ to \in OwnPoints(t)
  /\ CountsWith(from, to)
  /\ to \in JoinedPoints => from \in JoinedPoints
  /\ from = "unborn" => At(JoinedPoints) = {}
  /\ QueueOK'
  /\ QueueItems' \in Int /\ {Running', Stopping', Flag', LoopEndedFlag'} \subseteq BOOLEAN
  /\ job' \in [Posters -> Functors \union {None}]
  /\ answered' \subseteq Posters /\ eh' \subseteq LoopThreads

(* The counters of a state are numbers, and a thread has one way to go.     *)
LEMMA Facts ==
  ASSUME Assumptions, IInv
  PROVE  /\ TypeOK /\ OwnWays /\ QueueOK /\ Len(fifo) \in Nat
         /\ \A t \in Posters : t \notin LoopThreads /\ t \notin Stoppers /\ t \in AllThreads
         /\ \A t \in LoopThreads : t \notin Posters /\ t \notin Stoppers /\ t \in AllThreads
         /\ \A t \in Stoppers : t \notin Posters /\ t \notin LoopThreads /\ t \in AllThreads
BY DEF Assumptions, IInv, QueueOK, AllThreads

(* The queue is not touched, and no poster moves. *)
LEMMA QueueStays ==
  ASSUME Assumptions, TypeOK, QueueOK, NEW t \in AllThreads, t \notin Posters,
         NEW from, NEW to, Goto(t, from, to), UNCHANGED <<queue, job>>
  PROVE  QueueOK' /\ Len(fifo') = Len(fifo)
BY DEF QueueOK, TypeOK, Goto, queue

(* A poster at work.  *)
LEMMA PosterMoves ==
  ASSUME Assumptions, IInv, NEW p \in Posters, PostStep(p) \/ \E f \in Functors : Post(p, f)
  PROVE  \E from, to : LegalMove(p, from, to)
<1> USE DEF LegalMove, CountsWith, OwnPoints, JoinedPoints, ItemPoints, PostPoints, LoopPoints, In
<1>1. TypeOK /\ QueueOK /\ Len(fifo) \in Nat /\ p \in AllThreads /\ p \notin LoopThreads
  BY Facts
<1>2. ASSUME NEW f \in Functors, Post(p, f) PROVE LegalMove(p, "idle", "push")
  <2>1. QueueOK'
    BY <1>1, <1>2 DEF Post, QueueOK, TypeOK, Goto, queue
  <2> QED
    BY <1>1, <1>2, <2>1 DEF Post, TypeOK, Goto, queue, runFlags, counts, events
<1>3. CASE Push(p)
  <2>1. job[p] \in Functors
    BY <1>1, <1>3 DEF QueueOK, Push, Goto
  <2>2. CASE Queue!Reserve(job[p]) /\ Goto(p, "push", "construct")
    <3>1. fifo' \in Seq(Functors) /\ Len(fifo') = Len(fifo) + 1 /\ Range(fifo) \subseteq Range(fifo')
      BY <1>1, <2>1, <2>2 DEF QueueOK, Queue!Reserve, Range
    <3>2. QueueOK'
      BY <1>1, <1>3, <2>2, <3>1 DEF QueueOK, Push, TypeOK, Goto, Queue!Reserve, posting
    <3>3. LegalMove(p, "push", "construct")
      BY <1>1, <1>3, <2>2, <3>1, <3>2 DEF Push, TypeOK, Goto, runFlags, counts, events, posting
    <3> QED
      BY <3>3
  <2>3. CASE Goto(p, "push", "uncount") /\ UNCHANGED queue
    <3>1. QueueOK'
      BY <1>1, <1>3, <2>3 DEF QueueOK, Push, TypeOK, Goto, queue, posting
    <3>2. LegalMove(p, "push", "uncount")
      BY <1>1, <1>3, <2>3, <3>1 DEF Push, TypeOK, Goto, queue, runFlags, counts, events, posting
    <3> QED
      BY <3>2
  <2> QED
    BY <1>3, <2>2, <2>3 DEF Push
<1>4. CASE Construct(p)
  <2> DEFINE to == IF job[p] \in Throwing THEN "uncount" ELSE "wake"
  <2>1. /\ fifo' = fifo /\ taken' = taken /\ job' = job
        /\ committed' \subseteq Range(fifo')
    BY <1>1, <1>4 DEF QueueOK, Construct, Queue!Commit, posting, Range, Queue!Range
  <2>2. pc[p] # "idle" /\ pc' = [pc EXCEPT ![p] = to]
    BY <1>4 DEF Construct, Goto
  <2>3. QueueOK'
    BY <1>1, <2>1, <2>2 DEF QueueOK, TypeOK
  <2>4. LegalMove(p, "construct", to)
    BY <1>1, <1>4, <2>1, <2>3 DEF Construct, TypeOK, Goto, runFlags, counts, events, posting
  <2> QED
    BY <2>4
<1>5. CASE Uncount(p)
  <2>1. QueueOK' /\ fifo' = fifo
    BY <1>1, <1>5 DEF QueueOK, Uncount, TypeOK, Goto, queue
  <2>2. LegalMove(p, "uncount", "idle")
    BY <1>1, <1>5, <2>1 DEF Uncount, TypeOK, Goto, runFlags, counts, events
  <2> QED
    BY <2>2
<1>6. CASE Wake(p)
  <2> DEFINE to == IF job[p] \in Invoked THEN "await" ELSE "idle"
  <2>1. pc[p] # "wakeMore"
    BY <1>1 DEF IInv, OwnWays
  <2>2. Goto(p, "wake", to) /\ job' = IF job[p] \in Invoked THEN job ELSE [job EXCEPT ![p] = None]
    BY <1>6, <2>1 DEF Wake, AfterWake, Goto
  <2>3. QueueOK' /\ fifo' = fifo
    BY <1>1, <1>6, <2>2 DEF QueueOK, Wake, TypeOK, Goto, queue
  <2>4. LegalMove(p, "wake", to)
    BY <1>1, <1>6, <2>2, <2>3 DEF Wake, TypeOK, Goto, runFlags, counts
  <2> QED
    BY <2>4
<1>7. CASE Await(p)
  <2>1. QueueOK' /\ fifo' = fifo
    BY <1>1, <1>7 DEF QueueOK, Await, TypeOK, Goto, queue
  <2>2. LegalMove(p, "await", "idle")
    BY <1>1, <1>7, <2>1 DEF Await, TypeOK, Goto, runFlags, counts, events
  <2> QED
    BY <2>2
<1> QED
  BY <1>2, <1>3, <1>4, <1>5, <1>6, <1>7 DEF PostStep

(* What a step of a thread that leaves the queue alone has to show. *)
LEMMA LegalIfQueueStays ==
  ASSUME Assumptions, IInv, NEW t \in AllThreads, t \notin Posters, NEW from, NEW to,
         Goto(t, from, to), UNCHANGED <<queue, QueueItems, posting>>,
         to \in OwnPoints(t), from \notin ItemPoints, to \notin ItemPoints,
         ThreadsIn' = ThreadsIn + In(to, LoopPoints) - In(from, LoopPoints),
         ThreadsWaiting' = ThreadsWaiting + In(to, {"asleep", "awake"})
                                          - In(from, {"asleep", "awake"}),
         to \in JoinedPoints => from \in JoinedPoints,
         from = "unborn" => At(JoinedPoints) = {},
         {Running', Stopping', Flag', LoopEndedFlag'} \subseteq BOOLEAN,
         eh' \subseteq LoopThreads
  PROVE  LegalMove(t, from, to)
<1>1. TypeOK /\ QueueOK /\ Len(fifo) \in Nat
  BY Facts
<1>2. QueueOK' /\ Len(fifo') = Len(fifo)
  BY <1>1, QueueStays DEF posting
<1>3. QueueItems' \in Int /\ QueueItems' = QueueItems + Len(fifo') - Len(fifo)
                                            + In(to, ItemPoints) - In(from, ItemPoints)
  BY <1>1, <1>2 DEF TypeOK, In
<1> QED
  BY <1>1, <1>2, <1>3 DEF LegalMove, CountsWith, TypeOK, posting

(* A thread in loop(), or on its way to it, that leaves the queue alone. *)
LEMMA LoopMoves ==
  ASSUME Assumptions, IInv, NEW t \in LoopThreads,
         \/ Check(t) \/ LoadStopping(t) \/ StoreRunning(t) \/ CountThread(t) \/ LoadRunning(t)
         \/ LoadQueueItems(t) \/ CountWaiting(t) \/ WaitFlag(t) \/ LookForMore(t) \/ Wake(t)
         \/ SignalEnded(t) \/ CallLoop(t) \/ Run(t)
  PROVE  \E from, to : LegalMove(t, from, to)
<1> USE DEF OwnPoints, JoinedPoints, ItemPoints, EnterPoints, LoopPoints, In, Look, Back
<1>1. TypeOK /\ t \in AllThreads /\ t \notin Posters
  BY Facts
<1> USE <1>1 DEF TypeOK, runFlags, counts, events
<1>2. CASE Check(t)
  <2>1. LegalMove(t, "check", IF Running THEN "enter" ELSE "ended")
    BY <1>2, LegalIfQueueStays DEF Check
  <2> QED
    BY <2>1
<1>3. CASE LoadStopping(t)
  <2>1. \/ LegalMove(t, "enter", IF Stopping THEN Back(t) ELSE "run")
        \/ LegalMove(t, "recheck", IF Stopping THEN "unrun" ELSE "count")
    BY <1>3, LegalIfQueueStays DEF LoadStopping
  <2> QED
    BY <2>1
<1>4. CASE StoreRunning(t)
  <2>1. Running' \in BOOLEAN
    BY <1>4, Zenon DEF StoreRunning
  <2>2. LegalMove(t, "run", "recheck") \/ LegalMove(t, "unrun", Back(t))
    BY <1>4, <2>1, LegalIfQueueStays DEF StoreRunning
  <2> QED
    BY <2>2
<1>5. CASE CountThread(t)
  <2>1. LegalMove(t, "count", "while") \/ LegalMove(t, "leave", "signal")
    BY <1>5, LegalIfQueueStays DEF CountThread
  <2> QED
    BY <2>1
<1>6. CASE LoadRunning(t)
  <2>1. LegalMove(t, "while", IF Running THEN "items" ELSE "leave")
    BY <1>6, LegalIfQueueStays DEF LoadRunning
  <2> QED
    BY <2>1
<1>7. CASE LoadQueueItems(t)
  <2>1. LegalMove(t, "items", IF QueueItems # 0 THEN "pop" ELSE "sleep")
    BY <1>7, LegalIfQueueStays DEF LoadQueueItems
  <2> QED
    BY <2>1
<1>8. CASE CountWaiting(t)
  <2>1. LegalMove(t, "sleep", "asleep") \/ LegalMove(t, "awake", "more")
    BY <1>8, LegalIfQueueStays DEF CountWaiting
  <2> QED
    BY <2>1
<1>9. CASE WaitFlag(t)
  <2>1. Flag' \in BOOLEAN
    BY <1>9, Zenon DEF WaitFlag
  <2>2. LegalMove(t, "asleep", "awake")
    BY <1>9, <2>1, LegalIfQueueStays DEF WaitFlag
  <2> QED
    BY <2>2
<1>10. CASE LookForMore(t)
  <2>1. \/ LegalMove(t, "more", IF QueueItems > 1 THEN "moreThreads" ELSE "while")
        \/ LegalMove(t, "moreThreads", IF ThreadsWaiting > 1 THEN "wakeMore" ELSE "while")
    BY <1>10, LegalIfQueueStays DEF LookForMore
  <2> QED
    BY <2>1
<1>11. CASE Wake(t)
  <2>1. pc[t] # "wake"
    BY DEF IInv, OwnWays
  <2>2. LegalMove(t, "wakeMore", "while")
    BY <1>11, <2>1, LegalIfQueueStays DEF Wake, AfterWake, Goto, posting
  <2> QED
    BY <2>2
<1>12. CASE SignalEnded(t)
  <2>1. LegalMove(t, "signal", Back(t))
    BY <1>12, LegalIfQueueStays DEF SignalEnded
  <2> QED
    BY <2>1
<1>13. CASE CallLoop(t)
  <2>1. LegalMove(t, "idle", "enter")
    BY <1>13, LegalIfQueueStays DEF CallLoop
  <2> QED
    BY <2>1
<1>14. CASE Run(t)
  <2>1. At(JoinedPoints) = {}
    BY <1>14 DEF Run, At, StopPoints
  <2>2. LegalMove(t, "unborn", "check")
    BY <1>14, <2>1, LegalIfQueueStays DEF Run
  <2> QED
    BY <2>2
<1> QED
  BY <1>2, <1>3, <1>4, <1>5, <1>6, <1>7, <1>8, <1>9, <1>10, <1>11, <1>12, <1>13, <1>14

(* A thread that works on the queue. *)
LEMMA QueueMoves ==
  ASSUME Assumptions, IInv, NEW t \in LoopThreads, Pop(t) \/ Call(t) \/ Destroy(t) \/ Discount(t)
  PROVE  \E from, to : LegalMove(t, from, to)
<1> USE DEF LegalMove, CountsWith, OwnPoints, JoinedPoints, ItemPoints, LoopPoints, In
<1>1. TypeOK /\ QueueOK /\ Len(fifo) \in Nat /\ t \in AllThreads /\ t \notin Posters
  BY Facts
<1>2. CASE Pop(t)
  <2>1. CASE Queue!Take(t) /\ Goto(t, "pop", "call") /\ UNCHANGED eh
    <3>1. fifo' = Tail(fifo) /\ fifo # <<>> /\ fifo \in Seq(Functors)
      BY <1>1, <2>1 DEF QueueOK, Queue!Take
    <3>2. /\ fifo' \in Seq(Functors) /\ Len(fifo') = Len(fifo) - 1
          /\ Head(fifo) \in Functors
      BY <3>1
    <3>3. ASSUME NEW f \in Range(fifo), f # Head(fifo) PROVE f \in Range(fifo')
      <4>1. PICK i \in 1 .. Len(fifo) : f = fifo[i]
        BY <3>1 DEF Range
      <4>2. i - 1 \in 1 .. Len(fifo') /\ fifo'[i - 1] = f
        BY <3>1, <3>3, <4>1
      <4> QED
        BY <3>2, <4>2 DEF Range
    <3>4. QueueOK'
      BY <1>1, <1>2, <2>1, <3>2, <3>3 DEF QueueOK, Pop, TypeOK, Goto, Queue!Take, posting
    <3>5. LegalMove(t, "pop", "call")
      BY <1>1, <1>2, <2>1, <3>2, <3>4
         DEF Pop, TypeOK, Goto, runFlags, counts, events, posting
    <3> QED
      BY <3>5
  <2>2. CASE /\ UNCHANGED queue
             /\ \/ Goto(t, "pop", "sleep") /\ UNCHANGED eh
                \/ Goto(t, "pop", "leave") /\ eh' = eh \union {t}
    <3> HIDE DEF LegalMove, CountsWith
    <3>1. LegalMove(t, "pop", "sleep") \/ LegalMove(t, "pop", "leave")
      BY <1>1, <1>2, <2>2, LegalIfQueueStays DEF Pop, TypeOK, runFlags, counts, events
    <3> QED
      BY <3>1
  <2> QED
    BY <1>2, <2>1, <2>2 DEF Pop
<1>3. CASE Call(t)
  <2>1. QueueOK' /\ Len(fifo') = Len(fifo)
    BY <1>1, <1>3, QueueStays DEF Call
  <2>2. LegalMove(t, "call", "destroy")
    BY <1>1, <1>3, <2>1 DEF Call, TypeOK, Goto, runFlags, counts, events
  <2> QED
    BY <2>2
<1>4. CASE Destroy(t)
  <2>1. QueueOK' /\ fifo' = fifo
    BY <1>1, <1>4 DEF Destroy, QueueOK, Queue!Finish, TypeOK, Goto, posting
  <2>2. LegalMove(t, "destroy", "discount")
    BY <1>1, <1>4, <2>1 DEF Destroy, TypeOK, Goto, runFlags, counts, events, posting
  <2> QED
    BY <2>2
<1>5. CASE Discount(t)
  <2>1. QueueOK' /\ Len(fifo') = Len(fifo)
    BY <1>1, <1>5, QueueStays DEF Discount, posting
  <2>2. LegalMove(t, "discount", IF t \in eh THEN "leave" ELSE "pop")
    BY <1>1, <1>5, <2>1 DEF Discount, TypeOK, Goto, runFlags, counts, events, posting
  <2> QED
    BY <2>2
<1> QED
  BY <1>2, <1>3, <1>4, <1>5

(* A thread in stop(). *)
LEMMA StopMoves ==
  ASSUME Assumptions, IInv, NEW s \in Stoppers,
         StoreStopping(s) \/ Halt(s) \/ Drain(s) \/ WaitLoopEnded(s) \/ Finish(s)
  PROVE  \E from, to : LegalMove(s, from, to)
<1> USE DEF OwnPoints, JoinedPoints, ItemPoints, StopPoints, LoopPoints, In, Look
<1>1. TypeOK /\ s \in AllThreads /\ s \notin Posters /\ s \notin LoopThreads
  BY Facts
<1> USE <1>1 DEF TypeOK, runFlags, counts, events
<1>2. CASE StoreStopping(s)
  <2>1. LegalMove(s, "idle", "lock") \/ LegalMove(s, "lock", "halt")
    BY <1>2, LegalIfQueueStays DEF StoreStopping
  <2> QED
    BY <2>1
<1>3. CASE Halt(s)
  <2>1. Running' \in BOOLEAN
    BY <1>3, Zenon DEF Halt
  <2>2. LegalMove(s, "halt", "join")
    BY <1>3, <2>1, LegalIfQueueStays DEF Halt
  <2> QED
    BY <2>2
<1>4. CASE Drain(s)
  <2>1. LegalMove(s, "drain", IF ThreadsIn # 0 THEN "loopEnded" ELSE "finish")
    BY <1>4, LegalIfQueueStays DEF Drain
  <2> QED
    BY <2>1
<1>5. CASE WaitLoopEnded(s)
  <2>1. LoopEndedFlag' \in BOOLEAN
    BY <1>5, Zenon DEF WaitLoopEnded
  <2>2. LegalMove(s, "loopEnded", "drain")
    BY <1>5, <2>1, LegalIfQueueStays DEF WaitLoopEnded
  <2> QED
    BY <2>2
<1>6. CASE Finish(s)
  <2>1. Stopping' \in BOOLEAN
    BY <1>6, Zenon DEF Finish
  <2>2. LegalMove(s, "finish", "idle")
    BY <1>6, <2>1, LegalIfQueueStays DEF Finish
  <2> QED
    BY <2>2
<1> QED
  BY <1>2, <1>3, <1>4, <1>5, <1>6
------------------------------------------------------------------------------
LEMMA MoveKeepsInvariant ==
  ASSUME Assumptions, IInv, NEW t \in AllThreads, NEW from, NEW to, LegalMove(t, from, to)
  PROVE  IInv'
<1>1. TypeOK /\ OwnWays /\ ThreadsCounted /\ Goto(t, from, to) /\ CountsWith(from, to)
  BY DEF IInv, LegalMove
<1>2. \A u \in AllThreads : pc'[u] = IF u = t THEN to ELSE pc[u]
  BY <1>1 DEF TypeOK, Goto
<1>3. pc[t] = from
  BY <1>1 DEF Goto
<1>4. OwnWays'
  BY <1>1, <1>2 DEF OwnWays, LegalMove
<1>5. ThreadsCounted' /\ ThreadsIn' \in Nat /\ ThreadsWaiting' \in Nat
  BY <1>1, MoveCounts DEF ThreadsCounted, CountsWith
<1>6. TypeOK'
  <2>1. to \in {"idle", "unborn", "check", "signal", "ended"} \union PostPoints
                \union EnterPoints \union LoopPoints \union StopPoints
    BY DEF LegalMove, OwnPoints
  <2> QED
    BY <1>1, <1>5, <2>1 DEF TypeOK, LegalMove, Goto
<1>7. ManagedAreJoined'
  <2>1. ASSUME NEW m \in Managed, At(JoinedPoints)' # {} PROVE pc'[m] = "unborn"
    <3>1. m \in AllThreads /\ At(JoinedPoints) # {}
      BY <1>2, <1>3, <2>1 DEF At, LegalMove, AllThreads, LoopThreads
    <3>2. pc[m] = "unborn"
      BY <3>1 DEF IInv, ManagedAreJoined, JoinedPoints
    <3> QED
      BY <1>2, <1>3, <3>1, <3>2 DEF LegalMove
  <2> QED
    BY <2>1 DEF ManagedAreJoined, JoinedPoints
<1>8. ASSUME Throwing = {} PROVE ItemsCounted'
  <2>1. QueueItems = Len(fifo) + Cardinality(At(ItemPoints)) /\ Len(fifo) \in Nat
    BY <1>8, Facts DEF IInv, ItemsCounted
  <2>2. QueueItems' = QueueItems + Len(fifo') - Len(fifo) + In(to, ItemPoints) - In(from, ItemPoints)
    BY <1>1, <1>8 DEF CountsWith
  <2>3. Len(fifo') \in Nat /\ In(to, ItemPoints) \in Nat /\ In(from, ItemPoints) \in Nat
    BY DEF LegalMove, QueueOK, In
  <2>4. /\ Cardinality(At(ItemPoints)) \in Nat /\ Cardinality(At(ItemPoints)') \in Nat
        /\ Cardinality(At(ItemPoints)')
             = Cardinality(At(ItemPoints)) + In(to, ItemPoints) - In(from, ItemPoints)
    BY <1>1, MoveCounts
  <2> QED
    BY <2>1, <2>2, <2>3, <2>4 DEF ItemsCounted
<1> QED
  BY <1>4, <1>5, <1>6, <1>7, <1>8 DEF IInv, LegalMove

(* stop() joins the managed threads: only points that nothing counts.       *)
LEMMA JoinKeepsInvariant ==
  ASSUME Assumptions, IInv, NEW s \in Stoppers, Join(s)
  PROVE  IInv'
<1>1. TypeOK /\ OwnWays /\ QueueOK /\ s \in AllThreads /\ s \notin Posters /\ s \notin LoopThreads
  BY Facts
<1>2. /\ pc' = [t \in AllThreads |-> IF t = s THEN "drain"
                                  ELSE IF t \in Managed THEN "unborn" ELSE pc[t]]
      /\ \A t \in Managed : pc[t] \in {"unborn", "ended"}
      /\ pc[s] = "join"
      /\ UNCHANGED <<fifo, committed, taken, QueueItems, Running, Stopping, ThreadsIn,
                     ThreadsWaiting, Flag, LoopEndedFlag, job, answered, eh>>
  BY DEF Join, queue, runFlags, counts, events, posting
<1>3. \A t \in Managed : t \in LoopThreads /\ t \in AllThreads /\ t # s /\ t \notin Posters
  BY <1>1, Facts DEF LoopThreads
<1>4. TypeOK'
  BY <1>1, <1>2 DEF TypeOK, StopPoints
<1>5. OwnWays'
  BY <1>1, <1>2, <1>3 DEF OwnWays, OwnPoints, StopPoints
<1>6. QueueOK'
  BY <1>1, <1>2, <1>3 DEF QueueOK, AllThreads
<1>7. /\ At(LoopPoints)' = At(LoopPoints) /\ At({"asleep", "awake"})' = At({"asleep", "awake"})
      /\ At(ItemPoints)' = At(ItemPoints)
  BY <1>2 DEF At, LoopPoints, ItemPoints
<1>8. ThreadsCounted' /\ (Throwing = {} => ItemsCounted')
  BY <1>2, <1>7 DEF IInv, ThreadsCounted, ItemsCounted
<1>9. ManagedAreJoined'
  BY <1>2, <1>3 DEF ManagedAreJoined
<1> QED
  BY <1>4, <1>5, <1>6, <1>8, <1>9 DEF IInv

(* Every step is the Join of a stop(), or the move of one thread.           *)
LEMMA EveryStepMoves ==
  ASSUME Assumptions, IInv, Next
  PROVE  \/ \E t \in AllThreads : \E from, to : LegalMove(t, from, to)
         \/ \E s \in Stoppers : Join(s)
<1>1. ASSUME NEW p \in Posters, PostStep(p) \/ \E f \in Functors : Post(p, f)
      PROVE  \E t \in AllThreads : \E from, to : LegalMove(t, from, to)
  BY <1>1, PosterMoves, Facts
<1>2. ASSUME NEW t \in LoopThreads, LoopStep(t) \/ CallLoop(t) \/ Run(t)
      PROVE  \E u \in AllThreads : \E from, to : LegalMove(u, from, to)
  BY <1>2, LoopMoves, QueueMoves, Facts DEF LoopStep
<1>3. ASSUME NEW s \in Stoppers, StoreStopping(s) \/ StopStep(s), ~Join(s)
      PROVE  \E t \in AllThreads : \E from, to : LegalMove(t, from, to)
  BY <1>3, StopMoves, Facts DEF StopStep
<1> QED
  BY <1>1, <1>2, <1>3 DEF Next, LoopThreads

LEMMA NextKeepsInvariant == ASSUME Assumptions PROVE IInv /\ [Next]_vars => IInv'
<1> SUFFICES ASSUME IInv, [Next]_vars PROVE IInv'
  OBVIOUS
<1>1. CASE UNCHANGED vars
  BY <1>1 DEF vars, queue, runFlags, counts, events, posting, IInv, TypeOK, OwnWays, QueueOK,
              ThreadsCounted, ManagedAreJoined, ItemsCounted, At
<1>2. CASE Next
  BY <1>2, EveryStepMoves, MoveKeepsInvariant, JoinKeepsInvariant
<1> QED
  BY <1>1, <1>2

(* The inductive invariant holds of the loop, whoever stops it and however  *)
(* often.                                                                   *)
THEOREM Invariant == ASSUME Assumptions PROVE Spec => []IInv
BY InitInv, NextKeepsInvariant, PTL DEF Spec

(* What is counted of the threads is exact: stop() (446) waits for those in *)
(* loop(), no more and no fewer, and a thread that wakes up others (415)    *)
(* knows whether there are any.                                             *)
THEOREM ThreadsAreCounted == ASSUME Assumptions PROVE Spec => []LoopIsCounted
<1>1. IInv => LoopIsCounted
  BY DEF IInv, LoopIsCounted
<1> QED
  BY <1>1, Invariant, PTL

(* Once stop() has joined the managed threads (431-445) none is left or     *)
(* comes back until it returns, however many threads stop the loop.         *)
THEOREM ManagedStayJoined == ASSUME Assumptions PROVE Spec => []ManagedAreJoined
<1>1. IInv => ManagedAreJoined
  BY DEF IInv
<1> QED
  BY <1>1, Invariant, PTL

(* QueueItems is exact if no constructor throws (it is wrong for ever after *)
(* one has: line 261): it is 0 only when nothing is in the queue.           *)
THEOREM ItemsAreCounted == ASSUME Assumptions, Throwing = {} PROVE Spec => []ItemsCounted
<1>1. IInv => ItemsCounted
  BY DEF IInv
<1> QED
  BY <1>1, Invariant, PTL
------------------------------------------------------------------------------
(* Before the start is over Running may be down. *)
StartPoints == { "idle", "unborn", "check", "ended", "enter", "run" }

(* How a loop thread moves while nobody stops the loop: it goes to sleep    *)
(* only if there was nothing for it to do, and ends only if Running is down.*)
WakeMove(t, to) ==
  /\ pc' = [pc EXCEPT ![t] = to]
  /\ to # "unrun" /\ ~Stopping'
  /\ Running' \/ (Running' = Running /\ to \in StartPoints)
  /\ \/ to \notin {"sleep", "asleep", "unborn", "ended"}
     \/ to = "sleep" /\ ~HeadIsReady /\ UNCHANGED <<fifo, committed>>
     \/ pc[t] = "sleep" /\ to = "asleep" /\ UNCHANGED <<fifo, committed, Flag>>
     \/ to = "ended" /\ ~Running'

LEMMA LoopThreadMoves ==
  ASSUME Assumptions, Throwing = {}, WakeInv,
         NEW t \in LoopThreads, LoopStep(t) \/ CallLoop(t) \/ Run(t)
  PROVE  \E to : WakeMove(t, to)
<1> USE DEF WakeMove, StartPoints, Goto, Look
<1>1. /\ TypeOK /\ QueueOK /\ t \in AllThreads
      /\ ~Stopping /\ pc[t] # "unrun" /\ pc[t] # "wake"
      /\ ~Running => pc[t] \in StartPoints
  BY Facts DEF WakeInv, NotStopped, IInv, OwnWays, OwnPoints, EnterPoints, LoopPoints
<1> USE <1>1 DEF runFlags
<1>2. CASE Check(t)
  <2>1. WakeMove(t, IF Running THEN "enter" ELSE "ended")
    BY <1>2 DEF Check
  <2> QED
    BY <2>1
<1>3. CASE LoadStopping(t)
  <2>1. WakeMove(t, "run") \/ WakeMove(t, "count")
    BY <1>3 DEF LoadStopping
  <2> QED
    BY <2>1
<1>4. CASE StoreRunning(t)
  <2>1. WakeMove(t, "recheck")
    BY <1>4 DEF StoreRunning
  <2> QED
    BY <2>1
<1>5. CASE CountThread(t)
  <2>1. WakeMove(t, "while") \/ WakeMove(t, "signal")
    BY <1>5 DEF CountThread
  <2> QED
    BY <2>1
<1>6. CASE LoadRunning(t)
  <2>1. WakeMove(t, IF Running THEN "items" ELSE "leave")
    BY <1>6 DEF LoadRunning
  <2> QED
    BY <2>1
<1>7. CASE LoadQueueItems(t)
  <2>1. QueueItems = 0 => ~HeadIsReady
    <3>1. ItemsCounted /\ Len(fifo) \in Nat /\ fifo \in Seq(Functors)
      BY Facts DEF WakeInv, IInv, QueueOK
    <3>2. Cardinality(At(ItemPoints)) \in Nat
      BY AtIsFinite, FS_CardinalityType
    <3>3. QueueItems = 0 => Len(fifo) = 0
      BY <3>1, <3>2 DEF ItemsCounted
    <3> QED
      BY <3>1, <3>3 DEF HeadIsReady
  <2>2. WakeMove(t, IF QueueItems # 0 THEN "pop" ELSE "sleep")
    BY <1>7, <2>1 DEF LoadQueueItems, queue
  <2> QED
    BY <2>2
<1>8. CASE Pop(t)
  <2>1. WakeMove(t, "call") \/ WakeMove(t, "sleep") \/ WakeMove(t, "leave")
    BY <1>8 DEF Pop, queue
  <2> QED
    BY <2>1
<1>9. CASE Call(t) \/ Destroy(t) \/ Discount(t)
  <2>1. \/ WakeMove(t, "destroy") \/ WakeMove(t, "discount")
        \/ WakeMove(t, IF t \in eh THEN "leave" ELSE "pop")
    BY <1>9 DEF Call, Destroy, Discount
  <2> QED
    BY <2>1
<1>10. CASE CountWaiting(t)
  <2>1. WakeMove(t, "asleep") \/ WakeMove(t, "more")
    BY <1>10 DEF CountWaiting, queue, events
  <2> QED
    BY <2>1
<1>11. CASE WaitFlag(t) \/ LookForMore(t)
  <2>1. \/ WakeMove(t, "awake")
        \/ WakeMove(t, IF QueueItems > 1 THEN "moreThreads" ELSE "while")
        \/ WakeMove(t, IF ThreadsWaiting > 1 THEN "wakeMore" ELSE "while")
    BY <1>11 DEF WaitFlag, LookForMore
  <2> QED
    BY <2>1
<1>12. CASE Wake(t)
  <2>1. WakeMove(t, "while")
    BY <1>12 DEF Wake, AfterWake
  <2> QED
    BY <2>1
<1>13. CASE SignalEnded(t)
  <2>1. WakeMove(t, Back(t))
    BY <1>13 DEF SignalEnded, Back
  <2> QED
    BY <2>1
<1>14. CASE CallLoop(t) \/ Run(t)
  <2>1. WakeMove(t, "enter") \/ WakeMove(t, "check")
    BY <1>14 DEF CallLoop, Run
  <2> QED
    BY <2>1
<1> QED
  BY <1>2, <1>3, <1>4, <1>5, <1>6, <1>7, <1>8, <1>9, <1>10, <1>11, <1>12, <1>13, <1>14
     DEF LoopStep

LEMMA WakeMoveKeepsPosts ==
  ASSUME Assumptions, WakeInv, NEW t \in LoopThreads, NEW to, WakeMove(t, to)
  PROVE  NotStopped' /\ NoLostPostYet'
<1>1. TypeOK /\ t \in AllThreads /\ t \notin Stoppers /\ NotStopped /\ NoLostPostYet
  BY Facts DEF WakeInv
<1>2. \A u \in AllThreads : pc'[u] = IF u = t THEN to ELSE pc[u]
  BY <1>1 DEF WakeMove, TypeOK
<1>3. NotStopped'
  BY <1>1, <1>2, Facts DEF WakeInv, NotStopped, WakeMove, StartPoints
<1>4. NoLostPostYet'
  <2>1. CASE to \notin {"sleep", "asleep", "unborn", "ended"}
    BY <1>1, <1>2, <2>1 DEF NoLostPostYet
  <2>2. CASE to = "sleep" /\ ~HeadIsReady /\ UNCHANGED <<fifo, committed>>
    BY <2>2 DEF NoLostPostYet, HeadIsReady
  <2>3. CASE pc[t] = "sleep" /\ to = "asleep" /\ UNCHANGED <<fifo, committed, Flag>>
    <3>1. At({"sleep", "asleep"})' = At({"sleep", "asleep"}) /\ At({"wake"})' = At({"wake"})
      BY <1>2, <2>3 DEF At
    <3>2. HeadIsReady' <=> HeadIsReady
      BY <2>3 DEF HeadIsReady
    <3>3. \A u \in LoopThreads : pc[u] \notin {"sleep", "asleep", "unborn", "ended"}
                              => pc'[u] \notin {"sleep", "asleep", "unborn", "ended"}
      BY <1>2, <2>3, Facts DEF WakeInv
    <3> QED
      BY <1>1, <2>3, <3>1, <3>2, <3>3 DEF NoLostPostYet
  <2>4. CASE to = "ended" /\ ~Running'
    <3>1. \A u \in AllThreads : pc'[u] \notin {"sleep", "asleep"}
      BY <1>3, <2>4, <1>1, <1>2, Facts
         DEF NotStopped, AllThreads, WakeInv, IInv, OwnWays, OwnPoints, PostPoints
    <3> QED
      BY <3>1 DEF NoLostPostYet, At
  <2> QED
    BY <2>1, <2>2, <2>3, <2>4 DEF WakeMove
<1> QED
  BY <1>3, <1>4

(* A poster that makes the head of the queue ready goes on to set Flag. *)
LEMMA PostKeepsPosts ==
  ASSUME Assumptions, Throwing = {}, WakeInv, NEW p \in Posters,
         PostStep(p) \/ \E f \in Functors : Post(p, f)
  PROVE  NotStopped' /\ NoLostPostYet'
<1>1. /\ TypeOK /\ QueueOK /\ OwnWays /\ NotStopped /\ NoLostPostYet
      /\ p \in AllThreads /\ p \notin Stoppers /\ p \notin LoopThreads
  BY Facts DEF WakeInv
<1>2. PICK from, to : LegalMove(p, from, to)
  BY PosterMoves DEF WakeInv
<1>3. \A u \in AllThreads : pc'[u] = IF u = p THEN to ELSE pc[u]
  BY <1>1, <1>2 DEF LegalMove, Goto, TypeOK
<1>4. pc[p] = from /\ \A u \in LoopThreads \union Stoppers : pc'[u] = pc[u]
  BY <1>1, <1>2, <1>3 DEF AllThreads, LegalMove, Goto
<1>5. UNCHANGED <<Running, Stopping>>
  BY DEF PostStep, Push, Construct, Uncount, Wake, Await, Post, runFlags
<1>6. NotStopped'
  BY <1>1, <1>4, <1>5 DEF NotStopped
<1>7. from \in OwnPoints(p) /\ to \in OwnPoints(p)
  BY <1>1, <1>2, <1>4 DEF OwnWays, LegalMove
<1>8. At({"sleep", "asleep"})' = At({"sleep", "asleep"})
  BY <1>3, <1>4, <1>7 DEF At, OwnPoints, PostPoints
<1>9. CASE Wake(p)
  <2>1. Flag'
    BY <1>9 DEF Wake
  <2> QED
    BY <1>6, <2>1 DEF NoLostPostYet
<1>10. CASE Construct(p)
  <2>1. At({"wake"})' # {}
    BY <1>1, <1>10 DEF Construct, Goto, TypeOK, At
  <2> QED
    BY <1>6, <2>1 DEF NoLostPostYet
<1>11. CASE ~Wake(p) /\ ~Construct(p)
  <2>1. Flag' = Flag /\ from # "wake"
    BY <1>4, <1>11 DEF PostStep, Push, Uncount, Await, Post, events, Goto
  <2>2. At({"wake"}) # {} => At({"wake"})' # {}
    BY <1>3, <1>4, <2>1 DEF At
  <2>3. HeadIsReady' => HeadIsReady
    <3>1. CASE UNCHANGED queue
      BY <3>1 DEF queue, HeadIsReady
    <3>2. CASE Queue!Reserve(job[p])
      <4>1. CASE fifo = <<>>
        <5>1. Head(fifo') = job[p] /\ committed' = {}
          BY <1>1, <3>2, <4>1 DEF Queue!Reserve, QueueOK, Range
        <5> QED
          BY <5>1 DEF HeadIsReady
      <4>2. CASE fifo # <<>>
        <5>1. Head(fifo') = Head(fifo) /\ committed' = committed
          BY <1>1, <3>2, <4>2 DEF Queue!Reserve, QueueOK
        <5> QED
          BY <5>1, <4>2 DEF HeadIsReady
      <4> QED
        BY <4>1, <4>2
    <3> QED
      BY <1>11, <3>1, <3>2 DEF PostStep, Push, Uncount, Await, Post
  <2> QED
    BY <1>1, <1>4, <1>6, <1>8, <2>1, <2>2, <2>3 DEF NoLostPostYet
<1> QED
  BY <1>9, <1>10, <1>11

LEMMA NextKeepsPosts ==
  ASSUME Assumptions, Throwing = {}
  PROVE  WakeInv /\ ~Stopping' /\ [Next]_vars => WakeInv'
<1> SUFFICES ASSUME WakeInv, ~Stopping', [Next]_vars PROVE NotStopped' /\ NoLostPostYet'
  BY NextKeepsInvariant DEF WakeInv
<1>1. CASE UNCHANGED vars
  BY <1>1 DEF vars, queue, runFlags, events, WakeInv, NotStopped, NoLostPostYet, HeadIsReady, At
<1>2. ASSUME NEW p \in Posters, PostStep(p) \/ \E f \in Functors : Post(p, f)
      PROVE  NotStopped' /\ NoLostPostYet'
  BY <1>2, PostKeepsPosts
<1>3. ASSUME NEW t \in LoopThreads, LoopStep(t) \/ CallLoop(t) \/ Run(t)
      PROVE  NotStopped' /\ NoLostPostYet'
  BY <1>3, LoopThreadMoves, WakeMoveKeepsPosts
<1>4. \A s \in Stoppers : ~StoreStopping(s) /\ ~StopStep(s)
  BY DEF WakeInv, NotStopped, StoreStopping, StopStep, Halt, Join, Drain, WaitLoopEnded, Finish,
         Look, Goto
<1> QED
  BY <1>1, <1>2, <1>3, <1>4 DEF Next, LoopThreads

(* No post is lost: as long as nobody calls stop(), and if no constructor   *)
(* throws, a functor at the head of the queue that is ready has a thread    *)
(* that is awake, or Flag is up, or its poster is about to set it.          *)
THEOREM PostsAreNotLost ==
  ASSUME Assumptions, Throwing = {} PROVE Spec /\ []~Stopping => []NoLostPost
<1>1. Init => WakeInv
  <2>1. Init => NotStopped /\ NoLostPostYet
    BY DEF Assumptions, Init, NotStopped, NoLostPostYet, At, AllThreads, LoopThreads
  <2> QED
    BY <2>1, InitInv DEF WakeInv
<1>2. WakeInv /\ ~Stopping' /\ [Next]_vars => WakeInv'
  BY NextKeepsPosts
<1>3. WakeInv => NoLostPost
  BY DEF WakeInv, NoLostPostYet, NoLostPost, At
<1> QED
  BY <1>1, <1>2, <1>3, PTL DEF Spec
=============================================================================
