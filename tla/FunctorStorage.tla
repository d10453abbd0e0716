---------------------------- MODULE FunctorStorage ----------------------------
(***************************************************************************)
(* Functor, FunctorView and their table of functions (src/sev/functor.h,   *)
(* functor_view.h, functor_vt.h), with the wrappers that push a view to    *)
(* the functor queue and call what is popped from it                       *)
(* (src/sev/concurrent_functor_queue.h): who holds a callable, who may     *)
(* still move it, and who destroys it.                                     *)
(*                                                                         *)
(* A callable lies in a place: a variable of the caller, a functor's own   *)
(* storage, or the queue.  It is "full" or "moved".  The caller keeps the  *)
(* usual rules: it does not use what it has moved away, nor destroy what a *)
(* view refers to.  The queue here is a sequence (FunctorFifo).            *)
(***************************************************************************)
EXTENDS Integers, Sequences, FiniteSets

CONSTANTS
  Vars,        \* the caller's variables, each of its own type: its table
  Large,       \* those whose type is larger than a functor's storage
  Throwing,    \* those whose copy constructor may throw
  Functors, Views,
  MaxQueued,   \* bound: functors in the queue
  None, Empty  \* nothing; the table of an empty functor

VARIABLES
  data,      \* in each place: None, or the callable's type and its state
  vt,        \* m_Vt of each functor; None: not constructed
  view,      \* None, or the view's vt, ptr and movable
  queue,     \* what was pushed: vt, and the callable or None
  result,    \* what the last pop gave to its caller
  end        \* "", or how the program ended

vars == <<data, vt, view, queue, result, end>>

Places == Vars \union Functors
Callables == [fn : Vars, state : {"full", "moved"}]
SeenThrough == [vt : Vars \union {Empty}, ptr : Places, movable : BOOLEAN]

(* What the constants have to be. *)
Assumptions ==
  /\ Large \subseteq Vars /\ Throwing \subseteq Vars
  /\ MaxQueued \in Nat
  /\ Vars \cap Functors = {} /\ {None, Empty} \cap (Vars \union Functors) = {}
  /\ None # Empty /\ None \notin Callables \union SeenThrough

TypeOK ==
  /\ data \in [Places -> Callables \union {None}]
  /\ vt \in [Functors -> Vars \union {Empty, None}]
  /\ view \in [Views -> SeenThrough \union {None}]
  /\ \A i \in DOMAIN queue : queue[i] \in [vt : Vars \union {Empty}, data : Callables \union {None}]
  /\ end \in {"", "large", "raw", "wild", "terminated"}

Init ==
  /\ data = [p \in Places |-> None]
  /\ vt = [f \in Functors |-> None]
  /\ view = [v \in Views |-> None]
  /\ queue = <<>> /\ result = None /\ end = ""
------------------------------------------------------------------------------
(* Nothing is left to look at. *)
Ends(how) ==
  /\ end' = how
  /\ data' = [p \in Places |-> None] /\ vt' = [f \in Functors |-> None]
  /\ view' = [v \in Views |-> None] /\ queue' = <<>> /\ result' = None

Keeps(who) == result' = None /\ UNCHANGED <<queue, end>> /\ UNCHANGED who

(* Someone may still come through a view to the place p. *)
Viewed(p) == \E v \in Views : view[v] # None /\ view[v].vt # Empty /\ view[v].ptr = p

Full(p) == data[p] # None /\ data[p].state = "full"
Live(f) == vt[f] = Empty \/ (vt[f] # None /\ Full(f))

(* The caller's variable: constructed, and destroyed. *)
Declare(x) ==
  /\ data[x] = None
  /\ data' = [data EXCEPT ![x] = [fn |-> x, state |-> "full"]]
  /\ Keeps(<<vt, view>>)

Leave(x) ==
  /\ data[x] # None /\ ~Viewed(x)
  /\ data' = [data EXCEPT ![x] = None]
  /\ Keeps(<<vt, view>>)

(* 97-128 of functor_vt.h: what a table constructs from the callable d, and *)
(* what is left of it.                                                      *)
Copied(d) == d
Moved(d) == IF d = None THEN None ELSE [d EXCEPT !.state = "moved"]

(* 77-82: the empty functor *)
MakeEmpty(f) ==
  /\ vt[f] = None
  /\ vt' = [vt EXCEPT ![f] = Empty]
  /\ Keeps(<<data, view>>)

(* 84-91, 193-204: for a large one memory is allocated, and not used.       *)
FromCallable(f, x) ==
  /\ vt[f] = None /\ Full(x) /\ ~Viewed(x)
  /\ IF x \in Large THEN Ends("large")
     ELSE /\ vt' = [vt EXCEPT ![f] = x]
          /\ data' = [data EXCEPT ![f] = data[x], ![x] = Moved(@)]
          /\ Keeps(view)

(* 128-140 *)
Copy(f, g) ==
  /\ vt[f] = None /\ Live(g)
  /\ vt' = [vt EXCEPT ![f] = vt[g]]
  /\ data' = [data EXCEPT ![f] = Copied(data[g])]
  /\ Keeps(view)

(* Slip: the other one keeps its table. *)
MovedKeepsVt(f, g) ==
  /\ vt' = [vt EXCEPT ![f] = vt[g]]
  /\ data' = [data EXCEPT ![f] = data[g], ![g] = None]

(* 142-154: moved, and what is left destroyed. *)
MovedFrom(f, g) ==
  /\ vt' = [vt EXCEPT ![f] = vt[g], ![g] = Empty]
  /\ data' = [data EXCEPT ![f] = data[g], ![g] = None]

Move(f, g) ==
  /\ vt[f] = None /\ Live(g) /\ ~Viewed(g)
  /\ MovedFrom(f, g)
  /\ Keeps(view)

(* 156-165: for an rvalue; for an lvalue it does not compile.               *)
Assign(f, g) ==
  /\ f # g /\ vt[f] # None /\ Live(g) /\ ~Viewed(f) /\ ~Viewed(g)
  /\ MovedFrom(f, g)
  /\ Keeps(view)

(* 112-116, 206-217; the table's Destroy needs an object.                   *)
Destroy(f) ==
  /\ vt[f] # None /\ ~Viewed(f)
  /\ IF vt[f] # Empty /\ data[f] = None THEN Ends("wild")
     ELSE /\ vt' = [vt EXCEPT ![f] = None]
          /\ data' = [data EXCEPT ![f] = None]
          /\ Keeps(view)
------------------------------------------------------------------------------
See(v, t, p, movable) ==
  /\ view[v] = None
  /\ view' = [view EXCEPT ![v] = [vt |-> t, ptr |-> p, movable |-> movable]]
  /\ Keeps(<<data, vt>>)

(* One that is movable is not used by anybody else. *)
Given(p, movable) == ~ \E v \in Views :
  view[v] # None /\ view[v].vt # Empty /\ view[v].ptr = p /\ (movable \/ view[v].movable)

(* 71-96 of functor_view.h: movable from an rvalue.                         *)
ViewCallable(v, x, movable) ==
  /\ Full(x) /\ Given(x, movable)
  /\ See(v, x, x, movable)

(* 98-117 *)
ViewFunctor(v, f, movable) ==
  /\ Live(f) /\ Given(f, movable)
  /\ See(v, vt[f], f, movable)

Emptied(v) == view' = [view EXCEPT ![v].vt = Empty]

(* 119-134; 94-110 of functor.h: the size of a size is allocated.           *)
ToFunctor(v, f, forward) ==
  /\ vt[f] = None /\ view[v] # None
  /\ LET t == view[v].vt
         p == view[v].ptr
         movable == view[v].movable /\ forward
     IN  IF t \in Large THEN Ends("large")
         ELSE /\ vt' = [vt EXCEPT ![f] = t]
              /\ data' = IF t = Empty THEN data
                         ELSE [data EXCEPT ![f] = data[p],
                                           ![p] = IF movable THEN Moved(@) ELSE @]
              /\ IF movable THEN Emptied(v) ELSE UNCHANGED view
              /\ Keeps(<<>>)

(* Slip: a copy may be moved from, too. *)
CopyViewMovable(v, w) ==
  /\ view[v] = None /\ view[w] # None
  /\ view' = [view EXCEPT ![v] = view[w]]
  /\ Keeps(<<data, vt>>)

(* 179-191: neither can be moved from any more. *)
CopyView(v, w) ==
  /\ view[v] = None /\ view[w] # None
  /\ view' = [view EXCEPT ![v] = [view[w] EXCEPT !.movable = FALSE], ![w].movable = FALSE]
  /\ Keeps(<<data, vt>>)

(* 193-199 *)
MoveView(v, w) ==
  /\ view[v] = None /\ view[w] # None
  /\ view' = [view EXCEPT ![v] = view[w], ![w].vt = Empty]
  /\ Keeps(<<data, vt>>)

DropView(v) ==
  /\ view[v] # None
  /\ view' = [view EXCEPT ![v] = None]
  /\ Keeps(<<data, vt>>)
------------------------------------------------------------------------------
Queue(t, d) == Len(queue) < MaxQueued /\ queue' = Append(queue, [vt |-> t, data |-> d])

(* Slip: the view is emptied only by a push that can move. *)
ExtractKeeps(v, forward) == UNCHANGED view

(* 136-152: emptied before anybody knows if the push succeeds.              *)
Extract(v, forward) == IF view[v].movable /\ forward THEN Emptied(v) ELSE UNCHANGED view

(* 137-187 of concurrent_functor_queue.h: a const view, a view or, to       *)
(* forward, an rvalue; out of memory, nothing is queued; and a constructor  *)
(* that throws leaves a place that is committed all the same.               *)
Push(v, forward) ==
  /\ view[v] # None
  /\ LET t == view[v].vt
         p == view[v].ptr
         moves == view[v].movable /\ forward
     IN  /\ Extract(v, forward)
         /\ \/ UNCHANGED <<data, queue>>
            \/ /\ Queue(t, IF t = Empty THEN None ELSE data[p])
               /\ data' = IF t # Empty /\ moves THEN [data EXCEPT ![p] = Moved(@)] ELSE data
            \/ /\ t \in Throwing /\ ~moves
               /\ Queue(t, None)
               /\ UNCHANGED data
  /\ result' = None /\ UNCHANGED <<vt, end>>

(* 241-253, 287-298: how the three forms tell that the call threw.          *)
Told(form, threw) ==
  IF ~threw THEN "nothing" ELSE
  CASE form = "handle" -> "raised" [] form = "plain" -> "thrown" [] form = "errno" -> "EOTHER"

Forms == {"handle", "plain", "errno"}

(* 215-236 with ENODATA: `res` was never written. *)
PopNothing(form) ==
  /\ queue = <<>>
  /\ result' = [success |-> FALSE, res |-> "raw", told |-> Told(form, FALSE)]
  /\ UNCHANGED <<data, vt, view, queue, end>>

(* 215-236, 263-282; 123-128 of functor_vt.h.  An empty functor throws past *)
(* the handle (85-86), through a function that must not.                    *)
Pop(form, threw) ==
  /\ queue # <<>>
  /\ LET q == Head(queue) IN
       CASE q.vt = Empty -> Ends("terminated")
         [] q.vt # Empty /\ q.data = None -> Ends("raw")
         [] OTHER ->
              /\ queue' = Tail(queue)
              /\ result' = [success |-> TRUE, res |-> IF threw THEN "default" ELSE "value",
                            told |-> Told(form, threw)]
              /\ UNCHANGED <<data, vt, view, end>>

Next ==
  /\ end = ""
  /\ \/ \E x \in Vars : Declare(x) \/ Leave(x)
     \/ \E f \in Functors :
          \/ MakeEmpty(f) \/ Destroy(f)
          \/ \E x \in Vars : FromCallable(f, x)
          \/ \E g \in Functors : Copy(f, g) \/ Move(f, g) \/ Assign(f, g)
     \/ \E v \in Views :
          \/ DropView(v)
          \/ \E movable \in BOOLEAN :
               \/ \E x \in Vars : ViewCallable(v, x, movable)
               \/ \E f \in Functors : ViewFunctor(v, f, movable) \/ ToFunctor(v, f, movable)
               \/ Push(v, movable)
          \/ \E w \in Views : CopyView(v, w) \/ MoveView(v, w)
     \/ \E form \in Forms : PopNothing(form) \/ \E threw \in BOOLEAN : Pop(form, threw)

Spec == Init /\ [][Next]_vars
------------------------------------------------------------------------------
(* A functor's storage holds an object of its table's type exactly when the *)
(* table is not the empty one: what the destructor relies on.               *)
StorageMatches == \A f \in Functors :
  IF vt[f] \in {Empty, None} THEN data[f] = None ELSE data[f] # None /\ data[f].fn = vt[f]

(* A view that is not empty refers to a callable of its table's type that   *)
(* is there and was not moved away, whatever was done through the other     *)
(* views of it: it can be called (154-157), copied or moved from.           *)
ViewsAreValid == \A v \in Views :
  view[v] # None /\ view[v].vt # Empty =>
    data[view[v].ptr] = [fn |-> view[v].vt, state |-> "full"]

(* What is called from the queue is a callable that was not moved away.     *)
QueuedIsFull == \A i \in DOMAIN queue : queue[i].data # None =>
  queue[i].data = [fn |-> queue[i].vt, state |-> "full"]

(* A result is read only if a functor was called, and unless it threw.      *)
ResultIsWritten == result # None =>
  (result.success /\ result.told = "nothing" <=> result.res = "value")

(* Nothing undefined happens, except with large callables and those whose   *)
(* constructor threw into the queue.                                        *)
FunctorsAreWhole ==
  /\ TypeOK /\ StorageMatches /\ ViewsAreValid /\ QueuedIsFull /\ ResultIsWritten
  /\ end # "wild"
==============================================================================
