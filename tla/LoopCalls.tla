------------------------------ MODULE LoopCalls ------------------------------
(***************************************************************************)
(* The C interface of the event loop (src/sev/event_loop.cpp, 33-254):     *)
(* functions with data of the caller's are wrapped into lambdas that own a *)
(* copy of it, and go on to the loop through its table as functors; error  *)
(* numbers become exceptions and error numbers again.  How the loop gets   *)
(* to what is queued is the subject of EventLoop.                          *)
(*                                                                         *)
(* A view refers to the lambda it was made from, which is a temporary: it  *)
(* is destroyed, and its copy freed, at the end of the statement.  An      *)
(* address that a queued functor still has is not given out again here; in *)
(* the program it may be.                                                  *)
(***************************************************************************)
EXTENDS Integers, Sequences, FiniteSets

CONSTANTS
  Callers,
  Data,        \* what functions are posted with
  Buffers,     \* memory for copies of it
  MaxPosted,   \* bound: functors in the queue
  None

(* What the constants have to be. *)
Assumptions ==
  /\ IsFiniteSet(Buffers) /\ MaxPosted \in Nat
  /\ None \notin Data \union Buffers \union {"PostFunctor", "InvokeFunctor"}

VARIABLES
  loop,        \* "none" or "alive"
  heap,        \* what each buffer holds; None: not allocated
  caller,      \* where each caller is in its call, and with what
  posted,      \* the queue: the lambdas, and the data they are to have
  told,        \* the error number that the last call to return gave
  did,         \* what came of that call (history)
  end          \* "", or how the program ended

vars == <<loop, heap, caller, posted, told, did, end>>

Answers == {"ESUCCESS", "ENOMEM", "EINVAL"}

(* 215-234: where the wrappers go on to.                                    *)
EventLoopVt == [ Post |-> "PostFunctor", Invoke |-> "InvokeFunctor",
                 Timeout |-> None, Interval |-> None ]

Idle == [at |-> "idle", call |-> None, data |-> None, v |-> None, lambda |-> None]

Allocated == { b \in Buffers : heap[b] # None }
Queued == { posted[i].buffer : i \in DOMAIN posted } \ {None}
Free == Buffers \ (Allocated \union Queued \union { caller[c].lambda : c \in Callers })

(* The copy of the queued lambda f is there.                                *)
HasData(f) == IF f.buffer = None THEN TRUE ELSE heap[f.buffer] = f.data

Fresh == CHOOSE b \in Free : TRUE

TypeOK ==
  /\ heap \in [Buffers -> Data \union {None}]
  /\ \A c \in Callers :
       caller[c].at \in {"idle", "copy", "lambda", "statement", "forward", "wait"}
  /\ told \in {"ESUCCESS", "ENOMEM", "EOTHER"}
  /\ Len(posted) <= MaxPosted
  /\ end \in {"", "null", "dangling"}

Init ==
  /\ loop = "none" /\ heap = [b \in Buffers |-> None]
  /\ caller = [c \in Callers |-> Idle] /\ posted = <<>>
  /\ told = "ESUCCESS" /\ did = "ESUCCESS"
  /\ end = ""
------------------------------------------------------------------------------
Ends(how) == end' = how /\ UNCHANGED <<loop, heap, caller, posted, told, did>>

(* The call returns with the error number eno, because of what. *)
Return(c, eno, what) ==
  /\ caller' = [caller EXCEPT ![c] = Idle]
  /\ told' = eno /\ did' = what

(* 102, 119-122: the vector goes, too. *)
BadAlloc(c) ==
  /\ Return(c, "ENOMEM", "memory")
  /\ heap' = [b \in Buffers |-> IF b = caller[c].v THEN None ELSE heap[b]]

GoesOn(c, changed) == caller' = [caller EXCEPT ![c] = changed] /\ UNCHANGED <<told, did>>

(* 238-248; when there is no memory, there is no loop. *)
Create ==
  /\ loop = "none"
  /\ loop' = "alive"
  /\ UNCHANGED <<heap, caller, posted, told, did, end>>

(* 33-36, 250-254: what is queued is destroyed.                             *)
Destroy ==
  /\ loop = "alive" /\ \A c \in Callers : caller[c] = Idle
  /\ IF \E i \in DOMAIN posted : ~HasData(posted[i]) THEN Ends("dangling")
     ELSE /\ loop' = "none" /\ posted' = <<>>
          /\ heap' = [b \in Buffers |-> IF b \in Queued THEN None ELSE heap[b]]
          /\ UNCHANGED <<caller, told, did, end>>

(* 38-56; nothing is done if there is no data. *)
Begin(c, call, data) ==
  /\ loop = "alive" /\ caller[c] = Idle
  /\ GoesOn(c, [Idle EXCEPT !.at = IF call = "Invoke" THEN "lambda" ELSE "copy",
                            !.call = call, !.data = data])
  /\ UNCHANGED <<loop, heap, posted, end>>

(* 103-104, 154-155, 186-187 *)
CopyData(c) ==
  /\ caller[c].at = "copy"
  /\ LET next == [caller[c] EXCEPT !.at = "lambda"]
         d == caller[c].data
     IN  \/ d = None /\ GoesOn(c, next) /\ UNCHANGED heap
         \/ /\ d # None /\ Free # {}
            /\ heap' = [heap EXCEPT ![Fresh] = d]
            /\ GoesOn(c, [next EXCEPT !.v = Fresh])
         \/ d # None /\ BadAlloc(c)
  /\ UNCHANGED <<loop, posted, end>>

(* 105-111, 133-139, 156-162, 188-194: the lambda, with a copy of v if it   *)
(* has one, and a view of it.                                               *)
Capture(c) ==
  /\ caller[c].at = "lambda"
  /\ LET next == [caller[c] EXCEPT !.at = "statement"]
         v == caller[c].v
     IN  \/ v = None /\ GoesOn(c, next) /\ UNCHANGED heap
         \/ /\ v # None /\ Free # {}
            /\ heap' = [heap EXCEPT ![Fresh] = heap[v]]
            /\ GoesOn(c, [next EXCEPT !.lambda = Fresh])
         \/ v # None /\ BadAlloc(c)
  /\ UNCHANGED <<loop, posted, end>>

(* The semicolon: the lambda is destroyed; the view keeps its address.      *)
EndStatement(c) ==
  /\ caller[c].at = "statement"
  /\ heap' = [b \in Buffers |-> IF b = caller[c].lambda THEN None ELSE heap[b]]
  /\ GoesOn(c, [caller[c] EXCEPT !.at = "forward"])
  /\ UNCHANGED <<loop, posted, end>>

Queue(c) ==
  /\ Len(posted) < MaxPosted
  /\ posted' = Append(posted, [buffer |-> caller[c].lambda, data |-> caller[c].data,
                               by |-> c, call |-> caller[c].call])

(* 58-76, 112-117, 140-145, 163-168, 195-200: the lambda is moved into the  *)
(* queue, or memory runs out (260-261, 280-283); v is left.                 *)
Forward(c) ==
  /\ caller[c].at = "forward"
  /\ LET to == EventLoopVt[caller[c].call] IN
       \/ to = None /\ Ends("null")
       \/ /\ to # None
          /\ BadAlloc(c) /\ UNCHANGED <<loop, posted, end>>
       \/ /\ to = "PostFunctor"
          /\ Queue(c) /\ Return(c, "ESUCCESS", "ESUCCESS")
          /\ heap' = [b \in Buffers |-> IF b = caller[c].v THEN None ELSE heap[b]]
          /\ UNCHANGED <<loop, end>>
       \/ /\ to = "InvokeFunctor"
          /\ Queue(c) /\ GoesOn(c, [caller[c] EXCEPT !.at = "wait"])
          /\ UNCHANGED <<loop, heap, end>>

(* Slip: all errors become the same exception. *)
RaisedAlike(answer) == IF answer = "ESUCCESS" THEN "ESUCCESS" ELSE "EOTHER"

(* 106-109, 134-137; what is thrown is caught as that number again.         *)
Raised(answer) ==
  CASE answer = "ESUCCESS" -> "ESUCCESS"
    [] answer = "ENOMEM" -> "ENOMEM"
    [] OTHER -> "EOTHER"

(* 106, 134, 275-278: a loop thread calls the lambda, and destroys it.  The *)
(* caller that invoked it is told; its lambda has nothing to free, and what *)
(* is left of it on the stack may or may not have been overwritten.         *)
Call(answer) ==
  /\ loop = "alive" /\ posted # <<>>
  /\ LET f == Head(posted) IN
       \/ ~HasData(f) /\ Ends("dangling")
       \/ f.call = "Invoke" /\ Ends("dangling")
       \/ /\ HasData(f)
          /\ posted' = Tail(posted)
          /\ heap' = [b \in Buffers |-> IF b = f.buffer THEN None ELSE heap[b]]
          /\ IF f.call = "Invoke" THEN Return(f.by, Raised(answer), answer)
             ELSE UNCHANGED <<caller, told, did>>
          /\ UNCHANGED <<loop, end>>

Next ==
  /\ end = ""
  /\ \/ Create \/ Destroy
     \/ \E c \in Callers :
          \/ CopyData(c) \/ Capture(c) \/ EndStatement(c) \/ Forward(c)
          \/ \E call \in DOMAIN EventLoopVt, data \in Data \union {None} :
               Begin(c, call, data)
     \/ \E answer \in Answers : Call(answer)

Spec == Init /\ [][Next]_vars
------------------------------------------------------------------------------
(* A caller is told ENOMEM if memory ran out, in a wrapper, in the queue or *)
(* in the function it invoked, another error if the function had one, and   *)
(* nothing else.                                                            *)
ErrorsCross ==
  /\ told = "ESUCCESS" <=> did = "ESUCCESS"
  /\ told = "ENOMEM" <=> did \in {"memory", "ENOMEM"}

(* Wherever memory runs out, no copy is left behind, and none is missing in *)
(* the middle of a call.                                                    *)
NothingLeaks ==
  LET held == (UNION { {caller[c].v} \union
                       (IF caller[c].at = "statement" THEN {caller[c].lambda} ELSE {})
                       : c \in Callers }) \ {None}
  IN  held \subseteq Allocated /\ Allocated \subseteq held \union Queued

CallsAreAnswered == TypeOK /\ ErrorsCross /\ NothingLeaks

(* "ptr is copied to the queue" (src/sev/event_loop.h:81): what is queued   *)
(* has the data it was posted with.                                         *)
PostedIsCopied == \A i \in DOMAIN posted : HasData(posted[i])
==============================================================================
