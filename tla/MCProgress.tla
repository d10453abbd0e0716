----------------------------- MODULE MCProgress -----------------------------
(***************************************************************************)
(* The lite event loop, and the functor queue with threads that keep       *)
(* pushing and popping: what must go on, side by side.  `part` says which  *)
(* of them a behaviour is about; the other is never called.                *)
(***************************************************************************)
EXTENDS LiteEventLoop

CONSTANTS
  Parts,
  Writers, Readers, Blocks, Null, Capacity, Sizes, MaxPush, Throwers,
  FirstBlock, SecondBlock, ThirdBlock

VARIABLES
  part,
  heap, blk, ReadBlock, WriteBlock, SpareBlockA, SpareBlockB, PreWriteIdx,
  swapSharers, swapClaims, swapExclusive, delSharers, delClaims, delExclusive,
  wr, rd, fifo, released

Queue == INSTANCE FunctorQueue WITH MallocMayFail <- FALSE

queueVars == <<heap, blk, ReadBlock, WriteBlock, SpareBlockA, SpareBlockB, PreWriteIdx,
               swapSharers, swapClaims, swapExclusive, delSharers, delClaims, delExclusive,
               wr, rd, fifo, released>>
progressVars == <<part, vars, queueVars>>

(* Of the queue's initial states, which differ only in the addresses of the *)
(* first blocks, one: symmetry would be unsound here.                       *)
ProgressInit ==
  /\ part \in Parts /\ Init /\ Queue!Init
  /\ part = "queue" => build = CHOOSE b \in Builds : TRUE
  /\ ReadBlock = FirstBlock /\ SpareBlockA = SecondBlock /\ SpareBlockB = ThirdBlock

LiteNext == part = "lite" /\ Next /\ UNCHANGED <<part, queueVars>>
QueueNext == part = "queue" /\ Queue!Next /\ UNCHANGED <<part, vars>>

ProgressNext == LiteNext \/ QueueNext

(* The fairness of each, asked for where it is called. *)
LiteFairness ==
  /\ WF_vars(part = "lite" /\ LoopStep)
  /\ WF_vars(part = "lite" /\ poked /\ Wait)
  /\ \A c \in Clients : WF_vars(part = "lite" /\ loop # "terminated" /\ Continue(c))

QueueFairness ==
  /\ \A w \in Writers : WF_queueVars(part = "queue" /\ wr[w].pc # "idle" /\ Queue!WriterStep(w))
  /\ \A r \in Readers : WF_queueVars(part = "queue" /\ (Queue!Pop(r) \/ Queue!ReaderStep(r)))

ProgressSpec ==
  ProgressInit /\ [][ProgressNext]_progressVars /\ LiteFairness /\ QueueFairness
------------------------------------------------------------------------------
(* Writers whose functors do not throw are interchangeable: one stands for  *)
(* all of them.                                                             *)
Watched == Throwers \union { CHOOSE w \in Writers \ Throwers : TRUE }

(* A push into the functor queue always returns: the claim is granted, the  *)
(* drain ends, and a failed compare-exchange is due to another push that    *)
(* went through.                                                            *)
PushReturns == \A w \in Watched : Queue!PushReturns(w)

(* With a reader polling, everything that was pushed is taken, also behind  *)
(* a constructor that throws.                                               *)
EverythingIsTaken == \A w \in Watched : Queue!EverythingIsTaken(w)
=============================================================================
