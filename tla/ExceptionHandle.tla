---------------------------- MODULE ExceptionHandle ----------------------------
(***************************************************************************)
(* Exceptions that cross a C interface (src/sev/exception.h, .cpp).  A     *)
(* handle is a pointer: to nothing, to an entry of the map of error        *)
(* numbers, to the static "bad" exception, or to an Exception of its own.  *)
(* It is passed by address, so the library that captures into it and the   *)
(* one that rethrows from it need not be the same.                         *)
(*                                                                         *)
(* A handle is used by one thread at a time; what threads share is the map.*)
(* A section under its lock is one step (SharedMutex is about the lock).   *)
(***************************************************************************)
EXTENDS Integers, FiniteSets

CONSTANTS
  Handles, Libraries,
  Kinds,        \* the types of what is thrown, among the keys of ErrNoOf
  ErrNos,       \* error numbers that are captured as such
  Cells,        \* memory for Exception objects
  MaxStrays,    \* bound: exception_ptr's that nobody frees
  None, Bad

VARIABLES
  handle,      \* eh: None, an error number (its entry), Bad, or a cell
  cell,        \* the Exception in each allocated cell, or None
  entries,     \* the error numbers that s_ErrNo has an entry for
  asked,       \* what each handle's thread was not found in s_ErrNo
  origin,      \* what was captured into each handle (history)
  lost,        \* cells whose handle was captured into once more (history)
  strays       \* exception_ptr's that no cell has (history)

vars == <<handle, cell, entries, asked, origin, lost, strays>>

(* 186-213 of exception.h, where line 194 is not what the table says (71).  *)
ErrNoOf(kind) ==
  CASE kind = "range" -> "ERANGE"
    [] kind \in {"overflow", "invalid"} -> "EOVERFLOW"
    [] kind = "domain" -> "EDOM"
    [] kind = "alloc" -> "ENOMEM"
    [] OTHER -> "EOTHER"

(* 132-152 *)
KindOf(eno) ==
  CASE eno = "ERANGE" -> "range"
    [] eno = "EOVERFLOW" -> "overflow"
    [] eno = "EINVAL" -> "invalid"
    [] eno = "EDOM" -> "domain"
    [] eno = "ENOMEM" -> "alloc"
    [] OTHER -> "exception"

AllErrNos == ErrNos \union { ErrNoOf(k) : k \in Kinds }

(* 107-352 of exception.cpp: the name of a number that is listed.           *)
What(eno) == IF eno \in { "ERANGE", "EOVERFLOW", "EINVAL", "EDOM", "ENOMEM", "EOTHER", "EPERM" }
             THEN eno ELSE "errno_t"

(* 40-48; without the text, and with the type that Exception points to.     *)
Exceptions == [eno : AllErrNos, kind : Kinds, rethrower : Libraries]

(* What the constants have to be. *)
Assumptions ==
  /\ Kinds \subseteq { "range", "overflow", "invalid", "domain", "alloc", "exception", "unknown" }
  /\ IsFiniteSet(Cells) /\ MaxStrays \in Nat
  /\ None # Bad /\ {None, Bad} \cap (Cells \union AllErrNos \union Kinds) = {}
  /\ Cells \cap AllErrNos = {} /\ None \notin Exceptions

Allocated == { c \in Cells : cell[c] # None }
Free == CHOOSE c \in Cells : c \notin Allocated

TypeOK ==
  /\ handle \in [Handles -> {None, Bad} \union AllErrNos \union Cells]
  /\ cell \in [Cells -> Exceptions \union {None}]
  /\ entries \subseteq AllErrNos
  /\ asked \in [Handles -> AllErrNos \union {None}]
  /\ strays \in 0 .. MaxStrays

(* 52-63; 94-97 of exception.h *)
Init ==
  /\ handle = [h \in Handles |-> None] /\ cell = [c \in Cells |-> None]
  /\ entries = {} /\ asked = [h \in Handles |-> None]
  /\ origin = [h \in Handles |-> None]
  /\ lost = {} /\ strays = 0
------------------------------------------------------------------------------
Ready(h) == asked[h] = None

(* 361-373 *)
ErrNo(h) ==
  CASE handle[h] = None -> "SUCCESS"
    [] handle[h] = Bad -> "EOTHER"
    [] handle[h] \in Cells -> cell[handle[h]].eno
    [] OTHER -> handle[h]

(* Slip: the static ones are freed like the others. *)
DiscardsAll(h) ==
  /\ cell' = [c \in Cells |-> IF c = handle[h] THEN None ELSE cell[c]]
  /\ entries' = entries \ {handle[h]}

(* 375-385: Static is true of an entry and of Bad.                          *)
Discards(h) ==
  /\ cell' = [c \in Cells |-> IF c = handle[h] THEN None ELSE cell[c]]
  /\ UNCHANGED entries

(* 80-95: under the shared lock. *)
Look(h, eno) ==
  \/ eno \in entries /\ handle' = [handle EXCEPT ![h] = eno] /\ UNCHANGED asked
  \/ eno \notin entries /\ handle' = [handle EXCEPT ![h] = None]
     /\ asked' = [asked EXCEPT ![h] = eno]

(* 97-105, 353-358: under the unique lock; another thread may have been     *)
(* first.                                                                   *)
Enter(h) ==
  /\ ~Ready(h)
  /\ entries' = entries \union {asked[h]}
  /\ handle' = [handle EXCEPT ![h] = asked[h]]
  /\ asked' = [asked EXCEPT ![h] = None]
  /\ UNCHANGED <<cell, origin, lost, strays>>

(* 217-225 of exception.h: what the handle had is discarded first.          *)
CaptureErrNo(h, eno) ==
  /\ Ready(h)
  /\ Discards(h)
  /\ Look(h, eno)
  /\ origin' = [origin EXCEPT ![h] = KindOf(eno)]
  /\ UNCHANGED <<lost, strays>>

(* What capture(f) overwrites is not discarded.                             *)
Overwrites(h) == lost' = lost \union ({handle[h]} \cap Cells)

(* 233-240: no memory for the exception_ptr. *)
CaptureAsErrNo(h, kind) ==
  /\ Look(h, ErrNoOf(kind))
  /\ UNCHANGED <<cell, strays>>

(* 241-245; 387-390 of exception.cpp: the exception_ptr stays behind.       *)
CaptureAsBad(h) ==
  /\ strays < MaxStrays
  /\ handle' = [handle EXCEPT ![h] = Bad]
  /\ strays' = strays + 1
  /\ UNCHANGED <<cell, asked>>

(* 391-408 *)
CaptureInCell(l, h, kind) ==
  /\ Cells # Allocated
  /\ cell' = [cell EXCEPT ![Free] = [eno |-> ErrNoOf(kind), kind |-> kind, rethrower |-> l]]
  /\ handle' = [handle EXCEPT ![h] = Free]
  /\ UNCHANGED <<asked, strays>>

(* 179-215 of exception.h, for an f that throws. *)
Capture(l, h, kind) ==
  /\ Ready(h)
  /\ CaptureAsErrNo(h, kind) \/ CaptureAsBad(h) \/ CaptureInCell(l, h, kind)
  /\ Overwrites(h)
  /\ origin' = [origin EXCEPT ![h] = kind]
  /\ UNCHANGED entries

Forget(h) ==
  /\ handle' = [handle EXCEPT ![h] = None]
  /\ origin' = [origin EXCEPT ![h] = None]

(* 124-154, 410-428: the same library throws the very object. *)
Thrown(l, h) ==
  IF handle[h] \in Cells /\ cell[handle[h]].rethrower = l
  THEN [kind |-> cell[handle[h]].kind, what |-> "its own"]
  ELSE [kind |-> KindOf(ErrNo(h)),
        what |-> CASE handle[h] = Bad -> "Failed to capture exception"
                   [] handle[h] \in AllErrNos -> What(handle[h])
                   [] OTHER -> "its own"]

(* Slip: the handle keeps its pointer. *)
DiscardKeeps(h) ==
  /\ Ready(h)
  /\ Discards(h)
  /\ UNCHANGED <<handle, asked, origin, lost, strays>>

(* 113-123, 166-177; 361-367 of exception.cpp: the exception is thrown, as  *)
(* Thrown says, or its error number returned, or neither.                   *)
Discard(h) ==
  /\ Ready(h)
  /\ Discards(h) /\ Forget(h)
  /\ UNCHANGED <<asked, lost, strays>>

(* 89-92: a handle made from a C function's, which is not used again.       *)
Adopt(h, g) ==
  /\ Ready(h) /\ Ready(g) /\ handle[h] = None /\ handle[g] # None
  /\ handle' = [handle EXCEPT ![h] = handle[g], ![g] = None]
  /\ origin' = [origin EXCEPT ![h] = origin[g], ![g] = None]
  /\ UNCHANGED <<cell, entries, asked, lost, strays>>

Next == \E h \in Handles :
  \/ Enter(h) \/ Discard(h)
  \/ \E eno \in ErrNos : CaptureErrNo(h, eno)
  \/ \E l \in Libraries, kind \in Kinds : Capture(l, h, kind)
  \/ \E g \in Handles : Adopt(h, g)

Spec == Init /\ [][Next]_vars
------------------------------------------------------------------------------
(* A handle points to something that exists, and no two to the same cell:   *)
(* entries are never freed, whoever else holds them, cells never twice.     *)
HandlesAreValid == \A h \in Handles :
  /\ handle[h] \in {None, Bad} \union entries \union Allocated
  /\ handle[h] \in Cells => \A g \in Handles \ {h} : handle[g] # handle[h]

(* A cell is freed unless its handle was captured into once more.           *)
CellsAreHeld == Allocated = lost \union ({ handle[h] : h \in Handles } \cap Cells)

(* "EINVAL - std::invalid_argument" (71, and the rest of the table): what   *)
(* is thrown at the other end is of the type that was caught, and the error *)
(* number at that end stands for this type.  For a type the table does not  *)
(* list, and where memory ran out at the wrong time, it is an exception.    *)
(* Only a number that is not listed goes without a name.                    *)
KindSurvives == \A h \in Handles, l \in Libraries :
  Ready(h) /\ handle[h] # None =>
    LET threw == Thrown(l, h).kind IN
    /\ \/ threw = origin[h]
       \/ (origin[h] = "unknown" \/ handle[h] = Bad) /\ threw = "exception"
    /\ KindOf(ErrNo(h)) = threw \/ origin[h] = "unknown"
    /\ Thrown(l, h).what = "errno_t" => ErrNo(h) \in ErrNos

HandlesAreKept == TypeOK /\ HandlesAreValid /\ CellsAreHeld

ExceptionsAreKept == HandlesAreKept /\ KindSurvives
==============================================================================
