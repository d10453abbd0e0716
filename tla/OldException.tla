----------------------------- MODULE OldException -----------------------------
(***************************************************************************)
(* The exceptions of the first library (src/old_sev/exception.cpp and      *)
(* win32_exception.cpp), which own copies of their texts because new and   *)
(* delete must not be shared between modules: who frees which text, and    *)
(* what what() still says after copies, assignments and failed             *)
(* allocations.                                                            *)
(***************************************************************************)
CONSTANTS
  Objects,     \* places for an Exception or a Win32Exception
  None

VARIABLES
  text,        \* what each allocated buffer says, or None
  object,      \* None, or the object's type, texts and m_Delete
  said,        \* what each object was given to say (history)
  short,       \* the objects that memory ran out for, or for their originals
  sliced,      \* those that were assigned to as a plain Exception (history)
  end          \* "", or how the program ended

vars == <<text, object, said, short, sliced, end>>

(* Places of literals, which are never freed. *)
Literals == { <<None, "literal">>, <<None, "Unknown Win32 exception">> }

Texts == {"text", "system message", "message"}

(* Addresses, each named for the member it is allocated for: a member has   *)
(* freed its text before it gets another.                                   *)
Buffers == Objects \X {"what", "system", "message"}
Allocated == { b \in Buffers : text[b] # None }

(* 43-49 of exception.h, 62-67; 86-91 of win32_exception.h: what is a       *)
(* literal or a buffer; a plain exception has no other texts.               *)
Exceptions ==
  [win32 : BOOLEAN, what : Literals \union Buffers \union {None}, delete : BOOLEAN,
   system : Buffers \union {None}, message : Buffers \union {None}]

(* What the constants have to be. *)
Assumptions ==
  None \notin Objects \union Literals \union Buffers \union Exceptions \union Texts
                     \union {"literal", "Unknown Win32 exception", "Unknown SEv exception"}

TypeOK ==
  /\ text \in [Buffers -> Texts \union {None}]
  /\ object \in [Objects -> Exceptions \union {None}]
  /\ short \subseteq Objects /\ sliced \subseteq Objects
  /\ end \in {"", "null text", "freed twice"}

Init ==
  /\ text = [b \in Buffers |-> None]
  /\ object = [e \in Objects |-> None]
  /\ said = [e \in Objects |-> None]
  /\ short = {} /\ sliced = {} /\ end = ""
------------------------------------------------------------------------------
Plain(what, delete) ==
  [win32 |-> FALSE, what |-> what, delete |-> delete, system |-> None, message |-> None]

Ends(how) == end' = how /\ UNCHANGED <<text, object, said, short, sliced>>

Becomes(e, x, saying, isShort) ==
  /\ object' = [object EXCEPT ![e] = x]
  /\ said' = [said EXCEPT ![e] = saying]
  /\ short' = IF isShort THEN short \union {e} ELSE short \ {e}
  /\ sliced' = sliced \ {e}
  /\ UNCHANGED end

(* 36-46: a copy, for the member `at`, of what the buffer b says; none if   *)
(* there is no memory, or nothing to copy.                                  *)
CopyString(txt, b, at, memory) ==
  IF b = None \/ ~memory THEN [txt |-> txt, at |-> None]
  ELSE [txt |-> [txt EXCEPT ![at] = txt[b]], at |-> at]

(* 50-53, 60-63: nothing to free. *)
Construct(e, literal) ==
  /\ object[e] = None
  /\ Becomes(e, Plain(literal, FALSE),
             IF literal = None THEN None ELSE literal[2], FALSE)
  /\ UNCHANGED text

(* 55-58 *)
FromText(e, memory) ==
  /\ object[e] = None
  /\ text' = IF memory THEN [text EXCEPT ![<<e, "what">>] = "text"] ELSE text
  /\ Becomes(e, Plain(IF memory THEN <<e, "what">> ELSE None, TRUE), "text", ~memory)

(* 148-154, 81-132 of win32_exception.cpp: a number without a message, and  *)
(* memory that runs out, make a string_view of a null pointer.              *)
FromWin32(e) ==
  /\ object[e] = None
  /\ \/ /\ text' = [text EXCEPT ![<<e, "system">>] = "system message", ![<<e, "message">>] = "message"]
        /\ Becomes(e, [win32 |-> TRUE, what |-> <<None, "Unknown Win32 exception">>, delete |-> FALSE,
                       system |-> <<e, "system">>, message |-> <<e, "message">>], "message", FALSE)
     \/ Ends("null text")

(* 184-194, 38-79: the buffer is freed again. *)
SystemMessage ==
  \/ UNCHANGED vars
  \/ Ends("null text")

Owned(x) == ({x.system, x.message} \union (IF x.delete THEN {x.what} ELSE {})) \ {None}

(* 65-69; 156-160 of win32_exception.cpp *)
Freed(e) == [b \in Buffers |-> IF b \in Owned(object[e]) THEN None ELSE text[b]]

(* Slip: the text of a plain exception is shared. *)
CopiesSharing(o, e, asWin32, txt, memory) ==
  LET system  == CopyString(txt, IF asWin32 THEN o.system ELSE None, <<e, "system">>, memory.system)
      message == CopyString(system.txt, IF asWin32 THEN o.message ELSE None, <<e, "message">>, memory.message)
  IN  [txt |-> message.txt,
       object |-> [win32 |-> asWin32, what |-> o.what, delete |-> o.delete,
                   system |-> system.at, message |-> message.at]]

(* 71-84; 162-167 of win32_exception.cpp: a copy of o in e, as a            *)
(* Win32Exception or only as its base, and the texts with it.               *)
Copies(o, e, asWin32, txt, memory) ==
  LET what    == CopyString(txt, IF o.delete THEN o.what ELSE None, <<e, "what">>, memory.what)
      system  == CopyString(what.txt, IF asWin32 THEN o.system ELSE None, <<e, "system">>, memory.system)
      message == CopyString(system.txt, IF asWin32 THEN o.message ELSE None, <<e, "message">>, memory.message)
  IN  [txt |-> message.txt,
       object |-> [win32 |-> asWin32, what |-> IF o.delete THEN what.at ELSE o.what, delete |-> o.delete,
                   system |-> system.at, message |-> message.at]]

Memory == [what : BOOLEAN, system : BOOLEAN, message : BOOLEAN]
Enough == [what |-> TRUE, system |-> TRUE, message |-> TRUE]

(* What a copy of o is given to say. *)
Says(o, asWin32) == IF asWin32 = object[o].win32 THEN said[o] ELSE object[o].what[2]

IsWhole(e) == object[e] # None /\ e \notin sliced

(* A plain exception may be made from either, a Win32Exception from one.    *)
Copy(e, o, asWin32, memory) ==
  /\ object[e] = None /\ IsWhole(o) /\ (asWin32 => object[o].win32)
  /\ LET c == Copies(object[o], e, asWin32, text, memory) IN
       /\ text' = c.txt
       /\ Becomes(e, c.object, Says(o, asWin32), o \in short \/ memory # Enough)

(* 86-94; 169-177 of win32_exception.cpp: freed, then copied. *)
Assign(e, o, memory) ==
  /\ e # o /\ IsWhole(e) /\ IsWhole(o)
  /\ LET asWin32 == object[e].win32
         c == Copies(object[o], e, asWin32, Freed(e), memory)
     IN  /\ asWin32 => object[o].win32
         /\ text' = c.txt
         /\ Becomes(e, c.object, Says(o, asWin32), o \in short \/ memory # Enough)

(* 86-94 of a Win32Exception that is at hand as an Exception: the whole     *)
(* object is destroyed, and only its base is made again.                    *)
AssignAsBase(e, o, memory) ==
  /\ e # o /\ IsWhole(e) /\ IsWhole(o) /\ object[e].win32
  /\ LET c == Copies(object[o], e, FALSE, Freed(e), memory) IN
       /\ text' = c.txt
       /\ object' = [object EXCEPT ![e].what = c.object.what, ![e].delete = c.object.delete]
  /\ sliced' = sliced \union {e}
  /\ UNCHANGED <<said, short, end>>

Destroy(e) ==
  /\ object[e] # None
  /\ IF e \in sliced THEN Ends("freed twice")
     ELSE /\ text' = Freed(e)
          /\ object' = [object EXCEPT ![e] = None]
          /\ said' = [said EXCEPT ![e] = None]
          /\ short' = short \ {e}
          /\ UNCHANGED <<sliced, end>>

Next ==
  /\ end = ""
  /\ \/ SystemMessage
     \/ \E e \in Objects :
          \/ \E literal \in {None, <<None, "literal">>} : Construct(e, literal)
          \/ \E memory \in BOOLEAN : FromText(e, memory)
          \/ FromWin32(e) \/ Destroy(e)
          \/ \E o \in Objects, memory \in Memory :
               \/ \E asWin32 \in BOOLEAN : Copy(e, o, asWin32, memory)
               \/ Assign(e, o, memory) \/ AssignAsBase(e, o, memory)

Spec == Init /\ [][Next]_vars
------------------------------------------------------------------------------
Whole == { e \in Objects : IsWhole(e) }

(* 96-99; 179-182 of win32_exception.cpp *)
What(e) ==
  LET x == object[e]
      Of(t) == IF t \in Buffers THEN text[t] ELSE t[2]
  IN  CASE x.message # None -> Of(x.message)
        [] x.message = None /\ x.system # None -> Of(x.system)
        [] OTHER -> IF x.what = None THEN "Unknown SEv exception" ELSE Of(x.what)

(* Every text is freed by exactly one object, whatever was copied, assigned *)
(* or short of memory.                                                      *)
OwnedOnce ==
  /\ \A e, f \in Whole : e # f => Owned(object[e]) \cap Owned(object[f]) = {}
  /\ sliced = {} => Allocated = UNION { Owned(object[e]) : e \in Whole }
  /\ \A e \in Whole : Owned(object[e]) \subseteq Allocated

(* what() says what the exception was given to say, or, when memory ran     *)
(* out on the way, the next best text: it never points to a freed one.      *)
SaysWhatItWas == \A e \in Whole :
  /\ What(e) # None
  /\ e \notin short =>
       What(e) = IF said[e] = None THEN "Unknown SEv exception" ELSE said[e]

(* Texts are freed once, unless an object was assigned to as its base.      *)
TextsAreOwned ==
  TypeOK /\ OwnedOnce /\ SaysWhatItWas /\ (end = "freed twice" => sliced # {})
==============================================================================
