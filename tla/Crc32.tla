--------------------------------- MODULE Crc32 ---------------------------------
(***************************************************************************)
(* The CRC-32 of the first library (src/old_sev/crc32.h, crc32.cpp and     *)
(* impl/crc32_brumme.cpp): ways to compute it, loop by loop, each of which *)
(* goes on from what another has computed.  A word is the set of its bits, *)
(* a byte a set of bits below 8; memory is little-endian.                  *)
(***************************************************************************)
EXTENDS Integers, Sequences, FiniteSets

CONSTANTS
  Chunks,      \* what may be fed: sequences of bytes
  MaxBytes,    \* bound: what is fed in calls that go on from each other
  Ahead,       \* prefetchAhead
  None

(* What the constants have to be. *)
Assumptions ==
  /\ Chunks \subseteq Seq(SUBSET (0 .. 7))
  /\ MaxBytes \in Nat /\ Ahead \in Nat

VARIABLES
  alg,         \* the function that is called, or None
  left,        \* what of the chunk is left
  unrolling,   \* blocks left of the unrolled loop
  crc,         \* the register, inverted between calls
  division,    \* the register of the bitwise form (history)
  size         \* the bytes that were fed, or None

vars == <<alg, left, unrolling, crc, division, size>>

Words == SUBSET (0 .. 31)
Bytes == SUBSET (0 .. 7)

Xor(a, b) == (a \ b) \union (b \ a)
Not(w) == (0 .. 31) \ w
Shr(w, n) == { k - n : k \in { k \in w : k >= n } }
Shl(w, n) == { k + n : k \in { k \in w : k + n < 32 } }
Byte(w) == w \cap (0 .. 7)

(* The exclusive or of F(x) for all x in S. *)
XorOver(S, F(_)) ==
  LET bits == UNION { { <<x, k>> : k \in F(x) } : x \in S }
  IN  { k \in 0 .. 31 : Cardinality({ b \in bits : b[2] = k }) % 2 = 1 }

(* A word from its halves. *)
Word(halves) ==
  LET Bits(h) == { k \in 0 .. 15 : (h \div 2 ^ k) % 2 = 1 } IN
  Bits(halves[2]) \union { k + 16 : k \in Bits(halves[1]) }

(* 47 *)
Polynomial == Word(<<\hEDB8, \h8320>>)

(* Step(... Step(w, 1) ..., n) *)
Steps(Step(_, _), w, n) ==
  LET after[i \in 0 .. n] == IF i = 0 THEN {w} ELSE { Step(c, i) : c \in after[i - 1] }
  IN  CHOOSE c \in after[n] : TRUE

(* 95-101 *)
Shift(w) == IF 0 \in w THEN Xor(Shr(w, 1), Polynomial) ELSE Shr(w, 1)

(* 88-103: one byte of the bitwise form. *)
Bitwise(c, byte) == Steps(LAMBDA w, i : Shift(w), Xor(c, byte), 8)

(* 535-1119: of each slice, the entries 1, 2, 4, ..., 128.                  *)
Columns == <<
     <<<<\h7707, \h3096>>, <<\hEE0E, \h612C>>, <<\h076D, \hC419>>, <<\h0EDB, \h8832>>,
       <<\h1DB7, \h1064>>, <<\h3B6E, \h20C8>>, <<\h76DC, \h4190>>, <<\hEDB8, \h8320>>>>,
     <<<<\h191B, \h3141>>, <<\h3236, \h6282>>, <<\h646C, \hC504>>, <<\hC8D9, \h8A08>>,
       <<\h4AC2, \h1251>>, <<\h9584, \h24A2>>, <<\hF079, \h4F05>>, <<\h3B83, \h984B>>>>,
     <<<<\h01C2, \h6A37>>, <<\h0384, \hD46E>>, <<\h0709, \hA8DC>>, <<\h0E13, \h51B8>>,
       <<\h1C26, \hA370>>, <<\h384D, \h46E0>>, <<\h709A, \h8DC0>>, <<\hE135, \h1B80>>>>,
     <<<<\hB8BC, \h6765>>, <<\hAA09, \hC88B>>, <<\h8F62, \h9757>>, <<\hC5B4, \h28EF>>,
       <<\h5019, \h579F>>, <<\hA032, \hAF3E>>, <<\h9B14, \h583D>>, <<\hED59, \hB63B>>>>,
     <<<<\h3D60, \h29B0>>, <<\h7AC0, \h5360>>, <<\hF580, \hA6C0>>, <<\h3070, \h4BC1>>,
       <<\h60E0, \h9782>>, <<\hC1C1, \h2F04>>, <<\h58F3, \h5849>>, <<\hB1E6, \hB092>>>>,
     <<<<\hCB5C, \hD3A5>>, <<\h4DC8, \hA10B>>, <<\h9B91, \h4216>>, <<\hEC53, \h826D>>,
       <<\h03D6, \h029B>>, <<\h07AC, \h0536>>, <<\h0F58, \h0A6C>>, <<\h1EB0, \h14D8>>>>,
     <<<<\hA677, \h0BB4>>, <<\h979F, \h1129>>, <<\hF44F, \h2413>>, <<\h33EF, \h4E67>>,
       <<\h67DE, \h9CCE>>, <<\hCFBD, \h399C>>, <<\h440B, \h7579>>, <<\h8816, \hEAF2>>>>,
     <<<<\hCCAA, \h009E>>, <<\h4225, \h077D>>, <<\h844A, \h0EFA>>, <<\hD3E5, \h1BB5>>,
       <<\h7CBB, \h312B>>, <<\hF976, \h6256>>, <<\h299D, \hC2ED>>, <<\h533B, \h85DA>>>>,
     <<<<\h177B, \h1443>>, <<\h2EF6, \h2886>>, <<\h5DEC, \h510C>>, <<\hBBD8, \hA218>>,
       <<\hACC0, \h4271>>, <<\h82F1, \h82A3>>, <<\hDE92, \h0307>>, <<\h6655, \h004F>>>>,
     <<<<\hEFC2, \h6B3E>>, <<\h04F5, \hD03D>>, <<\h09EB, \hA07A>>, <<\h13D7, \h40F4>>,
       <<\h27AE, \h81E8>>, <<\h4F5D, \h03D0>>, <<\h9EBA, \h07A0>>, <<\hE605, \h0901>>>>,
     <<<<\hC18E, \hDFC0>>, <<\h586C, \hB9C1>>, <<\hB0D9, \h7382>>, <<\hBAC3, \hE145>>,
       <<\hAEF6, \hC4CB>>, <<\h869C, \h8FD7>>, <<\hD648, \h19EF>>, <<\h77E1, \h359F>>>>,
     <<<<\h9BA5, \h4C6F>>, <<\hEC3B, \h9E9F>>, <<\h0306, \h3B7F>>, <<\h060C, \h76FE>>,
       <<\h0C18, \hEDFC>>, <<\h1831, \hDBF8>>, <<\h3063, \hB7F0>>, <<\h60C7, \h6FE0>>>>,
     <<<<\hDD96, \hD985>>, <<\h605C, \hB54B>>, <<\hC0B9, \h6A96>>, <<\h5A03, \hD36D>>,
       <<\hB407, \hA6DA>>, <<\hB37E, \h4BF5>>, <<\hBD8D, \h91AB>>, <<\hA06A, \h2517>>>>,
     <<<<\h9D0F, \hE176>>, <<\hE16E, \hC4AD>>, <<\h19AC, \h8F1B>>, <<\h3359, \h1E36>>,
       <<\h66B2, \h3C6C>>, <<\hCD64, \h78D8>>, <<\h41B9, \hF7F1>>, <<\h8373, \hEFE2>>>>,
     <<<<\hB9FB, \hDBE8>>, <<\hA886, \hB191>>, <<\h8A7C, \h6563>>, <<\hCF89, \hCC87>>,
       <<\h4462, \h9F4F>>, <<\h88C5, \h3E9E>>, <<\hCAFB, \h7B7D>>, <<\h4E87, \hF0BB>>>>,
     <<<<\hAE68, \h9191>>, <<\h87A0, \h2563>>, <<\hD431, \h4C87>>, <<\h7313, \h9F4F>>,
       <<\hE627, \h3E9E>>, <<\h173F, \h7B7D>>, <<\h2E7E, \hF6FA>>, <<\h5CFD, \hEDF4>>>> >>

(* The others are sums of these. *)
Crc32Lookup(slice, byte) == XorOver(byte, LAMBDA k : Word(Columns[slice + 1][k + 1]))

(* 115-120; 45-48 of crc32.h: every sixteenth entry of the first slice.     *)
Crc32Lookup16(nibble) == Crc32Lookup(0, Shl(nibble, 4))

(* 124, 49 of crc32.h *)
Nibble(c, n) == Xor(Crc32Lookup16(Xor(c, n) \cap (0 .. 3)), Shr(c, 4))

(* Slip: the high half of the byte is taken as it is. *)
HalfByteUnshifted(c, byte) == Nibble(Nibble(c, byte), byte)

(* 122-127; 50 of crc32.h *)
HalfByte(c, byte) == Nibble(Nibble(c, byte), Shr(byte, 4))

(* 140-141 *)
OneByte(c, byte) == Xor(Shr(c, 8), Crc32Lookup(0, Xor(Byte(c), byte)))

(* 153-195: the products are of places that do not meet, so nothing carries.*)
Tableless(c, byte) ==
  LET Times(w, places) == UNION { Shl(w, n) : n \in places }
      s   == Xor(Byte(c), byte)
      low == Byte(Xor(s, Shl(s, 6)))
      a   == Times(low, {23, 14, 2})
      parts == << Shr(c, 8), Times(low, {24, 16, 8}), a, Shr(a, 1),
                  Times(low, {20, 12}), Shl(low, 19), Shl(low, 17), Shr(low, 2) >>
  IN  XorOver(DOMAIN parts, LAMBDA i : parts[i])

(* 207-222: for each bit of the byte, the polynomial that it leaves behind. *)
Tableless2(c, byte) ==
  LET Leaves(k) == CASE k = 0 -> Xor(Shr(Polynomial, 7), Shr(Polynomial, 1))
                     [] k = 1 -> Xor(Shr(Polynomial, 6), Polynomial)
                     [] OTHER -> Shr(Polynomial, 7 - k)
      d == Xor(c, byte)
  IN  Xor(Shr(d, 8), XorOver(Byte(d), Leaves))

(* Slip: the slices the other way round. *)
BlockReversed(c, bytes) == XorOver(DOMAIN bytes, LAMBDA i :
  Crc32Lookup(i - 1, Xor(bytes[i], Byte(Shr(c, 8 * (i - 1))))))

(* 286-295, 400-417: a block, its first byte by the last slice; the first   *)
(* four bytes with the checksum so far.                                     *)
Block(c, bytes) == XorOver(DOMAIN bytes, LAMBDA i :
  Crc32Lookup(Len(bytes) - i, Xor(bytes[i], Byte(Shr(c, 8 * (i - 1))))))
------------------------------------------------------------------------------
(* The forms that take a byte at a time, and those that take a block, how   *)
(* often they do in a loop, and what has to be left for it (271, 321-324,   *)
(* 371-374, 446-449).                                                       *)
Bytewise == {"crc32_bitwise", "crc32_halfbyte", "crc32_1byte", "crc32_1byte_tableless",
             "crc32_1byte_tableless2", "crc32_const"}

Slicing == [ crc32_8bytes           |-> [block |-> 8,  unroll |-> 1, left |-> 8],
             crc32_4x8bytes         |-> [block |-> 8,  unroll |-> 4, left |-> 32],
             crc32_16bytes          |-> [block |-> 16, unroll |-> 4, left |-> 64],
             crc32_16bytes_prefetch |-> [block |-> 16, unroll |-> 4, left |-> 64 + Ahead] ]

Algorithms == Bytewise \union DOMAIN Slicing

TypeOK ==
  /\ alg \in Algorithms \union {None}
  /\ left \in Seq(Bytes) /\ unrolling \in 0 .. 3
  /\ crc \in Words /\ division \in Words
  /\ size \in 0 .. MaxBytes \union {None}

Init ==
  /\ alg = None /\ left = <<>> /\ unrolling = 0
  /\ crc = {} /\ division = {} /\ size = None

Begin(f, bytes) ==
  /\ alg = None
  /\ alg' = f /\ left' = bytes
  /\ size' = (IF size = None THEN 0 ELSE size) + Len(bytes) /\ size' <= MaxBytes
  /\ crc' = Not(crc) /\ division' = Not(division)
  /\ UNCHANGED unrolling

(* The functions of the header go on from previousCrc32. *)
Crc32(f, chunk) == f # "crc32_const" /\ Begin(f, chunk)

(* 514-528, and 34-37 of crc32.cpp *)
Crc32Fast(chunk) == size = None /\ Begin("crc32_16bytes", chunk)

(* Up to the terminating zero. *)
IsString(chunk) == \A i \in DOMAIN chunk : chunk[i] # {}

(* 62-65 of crc32.h *)
Crc32Runtime(chunk) == size = None /\ IsString(chunk) /\ Begin("crc32_16bytes", chunk)

(* 49-50, 67-70 of crc32.h: a negative char is no index for the table.      *)
Crc32Const(chunk) ==
  /\ size = None /\ IsString(chunk) /\ \A i \in DOMAIN chunk : 7 \notin chunk[i]
  /\ Begin("crc32_const", chunk)

Take(n, c) ==
  /\ crc' = c
  /\ division' = Steps(LAMBDA d, i : Bitwise(d, left[i]), division, n)
  /\ left' = SubSeq(left, n + 1, Len(left))
  /\ UNCHANGED <<alg, size>>

TakeByte(f, c) == alg = f /\ left # <<>> /\ Take(1, c) /\ UNCHANGED unrolling

BitwiseStep    == TakeByte("crc32_bitwise", Bitwise(crc, Head(left)))
HalfByteStep   == TakeByte("crc32_halfbyte", HalfByte(crc, Head(left)))
OneByteStep    == TakeByte("crc32_1byte", OneByte(crc, Head(left)))
TablelessStep  == TakeByte("crc32_1byte_tableless", Tableless(crc, Head(left)))
Tableless2Step == TakeByte("crc32_1byte_tableless2", Tableless2(crc, Head(left)))
ConstStep      == TakeByte("crc32_const", HalfByte(crc, Head(left)))

Sliced == alg \in DOMAIN Slicing

(* 274-298, 327-352, 374-424, 449-500 *)
BlockStep ==
  /\ Sliced
  /\ LET s == Slicing[alg] IN
       /\ unrolling > 0 \/ Len(left) >= s.left
       /\ Take(s.block, Block(crc, SubSeq(left, 1, s.block)))
       /\ unrolling' = (IF unrolling = 0 THEN s.unroll ELSE unrolling) - 1

(* 300-305, 354-359, 426-431, 502-507: what is left.                        *)
TailStep ==
  /\ Sliced /\ unrolling = 0 /\ Len(left) < Slicing[alg].left
  /\ TakeByte(alg, OneByte(crc, Head(left)))

Return ==
  /\ alg # None /\ left = <<>>
  /\ alg' = None
  /\ crc' = Not(crc) /\ division' = Not(division)
  /\ UNCHANGED <<left, unrolling, size>>

Next ==
  \/ \E chunk \in Chunks :
       \/ \E f \in Algorithms : Crc32(f, chunk)
       \/ Crc32Fast(chunk) \/ Crc32Runtime(chunk) \/ Crc32Const(chunk)
  \/ BitwiseStep \/ HalfByteStep \/ OneByteStep \/ TablelessStep \/ Tableless2Step
  \/ ConstStep \/ BlockStep \/ TailStep \/ Return

Spec == Init /\ [][Next]_vars
------------------------------------------------------------------------------
(* After every turn of every loop the register is what dividing bit by bit  *)
(* leaves: no form skips or repeats a byte where its blocks end, takes the  *)
(* slices in another order, or forgets what it goes on from.                *)
ChecksumsAgree == TypeOK /\ crc = division

(* The tables are what the comment at 539-551 says of them.                 *)
TablesAgree == \A k \in 0 .. 7 :
  /\ Crc32Lookup(0, {k}) = Bitwise({k}, {})
  /\ \A s \in 1 .. 15 : LET c == Crc32Lookup(s - 1, {k}) IN
       Crc32Lookup(s, {k}) = Xor(Shr(c, 8), Crc32Lookup(0, Byte(c)))
==============================================================================
