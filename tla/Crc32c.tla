------------------------------- MODULE Crc32c -------------------------------
(***************************************************************************)
(* calculate_crc32: the CRC-32C of a buffer, in software with tables that  *)
(* take eight bytes at a time (crc32c_sw), or with the crc32 instructions  *)
(* of the processor in three streams that are combined block by block      *)
(* (crc32c_hw).  Each is a row of loops over the bytes not yet taken, and  *)
(* one step here is one turn of a loop.                                    *)
(*                                                                         *)
(* A word is the set of its bits that are 1, bit 0 the lowest; exclusive   *)
(* or is the symmetric difference.  (An integer of TLC is too small.)      *)
(***************************************************************************)
EXTENDS Naturals, Sequences, FiniteSetsExt

CONSTANTS
  LONG,    \* bytes of each stream of a large block, 8192 in the code
  SHORT,   \* bytes of each stream of a small block, 256 in the code
  Buffers  \* the buffers tried: [align |-> bytes past a boundary, data |-> bytes]

Word == 0 .. 31
Byte == SUBSET (0 .. 7)

\* "LONG and SHORT must both be powers of two" (CRC32.h); what matters is that
\* they are whole eight-byte units.
ASSUME BlockAssumption ==
  /\ LONG \in Nat \ {0} /\ LONG % 8 = 0
  /\ SHORT \in Nat \ {0} /\ SHORT % 8 = 0

ASSUME BufferAssumption == Buffers \subseteq [align : Nat, data : Seq(Byte)]

\* Exclusive or.
v ++ w == SymDiff(v, w)

Not(w)           == Word \ w
ShiftRight(w, n) == {i - n : i \in {j \in w : j >= n}}
ByteOf(w, k)     == {i - 8 * k : i \in w \cap (8 * k .. 8 * k + 7)}
Placed(b, k)     == {i + 8 * k : i \in b}

\* 0x82f63b78, the polynomial of CRC-32C with its bits reversed; and the word
\* calculate_crc32 starts from, 0xabcdef.
POLY == {31, 25, 23, 22, 21, 20, 18, 17, 13, 12, 11, 9, 8, 6, 5, 4, 3}
Seed == {23, 21, 19, 17, 16, 15, 14, 11, 10, 8, 7, 6, 5, 3, 2, 1, 0}

-----------------------------------------------------------------------------
(***************************************************************************)
(* CRC-32C is the remainder of the message, as a polynomial over {0, 1},   *)
(* divided by POLY, bit by bit.                                            *)
(***************************************************************************)

DivideBit(w) ==
  IF 0 \in w THEN ShiftRight(w, 1) ++ POLY ELSE ShiftRight(w, 1)

DivideByte(w) ==
  LET after[n \in 0 .. 8] == IF n = 0 THEN w ELSE DivideBit(after[n - 1])
  IN  IF w = {} THEN {} ELSE after[8]

Divide(w, bytes) ==
  LET after[n \in 0 .. Len(bytes)] ==
        IF n = 0 THEN w ELSE DivideByte(after[n - 1] ++ bytes[n])
  IN  after[Len(bytes)]

-----------------------------------------------------------------------------
(***************************************************************************)
(* The tables of CRC32.h, as what they hold.                               *)
(***************************************************************************)

\* A word after a byte of zeros.
Append0(w) == ShiftRight(w, 8) ++ DivideByte(ByteOf(w, 0))

\* Row 0 has the two inversions of the crc built in; every other row is the one
\* before it after a byte of zeros.
crc32c_table ==
  LET row[k \in 0 .. 7] ==
        IF k = 0 THEN [b \in Byte |-> Not(Append0(Not(b)))]
                 ELSE [b \in Byte |-> Append0(row[k - 1][b])]
  IN  row

\* A word stands for a polynomial, its bit 31 for x^0.  Appending a zero bit
\* multiplies it by x, appending n bytes of zeros by x^(8n).  The product is by
\* Horner's rule, from the highest power of v down.
Times(v, w) ==
  LET sum[k \in 0 .. 32] ==
        IF k = 0 THEN {}
        ELSE DivideBit(sum[k - 1]) ++ (IF k - 1 \in v THEN w ELSE {})
  IN  IF v = {} \/ w = {} THEN {} ELSE sum[32]

\* x^(8n).
ZeroBytes[n \in Nat] ==
  IF n = 0 THEN {31}
  ELSE LET half == ZeroBytes[n \div 2]
       IN  IF n % 2 = 0 THEN Times(half, half) ELSE Append0(Times(half, half))

\* The table that appends n bytes of zeros, a row for every byte of the word.
ZerosTable(n) ==
  LET zeros == ZeroBytes[n] IN [k \in 0 .. 3 |-> [b \in Byte |-> Times(Placed(b, k), zeros)]]

crc32c_long  == ZerosTable(LONG)
crc32c_short == ZerosTable(SHORT)

-----------------------------------------------------------------------------
(***************************************************************************)
(* What one turn of a loop makes of the register.                          *)
(***************************************************************************)

\* The byte loops of crc32c_sw, and its loop over units of eight bytes: the crc
\* is added to the first four.
SwByte(w, byte) ==
  ShiftRight(w, 8) ++ crc32c_table[0][ByteOf(w ++ byte, 0)]

SwUnit(w, unit) ==
     crc32c_table[7][unit[1] ++ ByteOf(w, 0)] ++ crc32c_table[6][unit[2] ++ ByteOf(w, 1)]
  ++ crc32c_table[5][unit[3] ++ ByteOf(w, 2)] ++ crc32c_table[4][unit[4] ++ ByteOf(w, 3)]
  ++ crc32c_table[3][unit[5]] ++ crc32c_table[2][unit[6]]
  ++ crc32c_table[1][unit[7]] ++ crc32c_table[0][unit[8]]

\* The crc32 instructions of the processor, on one byte and on eight.
crc32b(w, byte) == Append0(w ++ byte)

crc32q(w, unit) ==
  LET after[n \in 0 .. 8] == IF n = 0 THEN w ELSE crc32b(after[n - 1], unit[n])
  IN  after[8]

\* One of the three registers after its stream.
Stream(w, bytes) ==
  LET after[n \in 0 .. Len(bytes) \div 8] ==
        IF n = 0 THEN w ELSE crc32q(after[n - 1], SubSeq(bytes, 8 * n - 7, 8 * n))
  IN  after[Len(bytes) \div 8]

crc32c_shift(zeros, w) ==
  zeros[0][ByteOf(w, 0)] ++ zeros[1][ByteOf(w, 1)] ++ zeros[2][ByteOf(w, 2)] ++ zeros[3][ByteOf(w, 3)]

\* Seeded fault: what precedes the third stream is not shifted past it.
BlockShiftsOnce(w, block, size, zeros) ==
  LET crc0 == Stream(w, SubSeq(block, 1, size))
      crc1 == Stream({}, SubSeq(block, size + 1, 2 * size))
      crc2 == Stream({}, SubSeq(block, 2 * size + 1, 3 * size))
  IN  crc32c_shift(zeros, crc0) ++ crc1 ++ crc2

\* Three streams of size bytes, each with a register of its own, and together.
Block(w, block, size, zeros) ==
  LET crc0 == Stream(w, SubSeq(block, 1, size))
      crc1 == Stream({}, SubSeq(block, size + 1, 2 * size))
      crc2 == Stream({}, SubSeq(block, 2 * size + 1, 3 * size))
  IN  crc32c_shift(zeros, crc32c_shift(zeros, crc0) ++ crc1) ++ crc2

-----------------------------------------------------------------------------
VARIABLES
  hw,       \* crc32c_hw runs, else crc32c_sw
  buf,      \* the buffer
  loop,     \* the loop the function is in, or "done"
  next,     \* bytes of the buffer taken
  crc,      \* the register of the function
  divided   \* history: the remainder of the bytes taken

vars == <<hw, buf, loop, next, crc, divided>>

len == Len(buf.data) - next

\* The loops of each function, in order.
After(l) ==
  CASE l = "leading" -> IF hw THEN "long" ELSE "units"
    [] l = "long"    -> "short"
    [] l = "short"   -> "units"
    [] l = "units"   -> "trailing"
    [] OTHER         -> "done"

Init ==
  /\ hw \in BOOLEAN
  /\ buf \in Buffers
  /\ loop = "leading"
  /\ next = 0
  /\ crc = IF hw THEN Not(Seed) ELSE Seed
  /\ divided = Not(Seed)

\* A turn of loop l while `more' holds: n bytes are taken, Of(crc, bytes) made.
Turn(l, more, n, Of(_, _)) ==
  LET bytes == SubSeq(buf.data, next + 1, next + n) IN
  /\ loop = l /\ more
  /\ crc' = Of(crc, bytes)
  /\ next' = next + n
  /\ divided' = Divide(divided, bytes)
  /\ UNCHANGED <<hw, buf, loop>>

Leave(l, more) ==
  /\ loop = l /\ ~more
  /\ loop' = After(l)
  /\ UNCHANGED <<hw, buf, next, crc, divided>>

TakeByte(w, bytes) == IF hw THEN crc32b(w, bytes[1]) ELSE SwByte(w, bytes[1])
TakeUnit(w, unit)  == IF hw THEN crc32q(w, unit) ELSE SwUnit(w, unit)
TakeLong(w, block)  == Block(w, block, LONG, crc32c_long)
TakeShort(w, block) == Block(w, block, SHORT, crc32c_short)

Loop(l, more, n, Of(_, _)) == Turn(l, more, n, Of) \/ Leave(l, more)

\* Up to seven bytes, until an eight-byte boundary.
Leading  == Loop("leading", len > 0 /\ (buf.align + next) % 8 # 0, 1, TakeByte)
Long     == Loop("long", len >= 3 * LONG, 3 * LONG, TakeLong)
Short    == Loop("short", len >= 3 * SHORT, 3 * SHORT, TakeShort)
Units    == Loop("units", len >= 8, 8, TakeUnit)
Trailing == Loop("trailing", len > 0, 1, TakeByte)

Next == Leading \/ Long \/ Short \/ Units \/ Trailing

Spec == Init /\ [][Next]_vars

result == IF hw THEN Not(crc) ELSE crc

-----------------------------------------------------------------------------
(***************************************************************************)
(* Both functions carry, after every turn of every loop and whatever mix   *)
(* of bytes, units and blocks led there, the remainder of exactly the      *)
(* bytes taken; and the word both return is the CRC-32C of the buffer.     *)
(***************************************************************************)
CrcAgrees ==
  /\ result = Not(divided)
  /\ loop = "done" => result = Not(Divide(Not(Seed), buf.data))
=============================================================================
