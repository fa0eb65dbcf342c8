------------------------------- MODULE Crc32c -------------------------------
(***************************************************************************)
(* The checksum of every record batch sent to Kafka: crc32c.c of crc32cer  *)
(* with its NIF, called by kpro_batch:encode_tx/4 on what it produces and  *)
(* by do_decode/2 on what it fetches.                                      *)
(*                                                                         *)
(* A machine word is the set of the positions of its one bits, so that the *)
(* C operators are set operators: ^ is the symmetric difference and        *)
(* & 0xff keeps the positions below 8.  The word size and the polynomial   *)
(* are the real ones; LONG and SHORT, the lengths of the blocks that the   *)
(* processor's crc instruction works on three at a time, are constants.    *)
(* The loops are recursive functions of the word and the position reached. *)
(***************************************************************************)
EXTENDS Integers, Sequences, FiniteSets, Functions

CONSTANTS LONG, SHORT   \* bytes, powers of two and multiples of 8

\* crc32c.c: "LONG and SHORT must both be powers of two."
ASSUME BlockAssumption ==
  /\ LONG \in {8, 16, 32, 64, 128, 256, 512, 1024, 2048, 4096, 8192}
  /\ SHORT \in {8, 16, 32, 64, 128, 256, 512, 1024, 2048, 4096, 8192}

Ones == 0..31
Word == SUBSET (0..31)
Octet == SUBSET (0..7)

\* 0x82f63b78
POLY == {3, 4, 5, 6, 8, 9, 11, 12, 13, 17, 18, 20, 21, 22, 23, 25, 31}

Xor(a, b) == (a \ b) \cup (b \ a)
XorAll(f) == FoldFunction(Xor, {}, f)
ShiftRight(w, n) == {i - n : i \in {j \in w : j >= n}}
ShiftLeft(w, n) == {i + n : i \in w}
LowByte(w) == w \cap (0..7)
ByteOf(w, k) == LowByte(ShiftRight(w, 8 * k))

\* A little-endian load of eight bytes.
Load(bytes) == UNION {ShiftLeft(bytes[k + 1], 8 * k) : k \in 0..7}

-----------------------------------------------------------------------------
(* The reference: one bit at a time.  The crc32b instruction is one byte of *)
(* it and crc32q eight (IntelByte, IntelQuad).                              *)
ShiftBit(crc) ==
  IF 0 \in crc THEN Xor(ShiftRight(crc, 1), POLY) ELSE ShiftRight(crc, 1)

EightBits(crc) ==
  LET run[c \in Word, n \in 0..8] == IF n = 0 THEN c ELSE run[ShiftBit(c), n - 1]
  IN  run[crc, 8]

IntelByte(crc, byte) == EightBits(Xor(crc, byte))

\* One half after the other, which keeps the recursion shallow.
ByBits(crc, buf) ==
  LET run[c \in Word, i \in 0..Len(buf), j \in 0..Len(buf)] ==
        CASE i = j     -> c
          [] i + 1 = j -> IntelByte(c, buf[j])
          [] OTHER     -> run[run[c, i, (i + j) \div 2], (i + j) \div 2, j]
  IN  run[crc, 0, Len(buf)]

Reference(crc, buf) == Xor(ByBits(Xor(crc, Ones), buf), Ones)

IntelQuad(crc, eight) == ByBits(crc, eight)

-----------------------------------------------------------------------------
(* Software: tables for one byte and for eight at a time.                  *)

\* crc32c_init_sw
FirstTable == [n \in Octet |-> EightBits(n)]
NextTable(t) ==
  [n \in Octet |-> Xor(FirstTable[LowByte(t[n])], ShiftRight(t[n], 8))]

\* crc32c_table[k] is Crc32cTable[k + 1].
Crc32cTable ==
  LET table[k \in 1..8] == IF k = 1 THEN FirstTable ELSE NextTable(table[k - 1])
  IN  [k \in 1..8 |-> table[k]]

TableByte(crc, byte) ==
  Xor(Crc32cTable[1][LowByte(Xor(crc, byte))], ShiftRight(crc, 8))

TableBytes(crc, buf) ==
  LET run[c \in Word, k \in 0..Len(buf)] ==
        IF k = Len(buf) THEN c ELSE run[TableByte(c, buf[k + 1]), k + 1]
  IN  run[crc, 0]

\* Mutant of TableQuad: the tables in the order of the bytes.
TableQuadSwapped(crc, eight) ==
  LET w == Xor(crc, Load(eight))
  IN  XorAll([k \in 0..7 |-> Crc32cTable[k + 1][ByteOf(w, k)]])

\* One turn of the quadword loop: byte k goes through table 7 - k.
TableQuad(crc, eight) ==
  LET w == Xor(crc, Load(eight))
  IN  XorAll([k \in 0..7 |-> Crc32cTable[8 - k][ByteOf(w, k)]])

TableQuads(crc, buf) ==
  LET run[c \in Word, k \in 0..Len(buf)] ==
        IF k = Len(buf) THEN c
        ELSE run[TableQuad(c, SubSeq(buf, k + 1, k + 8)), k + 8]
  IN  run[crc, 0]

\* The bytes before the first address that is a multiple of eight.
Leading(align, buf) ==
  IF Len(buf) < (8 - align) % 8 THEN Len(buf) ELSE (8 - align) % 8

Sw(crci, align, buf) ==
  LET lead == Leading(align, buf)
      last == lead + 8 * ((Len(buf) - lead) \div 8)
      c0 == TableBytes(Xor(crci, Ones), SubSeq(buf, 1, lead))
      c1 == TableQuads(c0, SubSeq(buf, lead + 1, last))
      c2 == TableBytes(c1, SubSeq(buf, last + 1, Len(buf)))
  IN  Xor(c2, Ones)

-----------------------------------------------------------------------------
(* Hardware: three crcs run in parallel and joined by operators that       *)
(* append zeros, matrices over GF(2) whose rows are words.                 *)

Gf2MatrixTimes(mat, vec) == XorAll([n \in vec |-> mat[n]])

Gf2MatrixSquare(mat) == [n \in 0..31 |-> Gf2MatrixTimes(mat, mat[n])]

OneZeroBit == [n \in 0..31 |-> IF n = 0 THEN POLY ELSE {n - 1}]

\* The do loop: one square first, then one for every halving of len.
ZerosOp(len) ==
  LET halve[mat \in [0..31 -> Word], n \in Nat] ==
        IF n \div 2 = 0 THEN Gf2MatrixSquare(mat)
        ELSE halve[Gf2MatrixSquare(mat), n \div 2]
  IN  halve[Gf2MatrixSquare(Gf2MatrixSquare(OneZeroBit)), len]

\* crc32c_zeros: the operator byte by byte.
Zeros(len) ==
  LET op == ZerosOp(len)
  IN  [k \in 0..3 |-> [n \in Octet |-> Gf2MatrixTimes(op, ShiftLeft(n, 8 * k))]]

\* Mutant of Shift: the bytes in the other order.
ShiftReversed(zeros, crc) ==
  XorAll([k \in 0..3 |-> zeros[3 - k][ByteOf(crc, k)]])

Shift(zeros, crc) ==
  XorAll([k \in 0..3 |-> zeros[k][ByteOf(crc, k)]])

\* crc32c_init_hw
Crc32cLong == Zeros(LONG)
Crc32cShort == Zeros(SHORT)

\* A whole number of quadwords through crc32q.
Quads(crc, buf) == IntelQuad(crc, buf)

\* The loops over three adjacent blocks, as long as three are left.
ThreeWay(zeros, block, crc, buf) ==
  LET Part(k, i) == SubSeq(buf, k + i * block + 1, k + (i + 1) * block)
      run[c \in Word, k \in 0..Len(buf)] ==
        IF Len(buf) - k < 3 * block
        THEN [crc |-> c, rest |-> SubSeq(buf, k + 1, Len(buf))]
        ELSE LET two == Xor(Shift(zeros, Quads(c, Part(k, 0))), Quads({}, Part(k, 1)))
             IN  run[Xor(Shift(zeros, two), Quads({}, Part(k, 2))), k + 3 * block]
  IN  run[crc, 0]

Hw(crc, align, buf) ==
  LET lead == Leading(align, buf)
      c0 == ByBits(Xor(crc, Ones), SubSeq(buf, 1, lead))
      long == ThreeWay(Crc32cLong, LONG, c0, SubSeq(buf, lead + 1, Len(buf)))
      short == ThreeWay(Crc32cShort, SHORT, long.crc, long.rest)
      quads == 8 * (Len(short.rest) \div 8)
      c1 == Quads(short.crc, SubSeq(short.rest, 1, quads))
      c2 == ByBits(c1, SubSeq(short.rest, quads + 1, Len(short.rest)))
  IN  Xor(c2, Ones)

-----------------------------------------------------------------------------
\* crc32c/3: the dispatch on what crc32c_global_init found when the NIF was
\* loaded.
Crc32c(sse42, crc, align, buf) ==
  IF sse42 THEN Hw(crc, align, buf) ELSE Sw(crc, align, buf)
=============================================================================
