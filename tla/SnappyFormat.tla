---------------------------- MODULE SnappyFormat ----------------------------
(***************************************************************************)
(* The byte format of snappy as the vendored library writes and reads it:  *)
(* the length in front, the tags, the table that tells what a tag byte     *)
(* says.  A byte is a number below 256, a buffer a sequence of bytes.      *)
(***************************************************************************)
EXTENDS Integers, SequencesExt

CONSTANT BlockSize   \* kBlockSize, 65536 in the code

Byte == 0..255

\* TLC's integers end at 2^31 - 1: what a wider field says is larger than any
\* buffer here, and this stands for it.
Huge == 2 ^ 30

\* LittleEndian::Load32 and ExtractLowBytes: the first n bytes of a buffer.
LowBytes(bytes, n) ==
  IF n = 4 /\ bytes[4] >= 64 THEN Huge
  ELSE MapThenSumSet(LAMBDA i : bytes[i] * 256 ^ (i - 1), 1..n)

StoreLow(v, n) == [i \in 1..n |-> (v \div 256 ^ (i - 1)) % 256]

Log2Floor(n) == CHOOSE k \in 0..30 : 2 ^ k <= n /\ (k < 30 => n < 2 ^ (k + 1))

\* Source::Skip of a list of fragments; ByteArraySource is one with one.
Skip(source, n) ==
  LET left[s \in Seq(Seq(Byte)), k \in Nat] ==
        IF s = <<>> \/ k < Len(s[1])
        THEN IF k = 0 THEN s ELSE [s EXCEPT ![1] = SubSeq(@, k + 1, Len(@))]
        ELSE left[Tail(s), k - Len(s[1])]
  IN  left[source, n]

-----------------------------------------------------------------------------
\* Varint::Encode32
Encode32(v) ==
  LET n == CHOOSE k \in 1..5 : (k = 5 \/ v < 128 ^ k) /\ (k > 1 => v >= 128 ^ (k - 1))
  IN  [i \in 1..n |-> ((v \div 128 ^ (i - 1)) % 128) + (IF i < n THEN 128 ELSE 0)]

SevenBits(bytes, n) ==
  IF n = 5 /\ bytes[5] % 128 >= 4 THEN Huge
  ELSE MapThenSumSet(LAMBDA i : (bytes[i] % 128) * 128 ^ (i - 1), 1..n)

NoLength == [ok |-> FALSE, value |-> 0, used |-> 0]

\* Varint::Parse32WithLimit: the number ends with the first byte below 128;
\* the fifth byte must be below 16.
Parse32(bytes) ==
  LET ends == {k \in 1..5 : k <= Len(bytes) /\ bytes[k] < (IF k = 5 THEN 16 ELSE 128)
                            /\ \A j \in 1..(k - 1) : bytes[j] >= 128}
  IN  IF ends = {} THEN NoLength
      ELSE LET n == CHOOSE k \in ends : TRUE
           IN  [ok |-> TRUE, value |-> SevenBits(bytes, n), used |-> n]

\* Mutant of ReadLength: without LeftShiftOverflows.
ReadLengthNoOverflow(bytes) ==
  LET read[k \in Nat] ==
        IF k >= 5 \/ k >= Len(bytes) THEN NoLength
        ELSE IF bytes[k + 1] < 128
             THEN [ok |-> TRUE, value |-> SevenBits(bytes, k + 1), used |-> k + 1]
        ELSE read[k + 1]
  IN  read[0]

\* ReadUncompressedLength: the loop on shift, with LeftShiftOverflows, which
\* finds the bits that do not fit into the word when shift is 28.
ReadLength(bytes) ==
  LET read[k \in Nat] ==
        IF k >= 5 \/ k >= Len(bytes) THEN NoLength
        ELSE IF k = 4 /\ bytes[5] % 128 >= 16 THEN NoLength
        ELSE IF bytes[k + 1] < 128
             THEN [ok |-> TRUE, value |-> SevenBits(bytes, k + 1), used |-> k + 1]
        ELSE read[k + 1]
  IN  read[0]

-----------------------------------------------------------------------------
LITERAL == 0
COPY1 == 1
COPY2 == 2
COPY4 == 3

\* char_table: length, the offset bits in the tag (times 256) and the number
\* of bytes that follow the tag.
CharTable(c) ==
  LET kind == c % 4
      n == c \div 4
  IN  CASE kind = LITERAL -> [length |-> IF n < 60 THEN n + 1 ELSE 1,
                              offset |-> 0,
                              extra |-> IF n < 60 THEN 0 ELSE n - 59]
        [] kind = COPY1   -> [length |-> 4 + (n % 8), offset |-> 256 * (n \div 8), extra |-> 1]
        [] kind = COPY2   -> [length |-> n + 1, offset |-> 0, extra |-> 2]
        [] OTHER          -> [length |-> n + 1, offset |-> 0, extra |-> 4]

IsLiteral(c) == c % 4 = LITERAL

\* The length of a literal whose tag c is followed by these bytes; the sum
\* is one of 32-bit words, so four bytes of ones say zero.
LiteralLength(c, bytes) ==
  LET n == CharTable(c).extra
  IN  IF n = 0 THEN CharTable(c).length
      ELSE IF n = 4 /\ \A i \in 1..4 : bytes[i] = 255 THEN 0
      ELSE LowBytes(bytes, n) + 1

CopyOffset(c, bytes) == CharTable(c).offset + LowBytes(bytes, CharTable(c).extra)

-----------------------------------------------------------------------------
\* Mutant of MaxCompressedLength: without the 32 spare bytes.
MaxCompressedLengthNoMargin(n) == n + (n \div 6)

\* MaxCompressedLength: the most the compressor may need for so many bytes.
MaxCompressedLength(n) == 32 + n + (n \div 6)

\* EmitLiteral: the bytes written, and how far from op the stores reach.  Up
\* to 16 bytes the fast path copies 16 whatever the length.
EmitLiteral(literal, allowFastPath) ==
  LET n == Len(literal) - 1
      count == IF n < 60 THEN 0 ELSE (Log2Floor(n) \div 8) + 1
      tag == IF n < 60 THEN <<4 * n>> ELSE <<4 * (59 + count)>> \o StoreLow(n, count)
  IN  [bytes |-> tag \o literal,
       reach |-> IF allowFastPath /\ n < 16 THEN 17
                 ELSE Max({Len(tag) + Len(literal), IF n < 60 THEN 0 ELSE 5})]

\* EmitCopyAtMost64; the long form is stored as four bytes, of which three
\* count.
EmitCopyAtMost64(offset, len) ==
  IF len < 12 /\ offset < 2048
  THEN [bytes |-> <<COPY1 + 4 * (len - 4) + 32 * (offset \div 256), offset % 256>>,
        reach |-> 2]
  ELSE [bytes |-> <<COPY2 + 4 * (len - 1)>> \o StoreLow(offset, 2), reach |-> 4]

\* EmitCopy: 64 at a time, and never a rest of less than four.
CopyLengths(len) ==
  LET cut[n \in Nat] == IF n >= 68 THEN <<64>> \o cut[n - 64]
                        ELSE IF n > 64 THEN <<60, n - 60>>
                        ELSE <<n>>
  IN  cut[len]

EmitCopy(offset, len) ==
  LET lens == CopyLengths(len)
      all[k \in 0..Len(lens)] ==
        IF k = 0 THEN [bytes |-> <<>>, reach |-> 0]
        ELSE LET e == EmitCopyAtMost64(offset, lens[k])
             IN  [bytes |-> all[k - 1].bytes \o e.bytes,
                  reach |-> Len(all[k - 1].bytes) + e.reach]
  IN  all[Len(lens)]

-----------------------------------------------------------------------------
(* What a sequence of tags says, one tag after the other, and where it     *)
(* stops making sense: the reference the library is compared with.         *)
Decode(bytes) ==
  LET from(k) == SubSeq(bytes, k + 1, Len(bytes))
      run[k \in Nat, out \in Seq(Byte)] ==
        IF k = Len(bytes) THEN [ok |-> TRUE, out |-> out]
        ELSE LET c == bytes[k + 1]
                 e == CharTable(c)
                 data == k + 1 + e.extra
                 stop == [ok |-> FALSE, out |-> out]
             IN  IF data > Len(bytes) THEN stop
                 ELSE IF IsLiteral(c)
                 THEN LET n == LiteralLength(c, from(k + 1))
                      IN  IF data + n > Len(bytes)
                          THEN [ok |-> FALSE, out |-> out \o from(data)]
                          ELSE run[data + n, out \o SubSeq(bytes, data + 1, data + n)]
                 ELSE LET offset == CopyOffset(c, from(k + 1))
                          start == Len(out) - offset
                      IN  IF offset = 0 \/ start < 0 THEN stop
                          ELSE run[data, out \o [i \in 1..e.length |->
                                                   out[start + 1 + ((i - 1) % offset)]]]
  IN  run[0, <<>>]

\* How much a sequence of copies copies, and from how far back.
CopiesSaid(bytes) ==
  LET said[k \in Nat] ==
        IF k = Len(bytes) THEN <<0, {}>>
        ELSE LET c == bytes[k + 1]
                 rest == said[k + 1 + CharTable(c).extra]
                 offset == CopyOffset(c, SubSeq(bytes, k + 2, Len(bytes)))
             IN  <<CharTable(c).length + rest[1], {offset} \cup rest[2]>>
  IN  said[0]

\* A whole compressed buffer: the length, then tags that give exactly that.
Uncompressed(bytes) ==
  LET len == Parse32(bytes)
      d == Decode(SubSeq(bytes, len.used + 1, Len(bytes)))
  IN  [ok |-> len.ok /\ d.ok /\ Len(d.out) = len.value,
       out |-> IF len.ok THEN d.out ELSE <<>>]
=============================================================================
