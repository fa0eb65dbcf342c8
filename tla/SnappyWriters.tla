---------------------------- MODULE SnappyWriters ----------------------------
(***************************************************************************)
(* The four classes SnappyDecompressor writes to: a flat array (what       *)
(* snappyer:decompress/1 uses), a validator that only counts               *)
(* (snappyer:is_valid/1), blocks that are handed to a Sink at the end, and *)
(* an iovec.  All of them are areas of memory filled one after the other:  *)
(* a writer is the areas, the one being filled ('area', 'pos'), the length *)
(* promised, and how many bytes were written in all; 'full' is the counter *)
(* of filled blocks that the scattered writer keeps (full_size_).          *)
(*                                                                         *)
(* 'inside' turns FALSE at the first store past the end of an area.  What  *)
(* an operation returns is the writer after it and whether it succeeded.   *)
(***************************************************************************)
EXTENDS SnappyFormat, SnappyCopy

Kinds == {"array", "validator", "scattered", "iovec"}

Unwritten(n) == [i \in 1..n |-> 0]

\* The constructor and SetExpectedLength; only an iovec comes with its areas.
NewWriter(kind, expected, iov) ==
  [kind |-> kind, expected |-> expected, pos |-> 0, full |-> 0, written |-> 0, inside |-> TRUE,
   area |-> IF kind = "array" \/ (kind = "iovec" /\ iov # <<>>) THEN 1 ELSE 0,
   areas |-> CASE kind = "array" -> <<Unwritten(expected)>>
               [] kind = "iovec" -> [k \in DOMAIN iov |-> Unwritten(iov[k])]
               [] OTHER -> <<>>]

AreaSize(w) == IF w.area = 0 THEN 0 ELSE Len(w.areas[w.area])
Left(w) == AreaSize(w) - w.pos
Done(w) == [w |-> w, ok |-> TRUE]
Failed(w) == [w |-> w, ok |-> FALSE]

\* Store bytes where the writer is, and count n of them as written.
Store(w, bytes, n) ==
  [w EXCEPT !.areas = IF bytes = <<>> THEN @
                      ELSE [@ EXCEPT ![w.area] = [i \in DOMAIN @ |->
                              IF i > w.pos /\ i <= w.pos + Len(bytes) THEN bytes[i - w.pos] ELSE @[i]]],
            !.inside = @ /\ Len(bytes) <= Left(w),
            !.pos = @ + n, !.written = @ + n]

\* IncrementalCopy of len bytes from offset bytes back in the same area.
CopyWithin(ssse3, w, offset, len) ==
  LET c == IncrementalCopy(ssse3, w.areas[w.area], w.pos - offset, w.pos,
                           w.pos + len, AreaSize(w))
  IN  [w EXCEPT !.areas[w.area] = c.mem, !.inside = @ /\ c.high <= AreaSize(w),
                !.pos = @ + len, !.written = @ + len]

\* Produced(), Size(): two writers count what they write, the others subtract
\* pointers, the scattered one with its filled blocks added.
Produced(w) == IF w.kind \in {"validator", "iovec"} THEN w.written ELSE w.full + w.pos

\* What the caller finds in its memory, or Flush hands to its Sink: no more
\* than Produced() bytes, and no more than the blocks hold.
Output(w) ==
  LET memory == FlattenSeq(w.areas)
  IN  SubSeq(memory, 1, Min({Produced(w), Len(memory)}))

-----------------------------------------------------------------------------
(* SnappyIOVecWriter *)

NextArea(w) == [w EXCEPT !.area = @ + 1, !.pos = 0]

\* AppendNoCheck: as much as the areas hold.
RECURSIVE AppendNoCheck(_, _)
AppendNoCheck(w, bytes) ==
  IF bytes = <<>> THEN Done(w)
  ELSE IF Left(w) = 0
  THEN IF w.area >= Len(w.areas) THEN Failed(w) ELSE AppendNoCheck(NextArea(w), bytes)
  ELSE LET n == Min({Len(bytes), Left(w)})
       IN  AppendNoCheck(Store(w, SubSeq(bytes, 1, n), n), SubSeq(bytes, n + 1, Len(bytes)))

\* The iovec and the place in it that lie offset bytes back.
RECURSIVE LookBack(_, _, _, _)
LookBack(w, area, at, offset) ==
  IF at >= offset THEN [area |-> area, at |-> at - offset]
  ELSE LookBack(w, area - 1, Len(w.areas[area - 1]), offset - at)

\* The copy loop: from an earlier iovec with AppendNoCheck, whose answer is
\* dropped, within the current one with IncrementalCopy.
RECURSIVE CopyAcross(_, _, _, _, _)
CopyAcross(ssse3, w, area, at, len) ==
  IF len = 0 THEN Done(w)
  ELSE IF area # w.area
  THEN LET n == Min({Len(w.areas[area]) - at, len})
           v == AppendNoCheck(w, SubSeq(w.areas[area], at + 1, at + n)).w
       IN  IF len = n THEN Done(v) ELSE CopyAcross(ssse3, v, area + 1, 0, len - n)
  ELSE IF Left(w) = 0
  THEN IF w.area >= Len(w.areas) THEN Failed(w) ELSE CopyAcross(ssse3, NextArea(w), area, at, len)
  ELSE LET n == Min({Left(w), len})
       IN  CopyAcross(ssse3, CopyWithin(ssse3, w, w.pos - at, n), area, at + n, len - n)

-----------------------------------------------------------------------------
(* SnappyScatteredWriter *)

\* SlowAppend: fill this block, and as many new ones as it takes.  All of
\* them but the last have BlockSize bytes.  The filled block is added to
\* full_size_ before the bounds check, and op_base_ and op_ptr_ move only after
\* it: where the check fails, Size() has the block twice.
RECURSIVE SlowAppend(_, _)
SlowAppend(w, bytes) ==
  LET avail == Left(w)
      filled == [Store(w, SubSeq(bytes, 1, avail), avail) EXCEPT !.full = @ + AreaSize(w)]
      bsize == Min({BlockSize, w.expected - filled.full})
  IN  IF Len(bytes) <= avail THEN Done(Store(w, bytes, Len(bytes)))
      ELSE IF filled.full + (Len(bytes) - avail) > w.expected THEN Failed(filled)
      ELSE SlowAppend([filled EXCEPT !.areas = Append(@, Unwritten(bsize)),
                                     !.area = @ + 1, !.pos = 0],
                      SubSeq(bytes, avail + 1, Len(bytes)))

\* SlowAppendFromSelf: byte by byte, the block and the place in it taken from
\* the number of the byte; what was just appended is copied again.
CopyBytes(w, offset, len) ==
  LET src == Produced(w) - offset
      byte(n) == w.areas[(n \div BlockSize) + 1][(n % BlockSize) + 1]
  IN  SlowAppend(w, [i \in 1..len |-> byte(src + ((i - 1) % offset))])

-----------------------------------------------------------------------------
WriterAppend(w, bytes) ==
  LET n == Len(bytes)
      counted == [w EXCEPT !.written = @ + n]
  IN  CASE w.kind = "validator" -> [w |-> counted, ok |-> counted.written <= w.expected]
        [] w.kind = "array" -> IF Left(w) < n THEN Failed(w) ELSE Done(Store(w, bytes, n))
        [] w.kind = "scattered" -> SlowAppend(w, bytes)
        [] w.kind = "iovec" -> IF w.written + n > w.expected THEN Failed(w)
                               ELSE AppendNoCheck(w, bytes)

kMaximumTagLength == 5

\* TryFastAppend stores sixteen bytes whatever the length; it needs as many
\* in the input, and a whole tag after them.
FastAppend(w, buf, len) ==
  IF /\ w.kind # "validator"
     /\ len <= 16 /\ Len(buf) >= 16 + kMaximumTagLength /\ Left(w) >= 16
     /\ w.kind = "iovec" => w.expected - w.written >= 16
  THEN Done(Store(w, SubSeq(buf, 1, 16), len))
  ELSE Failed(w)

\* AppendFromSelf; "offset - 1u" makes an offset of 0 too large as well.
WriterAppendFromSelf(ssse3, w, offset, len) ==
  LET inReach(n) == offset > 0 /\ offset <= n
      counted == [w EXCEPT !.written = @ + len]
      back == LookBack(w, w.area, w.pos, offset)
  IN  CASE w.kind = "validator" ->
             IF inReach(w.written) THEN [w |-> counted, ok |-> counted.written <= w.expected]
             ELSE Failed(w)
        [] w.kind = "array" ->
             IF inReach(w.pos) /\ len <= Left(w) THEN Done(CopyWithin(ssse3, w, offset, len))
             ELSE Failed(w)
        [] w.kind = "scattered" ->
             IF inReach(w.pos) /\ len <= Left(w) THEN Done(CopyWithin(ssse3, w, offset, len))
             ELSE IF inReach(Produced(w)) /\ w.expected - Produced(w) >= len
             THEN CopyBytes(w, offset, len)
             ELSE Failed(w)
        [] w.kind = "iovec" ->
             IF inReach(w.written) /\ len <= w.expected - w.written
             THEN CopyAcross(ssse3, w, back.area, back.at, len)
             ELSE Failed(w)

\* Mutant of CheckLength: less than was promised is enough.
CheckLengthAtMost(w) == Produced(w) <= w.expected

CheckLength(w) == Produced(w) = w.expected
=============================================================================
