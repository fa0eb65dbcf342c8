----------------------------- MODULE SnappyCopy -----------------------------
(***************************************************************************)
(* IncrementalCopy of snappy.cc: copy bytes [src, src + len) to op in the  *)
(* same area, where the two may overlap so that a pattern repeats, eight   *)
(* or sixteen bytes at a time wherever the area has room for storing more  *)
(* than was asked for.                                                     *)
(*                                                                         *)
(* A copy in progress is a record: the area 'mem', the pointers src and op *)
(* as numbers of bytes from its start, and 'high', how far stores reached. *)
(***************************************************************************)
EXTENDS Integers, Sequences, FiniteSetsExt

CopyBegun(mem, src, op) == [mem |-> mem, src |-> src, op |-> op, high |-> op]

\* UnalignedCopy64(src + d, op + d): all eight bytes are loaded first.
Copy8(s, d) ==
  [s EXCEPT !.mem = [i \in DOMAIN @ |->
                       IF i > s.op + d /\ i <= s.op + d + 8 THEN @[s.src - s.op + i] ELSE @[i]],
            !.high = Max({@, s.op + d + 8})]

Copy16(s, d) == Copy8(Copy8(s, d), d + 8)

\* IncrementalCopySlow: one byte after the other, so that what was just
\* stored is loaded again.
CopySlow(s, op_limit) ==
  [s EXCEPT !.mem = [i \in DOMAIN @ |->
                       IF i > s.op /\ i <= op_limit
                       THEN @[s.src + 1 + ((i - 1 - s.op) % (s.op - s.src))]
                       ELSE @[i]],
            !.high = IF s.op < op_limit THEN Max({@, op_limit}) ELSE @,
            !.op = Max({@, op_limit})]

\* A pattern of n < 8 bytes grows in place, doubling.
RECURSIVE GrowPattern(_, _)
GrowPattern(s, n) ==
  IF n >= 8 THEN s ELSE GrowPattern([Copy8(s, 0) EXCEPT !.op = @ + n], 2 * n)

\* With SSSE3 the pattern of n bytes fills a register of sixteen, which is
\* stored as long as one more store fits.
RECURSIVE StorePattern(_, _, _, _)
StorePattern(s, pattern, n, op_end) ==
  IF s.op >= op_end THEN s
  ELSE StorePattern([s EXCEPT !.mem = [i \in DOMAIN @ |->
                                IF i > s.op /\ i <= s.op + 16 THEN pattern[i - s.op] ELSE @[i]],
                              !.op = @ + n * (16 \div n),
                              !.high = Max({@, s.op + 16})], pattern, n, op_end)

\* Mutant of FillPattern: stores as long as anything is left to fill.
FillPatternToTheEnd(s, op_limit, buf_limit) ==
  LET n == s.op - s.src
  IN  StorePattern(s, [i \in 1..16 |-> s.mem[s.src + 1 + ((i - 1) % n)]], n, op_limit)

FillPattern(s, op_limit, buf_limit) ==
  LET n == s.op - s.src
  IN  StorePattern(s, [i \in 1..16 |-> s.mem[s.src + 1 + ((i - 1) % n)]], n,
                   Min({op_limit, buf_limit - 15}))

\* Sixteen bytes at a time up to where sixteen more would not fit.
RECURSIVE CopySlop(_, _)
CopySlop(s, op_end) ==
  IF s.op >= op_end THEN s
  ELSE CopySlop([Copy16(s, 0) EXCEPT !.src = @ + 16, !.op = @ + 16], op_end)

\* The part for patterns of eight bytes and more.  With room to spare it is
\* up to four blocks of sixteen: a copy has at most 64 bytes.
CopyLong(s, op_limit, buf_limit) ==
  LET four[k \in 0..3] ==
        LET before == IF k = 0 THEN s ELSE four[k - 1]
        IN  IF k = 0 \/ s.op + 16 * k < op_limit THEN Copy16(before, 16 * k) ELSE before
      rest == CopySlop(s, buf_limit - 16)
      eight == IF rest.op <= buf_limit - 8
               THEN [Copy8(rest, 0) EXCEPT !.src = @ + 8, !.op = @ + 8]
               ELSE rest
  IN  CASE op_limit <= buf_limit - 16 -> four[3]
        [] op_limit > buf_limit - 16 /\ rest.op >= op_limit -> rest
        [] OTHER -> CopySlow(eight, op_limit)

IncrementalCopy(ssse3, mem, from, to, op_limit, buf_limit) ==
  LET s == CopyBegun(mem, from, to)
      short == IF ssse3 THEN FillPattern(s, op_limit, buf_limit) ELSE GrowPattern(s, to - from)
  IN  CASE to - from >= 8 -> CopyLong(s, op_limit, buf_limit)
        [] to - from < 8 /\ to > buf_limit - (IF ssse3 THEN 16 ELSE 11) -> CopySlow(s, op_limit)
        [] OTHER -> IF short.op >= op_limit THEN short
                    ELSE IF ssse3 THEN CopySlow(short, op_limit)
                    ELSE CopyLong(short, op_limit, buf_limit)
=============================================================================
