--------------------------- MODULE SnappyCompress ---------------------------
(***************************************************************************)
(* snappy::Compress as the NIF snappyer:compress/1 calls it: the source is *)
(* cut into blocks, CompressFragment turns each into tags with the help of *)
(* a hash table of positions, and the result goes into the binary that     *)
(* SnappyNifSink grows.  RawCompress is the same with memory that its      *)
(* caller has made MaxCompressedLength of the input long.                  *)
(*                                                                         *)
(* An action is one turn of a loop of the code: a block begun, a position  *)
(* looked up, a match copied, the rest emitted.  BlockSize stands for the  *)
(* 65536 of kBlockSize, the table sizes and the sink's least growth are    *)
(* scaled with it; the margin of 15 bytes is the real one.  "Any hash      *)
(* function will produce a valid compressed bitstream" (HashBytes): the    *)
(* hash is a polynomial in 'multiplier', any of which may be chosen.       *)
(***************************************************************************)
EXTENDS SnappyFormat

CONSTANTS
  Inputs,            \* what compress/1 is called with, as lists of fragments
  Multipliers,
  MinHashTableSize,  \* kMinHashTableSize
  MaxHashTableSize,  \* kMaxHashTableSize
  MinGrowth          \* the 8192 of SnappyNifSink::GetAppendBuffer

ASSUME SizesAssumption ==
  /\ BlockSize \in Nat \ {0}
  /\ MinHashTableSize \in Nat \ {0}
  /\ MaxHashTableSize \in Nat /\ MaxHashTableSize >= MinHashTableSize
  /\ MinGrowth \in Nat

VARIABLES
  cpc,         \* "start", "block", "scan", "match", "remainder", "append", "done"
  csource,     \* fragments the source has still to give
  multiplier,  \* of the hash function
  fragment,    \* the block being compressed
  locals,      \* of CompressFragment, see Started
  sink,        \* the bytes appended, the size of the memory, whether it grows
  asserted     \* have all assertions met so far been true?

cvars == <<cpc, csource, multiplier, fragment, locals, sink, asserted>>

kInputMarginBytes == 15

-----------------------------------------------------------------------------
\* SnappyNifSink::GetAppendBuffer grows by four times what is asked for; an
\* UncheckedByteArraySink has the size it has.
GetAppendBuffer(s, len) ==
  IF s.grows /\ Len(s.bytes) + len > s.size
  THEN [s EXCEPT !.size = @ + Max({MinGrowth, 4 * len})]
  ELSE s

\* SnappyNifSink::Append, of bytes that are there already or elsewhere.
SinkAppend(s, bytes) == [s EXCEPT !.bytes = @ \o bytes]

\* CalculateTableSize
TableSize(n) ==
  IF n > MaxHashTableSize THEN MaxHashTableSize
  ELSE IF n < MinHashTableSize THEN MinHashTableSize
  ELSE 2 * 2 ^ Log2Floor(n - 1)

\* The four bytes at a position of the block, and their hash.
Load32(at) == SubSeq(fragment, at + 1, at + 4)

Hash(at) ==
  LET b == Load32(at)
      m == multiplier
  IN  (b[1] + m * b[2] + m * m * b[3] + m * m * m * b[4])
        % Cardinality(DOMAIN locals.table)

\* Mutant of FindMatchLength: the first byte after the four is not compared.
FindMatchLengthUnchecked(s1, s2) ==
  LET n == Len(fragment) - s2
  IN  Max({k \in 0..n : \A i \in 2..k : fragment[s1 + i] = fragment[s2 + i]})

\* FindMatchLength: how far the bytes after two positions agree.
FindMatchLength(s1, s2) ==
  LET n == Len(fragment) - s2
  IN  Max({k \in 0..n : \A i \in 1..k : fragment[s1 + i] = fragment[s2 + i]})

Emit(l, e) == [l EXCEPT !.out = @ \o e.bytes,
                        !.reach = Max({@, Len(l.out) + e.reach})]

\* CompressFragment begins: Started is what its locals are then.
Started(n) ==
  [ip |-> 0, next_ip |-> 1, skip |-> 32, next_emit |-> 0, candidate |-> 0,
   table |-> [h \in 0..(TableSize(n) - 1) |-> 0], out |-> <<>>, reach |-> 0]

-----------------------------------------------------------------------------
CInit ==
  /\ cpc = "start"
  /\ csource \in Inputs
  /\ multiplier \in Multipliers
  /\ fragment = <<>>
  /\ locals = Started(0)
  /\ sink \in {[bytes |-> <<>>, size |-> 0, grows |-> TRUE],
               [bytes |-> <<>>, size |-> MaxCompressedLength(Len(FlattenSeq(csource))), grows |-> FALSE]}
  /\ asserted = TRUE

\* Compress begins: the length goes in front, before room was asked for.  An
\* empty binary never gets here (snappy_compress_erl).
StartCompress ==
  /\ cpc = "start"
  /\ sink' = SinkAppend(sink, Encode32(Len(FlattenSeq(csource))))
  /\ cpc' = "block"
  /\ UNCHANGED <<csource, multiplier, fragment, locals, asserted>>

\* The loop in Compress: peek at the source, stitch its fragments together if
\* the first one is too short for a block, ask the sink for room, and begin
\* CompressFragment, which has nothing to look for in less than 15 bytes.
NextBlock ==
  LET num_to_read == Min({BlockSize, Len(FlattenSeq(csource))})
  IN  /\ cpc = "block"
      /\ num_to_read > 0
      /\ fragment' = SubSeq(FlattenSeq(csource), 1, num_to_read)
      /\ csource' = Skip(csource, num_to_read)
      /\ locals' = Started(num_to_read)
      /\ sink' = GetAppendBuffer(sink, MaxCompressedLength(num_to_read))
      /\ asserted' = (asserted /\ csource[1] # <<>>)
      /\ cpc' = IF num_to_read >= kInputMarginBytes THEN "scan" ELSE "remainder"
      /\ UNCHANGED multiplier

IpLimit == Len(fragment) - kInputMarginBytes

\* Step 1 of CompressFragment, one turn: look a position up and put it into
\* the table.  With a match the bytes before it go out as a literal.
Scan ==
  LET ip == locals.next_ip
      skip == locals.skip + (locals.skip \div 32)
      next_ip == ip + (locals.skip \div 32)
      candidate == locals.table[Hash(ip)]
      seen == [locals EXCEPT !.ip = ip, !.skip = skip, !.next_ip = next_ip,
                             !.candidate = candidate, !.table[Hash(ip)] = ip]
  IN  /\ cpc = "scan"
      /\ IF next_ip > IpLimit
         THEN /\ cpc' = "remainder"
              /\ UNCHANGED <<locals, asserted>>
         ELSE IF Load32(ip) # Load32(candidate)
         THEN /\ locals' = seen
              /\ asserted' = (asserted /\ candidate < ip)
              /\ UNCHANGED cpc
         ELSE /\ locals' = Emit(seen, EmitLiteral(SubSeq(fragment, locals.next_emit + 1, ip), TRUE))
              /\ asserted' = (asserted /\ candidate < ip /\ locals.next_emit < ip
                                /\ locals.next_emit + 16 <= Len(fragment))
              /\ cpc' = "match"
      /\ UNCHANGED <<csource, multiplier, fragment, sink>>

\* Step 3, one turn: copy as much as matches.  The next position is looked up
\* at once, so that another copy may follow; if none does, scan on after it.
Match ==
  LET base == locals.ip
      offset == base - locals.candidate
      matched == 4 + FindMatchLength(locals.candidate + 4, base + 4)
      ip == base + matched
      copied == [Emit(locals, EmitCopy(offset, matched)) EXCEPT !.ip = ip, !.next_emit = ip]
      before == [copied EXCEPT !.table[Hash(ip - 1)] = ip - 1]
      candidate == before.table[Hash(ip)]
      after == [before EXCEPT !.candidate = candidate, !.table[Hash(ip)] = ip]
  IN  /\ cpc = "match"
      /\ asserted' = (asserted /\ offset < 65536 /\ \A n \in Range(CopyLengths(matched)) : n \in 4..64)
      /\ IF ip >= IpLimit
         THEN cpc' = "remainder" /\ locals' = copied
         ELSE IF Load32(ip) = Load32(candidate)
         THEN UNCHANGED cpc /\ locals' = after
         ELSE cpc' = "scan" /\ locals' = [after EXCEPT !.next_ip = ip + 1, !.skip = 32]
      /\ UNCHANGED <<csource, multiplier, fragment, sink>>

\* emit_remainder, and Compress appends what the block became: the bytes are
\* already where GetAppendBuffer said.
Remainder ==
  LET rest == SubSeq(fragment, locals.next_emit + 1, Len(fragment))
      last == IF rest = <<>> THEN locals ELSE Emit(locals, EmitLiteral(rest, FALSE))
  IN  /\ cpc = "remainder"
      /\ locals' = [last EXCEPT !.next_emit = Len(fragment)]
      /\ cpc' = "append"
      /\ UNCHANGED <<csource, multiplier, fragment, sink, asserted>>

AppendBlock ==
  /\ cpc = "append"
  /\ sink' = SinkAppend(sink, locals.out)
  /\ cpc' = "block"
  /\ UNCHANGED <<csource, multiplier, fragment, locals, asserted>>

\* SnappyNifSink::getBin, and Compress to a string, cut the memory to what
\* was written.
GetBin ==
  /\ cpc = "block"
  /\ FlattenSeq(csource) = <<>>
  /\ sink' = [sink EXCEPT !.size = Len(sink.bytes)]
  /\ cpc' = "done"
  /\ UNCHANGED <<csource, multiplier, fragment, locals, asserted>>

CompressNext == StartCompress \/ NextBlock \/ Scan \/ Match \/ Remainder \/ AppendBlock \/ GetBin
=============================================================================
