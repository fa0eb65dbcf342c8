-------------------------- MODULE SnappyDecompress --------------------------
(***************************************************************************)
(* SnappyDecompressor and InternalUncompress of snappy.cc, with the NIFs   *)
(* snappyer:decompress/1 and is_valid/1 on top.  The source is a list of   *)
(* fragments: the NIFs give one (ByteArraySource), the library takes any.  *)
(*                                                                         *)
(* An action is a refill, a tag with what it says, or one turn of the loop *)
(* that copies a literal.  'buf' is what lies between ip_ and ip_limit_.   *)
(* It is the end of the fragment at the head of 'dsource', or, when        *)
(* 'scratch', a copy of at most five bytes which have left the source.     *)
(***************************************************************************)
EXTENDS SnappyWriters

VARIABLES
  dpc,       \* "idle", "refill", "tag", "literal", "finished"
  dsource,   \* fragments not skipped yet
  peeked,    \* bytes of dsource[1] to skip
  buf,
  scratch,
  eof,
  lit,       \* bytes of the literal still to append
  writer,
  ssse3,     \* was the library built with SSSE3?
  overread,  \* was a byte used that lies past ip_limit_?
  result     \* "none", "true", "false", "data_not_compressed"

dvars == <<dpc, dsource, peeked, buf, scratch, eof, lit, writer, ssse3, overread, result>>

DIdle ==
  /\ dpc = "idle"
  /\ dsource = <<>> /\ peeked = 0 /\ buf = <<>>
  /\ scratch = FALSE /\ eof = FALSE
  /\ lit = 0
  /\ writer = NewWriter("validator", 0, <<>>)
  /\ ssse3 \in BOOLEAN
  /\ overread = FALSE
  /\ result = "none"

\* Source::Peek and Skip.
Peek(source) == IF source = <<>> THEN <<>> ELSE source[1]

\* Uncompress to a Sink writes to its memory where it has enough in one piece,
\* and a Sink has one byte unless it says otherwise.
WriterFor(kind, expected) ==
  IF kind # "sink" THEN kind ELSE IF expected <= 1 THEN "array" ELSE "scattered"

\* snappy_decompress_erl and InternalUncompress up to DecompressAllTags.  The
\* NIF reads the length by itself first, to allocate the binary.
StartUncompress(kind, source, iov) ==
  LET length == ReadLength(FlattenSeq(source))
      parsed == Parse32(FlattenSeq(source))
  IN  /\ dpc = "idle"
      /\ IF kind = "array" /\ ~parsed.ok
         THEN /\ result' = "data_not_compressed"
              /\ dpc' = "finished"
              /\ UNCHANGED <<dsource, writer>>
         ELSE IF ~length.ok
         THEN /\ result' = "false"
              /\ dpc' = "finished"
              /\ UNCHANGED <<dsource, writer>>
         ELSE /\ dsource' = Skip(source, length.used)
              /\ writer' = NewWriter(WriterFor(kind, length.value), length.value, iov)
              /\ dpc' = "refill"
              /\ UNCHANGED result
      /\ UNCHANGED <<peeked, buf, scratch, eof, lit, ssse3, overread>>

-----------------------------------------------------------------------------
\* The return of DecompressAllTags: Flush, and the answer.
Return(w, atEnd) ==
  /\ result' = IF atEnd /\ CheckLength(w) THEN "true" ELSE "false"
  /\ dpc' = "finished"

\* What is left of the source once the peeked bytes are skipped.
Skipped == Skip(dsource, peeked)

\* RefillTag, called by MAYBE_REFILL with less than five bytes buffered: a new
\* fragment when none is left, and then the whole tag, stitched together in
\* scratch_ if it does not lie in the buffer with five bytes.
Refill ==
  LET fetched == buf = <<>>
      source == IF fetched THEN Skipped ELSE dsource
      ip == IF fetched THEN Peek(source) ELSE buf
      needed == CharTable(ip[1]).extra + 1
      behind == Skip(source, IF fetched THEN Len(ip) ELSE peeked)
      stitched == ip \o SubSeq(FlattenSeq(behind), 1, Min({needed - Len(ip), Len(FlattenSeq(behind))}))
  IN  /\ dpc = "refill" /\ Len(buf) < kMaximumTagLength
      /\ eof' = IF fetched THEN ip = <<>> ELSE eof
      /\ CASE fetched /\ ip = <<>> ->
                /\ Return(writer, TRUE)
                /\ peeked' = 0 /\ dsource' = source
                /\ UNCHANGED <<buf, scratch>>
           [] ip # <<>> /\ Len(ip) < needed ->
                /\ IF Len(stitched) < needed
                   THEN Return(writer, FALSE) /\ UNCHANGED buf
                   ELSE dpc' = "tag" /\ buf' = stitched /\ UNCHANGED result
                /\ dsource' = Skip(behind, Len(stitched) - Len(ip))
                /\ peeked' = 0 /\ scratch' = TRUE
           [] ip # <<>> /\ Len(ip) >= needed /\ Len(ip) < kMaximumTagLength ->
                /\ buf' = ip /\ scratch' = TRUE
                /\ dsource' = behind /\ peeked' = 0
                /\ dpc' = "tag" /\ UNCHANGED result
           [] Len(ip) >= kMaximumTagLength ->
                /\ buf' = ip /\ scratch' = FALSE
                /\ dsource' = source /\ peeked' = Len(ip)
                /\ dpc' = "tag" /\ UNCHANGED result
      /\ UNCHANGED <<lit, writer, ssse3, overread>>

\* MAYBE_REFILL with five bytes or more.
Enough ==
  /\ dpc = "refill" /\ Len(buf) >= kMaximumTagLength
  /\ dpc' = "tag"
  /\ UNCHANGED <<dsource, peeked, buf, scratch, eof, lit, writer, ssse3, overread, result>>

Consumed(n) == SubSeq(buf, n + 1, Len(buf))

\* What Load32 finds behind the tag byte: whatever lies past the buffered
\* bytes is there to be read, and is masked out by those who do not need it.
Following == Consumed(1) \o <<0, 0, 0, 0>>

\* A literal that TryFastAppend takes goes on with the next tag at once.
FastLiteral ==
  LET len == (buf[1] \div 4) + 1
      fast == FastAppend(writer, Consumed(1), len)
  IN  /\ dpc = "tag" /\ IsLiteral(buf[1])
      /\ fast.ok
      /\ writer' = fast.w
      /\ buf' = Consumed(1 + len)
      /\ UNCHANGED <<dpc, dsource, peeked, scratch, eof, lit, ssse3, overread, result>>

\* Any other: its length may follow the tag.
SlowLiteral ==
  LET c == buf[1]
      extra == CharTable(c).extra
  IN  /\ dpc = "tag" /\ IsLiteral(c)
      /\ ~FastAppend(writer, Consumed(1), (c \div 4) + 1).ok
      /\ overread' = (overread \/ Len(buf) < 1 + extra \/ (~scratch /\ Len(buf) < kMaximumTagLength))
      /\ lit' = LiteralLength(c, Following)
      /\ buf' = Consumed(1 + extra)
      /\ dpc' = "literal"
      /\ UNCHANGED <<dsource, peeked, scratch, eof, writer, ssse3, result>>

\* One turn of the loop on avail, or the Append after it.
CopyLiteral ==
  LET n == Min({lit, Len(buf)})
      w == WriterAppend(writer, SubSeq(buf, 1, n))
      next == Peek(Skipped)
  IN  /\ dpc = "literal"
      /\ writer' = w.w
      /\ IF Len(buf) >= lit
         THEN /\ IF w.ok THEN dpc' = "refill" /\ UNCHANGED result ELSE Return(w.w, FALSE)
              /\ buf' = Consumed(n) /\ lit' = 0
              /\ UNCHANGED <<dsource, peeked, scratch>>
         ELSE IF ~w.ok
         THEN Return(w.w, FALSE) /\ UNCHANGED <<dsource, peeked, buf, scratch, lit>>
         ELSE /\ dsource' = Skipped /\ buf' = next /\ peeked' = Len(next)
              /\ scratch' = FALSE /\ lit' = lit - n
              /\ IF next = <<>> THEN Return(w.w, FALSE) ELSE UNCHANGED <<dpc, result>>
      /\ UNCHANGED <<eof, ssse3, overread>>

\* A copy: the tag with the bytes of its offset.
Copy ==
  LET c == buf[1]
      e == CharTable(c)
      w == WriterAppendFromSelf(ssse3, writer, CopyOffset(c, Following), e.length)
  IN  /\ dpc = "tag" /\ ~IsLiteral(c)
      /\ overread' = (overread \/ Len(buf) < 1 + e.extra \/ (~scratch /\ Len(buf) < kMaximumTagLength))
      /\ writer' = w.w
      /\ buf' = Consumed(1 + e.extra)
      /\ IF w.ok THEN dpc' = "refill" /\ UNCHANGED result ELSE Return(w.w, FALSE)
      /\ UNCHANGED <<dsource, peeked, scratch, eof, lit, ssse3>>

UncompressNext == Refill \/ Enough \/ FastLiteral \/ SlowLiteral \/ CopyLiteral \/ Copy
=============================================================================
