----------------------------- MODULE RecordBatch -----------------------------
(***************************************************************************)
(* A record batch on its way: kpro_batch:encode_tx/4 compresses the        *)
(* records (kpro_compress, snappyer) and puts the checksum of everything   *)
(* behind it in front (crc32cer); do_decode/2 on another node asserts the  *)
(* checksum and only then decompresses.  The two nodes may have different  *)
(* processors and different builds of the libraries.                       *)
(*                                                                         *)
(* Beside batches the libraries are used by themselves: "library" is the   *)
(* decompressor called with any bytes, cut into any fragments, and "sum"   *)
(* the checksum of bytes that arrive in pieces.                            *)
(***************************************************************************)
EXTENDS SnappyCompress, SnappyDecompress, Crc32c

CONSTANTS
  Header,     \* the fields of a batch between its checksum and its records
  Damages,    \* what may be added (mod 2) to adjacent bytes on the way
  Positions,  \* and where
  Aligns,     \* addresses of binaries modulo 8
  Given,      \* what the library is called with: writer, fragments, iovec
  Chunks,     \* what checksums are taken of, piece by piece
  MaxPieces

VARIABLES
  bpc,      \* "compress", "wire", "assert", "accepted", "refused", "library", "sum"
  sse42,    \* what crc32c_global_init found on each node
  records,  \* what the producer compressed, or what was summed, in pieces
  body,     \* the bytes behind the checksum
  crc,
  damaged

bvars == <<bpc, sse42, records, body, crc, damaged>>
vars == <<cvars, dvars, bvars>>

Bits(byte) == {i \in 0..7 : (byte \div 2 ^ i) % 2 = 1}
BitsOf(bytes) == [i \in DOMAIN bytes |-> Bits(bytes[i])]
Number(octet) == MapThenSumSet(LAMBDA i : 2 ^ i, octet)

\* crc32cer:nif/2 on a node.
Nif(node, acc, align, bytes) == Crc32c(sse42[node], acc, align, BitsOf(bytes))

NothingToCompress ==
  /\ cpc = "done"
  /\ csource = <<>> /\ fragment = <<>>
  /\ multiplier = Min(Multipliers)
  /\ locals = Started(0)
  /\ sink = [bytes |-> <<>>, size |-> 0, grows |-> TRUE]
  /\ asserted = TRUE

Init ==
  /\ \/ bpc = "compress" /\ CInit
     \/ bpc \in {"library", "sum"} /\ NothingToCompress
  /\ DIdle
  /\ sse42 \in [{"producer", "consumer"} -> BOOLEAN]
  /\ ~(bpc = "compress" /\ sink.grows) => ~sse42["consumer"]
  /\ bpc = "compress" /\ ~sink.grows => ~sse42["producer"] /\ ~ssse3
  /\ bpc = "library" => ~sse42["producer"]
  /\ bpc = "sum" => ~ssse3
  /\ records = csource
  /\ body = <<>> /\ crc = {} /\ damaged = FALSE

\* encode_tx behind kpro_compress:compress.
Encode(align) ==
  /\ bpc = "compress" /\ cpc = "done" /\ sink.grows
  /\ body' = Header \o sink.bytes
  /\ crc' = Nif("producer", {}, align, body')
  /\ bpc' = "wire"
  /\ UNCHANGED <<cvars, dvars, sse42, records, damaged>>

Damaged(at, d) ==
  [i \in DOMAIN body |->
     IF i >= at /\ i < at + Len(d) THEN Number(Xor(Bits(body[i]), Bits(d[i - at + 1]))) ELSE body[i]]

Deliver ==
  /\ bpc = "wire"
  /\ \/ UNCHANGED <<body, damaged>>
     \/ \E d \in Damages, at \in Positions :
          /\ at + Len(d) - 1 <= Len(body)
          /\ body' = Damaged(at, d)
          /\ damaged' = TRUE
  /\ bpc' = "assert"
  /\ UNCHANGED <<cvars, dvars, sse42, records, crc>>

\* do_decode up to decompress: a checksum that differs ends the caller.
DoDecode(align) ==
  /\ bpc = "assert"
  /\ IF crc = Nif("consumer", {}, align, body)
     THEN /\ bpc' = "accepted"
          /\ StartUncompress("array", <<SubSeq(body, Len(Header) + 1, Len(body))>>, <<>>)
     ELSE bpc' = "refused" /\ UNCHANGED dvars
  /\ UNCHANGED <<cvars, sse42, records, body, crc, damaged>>

\* The entry points of the decompressor, each with the writer it takes; the
\* flat array is filled for the NIF, which has read the length before.
CallWith(kind, g) ==
  /\ g.kind = kind
  /\ StartUncompress(kind, g.source, g.iov)
  /\ body' = FlattenSeq(g.source)
  /\ UNCHANGED <<cvars, bpc, sse42, records, crc, damaged>>

RawUncompress(g) == CallWith("array", g)
RawUncompressToIOVec(g) == CallWith("iovec", g)
IsValidCompressed(g) == CallWith("validator", g)
UncompressAsMuchAsPossible(g) == CallWith("scattered", g)
Uncompress(g) == CallWith("sink", g)

CallLibrary ==
  /\ bpc = "library" /\ dpc = "idle"
  /\ \E g \in Given :
       \/ RawUncompress(g) \/ RawUncompressToIOVec(g) \/ IsValidCompressed(g)
       \/ UncompressAsMuchAsPossible(g) \/ Uncompress(g)

Sum(align, chunk) ==
  /\ bpc = "sum"
  /\ Len(records) < MaxPieces
  /\ crc' = Nif("producer", crc, align, chunk)
  /\ records' = Append(records, chunk)
  /\ UNCHANGED <<cvars, dvars, bpc, sse42, body, damaged>>

Next ==
  \/ CompressNext /\ UNCHANGED <<dvars, bvars>>
  \/ \E align \in Aligns : Encode(align) \/ DoDecode(align)
  \/ Deliver
  \/ CallLibrary
  \/ UncompressNext /\ UNCHANGED <<cvars, bvars>>
  \/ \E align \in Aligns, chunk \in Chunks : Sum(align, chunk)

Spec == Init /\ [][Next]_vars

-----------------------------------------------------------------------------
Original == FlattenSeq(records)

\* In every turn of the compressor's loops the tags emitted so far say the
\* bytes of the block up to next_emit (up to ip before a copy), whatever the
\* hash function, and whatever stale positions it finds in the table.  What
\* comes out says the whole input, block after block, and is as long as the
\* binary it is returned in.
TagsSayThePrefix ==
  /\ Decode(locals.out) =
       [ok |-> TRUE, out |-> SubSeq(fragment, 1, IF cpc = "match" THEN locals.ip
                                                 ELSE locals.next_emit)]
  /\ bpc = "compress" /\ cpc = "done" =>
       /\ Uncompressed(sink.bytes) = [ok |-> TRUE, out |-> Original]
       /\ sink.size = Len(sink.bytes)

\* "end - op" never exceeds MaxCompressedLength, the fast paths and the stores
\* that are wider than what they say included, and the room GetAppendBuffer
\* gave, or MaxCompressedLength of the whole input, is enough for them and for
\* the blocks before; the assertions of CompressFragment and its callees hold.
\* The exception is the length in front: it is appended before any room was
\* asked for, into a binary of size 0.
StoresFit ==
  /\ locals.reach <= MaxCompressedLength(Len(fragment))
  /\ cpc \in {"scan", "match", "remainder", "append"} =>
       Len(sink.bytes) + locals.reach <= sink.size
  /\ asserted

\* Whoever wrote the batch, the consumer gets the records the producer
\* compressed; a damage of up to four bytes never gets past the checksum.
RecordsArrive ==
  /\ bpc = "accepted" => ~damaged
  /\ bpc = "refused" => damaged
  /\ bpc = "accepted" /\ dpc = "finished" => result = "true" /\ Output(writer) = Original

\* Whatever the processor, the addresses and the cuts between the calls, the
\* accumulated value is the checksum of all the bytes.
ChecksumOfAllBytes == bpc = "sum" => crc = Reference({}, BitsOf(Original))

-----------------------------------------------------------------------------
\* No writer stores past the end of its memory, though most copies store more
\* than they were asked for, and no tag is read past what was buffered.
StaysInside == writer.inside /\ ~overread

\* However the compressed bytes are cut into fragments, and whichever writer
\* takes the output, the answer is that of the format.  An iovec may be too
\* small, which is an error.  At every moment what was written is what the
\* tags say, overlapping copies across iovecs and blocks included, so that what
\* a failed call has put into the sink is a valid beginning.  How long it says
\* that beginning is, is the matter of ReturnsTheBytesAdded.
AnswersAgree ==
  bpc = "library" /\ dpc # "idle" =>
    LET whole == Uncompressed(body)
        capacity == Len(FlattenSeq(writer.areas))
        room == writer.kind = "iovec" => capacity >= Len(whole.out)
        said == Decode(SubSeq(body, ReadLength(body).used + 1, Len(body))).out
        writes == writer.kind # "validator" /\ result # "data_not_compressed"
    IN  /\ dpc = "finished" => ((result = "true") <=> (whole.ok /\ room))
        /\ writes => IsPrefix(Output(writer), said)
        /\ writes /\ result = "true" => Output(writer) = whole.out

\* UncompressAsMuchAsPossible returns writer.Produced(): "the number of valid
\* bytes added to sink" (snappy.h:94).  It does not when SlowAppend finds that
\* more comes than was promised: the block it has just filled counts twice.
ReturnsTheBytesAdded ==
  dpc = "finished" /\ writer.kind = "scattered" => Produced(writer) = Len(Output(writer))

\* What is written is read back.  The two parsers of the length in front, the
\* one that allocates and the one that decompresses, agree on every prefix and
\* read what Encode32 wrote; the tags of a copy or a literal of any length say
\* just that, with no copy shorter than four bytes or longer than 64.
FormatReadsBack ==
  bpc = "library" /\ dpc = "idle" =>
    /\ \A v \in {0, 127, 128, 16383, 16384, 2097151, 2097152, 268435455, 268435456} :
         LET n == Len(Encode32(v))
         IN  Parse32(Encode32(v) \o <<0>>) = [ok |-> TRUE, value |-> v, used |-> n]
    /\ \A n \in 0..6, first \in {0, 1, 127, 128}, last \in {0, 15, 16, 127, 128, 143} :
         LET prefix == [i \in 1..n |-> IF i = n THEN last ELSE IF i = 1 THEN first ELSE 129]
         IN  Parse32(prefix) = ReadLength(prefix)
    /\ \A len \in 4..200, offset \in {1, 2047, 2048, 65535} :
         LET c == EmitCopy(offset, len)
         IN  /\ Len(c.bytes) <= len
             /\ CopiesSaid(c.bytes) = <<len, {offset}>>
    /\ \A len \in {1, 16, 17, 60, 61, 256, 257} :
         LET literal == [i \in 1..len |-> i % 7]
         IN  Decode(EmitLiteral(literal, FALSE).bytes) = [ok |-> TRUE, out |-> literal]
=============================================================================
