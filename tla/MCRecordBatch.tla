---------------------------- MODULE MCRecordBatch ----------------------------
EXTENDS RecordBatch

Text(n, period) == [i \in 1..n |-> (i - 1) % period]
Distinct(n) == [i \in 1..n |-> i]

\* Literals only, copies of all lengths, overlapping copies, more than one
\* block, blocks stitched together from fragments.
MCInputs ==
  {<<Text(n, p)>> : n \in {1, 15, 20, 70}, p \in {1, 7}} \cup {<<Text(33, 2)>>}
  \cup {<<Distinct(8) \o Text(n, 9) \o Distinct(12) \o Text(9, 9)>> : n \in {4, 30}}
  \cup {<<Text(10, 4), Text(30, 5), Text(30, 4)>>, <<Text(66, 60), Text(7, 7)>>, <<Text(130, 100)>>}

MCHeader == <<0, 2, 255>>
MCDamages == {<<128>>, <<1, 0, 255, 128>>}

Zeros_(n) == [i \in 1..n |-> 0]
MCChunks == {Zeros_(n) : n \in {1, 7, 24, 49}} \cup {[Zeros_(n) EXCEPT ![1] = 1] : n \in {1, 49, 73}}
             \cup {[Zeros_(n) EXCEPT ![n] = 128] : n \in {7, 50}}

\* What the library is given: tags that make sense and tags that do not,
\* with the right length in front or another one, whole or cut short.
Literals == {<<4 * (n - 1)>> \o Distinct(n) : n \in {1, 3, 16, 20}}
              \cup {<<240, 60>> \o Distinct(61), <<252, 255, 255, 255, 255>>, <<4>>}
Copies ==
  {<<COPY1 + 4 * (n - 4), o>> : n \in {4, 11}, o \in {0, 1, 3}}
  \cup {<<COPY2 + 4 * (n - 1), o, 0>> : n \in {5, 64}, o \in {9, 17, 62}}
  \cup {<<COPY4 + 4 * 8, 2, 0, 0, 0>>, <<COPY4, 1, 0, 0, 128>>}
Streams ==
  {l \o c : l \in Literals, c \in Copies}
  \cup {<<8>> \o Distinct(3) \o <<COPY2 + 4 * (n - 1), 3, 0>> \o d : n \in {5, 20}, d \in Copies}
  \cup {<<76>> \o Distinct(20) \o <<COPY2 + 4 * 63, 20, 0>> \o c \o <<4>> \o Distinct(2) : c \in Copies}

Pieces(bytes, k) ==
  [i \in 1..(((Len(bytes) - 1) \div k) + 1) |->
     SubSeq(bytes, k * (i - 1) + 1, Min({k * i, Len(bytes)}))]
Cuts(bytes) ==
  {<<bytes>>, Pieces(bytes, IF Len(bytes) <= 30 THEN 1 ELSE 3)}
  \cup {<<SubSeq(bytes, 1, k), SubSeq(bytes, k + 1, Len(bytes))>> : k \in {3, Len(bytes) - 1} \cap 1..(Len(bytes) - 1)}
Said(tags) == Len(Decode(tags).out)
Buffers ==
  {Encode32(Said(t)) \o t : t \in Streams}
  \cup {Encode32(Said(t) + 1) \o t : t \in Streams}

\* More bytes than the length in front allows.
Overfull ==
  {Encode32(100) \o <<240, 49>> \o Distinct(50) \o <<240, 99>> \o Distinct(100)}
  \cup {Encode32(n) \o <<240, 60>> \o Distinct(61) \o <<76>> \o Distinct(20) : n \in {60, 64, 80}}

Writers == {[kind |-> k, iov |-> <<>>] : k \in {"array", "validator", "scattered", "sink"}}
             \cup {[kind |-> "iovec", iov |-> v] : v \in {<<7, 0, 30, 200>>, <<24>>}}
MCGiven == UNION {{[kind |-> w.kind, iov |-> w.iov, source |-> c] : c \in Cuts(b), w \in Writers} : b \in Buffers \cup Overfull}
MCOverfull == {[kind |-> "scattered", iov |-> <<>>, source |-> c] : c \in UNION {Cuts(b) : b \in Overfull}}
=============================================================================
