------------------------ MODULE ProducerBufferProofs ------------------------
(***************************************************************************)
(* What the operators of ProducerBuffer preserve, for every configuration: *)
(* lemmas for BrodProducerProofs.                                          *)
(*                                                                         *)
(* Content(b) is everything the buffer holds, oldest request first.  Each  *)
(* operation is characterised by its effect on the content, on the two     *)
(* counters and on back-pressure (a request is pending only while the      *)
(* buffer counts its limit).                                               *)
(***************************************************************************)
EXTENDS ProducerBuffer, SequenceTheorems, FiniteSetTheorems, TLAPS

Content(b) == OnWireReqs(b) \o Waiting(b)

Counted(b) == b.buffer_count = Len(b.buffer)

Pressure(b) == b.pending # <<>> => b.buffer_count >= BufferLimit

\* The references on wire, in the order make_ref gave them, all below next,
\* and counted by onwire_count.
Refs(b) == {b.onwire[k].ref : k \in 1..Len(b.onwire)}

WireCounted(b, next) ==
  /\ \A k \in 1..Len(b.onwire) : b.onwire[k].ref < next
  /\ \A j, k \in 1..Len(b.onwire) : j < k => b.onwire[j].ref <= b.onwire[k].ref
  /\ b.onwire_count = Cardinality(Refs(b))

\* A function on 1..n is a sequence of length n.
LEMMA FunctionIsSeq ==
  ASSUME NEW S, NEW n \in Nat, NEW f \in [1..n -> S]
  PROVE  f \in Seq(S) /\ Len(f) = n
<1>1. f \in Seq(S)
  BY SeqDef
<1>2. DOMAIN f = 1..Len(f) /\ Len(f) \in Nat
  BY <1>1, LenProperties
<1> QED
  BY <1>1, <1>2

\* The requests on wire are a sequence as long as the wire.
LEMMA OnWireReqsType ==
  ASSUME NEW b \in Buffers
  PROVE  /\ OnWireReqs(b) \in Seq(Req)
         /\ Len(OnWireReqs(b)) = Len(b.onwire)
         /\ \A k \in 1..Len(b.onwire) : OnWireReqs(b)[k] = b.onwire[k].req
<1>1. b.onwire \in Seq([ref : Nat, req : Req])
  BY DEF Buffers
<1>2. Len(b.onwire) \in Nat
  BY <1>1, LenProperties
<1>3. \A k \in 1..Len(b.onwire) : b.onwire[k] \in [ref : Nat, req : Req]
  BY <1>1, ElementOfSeq
<1>4. OnWireReqs(b) \in [1..Len(b.onwire) -> Req]
  BY <1>3 DEF OnWireReqs
<1> QED
  BY <1>2, <1>4, FunctionIsSeq DEF OnWireReqs

\* What waits is a sequence of requests.
LEMMA WaitingType ==
  ASSUME NEW b \in Buffers
  PROVE  /\ Waiting(b) \in Seq(Req)
         /\ Len(Waiting(b)) = Len(b.buffer) + Len(b.pending)
         /\ Content(b) \in Seq(Req)
<1>1. b.buffer \in Seq(Req) /\ b.pending \in Seq(Req)
  BY DEF Buffers
<1>2. Waiting(b) \in Seq(Req) /\ Len(Waiting(b)) = Len(b.buffer) + Len(b.pending)
  BY <1>1, ConcatProperties DEF Waiting
<1>3. Content(b) \in Seq(Req)
  BY <1>2, OnWireReqsType, ConcatProperties DEF Content
<1> QED
  BY <1>2, <1>3

\* Concatenation is associative: on sequences of requests.
LEMMA Associative ==
  \A x, y, z \in Seq(Req) : (x \o y) \o z = x \o (y \o z)
<1>1. \A x \in Seq(Req) : \A y \in Seq(Req) : \A z \in Seq(Req) :
        (x \o y) \o z = x \o (y \o z)
  BY ConcatAssociative
<1> QED
  BY <1>1

\* Cutting a sequence in two.
LEMMA Cut ==
  ASSUME NEW S, NEW s \in Seq(S), NEW m \in 0..Len(s)
  PROVE  /\ SubSeq(s, 1, m) \in Seq(S)
         /\ Len(SubSeq(s, 1, m)) = m
         /\ SubSeq(s, m + 1, Len(s)) \in Seq(S)
         /\ Len(SubSeq(s, m + 1, Len(s))) = Len(s) - m
         /\ SubSeq(s, 1, m) \o SubSeq(s, m + 1, Len(s)) = s
<1>1. Len(s) \in Nat /\ m \in Nat /\ m <= Len(s)
  BY LenProperties
<1>2. \A i \in 1..Len(s) : s[i] \in S
  BY ElementOfSeq
<1>3. /\ SubSeq(s, 1, m) \in Seq(S)
      /\ Len(SubSeq(s, 1, m)) = IF 1 <= m THEN m - 1 + 1 ELSE 0
  <2>1. \A i \in 1..m : s[i] \in S
    BY <1>1, <1>2
  <2> QED
    BY <1>1, <2>1, SubSeqProperties
<1>4. /\ SubSeq(s, m + 1, Len(s)) \in Seq(S)
      /\ Len(SubSeq(s, m + 1, Len(s))) =
           IF m + 1 <= Len(s) THEN Len(s) - (m + 1) + 1 ELSE 0
  <2>1. \A i \in (m + 1)..Len(s) : s[i] \in S
    BY <1>1, <1>2
  <2> QED
    BY <1>1, <2>1, SubSeqProperties
<1>5. SubSeq(s, 1, m) \o SubSeq(s, m + 1, Len(s)) = SubSeq(s, 1, Len(s))
  <2>1. 1 \in 1..(Len(s) + 1) /\ m \in (1 - 1)..Len(s) /\ Len(s) \in m..Len(s)
    BY <1>1
  <2> QED
    BY <2>1, ConcatAdjacentSubSeq
<1>6. SubSeq(s, 1, Len(s)) = s
  BY SubSeqFull
<1>7. Len(SubSeq(s, 1, m)) = m
  BY <1>1, <1>3
<1>8. Len(SubSeq(s, m + 1, Len(s))) = Len(s) - m
  BY <1>1, <1>4
<1> QED
  BY <1>3, <1>4, <1>5, <1>6, <1>7, <1>8, Zenon

\* maybe_buffer/1 moves requests from pending to buffer and changes neither
\* what waits nor its order; afterwards none is pending below the limit.
LEMMA MaybeBufferLemma ==
  ASSUME NEW b \in Buffers
  PROVE  /\ MaybeBuffer(b) \in Buffers
         /\ Waiting(MaybeBuffer(b)) = Waiting(b)
         /\ MaybeBuffer(b).onwire = b.onwire
         /\ MaybeBuffer(b).onwire_count = b.onwire_count
         /\ Pressure(MaybeBuffer(b))
         /\ Counted(b) => Counted(MaybeBuffer(b))
<1> DEFINE m == Room(b)
           c == MaybeBuffer(b)
<1>1. /\ b.pending \in Seq(Req) /\ b.buffer \in Seq(Req)
      /\ b.buffer_count \in Nat /\ BufferLimit \in Nat
      /\ Len(b.pending) \in Nat /\ Len(b.buffer) \in Nat
  BY ConfigAssumption, LenProperties DEF Buffers
<1>2. /\ m \in 0..Len(b.pending)
      /\ m < Len(b.pending) => b.buffer_count + m >= BufferLimit
  BY <1>1 DEF Room, Lesser
<1>3. /\ c.pending = SubSeq(b.pending, m + 1, Len(b.pending))
      /\ c.buffer = b.buffer \o SubSeq(b.pending, 1, m)
      /\ c.buffer_count = b.buffer_count + m
      /\ c.onwire = b.onwire /\ c.onwire_count = b.onwire_count
  BY DEF MaybeBuffer, Buffers
<1> HIDE DEF m, c
<1>4. /\ SubSeq(b.pending, 1, m) \in Seq(Req)
      /\ Len(SubSeq(b.pending, 1, m)) = m
      /\ c.pending \in Seq(Req)
      /\ Len(c.pending) = Len(b.pending) - m
      /\ SubSeq(b.pending, 1, m) \o c.pending = b.pending
  <2>1. c.pending = SubSeq(b.pending, m + 1, Len(b.pending))
    BY <1>3
  <2> QED
    BY ZenonT(60), <1>1, <1>2, <2>1, Cut
<1>5. c.buffer \in Seq(Req) /\ Len(c.buffer) = Len(b.buffer) + m
  BY <1>1, <1>3, <1>4, ConcatProperties
<1>6. c \in Buffers
  <2>1. c.pending \in Seq(Req) /\ c.buffer \in Seq(Req) /\ c.buffer_count \in Nat
    <3>1. m \in Nat
      BY <1>1, <1>2
    <3>2. c.buffer_count \in Nat
      BY <1>1, <1>3, <3>1
    <3> QED
      BY <1>4, <1>5, <3>2
  <2>2. c = [b EXCEPT !.pending = c.pending, !.buffer = c.buffer,
                      !.buffer_count = c.buffer_count]
    BY <1>3 DEF MaybeBuffer, m, c
  <2> QED
    BY <2>1, <2>2 DEF Buffers
<1>7. Waiting(c) = Waiting(b)
  <2>1. (b.buffer \o SubSeq(b.pending, 1, m)) \o c.pending =
          b.buffer \o (SubSeq(b.pending, 1, m) \o c.pending)
    <3>1. b.buffer \in Seq(Req) /\ SubSeq(b.pending, 1, m) \in Seq(Req) /\ c.pending \in Seq(Req)
      BY <1>1, <1>4
    <3> QED
      BY <3>1, Associative
  <2> QED
    BY <1>3, <1>4, <2>1 DEF Waiting
<1>8. Pressure(c)
  <2>1. c.pending # <<>> => Len(c.pending) # 0
    BY <1>4, EmptySeq
  <2> QED
    BY <1>1, <1>2, <1>3, <1>4, <2>1 DEF Pressure
<1>9. Counted(b) => Counted(c)
  BY <1>1, <1>3, <1>5 DEF Counted
<1> QED
  BY <1>3, <1>6, <1>7, <1>8, <1>9 DEF c

\* add/3 puts the new request behind everything else.
LEMMA AddLemma ==
  ASSUME NEW b \in Buffers, NEW i \in Req
  PROVE  /\ Add(b, i) \in Buffers
         /\ Waiting(Add(b, i)) = Waiting(b) \o <<i>>
         /\ Add(b, i).onwire = b.onwire
         /\ Add(b, i).onwire_count = b.onwire_count
         /\ Pressure(Add(b, i))
         /\ Counted(b) => Counted(Add(b, i))
<1> DEFINE a == [b EXCEPT !.pending = Append(@, i), !.failures[i] = 0]
<1>1. /\ b.pending \in Seq(Req) /\ b.buffer \in Seq(Req) /\ <<i>> \in Seq(Req)
      /\ b.failures \in [Req -> Nat]
  BY DEF Buffers
<1>2. /\ a.pending = b.pending \o <<i>> /\ a.buffer = b.buffer
      /\ a.buffer_count = b.buffer_count
      /\ a.onwire = b.onwire /\ a.onwire_count = b.onwire_count
  BY <1>1, AppendIsConcat DEF Buffers
<1>3. a \in Buffers
  <2>1. Append(b.pending, i) \in Seq(Req)
    BY <1>1, AppendProperties
  <2>2. [b.failures EXCEPT ![i] = 0] \in [Req -> Nat]
    BY <1>1
  <2> QED
    BY <2>1, <2>2 DEF Buffers
<1>4. Add(b, i) = MaybeBuffer(a)
  BY DEF Add
<1> HIDE DEF a
<1>5. Waiting(a) = Waiting(b) \o <<i>>
  <2>1. (b.buffer \o b.pending) \o <<i>> = b.buffer \o (b.pending \o <<i>>)
    BY <1>1, Associative
  <2> QED
    BY <1>2, <2>1 DEF Waiting
<1>6. Counted(b) => Counted(a)
  BY <1>2 DEF Counted
<1> QED
  BY <1>2, <1>3, <1>4, <1>5, <1>6, MaybeBufferLemma

\* take_reqs/1 splits what waits in the batch and the rest; the refill that
\* follows leaves no request pending below the limit.
LEMMA TakeReqsLemma ==
  ASSUME NEW b \in Buffers, Counted(b), NEW n \in 1..Len(Waiting(b))
  PROVE  /\ TakeReqs(b, n) \in Buffers
         /\ Batch(b, n) \in Seq(Req)
         /\ Len(Batch(b, n)) = n
         /\ Batch(b, n) \o Waiting(TakeReqs(b, n)) = Waiting(b)
         /\ TakeReqs(b, n).onwire = b.onwire
         /\ TakeReqs(b, n).onwire_count = b.onwire_count
         /\ Pressure(TakeReqs(b, n))
         /\ Counted(TakeReqs(b, n))
<1> DEFINE q == Waiting(b)
           left == LeftInBuffer(b, n)
           c == TakeReqs(b, n)
<1>1. /\ b.pending \in Seq(Req) /\ b.buffer \in Seq(Req)
      /\ b.buffer_count \in Nat /\ BufferLimit \in Nat
      /\ Len(b.pending) \in Nat /\ Len(b.buffer) \in Nat
  BY ConfigAssumption, LenProperties DEF Buffers
<1>2. q \in Seq(Req) /\ Len(q) = Len(b.buffer) + Len(b.pending)
  BY WaitingType
<1>3. b.buffer_count = Len(b.buffer)
  BY DEF Counted
<1>4. left = Greater(b.buffer_count - n, Lesser(BufferLimit, Len(q) - n))
  BY DEF LeftInBuffer
<1>5. n \in 1..Len(q)
  OBVIOUS
<1>6. /\ c.buffer = SubSeq(q, n + 1, n + left)
      /\ c.pending = SubSeq(q, n + left + 1, Len(q))
      /\ c.buffer_count = left
      /\ c.onwire = b.onwire /\ c.onwire_count = b.onwire_count
  BY DEF TakeReqs, Buffers
<1>7. c = [b EXCEPT !.buffer = c.buffer, !.pending = c.pending, !.buffer_count = left]
  BY <1>6 DEF TakeReqs
<1>16. Batch(b, n) = SubSeq(q, 1, n)
  BY DEF Batch
<1> HIDE DEF q, left, c
<1>8. /\ left \in Nat /\ Len(q) \in Nat /\ n \in Nat
      /\ n <= Len(q) /\ n + left <= Len(q) /\ n + left \in Nat
      /\ n + left < Len(q) => left >= BufferLimit
  <2> DEFINE count == b.buffer_count  len == Len(q)  behind == Len(b.pending)
  <2>1. /\ count \in Nat /\ behind \in Nat /\ len = count + behind
        /\ n \in 1..len /\ BufferLimit \in Nat
        /\ left = Greater(count - n, Lesser(BufferLimit, len - n))
    BY <1>1, <1>2, <1>3, <1>4, <1>5
  <2> HIDE DEF count, len, behind
  <2>2. /\ left \in Nat /\ len \in Nat /\ n \in Nat
        /\ n <= len /\ n + left <= len /\ n + left \in Nat
        /\ n + left < len => left >= BufferLimit
    BY <2>1 DEF Greater, Lesser
  <2> QED
    BY <2>2 DEF len
<1>9. /\ c.pending \in Seq(Req)
      /\ Len(c.pending) = Len(q) - (n + left)
  <2>1. n + left \in 0..Len(q)
    BY <1>8
  <2>2. c.pending = SubSeq(q, (n + left) + 1, Len(q))
    BY <1>6
  <2> QED
    BY ZenonT(60), <1>2, <2>1, <2>2, Cut
<1>10. /\ SubSeq(q, 1, n) \in Seq(Req)
       /\ Len(SubSeq(q, 1, n)) = n
       /\ SubSeq(q, 1, n) \o SubSeq(q, n + 1, Len(q)) = q
  <2>1. n \in 0..Len(q)
    BY <1>8
  <2> QED
    BY <1>2, <2>1, Cut
<1>11. c.buffer \in Seq(Req) /\ Len(c.buffer) = left
  <2>1. \A k \in (n + 1)..(n + left) : q[k] \in Req
    <3>1. \A k \in (n + 1)..(n + left) : k \in 1..Len(q)
      BY <1>8
    <3> QED
      BY <1>2, <3>1, ElementOfSeq
  <2>2. n + 1 \in Int /\ n + left \in Int
    BY <1>8
  <2>3. /\ SubSeq(q, n + 1, n + left) \in Seq(Req)
        /\ Len(SubSeq(q, n + 1, n + left)) =
             IF n + 1 <= n + left THEN (n + left) - (n + 1) + 1 ELSE 0
    BY <2>1, <2>2, SubSeqProperties
  <2> QED
    BY <1>6, <1>8, <2>3
<1>12. c.buffer \o c.pending = SubSeq(q, n + 1, Len(q))
  <2>1. /\ n + 1 \in 1..(Len(q) + 1)
        /\ n + left \in ((n + 1) - 1)..Len(q)
        /\ Len(q) \in (n + left)..Len(q)
    BY <1>8
  <2> QED
    BY <1>2, <1>6, <2>1, ConcatAdjacentSubSeq
<1>13. c \in Buffers
  BY <1>7, <1>8, <1>9, <1>11 DEF Buffers
<1>14. Pressure(c)
  <2>1. c.pending # <<>> => Len(c.pending) # 0
    BY <1>9, EmptySeq
  <2>2. c.pending # <<>> => n + left < Len(q)
    BY <1>8, <1>9, <2>1
  <2> QED
    BY <1>6, <1>8, <2>2 DEF Pressure
<1>15. Counted(c)
  BY <1>6, <1>11 DEF Counted
<1>17. Waiting(c) = c.buffer \o c.pending
  BY DEF Waiting
<1> QED
  BY <1>6, <1>10, <1>12, <1>13, <1>14, <1>15, <1>16, <1>17 DEF q, c

\* Requests put back go to the head of the buffer, counted.
LEMMA RebufferLemma ==
  ASSUME NEW b \in Buffers, NEW reqs \in Seq(Req)
  PROVE  /\ Rebuffer(b, reqs) \in Buffers
         /\ Waiting(Rebuffer(b, reqs)) = reqs \o Waiting(b)
         /\ Rebuffer(b, reqs).onwire = b.onwire
         /\ Rebuffer(b, reqs).onwire_count = b.onwire_count
         /\ Pressure(b) => Pressure(Rebuffer(b, reqs))
         /\ Counted(b) => Counted(Rebuffer(b, reqs))
<1> DEFINE c == Rebuffer(b, reqs)
<1>1. /\ b.pending \in Seq(Req) /\ b.buffer \in Seq(Req)
      /\ b.buffer_count \in Nat /\ BufferLimit \in Nat
      /\ Len(b.buffer) \in Nat /\ Len(reqs) \in Nat
      /\ b.failures \in [Req -> Nat]
  BY ConfigAssumption, LenProperties DEF Buffers
<1>2. /\ c.pending = b.pending
      /\ c.buffer = reqs \o b.buffer
      /\ c.buffer_count = Len(reqs) + b.buffer_count
      /\ c.onwire = b.onwire /\ c.onwire_count = b.onwire_count
  BY DEF Rebuffer, Buffers
<1>3. c.buffer \in Seq(Req) /\ Len(c.buffer) = Len(reqs) + Len(b.buffer)
  BY <1>1, <1>2, ConcatProperties
<1>4. c.failures \in [Req -> Nat]
  <2>1. c.failures = [i \in Req |->
           IF MaxRetries >= 0 /\ \E k \in 1..Len(reqs) : reqs[k] = i
           THEN b.failures[i] + 1
           ELSE b.failures[i]]
    BY DEF Rebuffer, Buffers
  <2> HIDE DEF c
  <2> QED
    BY <1>1, <2>1
<1>5. c = [b EXCEPT !.buffer = c.buffer, !.buffer_count = c.buffer_count,
                    !.failures = c.failures]
  BY DEF Rebuffer, Buffers
<1> HIDE DEF c
<1>6. c.buffer_count \in Nat
  BY <1>1, <1>2
<1>7. c \in Buffers
  BY <1>3, <1>4, <1>5, <1>6 DEF Buffers
<1>8. Waiting(c) = reqs \o Waiting(b)
  <2>1. (reqs \o b.buffer) \o b.pending = reqs \o (b.buffer \o b.pending)
    BY <1>1, Associative
  <2> QED
    BY <1>2, <2>1 DEF Waiting
<1>9. Pressure(b) => Pressure(c)
  BY <1>1, <1>2 DEF Pressure
<1>10. Counted(b) => Counted(c)
  BY <1>1, <1>2, <1>3 DEF Counted
<1> QED
  BY <1>2, <1>7, <1>8, <1>9, <1>10 DEF c

\* There are finitely many references on wire.
LEMMA RefsFinite ==
  ASSUME NEW b \in Buffers, NEW next \in Nat, WireCounted(b, next)
  PROVE  IsFiniteSet(Refs(b)) /\ Refs(b) \subseteq 0..(next - 1)
<1>1. \A k \in 1..Len(b.onwire) : b.onwire[k] \in [ref : Nat, req : Req]
  <2>1. b.onwire \in Seq([ref : Nat, req : Req])
    BY DEF Buffers
  <2> QED
    BY <2>1, ElementOfSeq
<1>2. \A k \in 1..Len(b.onwire) : b.onwire[k].ref \in 0..(next - 1)
  <2> SUFFICES ASSUME NEW k \in 1..Len(b.onwire)
               PROVE  b.onwire[k].ref \in 0..(next - 1)
    OBVIOUS
  <2> DEFINE r == b.onwire[k].ref
  <2>1. r \in Nat /\ r < next
    BY <1>1 DEF WireCounted
  <2> HIDE DEF r
  <2>2. r \in 0..(next - 1)
    BY <2>1
  <2> QED
    BY <2>2 DEF r
<1>3. Refs(b) \subseteq 0..(next - 1)
  BY <1>2 DEF Refs
<1>4. IsFiniteSet(0..(next - 1))
  BY FS_Interval
<1> QED
  BY <1>3, <1>4, FS_Subset

\* do_send/4 appends the batch to the wire under a fresh reference.
LEMMA PutOnWireLemma ==
  ASSUME NEW b \in Buffers, NEW reqs \in Seq(Req), reqs # <<>>,
         NEW ref \in Nat, WireCounted(b, ref)
  PROVE  /\ PutOnWire(b, reqs, ref) \in Buffers
         /\ OnWireReqs(PutOnWire(b, reqs, ref)) = OnWireReqs(b) \o reqs
         /\ Waiting(PutOnWire(b, reqs, ref)) = Waiting(b)
         /\ PutOnWire(b, reqs, ref).onwire_count = b.onwire_count + 1
         /\ WireCounted(PutOnWire(b, reqs, ref), ref + 1)
         /\ Pressure(b) => Pressure(PutOnWire(b, reqs, ref))
         /\ Counted(b) => Counted(PutOnWire(b, reqs, ref))
<1> DEFINE Sent == [ref : Nat, req : Req]
           c == PutOnWire(b, reqs, ref)
           w == b.onwire
           s == [k \in 1..Len(reqs) |-> [ref |-> ref, req |-> reqs[k]]]
<1>1. w \in Seq(Sent) /\ Len(w) \in Nat /\ Len(reqs) \in Nat \ {0}
  BY LenProperties, EmptySeq DEF Buffers
<1>2. s \in Seq(Sent) /\ Len(s) = Len(reqs)
  <2>1. \A k \in 1..Len(reqs) : reqs[k] \in Req
    BY ElementOfSeq
  <2>2. s \in [1..Len(reqs) -> Sent]
    BY <2>1
  <2> HIDE DEF s
  <2> QED
    BY <1>1, <2>2, FunctionIsSeq
<1>3. /\ c.onwire = w \o s
      /\ c.onwire_count = b.onwire_count + 1
      /\ c.pending = b.pending /\ c.buffer = b.buffer
      /\ c.buffer_count = b.buffer_count
  BY DEF PutOnWire, Buffers
<1>4. c = [b EXCEPT !.onwire = c.onwire, !.onwire_count = b.onwire_count + 1]
  BY <1>3 DEF PutOnWire
<1>5. \A k \in 1..Len(reqs) : s[k].ref = ref /\ s[k].req = reqs[k]
  OBVIOUS
<1> HIDE DEF c, s, w
<1>6. /\ w \o s \in Seq(Sent)
      /\ Len(w \o s) = Len(w) + Len(reqs)
      /\ \A i \in 1..(Len(w) + Len(reqs)) :
           (w \o s)[i] = IF i <= Len(w) THEN w[i] ELSE s[i - Len(w)]
  <2> HIDE DEF Sent
  <2> QED
    BY ZenonT(60), <1>1, <1>2, ConcatProperties
<1>7. b.onwire_count + 1 \in Nat
  BY DEF Buffers
<1>8. c \in Buffers
  <2>1. c.onwire \in Seq(Sent)
    BY <1>3, <1>6
  <2> DEFINE o == c.onwire  num == b.onwire_count + 1
  <2>2. c = [b EXCEPT !.onwire = o, !.onwire_count = num]
    BY <1>4
  <2>3. o \in Seq([ref : Nat, req : Req]) /\ num \in Nat
    BY <1>7, <2>1
  <2> HIDE DEF o, num
  <2> QED
    BY <2>2, <2>3 DEF Buffers
<1>9. \A i \in 1..(Len(w) + Len(reqs)) :
        /\ c.onwire[i].ref = IF i <= Len(w) THEN w[i].ref ELSE ref
        /\ c.onwire[i].req = IF i <= Len(w) THEN w[i].req ELSE reqs[i - Len(w)]
  <2> SUFFICES ASSUME NEW i \in 1..(Len(w) + Len(reqs))
               PROVE  /\ c.onwire[i].ref = IF i <= Len(w) THEN w[i].ref ELSE ref
                      /\ c.onwire[i].req = IF i <= Len(w) THEN w[i].req
                                           ELSE reqs[i - Len(w)]
    OBVIOUS
  <2>1. CASE i <= Len(w)
    BY <1>3, <1>6, <2>1
  <2>2. CASE ~(i <= Len(w))
    <3>1. i - Len(w) \in 1..Len(reqs)
      BY <1>1, <2>2
    <3>2. c.onwire[i] = s[i - Len(w)]
      BY <1>3, <1>6, <2>2
    <3> QED
      BY <1>5, <2>2, <3>1, <3>2
  <2> QED
    BY <2>1, <2>2
<1>10. Len(c.onwire) = Len(w) + Len(reqs)
  BY <1>3, <1>6
<1>11. OnWireReqs(c) = OnWireReqs(b) \o reqs
  <2> DEFINE r == OnWireReqs(b)
             v == OnWireReqs(c)
  <2>1. /\ r \in Seq(Req) /\ Len(r) = Len(w)
        /\ \A k \in 1..Len(w) : r[k] = w[k].req
    BY OnWireReqsType DEF w
  <2>2. /\ v \in Seq(Req) /\ Len(v) = Len(w) + Len(reqs)
        /\ \A k \in 1..(Len(w) + Len(reqs)) : v[k] = c.onwire[k].req
    BY <1>8, <1>10, OnWireReqsType
  <2> HIDE DEF r, v
  <2>3. /\ r \o reqs \in Seq(Req)
        /\ Len(r \o reqs) = Len(w) + Len(reqs)
        /\ \A i \in 1..(Len(w) + Len(reqs)) :
             (r \o reqs)[i] = IF i <= Len(w) THEN r[i] ELSE reqs[i - Len(w)]
    <3>1. /\ r \o reqs \in Seq(Req)
          /\ Len(r \o reqs) = Len(r) + Len(reqs)
          /\ \A i \in 1..(Len(r) + Len(reqs)) :
               (r \o reqs)[i] = IF i <= Len(r) THEN r[i] ELSE reqs[i - Len(r)]
      BY <2>1, ConcatProperties
    <3>2. Len(r) = Len(w)
      BY <2>1
    <3> QED
      BY <3>1, <3>2
  <2>4. \A i \in 1..(Len(w) + Len(reqs)) : v[i] = (r \o reqs)[i]
    <3> SUFFICES ASSUME NEW i \in 1..(Len(w) + Len(reqs))
                 PROVE  v[i] = (r \o reqs)[i]
      OBVIOUS
    <3>1. i <= Len(w) => i \in 1..Len(w)
      BY <1>1
    <3> QED
      BY <1>9, <2>1, <2>2, <2>3, <3>1
  <2>5. v = r \o reqs
    BY <2>2, <2>3, <2>4, SeqEqual
  <2> QED
    BY <2>5 DEF r, v
<1>12. Waiting(c) = Waiting(b)
  BY <1>3 DEF Waiting
<1>13. WireCounted(c, ref + 1)
  <2>1. \A k \in 1..Len(w) : w[k].ref \in Nat /\ w[k].ref < ref
    <3>1. \A k \in 1..Len(w) : w[k] \in Sent
      BY <1>1, ElementOfSeq
    <3> QED
      BY <3>1 DEF WireCounted, w
  <2>2. \A j, k \in 1..Len(w) : j < k => w[j].ref <= w[k].ref
    BY DEF WireCounted, w
  <2>3. \A k \in 1..Len(c.onwire) : c.onwire[k].ref < ref + 1
    <3> SUFFICES ASSUME NEW k \in 1..(Len(w) + Len(reqs))
                 PROVE  c.onwire[k].ref < ref + 1
      BY <1>10
    <3> DEFINE x == c.onwire[k].ref
    <3>1. k \in 1..Len(w) \/ ~(k <= Len(w))
      BY <1>1
    <3>2. x \in Nat /\ x <= ref
      BY <1>9, <2>1, <3>1
    <3> HIDE DEF x
    <3>3. x < ref + 1
      BY <3>2
    <3> QED
      BY <3>3 DEF x
  <2>4. \A j, k \in 1..Len(c.onwire) : j < k => c.onwire[j].ref <= c.onwire[k].ref
    <3> SUFFICES ASSUME NEW j \in 1..(Len(w) + Len(reqs)),
                        NEW k \in 1..(Len(w) + Len(reqs)), j < k
                 PROVE  c.onwire[j].ref <= c.onwire[k].ref
      BY <1>10
    <3>1. CASE k <= Len(w)
      <4>1. j \in 1..Len(w) /\ k \in 1..Len(w) /\ j <= Len(w)
        BY <1>1, <3>1
      <4> QED
        BY <1>9, <2>2, <3>1, <4>1
    <3>2. CASE ~(k <= Len(w)) /\ j <= Len(w)
      <4>1. j \in 1..Len(w)
        BY <1>1, <3>2
      <4>2. c.onwire[j].ref = w[j].ref /\ c.onwire[k].ref = ref
        BY <1>9, <3>2
      <4> DEFINE x == w[j].ref
      <4>3. x \in Nat /\ x < ref
        BY <2>1, <4>1
      <4> HIDE DEF x
      <4>4. x <= ref
        BY <4>3
      <4> QED
        BY <4>2, <4>4 DEF x
    <3>3. CASE ~(k <= Len(w)) /\ ~(j <= Len(w))
      <4>1. c.onwire[j].ref = ref /\ c.onwire[k].ref = ref
        BY <1>9, <3>3
      <4> QED
        BY <4>1
    <3> QED
      BY <3>1, <3>2, <3>3
  <2>5. Refs(c) = Refs(b) \cup {ref}
    <3>1. Len(w) + 1 \in 1..(Len(w) + Len(reqs)) /\ ~(Len(w) + 1 <= Len(w))
      BY <1>1
    <3>2. \A k \in 1..Len(w) : k \in 1..(Len(w) + Len(reqs)) /\ k <= Len(w)
      BY <1>1
    <3>3. \A k \in 1..(Len(w) + Len(reqs)) : k <= Len(w) => k \in 1..Len(w)
      BY <1>1
    <3>4. Refs(c) = {c.onwire[k].ref : k \in 1..(Len(w) + Len(reqs))}
      BY <1>10 DEF Refs
    <3>5. Refs(b) = {w[k].ref : k \in 1..Len(w)}
      BY DEF Refs, w
    <3>6. Refs(c) \subseteq Refs(b) \cup {ref}
      BY <1>9, <3>3, <3>4, <3>5
    <3>7. Refs(b) \subseteq Refs(c)
      BY <1>9, <3>2, <3>4, <3>5
    <3>8. ref \in Refs(c)
      <4>1. c.onwire[Len(w) + 1].ref = ref
        BY <1>9, <3>1
      <4> QED
        BY <3>1, <3>4, <4>1
    <3> QED
      BY <3>6, <3>7, <3>8
  <2>6. ref \notin Refs(b)
    BY RefsFinite
  <2>7. Cardinality(Refs(c)) = Cardinality(Refs(b)) + 1
    BY <2>5, <2>6, RefsFinite, FS_AddElement
  <2>8. b.onwire_count = Cardinality(Refs(b))
    BY DEF WireCounted
  <2> QED
    BY <1>3, <2>3, <2>4, <2>7, <2>8 DEF WireCounted
<1>14. Pressure(b) => Pressure(c)
  BY <1>3 DEF Pressure
<1>15. Counted(b) => Counted(c)
  BY <1>3 DEF Counted
<1> QED
  BY <1>3, <1>8, <1>11, <1>12, <1>13, <1>14, <1>15 DEF c

\* An empty wire is counted.
LEMMA EmptyWire ==
  ASSUME NEW b, b.onwire = <<>>, b.onwire_count = 0, NEW next
  PROVE  WireCounted(b, next) /\ OnWireReqs(b) = <<>>
<1>1. Len(b.onwire) = 0
  BY EmptySeq
<1>2. Refs(b) = {}
  BY <1>1 DEF Refs
<1>3. OnWireReqs(b) = <<>>
  BY <1>1 DEF OnWireReqs
<1> QED
  BY <1>1, <1>2, <1>3, FS_EmptySet DEF WireCounted

\* nack_all/2 puts everything on wire back in front: the content stays.
LEMMA NackAllLemma ==
  ASSUME NEW b \in Buffers, NEW next
  PROVE  /\ NackAll(b) \in Buffers
         /\ Content(NackAll(b)) = Content(b)
         /\ NackAll(b).onwire = <<>>
         /\ NackAll(b).onwire_count = 0
         /\ WireCounted(NackAll(b), next)
         /\ Pressure(b) => Pressure(NackAll(b))
         /\ Counted(b) => Counted(NackAll(b))
<1> DEFINE a == [b EXCEPT !.onwire = <<>>, !.onwire_count = 0]
           c == NackAll(b)
<1>1. /\ a.onwire = <<>> /\ a.onwire_count = 0
      /\ a.buffer = b.buffer /\ a.pending = b.pending
      /\ a.buffer_count = b.buffer_count
  BY DEF Buffers
<1>2. a \in Buffers
  BY EmptySeq DEF Buffers
<1>3. c = Rebuffer(a, OnWireReqs(b))
  BY DEF NackAll
<1> HIDE DEF a, c
<1>4. OnWireReqs(b) \in Seq(Req)
  BY OnWireReqsType
<1>5. /\ c \in Buffers
      /\ Waiting(c) = OnWireReqs(b) \o Waiting(a)
      /\ c.onwire = <<>> /\ c.onwire_count = 0
      /\ Pressure(a) => Pressure(c)
      /\ Counted(a) => Counted(c)
  BY <1>1, <1>2, <1>3, <1>4, RebufferLemma
<1>6. Waiting(a) = Waiting(b)
  BY <1>1 DEF Waiting
<1>7. WireCounted(c, next) /\ OnWireReqs(c) = <<>>
  BY <1>5, EmptyWire
<1>8. Content(c) = Content(b)
  <2>1. Content(c) = <<>> \o Waiting(c)
    BY <1>7 DEF Content
  <2>2. Waiting(c) \in Seq(Req)
    BY <1>5, WaitingType
  <2>3. <<>> \o Waiting(c) = Waiting(c)
    BY <2>2, ConcatEmptySeq
  <2> QED
    BY <1>5, <1>6, <2>1, <2>3 DEF Content
<1>9. (Pressure(b) => Pressure(c)) /\ (Counted(b) => Counted(c))
  BY <1>1, <1>5 DEF Pressure, Counted
<1> QED
  BY <1>5, <1>7, <1>8, <1>9 DEF c

\* ack/3 removes the requests of the oldest Kafka request, and its count.
LEMMA AckLemma ==
  ASSUME NEW b \in Buffers, NEW k \in 1..Len(b.onwire), IsHeadBatch(b, k),
         NEW next \in Nat, WireCounted(b, next)
  PROVE  /\ Ack(b, k) \in Buffers
         /\ SubSeq(OnWireReqs(b), 1, k) \o OnWireReqs(Ack(b, k)) = OnWireReqs(b)
         /\ Len(SubSeq(OnWireReqs(b), 1, k)) = k
         /\ SubSeq(OnWireReqs(b), 1, k) \in Seq(Req)
         /\ Waiting(Ack(b, k)) = Waiting(b)
         /\ Ack(b, k).onwire_count = b.onwire_count - 1
         /\ WireCounted(Ack(b, k), next)
         /\ Pressure(b) => Pressure(Ack(b, k))
         /\ Counted(b) => Counted(Ack(b, k))
<1> DEFINE Sent == [ref : Nat, req : Req]
           c == Ack(b, k)
           w == b.onwire
           r == OnWireReqs(b)
<1>1. /\ c.onwire = SubSeq(w, k + 1, Len(w))
      /\ c.onwire_count = b.onwire_count - 1
      /\ c.pending = b.pending /\ c.buffer = b.buffer
      /\ c.buffer_count = b.buffer_count
  BY DEF Ack, Buffers
<1>2. c = [b EXCEPT !.onwire = c.onwire, !.onwire_count = b.onwire_count - 1]
  BY <1>1 DEF Ack
<1>3. w \in Seq(Sent) /\ Len(w) \in Nat
  BY LenProperties DEF Buffers
<1>4. /\ r \in Seq(Req) /\ Len(r) = Len(w)
      /\ \A j \in 1..Len(w) : r[j] = w[j].req
  BY OnWireReqsType
<1>5. /\ \A j \in 1..k : w[j].ref = w[1].ref
      /\ k < Len(w) => w[k + 1].ref # w[1].ref
  BY DEF IsHeadBatch
<1>6. k \in 1..Len(w)
  OBVIOUS
<1>7. b.onwire_count = Cardinality(Refs(b)) /\ IsFiniteSet(Refs(b))
  BY RefsFinite DEF WireCounted
<1>8. \A i \in 1..Len(w) : \A j \in 1..Len(w) : i < j => w[i].ref <= w[j].ref
  BY DEF WireCounted
<1>9. \A j \in 1..Len(w) : w[j].ref < next
  BY DEF WireCounted
<1>10. Refs(b) = {w[j].ref : j \in 1..Len(w)}
  BY DEF Refs
<1> HIDE DEF c, w, r, Sent
<1>11. \A j \in 1..Len(w) : w[j].ref \in Nat
  <2>1. \A j \in 1..Len(w) : w[j] \in Sent
    BY <1>3, ElementOfSeq
  <2> QED
    BY <2>1 DEF Sent
<1>12. /\ c.onwire \in Seq(Sent)
       /\ Len(c.onwire) = Len(w) - k
       /\ \A j \in 1..(Len(w) - k) : c.onwire[j] = w[j + k]
  <2>1. \A j \in (k + 1)..Len(w) : w[j] \in Sent
    <3>1. \A j \in (k + 1)..Len(w) : j \in 1..Len(w)
      BY <1>3, <1>6
    <3> QED
      BY <1>3, <3>1, ElementOfSeq
  <2>2. /\ SubSeq(w, k + 1, Len(w)) \in Seq(Sent)
        /\ Len(SubSeq(w, k + 1, Len(w))) =
             IF k + 1 <= Len(w) THEN Len(w) - (k + 1) + 1 ELSE 0
        /\ \A i \in 1..(Len(w) - (k + 1) + 1) :
             SubSeq(w, k + 1, Len(w))[i] = w[(k + 1) + i - 1]
    <3>1. k + 1 \in Int /\ Len(w) \in Int
      BY <1>3, <1>6
    <3> QED
      BY <2>1, <3>1, SubSeqProperties
  <2>3. Len(w) - (k + 1) + 1 = Len(w) - k
    BY <1>3, <1>6
  <2>4. \A i \in 1..(Len(w) - k) : (k + 1) + i - 1 = i + k
    BY <1>3, <1>6
  <2>5. (IF k + 1 <= Len(w) THEN Len(w) - (k + 1) + 1 ELSE 0) = Len(w) - k
    BY <1>3, <1>6
  <2> QED
    BY <1>1, <2>2, <2>3, <2>4, <2>5
<1>13. b.onwire_count \in Nat /\ b.onwire_count # 0
  <2>1. b.onwire_count \in Nat
    BY DEF Buffers
  <2>2. w[1].ref \in Refs(b)
    <3>1. 1 \in 1..Len(w)
      BY <1>3, <1>6
    <3> QED
      BY <1>10, <3>1
  <2>3. Cardinality(Refs(b)) # 0
    BY <1>7, <2>2, FS_EmptySet
  <2> QED
    BY <1>7, <2>1, <2>3
<1>14. c \in Buffers
  <2> DEFINE o == c.onwire  num == b.onwire_count - 1
  <2>1. c = [b EXCEPT !.onwire = o, !.onwire_count = num]
    BY <1>2
  <2>2. o \in Seq([ref : Nat, req : Req])
    BY <1>12 DEF Sent
  <2>3. num \in Nat
    BY <1>13
  <2> HIDE DEF o, num
  <2> QED
    BY <2>1, <2>2, <2>3 DEF Buffers
<1>15. OnWireReqs(c) = SubSeq(r, k + 1, Len(r))
  <2> DEFINE v == OnWireReqs(c)
             u == SubSeq(r, k + 1, Len(r))
  <2>1. /\ v \in Seq(Req) /\ Len(v) = Len(w) - k
        /\ \A j \in 1..(Len(w) - k) : v[j] = c.onwire[j].req
    BY <1>12, <1>14, OnWireReqsType
  <2> HIDE DEF v
  <2>2. \A j \in (k + 1)..Len(r) : r[j] \in Req
    <3>1. \A j \in (k + 1)..Len(r) : j \in 1..Len(r)
      BY <1>3, <1>4, <1>6
    <3> QED
      BY <1>4, <3>1, ElementOfSeq
  <2>3. /\ u \in Seq(Req)
        /\ Len(u) = IF k + 1 <= Len(r) THEN Len(r) - (k + 1) + 1 ELSE 0
        /\ \A i \in 1..(Len(r) - (k + 1) + 1) : u[i] = r[(k + 1) + i - 1]
    <3>1. k + 1 \in Int /\ Len(r) \in Int
      BY <1>3, <1>4, <1>6
    <3> QED
      BY <2>2, <3>1, SubSeqProperties
  <2> HIDE DEF u
  <2>4. Len(u) = Len(w) - k /\ Len(r) - (k + 1) + 1 = Len(w) - k
    BY <1>3, <1>4, <1>6, <2>3
  <2>5. \A i \in 1..(Len(w) - k) : v[i] = u[i]
    <3> SUFFICES ASSUME NEW i \in 1..(Len(w) - k)
                 PROVE  v[i] = u[i]
      OBVIOUS
    <3>1. (k + 1) + i - 1 = i + k /\ i + k \in 1..Len(w)
      BY <1>3, <1>6
    <3>2. u[i] = r[i + k]
      BY <2>3, <2>4, <3>1
    <3>3. v[i] = w[i + k].req
      BY <1>12, <2>1
    <3> QED
      BY <1>4, <3>1, <3>2, <3>3
  <2>6. v = u
    BY <2>1, <2>3, <2>4, <2>5, SeqEqual
  <2> QED
    BY <2>6 DEF v, u
<1>16. /\ SubSeq(r, 1, k) \o OnWireReqs(c) = r
       /\ Len(SubSeq(r, 1, k)) = k
       /\ SubSeq(r, 1, k) \in Seq(Req)
  <2>1. k \in 0..Len(r)
    BY <1>3, <1>4, <1>6
  <2> QED
    BY <1>4, <1>15, <2>1, Cut
<1>17. WireCounted(c, next)
  <2>1. \A j \in 1..(Len(w) - k) : j + k \in 1..Len(w)
    BY <1>3, <1>6
  <2>2. \A j \in 1..Len(c.onwire) : c.onwire[j].ref < next
    BY <1>9, <1>12, <2>1
  <2>3. \A i \in 1..Len(c.onwire) : \A j \in 1..Len(c.onwire) :
          i < j => c.onwire[i].ref <= c.onwire[j].ref
    <3> SUFFICES ASSUME NEW i \in 1..(Len(w) - k), NEW j \in 1..(Len(w) - k), i < j
                 PROVE  w[i + k].ref <= w[j + k].ref
      BY <1>12
    <3>1. i + k < j + k
      BY <1>3, <1>6
    <3> QED
      BY <1>8, <2>1, <3>1
  <2>4. Refs(c) = {w[j].ref : j \in (k + 1)..Len(w)}
    <3>1. Refs(c) = {w[j + k].ref : j \in 1..(Len(w) - k)}
      BY <1>12 DEF Refs
    <3>2. \A j \in (k + 1)..Len(w) : j - k \in 1..(Len(w) - k) /\ (j - k) + k = j
      BY <1>3, <1>6
    <3>3. \A j \in 1..(Len(w) - k) : j + k \in (k + 1)..Len(w)
      BY <1>3, <1>6
    <3>4. \A j \in (k + 1)..Len(w) : w[j].ref \in Refs(c)
      <4> SUFFICES ASSUME NEW j \in (k + 1)..Len(w)
                   PROVE  w[j].ref \in Refs(c)
        OBVIOUS
      <4>1. PICK i \in 1..(Len(w) - k) : i + k = j
        BY <3>2
      <4> QED
        BY <3>1, <4>1
    <3>5. Refs(c) \subseteq {w[j].ref : j \in (k + 1)..Len(w)}
      BY <3>1, <3>3
    <3> QED
      BY <3>4, <3>5
  <2>5. Refs(c) = Refs(b) \ {w[1].ref}
    <3>1. \A j \in (k + 1)..Len(w) : w[j].ref # w[1].ref
      <4> SUFFICES ASSUME NEW j \in (k + 1)..Len(w), w[j].ref = w[1].ref
                   PROVE  FALSE
        OBVIOUS
      <4>1. /\ k < Len(w) /\ k + 1 \in 1..Len(w) /\ j \in 1..Len(w)
            /\ 1 \in 1..Len(w) /\ 1 < k + 1 /\ (k + 1 < j \/ k + 1 = j)
        BY <1>3, <1>6
      <4>2. w[k + 1].ref # w[1].ref
        BY <1>5, <4>1
      <4>3. w[1].ref <= w[k + 1].ref /\ w[k + 1].ref <= w[j].ref
        <5>1. w[k + 1].ref \in Nat
          BY <1>11, <4>1
        <5> DEFINE x == w[k + 1].ref
        <5>2. x <= x
          <6> HIDE DEF x
          <6> QED
            BY <5>1 DEF x
        <5> QED
          BY <1>8, <4>1, <5>2
      <4> DEFINE x == w[k + 1].ref  y == w[1].ref
      <4>4. x \in Nat /\ y \in Nat /\ x # y /\ y <= x /\ x <= y
        BY <1>11, <4>1, <4>2, <4>3
      <4> HIDE DEF x, y
      <4> QED
        BY <4>4
    <3>2. \A j \in 1..Len(w) : j \in 1..k \/ j \in (k + 1)..Len(w)
      BY <1>3, <1>6
    <3>3. \A j \in (k + 1)..Len(w) : j \in 1..Len(w)
      BY <1>3, <1>6
    <3> QED
      BY <1>5, <1>10, <2>4, <3>1, <3>2, <3>3
  <2>6. w[1].ref \in Refs(b)
    <3>1. 1 \in 1..Len(w)
      BY <1>3, <1>6
    <3> QED
      BY <1>10, <3>1
  <2>7. Cardinality(Refs(c)) = Cardinality(Refs(b)) - 1
    <3> DEFINE S == Refs(b)  x == w[1].ref
    <3>1. IsFiniteSet(S) /\ x \in S
      BY <1>7, <2>6
    <3> HIDE DEF S, x
    <3>2. Cardinality(S \ {x}) = Cardinality(S) - 1
      BY <3>1, FS_RemoveElement
    <3> QED
      BY <2>5, <3>2 DEF S, x
  <2> QED
    BY <1>1, <1>7, <2>2, <2>3, <2>7 DEF WireCounted
<1>18. Waiting(c) = Waiting(b)
  BY <1>1 DEF Waiting
<1>19. (Pressure(b) => Pressure(c)) /\ (Counted(b) => Counted(c))
  BY <1>1 DEF Pressure, Counted
<1> QED
  BY <1>1, <1>14, <1>16, <1>17, <1>18, <1>19 DEF c, r
=============================================================================
