------------------------ MODULE BrodProducerDelivery ------------------------
(***************************************************************************)
(* What a producer promises to its callers and does to the log, proved on  *)
(* top of the invariant of BrodProducerProofs (IInv): one reply to each    *)
(* caller, from the invariant Replied; offsets that point to the request   *)
(* they acknowledge, from Delivered; something that wakes a producer that  *)
(* holds requests, from Awake.  They speak of what IInv leaves out: the    *)
(* packets and responses that travel, and how they belong to what is on    *)
(* wire.                                                                   *)
(***************************************************************************)
EXTENDS BrodProducerProofs

\* Requests on wire; requests up to Accepted were answered 'buffered' or
\* given up; requests up to Handled were taken from the mailbox.
Wire == Len(buf.onwire)
Accepted == done + Wire + Len(buf.buffer)
Handled == Accepted + Len(buf.pending)

-----------------------------------------------------------------------------
(***************************************************************************)
(* Which request is where: IInv with the sequences written out.            *)
(***************************************************************************)
Placed(b, box, d, l) ==
  LET w == Len(b.onwire)
      h == Len(b.buffer)
      p == Len(b.pending)
  IN  /\ w \in Nat /\ h \in Nat /\ p \in Nat /\ Len(box) \in Nat
      /\ d \in Nat /\ l \in Nat /\ l <= MaxReqs
      /\ d + w + h + p + Len(box) = l
      /\ \A k \in 1..w : b.onwire[k].req = d + k
      /\ \A k \in 1..h : b.buffer[k] = d + w + k
      /\ \A k \in 1..p : b.pending[k] = d + w + h + k
      /\ \A k \in 1..Len(box) : box[k] = d + w + h + p + k
      /\ Len(Waiting(b)) = h + p
      /\ \A k \in 1..(h + p) : Waiting(b)[k] = d + w + k

LEMMA Places ==
  ASSUME NEW b \in Buffers, NEW box \in Seq(Req), NEW d \in Nat, NEW l \in Nat,
         d <= l, l <= MaxReqs, Content(b) \o box = From(d, l)
  PROVE  Placed(b, box, d, l)
<1> DEFINE r == OnWireReqs(b)
           q == Waiting(b)
           c == Content(b)
           s == From(d, l)
           w == Len(b.onwire)
           h == Len(b.buffer)
           p == Len(b.pending)
           x == Len(box)
<1>1. /\ b.buffer \in Seq(Req) /\ b.pending \in Seq(Req)
      /\ w \in Nat /\ h \in Nat /\ p \in Nat /\ x \in Nat
  BY LenProperties DEF Buffers
<1>2. /\ r \in Seq(Req) /\ Len(r) = w
      /\ \A k \in 1..w : r[k] = b.onwire[k].req
  BY OnWireReqsType
<1>3. /\ q \in Seq(Req) /\ Len(q) = h + p
      /\ c \in Seq(Req) /\ c = r \o q
  BY WaitingType DEF Content
<1>4. \A k \in 1..(h + p) : q[k] = IF k <= h THEN b.buffer[k] ELSE b.pending[k - h]
  <2>1. q = b.buffer \o b.pending
    BY DEF Waiting
  <2> QED
    BY <1>1, <2>1, ConcatProperties
<1>5. /\ Len(s) = l - d /\ \A k \in 1..(l - d) : s[k] = d + k
  BY FromType
<1>6. s = c \o box
  OBVIOUS
<1> HIDE DEF r, q, c, s, w, h, p, x
<1>7. /\ Len(c) = w + (h + p)
      /\ \A k \in 1..(w + (h + p)) : c[k] = IF k <= w THEN r[k] ELSE q[k - w]
  <2>1. /\ Len(r \o q) = Len(r) + Len(q)
        /\ \A k \in 1..(Len(r) + Len(q)) :
             (r \o q)[k] = IF k <= Len(r) THEN r[k] ELSE q[k - Len(r)]
    BY <1>2, <1>3, ConcatProperties
  <2> QED
    BY <1>2, <1>3, <2>1
<1>8. /\ Len(s) = Len(c) + x
      /\ \A k \in 1..(Len(c) + x) : s[k] = IF k <= Len(c) THEN c[k] ELSE box[k - Len(c)]
  BY <1>3, <1>6, ConcatProperties DEF x
<1>9. d + w + h + p + x = l /\ w + (h + p) + x = l - d
  BY <1>1, <1>5, <1>7, <1>8
<1>10. \A k \in 1..w : r[k] = d + k
  <2> TAKE k \in 1..w
  <2>1. k \in 1..(w + (h + p)) /\ k <= w /\ k \in 1..(l - d) /\ k <= w + (h + p)
    BY <1>1, <1>9
  <2> QED
    BY <1>5, <1>7, <1>8, <1>9, <2>1
<1>11. \A k \in 1..(h + p) : q[k] = d + w + k
  <2> TAKE k \in 1..(h + p)
  <2>1. /\ k + w \in 1..(w + (h + p)) /\ ~(k + w <= w) /\ k + w \in 1..(l - d)
        /\ k + w <= w + (h + p) /\ (k + w) - w = k /\ d + (k + w) = d + w + k
    BY <1>1, <1>9
  <2>2. s[k + w] = c[k + w] /\ s[k + w] = d + (k + w)
    BY <1>5, <1>7, <1>8, <1>9, <2>1
  <2>3. c[k + w] = q[k]
    BY <1>7, <2>1
  <2> QED
    BY <2>1, <2>2, <2>3
<1>12. \A k \in 1..h : b.buffer[k] = d + w + k
  <2> TAKE k \in 1..h
  <2>1. k \in 1..(h + p) /\ k <= h
    BY <1>1
  <2> QED
    BY <1>4, <1>11, <2>1
<1>13. \A k \in 1..p : b.pending[k] = d + w + h + k
  <2> TAKE k \in 1..p
  <2>1. /\ k + h \in 1..(h + p) /\ ~(k + h <= h) /\ (k + h) - h = k
        /\ d + w + (k + h) = d + w + h + k
    BY <1>1
  <2>2. q[k + h] = b.pending[k] /\ q[k + h] = d + w + (k + h)
    BY <1>4, <1>11, <2>1
  <2> QED
    BY <2>1, <2>2
<1>14. \A k \in 1..x : box[k] = d + w + h + p + k
  <2> TAKE k \in 1..x
  <2> DEFINE n == w + (h + p)
  <2>1. n \in Nat /\ Len(c) = n /\ n + x = l - d /\ d + n = d + w + h + p
    BY <1>1, <1>7, <1>9
  <2> HIDE DEF n
  <2>2. /\ k + n \in 1..(n + x) /\ ~(k + n <= n) /\ (k + n) - n = k
        /\ d + (k + n) = (d + n) + k
    BY <1>1, <2>1
  <2>3. s[k + n] = box[k] /\ s[k + n] = d + (k + n)
    BY <1>5, <1>8, <2>1, <2>2
  <2> QED
    BY <2>1, <2>2, <2>3
<1>15. \A k \in 1..w : b.onwire[k].req = d + k
  BY <1>2, <1>10
<1> QED
  BY <1>1, <1>3, <1>9, <1>11, <1>12, <1>13, <1>14, <1>15 DEF Placed, w, h, p, x, q

Standing == Placed(buf, inbox, done, last)

LEMMA Stands == IInv => Standing
<1> SUFFICES ASSUME IInv PROVE Standing
  OBVIOUS
<1>1. /\ buf \in Buffers /\ inbox \in Seq(Req) /\ done \in Nat /\ last \in Nat
      /\ done <= last /\ last <= MaxReqs /\ Content(buf) \o inbox = From(done, last)
  BY Numbers DEF IInv, TypeOK, ProducerTypeOK, MailboxTypeOK, Accounted
<1> QED
  BY <1>1, Places DEF Standing

\* The borders between wire, buffer, pending and mailbox.
Bordered ==
  /\ Wire \in Nat /\ Len(buf.buffer) \in Nat /\ Len(buf.pending) \in Nat
  /\ Len(inbox) \in Nat /\ done \in Nat /\ last \in Nat /\ MaxReqs \in Nat
  /\ Accepted \in Nat /\ Handled \in Nat
  /\ done + Wire <= Accepted /\ done <= Accepted
  /\ Accepted <= Handled /\ Handled <= last /\ last <= MaxReqs
  /\ Handled + Len(inbox) = last

LEMMA Borders == Standing => Bordered
<1> SUFFICES ASSUME Standing PROVE Bordered
  OBVIOUS
<1>1. MaxReqs \in Nat
  BY ConfigAssumption
<1> DEFINE w == Len(buf.onwire)
           h == Len(buf.buffer)
           p == Len(buf.pending)
           x == Len(inbox)
<1>2. /\ w \in Nat /\ h \in Nat /\ p \in Nat /\ x \in Nat
      /\ done \in Nat /\ last \in Nat /\ last <= MaxReqs
      /\ done + w + h + p + x = last
  BY DEF Standing, Placed
<1>3. Wire = w /\ Accepted = done + w + h /\ Handled = done + w + h + p
  BY DEF Wire, Accepted, Handled
<1> HIDE DEF w, h, p, x
<1>4. /\ done + w + h \in Nat /\ done + w + h + p \in Nat
      /\ done + w <= done + w + h /\ done <= done + w + h
      /\ done + w + h <= done + w + h + p /\ done + w + h + p <= last
  BY <1>2
<1>5. done + w + h + p + x = last
  BY <1>2
<1> QED
  BY <1>1, <1>2, <1>3, <1>4, <1>5 DEF h, p, x, Bordered

Base == IInv /\ Standing /\ Bordered

LEMMA Based == Spec => []Base
<1>1. IInv => Base
  BY Stands, Borders DEF Base
<1> QED
  BY <1>1, Invariance, PTL

-----------------------------------------------------------------------------
(***************************************************************************)
(* How the operations of the buffer move the borders.                      *)
(***************************************************************************)

\* nack_all/2 moves everything on wire to the buffer.
LEMMA NackAllMoves ==
  ASSUME NEW b \in Buffers
  PROVE  /\ NackAll(b).onwire = <<>> /\ Len(NackAll(b).onwire) = 0
         /\ Len(NackAll(b).buffer) = Len(b.onwire) + Len(b.buffer)
         /\ NackAll(b).pending = b.pending
<1>1. /\ OnWireReqs(b) \in Seq(Req) /\ b.buffer \in Seq(Req)
      /\ Len(OnWireReqs(b)) = Len(b.onwire)
  BY OnWireReqsType DEF Buffers
<1>2. /\ NackAll(b).onwire = <<>>
      /\ NackAll(b).buffer = OnWireReqs(b) \o b.buffer
      /\ NackAll(b).pending = b.pending
  BY DEF NackAll, Rebuffer, Buffers
<1>3. Len(OnWireReqs(b) \o b.buffer) = Len(OnWireReqs(b)) + Len(b.buffer)
  BY <1>1, ConcatProperties
<1>4. Len(<<>>) = 0
  BY EmptySeq
<1> QED
  BY <1>1, <1>2, <1>3, <1>4

\* add/3 answers the first m of those pending and the new one, and moves
\* them to the buffer.
LEMMA AddMoves ==
  ASSUME NEW b \in Buffers, NEW i \in Req
  PROVE  /\ Add(b, i).onwire = b.onwire
         /\ \E m \in 0..(Len(b.pending) + 1) :
              /\ Len(Add(b, i).buffer) = Len(b.buffer) + m
              /\ Len(Add(b, i).pending) = Len(b.pending) + 1 - m
              /\ BufferedByAdd(b, i) = {Append(b.pending, i)[k] : k \in 1..m}
<1> DEFINE a == [b EXCEPT !.pending = Append(@, i), !.failures[i] = 0]
           m == Room(a)
           c == MaybeBuffer(a)
<1>1. /\ b.pending \in Seq(Req) /\ b.buffer \in Seq(Req)
      /\ b.buffer_count \in Nat /\ BufferLimit \in Nat
      /\ Len(b.pending) \in Nat /\ Len(b.buffer) \in Nat
  BY ConfigAssumption, LenProperties DEF Buffers
<1>2. /\ a.pending = Append(b.pending, i) /\ a.buffer = b.buffer
      /\ a.buffer_count = b.buffer_count /\ a.onwire = b.onwire
  BY DEF Buffers
<1>3. a.pending \in Seq(Req) /\ Len(a.pending) = Len(b.pending) + 1
  BY <1>1, <1>2, AppendProperties
<1>4. Add(b, i) = c /\ BufferedByAdd(b, i) = {a.pending[k] : k \in 1..m}
  <2> DEFINE u == [b EXCEPT !.pending = Append(@, i)]
  <2>1. Add(b, i) = c
    BY DEF Add
  <2>2. BufferedByAdd(b, i) = BufferedBy(u)
    BY DEF BufferedByAdd
  <2>3. u.pending = a.pending /\ u.buffer_count = a.buffer_count
    BY DEF Buffers
  <2> HIDE DEF a, u
  <2>4. Room(u) = m
    BY <2>3 DEF Room, m
  <2>5. BufferedBy(u) = {a.pending[k] : k \in 1..m}
    BY <2>3, <2>4 DEF BufferedBy
  <2> QED
    BY <2>1, <2>2, <2>5
<1>5. /\ c.pending = SubSeq(a.pending, m + 1, Len(a.pending))
      /\ c.buffer = a.buffer \o SubSeq(a.pending, 1, m)
      /\ c.onwire = a.onwire
  BY DEF MaybeBuffer, Buffers
<1> DEFINE p == a.pending
<1>6. m \in 0..Len(p)
  BY <1>1, <1>2, <1>3 DEF Room, Lesser
<1> HIDE DEF a, m, c, p
<1>7. /\ SubSeq(p, 1, m) \in Seq(Req) /\ Len(SubSeq(p, 1, m)) = m
      /\ Len(SubSeq(p, m + 1, Len(p))) = Len(p) - m
  BY <1>3, <1>6, Cut DEF p
<1>8. Len(c.buffer) = Len(b.buffer) + m
  BY <1>1, <1>2, <1>5, <1>7, ConcatProperties DEF p
<1>9. Len(c.pending) = Len(b.pending) + 1 - m
  BY <1>3, <1>5, <1>7 DEF p
<1>10. m \in 0..(Len(b.pending) + 1)
  BY <1>3, <1>6 DEF p
<1> QED
  BY <1>2, <1>4, <1>5, <1>8, <1>9, <1>10

\* take_reqs/1 takes n requests and leaves, of those that wait, what was in
\* the buffer and perhaps more there; it answers the latter.
LEMMA TakeMoves ==
  ASSUME NEW b \in Buffers, Counted(b), NEW n \in 1..Len(Waiting(b))
  PROVE  /\ LeftInBuffer(b, n) \in Nat
         /\ Len(b.buffer) <= n + LeftInBuffer(b, n)
         /\ n + LeftInBuffer(b, n) <= Len(Waiting(b))
         /\ Len(TakeReqs(b, n).buffer) = LeftInBuffer(b, n)
         /\ TakeReqs(b, n).onwire = b.onwire
         /\ TakeReqs(b, n).failures = b.failures
<1> DEFINE q == Waiting(b)
           left == LeftInBuffer(b, n)
           c == TakeReqs(b, n)
           h == Len(b.buffer)
           p == Len(b.pending)
<1>1. /\ h \in Nat /\ p \in Nat /\ BufferLimit \in Nat
      /\ b.buffer_count = h /\ q \in Seq(Req) /\ Len(q) = h + p
  BY ConfigAssumption, WaitingType, LenProperties DEF Buffers, Counted
<1>2. left = Greater(h - n, Lesser(BufferLimit, Len(q) - n))
  BY <1>1 DEF LeftInBuffer
<1>3. c.buffer_count = left /\ c.onwire = b.onwire /\ c.failures = b.failures
  BY DEF TakeReqs, Buffers
<1>4. c.buffer_count = Len(c.buffer)
  BY TakeReqsLemma DEF Counted
<1>5. n \in 1..Len(q)
  OBVIOUS
<1> HIDE DEF q, left, h, p, c
<1>6. left \in Nat /\ h <= n + left /\ n + left <= Len(q)
  BY <1>1, <1>2, <1>5 DEF Greater, Lesser
<1> QED
  BY <1>3, <1>4, <1>6 DEF q, left, h, c

\* A batch that goes out is the end of the wire.
LEMMA PutOnWireMoves ==
  ASSUME NEW b \in Buffers, NEW reqs \in Seq(Req), NEW ref \in Nat
  PROVE  /\ Len(PutOnWire(b, reqs, ref).onwire) = Len(b.onwire) + Len(reqs)
         /\ \A k \in 1..Len(b.onwire) : PutOnWire(b, reqs, ref).onwire[k] = b.onwire[k]
         /\ \A k \in (Len(b.onwire) + 1)..(Len(b.onwire) + Len(reqs)) :
              PutOnWire(b, reqs, ref).onwire[k].ref = ref
         /\ PutOnWire(b, reqs, ref).buffer = b.buffer
         /\ PutOnWire(b, reqs, ref).pending = b.pending
         /\ PutOnWire(b, reqs, ref).failures = b.failures
<1> DEFINE Sent == [ref : Nat, req : Req]
           s == [k \in 1..Len(reqs) |-> [ref |-> ref, req |-> reqs[k]]]
           w == b.onwire
           c == PutOnWire(b, reqs, ref)
<1>1. w \in Seq(Sent) /\ Len(w) \in Nat /\ Len(reqs) \in Nat
  BY LenProperties DEF Buffers
<1>2. s \in Seq(Sent) /\ Len(s) = Len(reqs)
  <2>1. \A k \in 1..Len(reqs) : reqs[k] \in Req
    BY ElementOfSeq
  <2>2. s \in [1..Len(reqs) -> Sent]
    BY <2>1
  <2> HIDE DEF Sent, s
  <2> QED
    BY <1>1, <2>2, FunctionIsSeq
<1>3. /\ c.onwire = w \o s /\ c.pending = b.pending /\ c.buffer = b.buffer
      /\ c.failures = b.failures
  BY DEF PutOnWire, Buffers
<1>4. \A k \in 1..Len(reqs) : s[k].ref = ref
  OBVIOUS
<1> HIDE DEF Sent, s, w, c
<1>5. /\ Len(w \o s) = Len(w) + Len(s)
      /\ \A i \in 1..(Len(w) + Len(s)) :
           (w \o s)[i] = IF i <= Len(w) THEN w[i] ELSE s[i - Len(w)]
  BY <1>1, <1>2, ConcatProperties
<1>6. \A k \in 1..Len(w) : c.onwire[k] = w[k]
  BY <1>1, <1>2, <1>3, <1>5
<1>7. \A k \in (Len(w) + 1)..(Len(w) + Len(reqs)) : c.onwire[k].ref = ref
  <2> TAKE k \in (Len(w) + 1)..(Len(w) + Len(reqs))
  <2>1. k \in 1..(Len(w) + Len(reqs)) /\ ~(k <= Len(w)) /\ k - Len(w) \in 1..Len(reqs)
    BY <1>1
  <2> QED
    BY <1>2, <1>3, <1>4, <1>5, <2>1
<1>8. Len(c.onwire) = Len(w) + Len(reqs)
  BY <1>2, <1>3, <1>5
<1> QED
  BY <1>3, <1>6, <1>7, <1>8 DEF w, c

\* Requests put back are counted in the buffer.
LEMMA RebufferMoves ==
  ASSUME NEW b \in Buffers, NEW reqs \in Seq(Req)
  PROVE  /\ Len(Rebuffer(b, reqs).buffer) = Len(reqs) + Len(b.buffer)
         /\ Rebuffer(b, reqs).pending = b.pending
         /\ Rebuffer(b, reqs).onwire = b.onwire
<1>1. /\ Rebuffer(b, reqs).buffer = reqs \o b.buffer
      /\ Rebuffer(b, reqs).pending = b.pending
      /\ Rebuffer(b, reqs).onwire = b.onwire
      /\ b.buffer \in Seq(Req)
  BY DEF Rebuffer, Buffers
<1> QED
  BY <1>1, ConcatProperties

\* An acknowledgement removes the first k from the wire.
LEMMA AckMoves ==
  ASSUME NEW b \in Buffers, NEW k \in 1..Len(b.onwire)
  PROVE  /\ Len(Ack(b, k).onwire) = Len(b.onwire) - k
         /\ \A j \in 1..(Len(b.onwire) - k) : Ack(b, k).onwire[j] = b.onwire[j + k]
         /\ Ack(b, k).buffer = b.buffer
         /\ Ack(b, k).pending = b.pending
         /\ Ack(b, k).failures = b.failures
<1> DEFINE Sent == [ref : Nat, req : Req]
           w == b.onwire
           u == SubSeq(w, k + 1, Len(w))
<1>1. w \in Seq(Sent) /\ Len(w) \in Nat
  BY LenProperties DEF Buffers
<1>2. /\ Ack(b, k).onwire = u /\ Ack(b, k).buffer = b.buffer
      /\ Ack(b, k).pending = b.pending /\ Ack(b, k).failures = b.failures
  BY DEF Ack, Buffers
<1>3. k \in 1..Len(w)
  OBVIOUS
<1> HIDE DEF Sent, w
<1>4. \A j \in (k + 1)..Len(w) : w[j] \in Sent
  <2>1. \A j \in (k + 1)..Len(w) : j \in 1..Len(w)
    BY <1>1, <1>3
  <2> QED
    BY <1>1, <2>1, ElementOfSeq
<1>5. /\ Len(u) = IF k + 1 <= Len(w) THEN Len(w) - (k + 1) + 1 ELSE 0
      /\ \A i \in 1..(Len(w) - (k + 1) + 1) : u[i] = w[(k + 1) + i - 1]
  <2>1. k + 1 \in Int /\ Len(w) \in Int
    BY <1>1, <1>3
  <2> QED
    BY <1>4, <2>1, SubSeqProperties
<1>6. Len(u) = Len(w) - k /\ Len(w) - (k + 1) + 1 = Len(w) - k
  BY <1>1, <1>3, <1>5
<1>7. \A j \in 1..(Len(w) - k) : u[j] = w[j + k]
  <2> TAKE j \in 1..(Len(w) - k)
  <2>1. (k + 1) + j - 1 = j + k
    BY <1>1, <1>3
  <2> QED
    BY <1>5, <1>6, <2>1
<1> QED
  BY <1>2, <1>6, <1>7 DEF w

-----------------------------------------------------------------------------
(***************************************************************************)
(* 'buffered' replies                                                      *)
(***************************************************************************)

\* Who was accepted got one reply, who was not got none; what was given up
\* may have got one or not.
Replied ==
  /\ \A i \in Req : /\ replies[i] \in {0, 1}
                    /\ i > Accepted => replies[i] = 0
                    /\ done < i /\ i <= Accepted => replies[i] = 1
  /\ \A k \in 1..Len(acks) : acks[k].req <= done /\ replies[acks[k].req] = 1

\* A step that answers those accepted up to m.
Answers(m) ==
  \A i \in Req : replies'[i] = IF Accepted < i /\ i <= m THEN replies[i] + 1 ELSE replies[i]

\* It accepts just them, or gives everything up.
Accepts ==
  /\ acks' = acks /\ done <= done'
  /\ \E m \in Nat : /\ Accepted <= m /\ m <= Accepted'
                    /\ m = Accepted' \/ Accepted' <= done'
                    /\ Answers(m)

LEMMA RepliedAccepts ==
  ASSUME Base, Base', Replied, Accepts
  PROVE  Replied'
<1>1. PICK m \in Nat : /\ Accepted <= m /\ m <= Accepted'
                       /\ m = Accepted' \/ Accepted' <= done'
                       /\ Answers(m)
  BY DEF Accepts
<1>2. /\ acks' = acks /\ done \in Nat /\ done' \in Nat /\ done <= done'
      /\ Accepted \in Nat /\ Accepted' \in Nat /\ done <= Accepted
      /\ Req \subseteq Nat
  BY DEF Accepts, Base, Bordered, Req
<1>3. ASSUME NEW i \in Req
      PROVE  /\ replies'[i] \in {0, 1}
             /\ i > Accepted' => replies'[i] = 0
             /\ done' < i /\ i <= Accepted' => replies'[i] = 1
  <2>1. /\ replies[i] \in {0, 1} /\ (i > Accepted => replies[i] = 0)
        /\ (done < i /\ i <= Accepted => replies[i] = 1)
    BY DEF Replied
  <2>2. replies'[i] = IF Accepted < i /\ i <= m THEN replies[i] + 1 ELSE replies[i]
    BY <1>1 DEF Answers
  <2>3. i \in Nat
    BY <1>2
  <2> QED
    BY <1>1, <1>2, <2>1, <2>2, <2>3
<1>4. ASSUME NEW k \in 1..Len(acks)
      PROVE  acks[k].req <= done' /\ replies'[acks[k].req] = 1
  <2> DEFINE i == acks[k].req
  <2>1. i \in Req
    <3>1. acks \in Seq([req : Req, offset : Nat])
      BY DEF Base, IInv, TypeOK, HistoryTypeOK
    <3>2. acks[k] \in [req : Req, offset : Nat]
      BY <3>1, ElementOfSeq
    <3> QED
      BY <3>2
  <2>2. i <= done /\ replies[i] = 1
    BY DEF Replied
  <2> HIDE DEF i
  <2>3. i \in Nat /\ ~(Accepted < i)
    BY <1>2, <2>1, <2>2
  <2>4. replies'[i] = 1
    BY <1>1, <2>1, <2>2, <2>3 DEF Answers
  <2>5. i <= done'
    BY <1>2, <2>2, <2>3
  <2> QED
    BY <2>4, <2>5 DEF i
<1> QED
  BY <1>2, <1>3, <1>4 DEF Replied

\* Steps that answer nobody and accept nobody.
LEMMA NobodyAccepted ==
  ASSUME Base, Base', UNCHANGED <<done, replies, acks>>,
         buf' = buf \/ buf' = NackAll(buf)
  PROVE  Accepts
<1>1. buf \in Buffers
  BY DEF Base, IInv, TypeOK, ProducerTypeOK
<1>2. Len(buf'.onwire) + Len(buf'.buffer) = Len(buf.onwire) + Len(buf.buffer)
  <2>1. CASE buf' = buf
    BY <2>1
  <2>2. CASE buf' = NackAll(buf)
    <3>1. /\ Len(buf'.onwire) = 0
          /\ Len(buf'.buffer) = Len(buf.onwire) + Len(buf.buffer)
      BY <1>1, <2>2, NackAllMoves
    <3>2. Len(buf.onwire) \in Nat /\ Len(buf.buffer) \in Nat
      BY DEF Base, Bordered, Wire
    <3> QED
      BY <3>1, <3>2
  <2> QED
    BY <2>1, <2>2
<1> DEFINE w == Len(buf.onwire)  h == Len(buf.buffer)
           x == Len(buf'.onwire)  y == Len(buf'.buffer)
<1>3. Accepted = done + w + h /\ Accepted' = done' + x + y
  BY DEF Accepted, Wire
<1>4. w \in Nat /\ h \in Nat /\ x \in Nat /\ y \in Nat /\ done \in Nat /\ x + y = w + h
  BY <1>2 DEF Base, Bordered, Wire
<1> HIDE DEF w, h, x, y
<1>5. Accepted' = Accepted
  BY <1>3, <1>4
<1>6. Accepted \in Nat
  BY DEF Base, Bordered
<1>7. Answers(Accepted)
  <2> SUFFICES ASSUME NEW i \in Req
               PROVE  replies'[i] = IF Accepted < i /\ i <= Accepted
                                    THEN replies[i] + 1 ELSE replies[i]
    BY DEF Answers
  <2>1. ~(Accepted < i /\ i <= Accepted)
    BY <1>6 DEF Req
  <2> QED
    BY <2>1
<1> QED
  BY <1>4, <1>5, <1>6, <1>7 DEF Accepts

\* The end of the producer gives everything up.
LEMMA EndAccepts ==
  ASSUME Base, Base', NEW reason, Exit(reason), UNCHANGED <<last, acks>>,
         NEW m \in Nat, Accepted <= m, m <= Handled, Answers(m)
  PROVE  Accepts
<1>1. /\ done' = last /\ last' = last /\ done' <= Accepted' /\ Accepted' <= last'
      /\ Accepted' \in Nat /\ last \in Nat /\ Handled <= last /\ Handled \in Nat
      /\ done <= Accepted /\ done \in Nat /\ Accepted \in Nat
  BY DEF Exit, Base, Bordered
<1>2. done <= done' /\ m <= Accepted' /\ Accepted' <= done'
  BY <1>1
<1> QED
  BY <1>2 DEF Accepts

LEMMA NobodyAnswered ==
  ASSUME Base, UNCHANGED replies
  PROVE  Answers(Accepted)
<1> SUFFICES ASSUME NEW i \in Req
             PROVE  replies'[i] = IF Accepted < i /\ i <= Accepted
                                  THEN replies[i] + 1 ELSE replies[i]
  BY DEF Answers
<1>1. Accepted \in Nat
  BY DEF Base, Bordered
<1>2. ~(Accepted < i /\ i <= Accepted)
  BY <1>1 DEF Req
<1> QED
  BY <1>2

LEMMA EndsAccepts ==
  ASSUME Base, Base', NEW reason, Ends(reason)
  PROVE  Accepts
<1>1. Exit(reason) /\ UNCHANGED <<last, acks, replies>>
  BY DEF Ends
<1>2. Accepted \in Nat /\ Accepted <= Handled /\ Accepted <= Accepted
  BY DEF Base, Bordered
<1> QED
  BY <1>1, <1>2, NobodyAnswered, EndAccepts

LEMMA ReplyAnswers ==
  ASSUME NEW S, NEW m, replies' = Reply(S),
         \A i \in Req : i \in S <=> Accepted < i /\ i <= m
  PROVE  Answers(m)
  BY DEF Reply, Answers

\* A set of consecutive numbers.
LEMMA Run ==
  ASSUME NEW f, NEW a \in Nat, NEW j \in Nat, NEW n \in Nat,
         \A k \in (j + 1)..n : f[k] = a + k
  PROVE  \A i \in Nat : i \in {f[k] : k \in (j + 1)..n} <=> a + j < i /\ i <= a + n
<1> TAKE i \in Nat
<1>1. ASSUME a + j < i, i <= a + n
      PROVE  i \in {f[k] : k \in (j + 1)..n}
  <2>1. i - a \in (j + 1)..n /\ a + (i - a) = i
    BY <1>1
  <2> QED
    BY <2>1
<1>2. ASSUME NEW k \in (j + 1)..n, f[k] = i
      PROVE  a + j < i /\ i <= a + n
  BY <1>2
<1> QED
  BY <1>1, <1>2

\* The callers a batch answers are those it moves to the buffer or sends.
LEMMA TakeAnswers ==
  ASSUME Base, NEW n \in Req, TakeBatch(n)
  PROVE  /\ done + Wire + n + LeftInBuffer(buf, n) \in Nat
         /\ Accepted <= done + Wire + n + LeftInBuffer(buf, n)
         /\ done + Wire + n + LeftInBuffer(buf, n) <= Handled
         /\ Answers(done + Wire + n + LeftInBuffer(buf, n))
<1> DEFINE w == Len(buf.onwire)
           h == Len(buf.buffer)
           p == Len(buf.pending)
           left == LeftInBuffer(buf, n)
           q == Waiting(buf)
           S == {q[k] : k \in (h + 1)..(n + left)}
<1>1. /\ n \in 1..Len(q) /\ buf \in Buffers /\ Counted(buf)
      /\ replies' = Reply(S)
  BY TakeBatchFacts DEF Base, WellKept, TakeBatch, BufferedByTake
<1>2. left \in Nat /\ h <= n + left /\ n + left <= Len(q)
  BY <1>1, TakeMoves
<1>3. /\ w \in Nat /\ h \in Nat /\ p \in Nat /\ done \in Nat /\ Len(q) = h + p
      /\ \A k \in 1..(h + p) : q[k] = done + w + k
  BY DEF Base, Standing, Placed
<1>4. Wire = w /\ Accepted = done + w + h /\ Handled = done + w + h + p
  BY DEF Wire, Accepted, Handled
<1>5. n \in Nat
  BY DEF Req
<1> HIDE DEF w, h, p, left, q
<1>6. /\ done + w + n + left \in Nat /\ done + w + n + left = (done + w) + (n + left)
      /\ Accepted <= done + w + n + left /\ done + w + n + left <= Handled
      /\ done + w \in Nat /\ n + left \in Nat
  BY <1>2, <1>3, <1>4, <1>5
<1>7. \A k \in (h + 1)..(n + left) : q[k] = (done + w) + k
  <2>1. \A k \in (h + 1)..(n + left) : k \in 1..(h + p)
    BY <1>2, <1>3, <1>5
  <2> QED
    BY <1>3, <2>1
<1>8. \A i \in Req : i \in S <=> Accepted < i /\ i <= done + w + n + left
  <2> DEFINE a == done + w  z == n + left
  <2>1. a \in Nat /\ z \in Nat /\ h \in Nat /\ \A k \in (h + 1)..z : q[k] = a + k
    BY <1>3, <1>6, <1>7
  <2> HIDE DEF a, z
  <2>4. \A i \in Nat : i \in {q[k] : k \in (h + 1)..z} <=> a + h < i /\ i <= a + z
    BY SMTT(30), <2>1, Run
  <2>3. \A i \in Nat : i \in S <=> a + h < i /\ i <= a + z
    BY <2>4 DEF z
  <2> HIDE DEF S
  <2>2. Req \subseteq Nat
    BY DEF Req
  <2> QED
    BY <1>4, <1>6, <2>2, <2>3 DEF a, z
<1> HIDE DEF S
<1>9. Answers(done + w + n + left)
  BY <1>1, <1>8, ReplyAnswers
<1> QED
  BY <1>4, <1>6, <1>9 DEF left, w

\* The callers add/3 answers are those it moves to the buffer.
LEMMA AddAccepts ==
  ASSUME Base, Base', inbox # <<>>, NEW b \in {buf, NackAll(buf)},
         buf' = Add(b, Head(inbox)), replies' = Reply(BufferedByAdd(b, Head(inbox))),
         UNCHANGED <<done, acks>>
  PROVE  Accepts
<1> DEFINE i == Head(inbox)
           w == Len(buf.onwire)  h == Len(buf.buffer)  p == Len(buf.pending)
           x == Len(b.onwire)    y == Len(b.buffer)
           f == Append(b.pending, i)
<1>1. buf \in Buffers /\ NackAll(buf) \in Buffers /\ inbox \in Seq(Req)
  BY NackAllLemma DEF Base, IInv, TypeOK, ProducerTypeOK, MailboxTypeOK
<1>2. /\ w \in Nat /\ h \in Nat /\ p \in Nat /\ done \in Nat /\ Len(inbox) \in Nat
      /\ \A k \in 1..p : buf.pending[k] = done + w + h + k
      /\ \A k \in 1..Len(inbox) : inbox[k] = done + w + h + p + k
  BY DEF Base, Standing, Placed
<1>3. i \in Req /\ i = done + w + h + (p + 1)
  <2>1. Len(inbox) # 0 /\ i = inbox[1] /\ i \in Req
    BY <1>1, EmptySeq, HeadTailProperties
  <2>2. 1 \in 1..Len(inbox)
    BY <1>2, <2>1
  <2> HIDE DEF i, w, h, p
  <2>3. i = done + w + h + p + 1
    BY <1>2, <2>1, <2>2
  <2> QED
    BY <1>2, <2>1, <2>3
<1>4. b \in Buffers /\ b.pending = buf.pending /\ x \in Nat /\ y \in Nat /\ x + y = w + h
  <2>1. CASE b = buf
    BY <1>1, <1>2, <2>1
  <2>2. CASE b = NackAll(buf)
    <3>1. x = 0 /\ y = w + h /\ b.pending = buf.pending
      BY <1>1, <2>2, NackAllMoves
    <3> HIDE DEF w, h, x, y
    <3>2. x \in Nat /\ y \in Nat /\ x + y = w + h
      BY <1>2, <3>1
    <3> QED
      BY <1>1, <2>2, <3>1, <3>2
  <2> QED
    BY <2>1, <2>2
<1>5. /\ Add(b, i).onwire = b.onwire
      /\ \E m \in 0..(Len(b.pending) + 1) :
           /\ Len(Add(b, i).buffer) = y + m
           /\ BufferedByAdd(b, i) = {f[k] : k \in 1..m}
  BY <1>3, <1>4, AddMoves
<1>6. PICK m \in 0..(p + 1) : /\ Len(Add(b, i).buffer) = y + m
                              /\ BufferedByAdd(b, i) = {f[k] : k \in 1..m}
  BY <1>4, <1>5
<1>7. \A k \in 1..(p + 1) : f[k] = (done + w + h) + k
  <2>1. /\ b.pending \in Seq(Req)
        /\ f[p + 1] = i
        /\ \A k \in 1..p : f[k] = b.pending[k]
    BY <1>1, <1>3, <1>4, AppendProperties DEF Buffers
  <2> HIDE DEF f, i, w, h, p
  <2> TAKE k \in 1..(p + 1)
  <2>2. CASE k = p + 1
    BY <1>2, <1>3, <2>1, <2>2
  <2>3. CASE k \in 1..p
    BY <1>2, <1>4, <2>1, <2>3
  <2> QED
    BY <1>2, <2>2, <2>3
<1>8. /\ buf' = Add(b, i) /\ replies' = Reply(BufferedByAdd(b, i))
      /\ done' = done /\ acks' = acks
  OBVIOUS
<1>9. Accepted = done + w + h /\ Accepted' = done + x + (y + m)
  BY <1>5, <1>6, <1>8 DEF Accepted, Wire
<1> DEFINE S == {f[k] : k \in (0 + 1)..m}
<1>10. replies' = Reply(S)
  <2>1. 0 + 1 = 1
    OBVIOUS
  <2> QED
    BY <1>6, <1>8, <2>1
<1> HIDE DEF i, w, h, p, x, y, f
<1>11. /\ m \in Nat /\ Accepted \in Nat /\ Accepted' = Accepted + m /\ done <= done'
       /\ Accepted + m \in Nat /\ Accepted <= Accepted + m
       /\ Accepted + m <= Accepted'
  BY <1>2, <1>4, <1>8, <1>9
<1>12. \A k \in (0 + 1)..m : f[k] = Accepted + k
  BY SMTT(30), <1>2, <1>7, <1>9
<1>13. \A j \in Nat : j \in S <=> Accepted + 0 < j /\ j <= Accepted + m
  BY SMTT(30), <1>11, <1>12, Run
<1> HIDE DEF S
<1>14. Req \subseteq Nat /\ Accepted + 0 = Accepted
  BY <1>11 DEF Req
<1>15. \A j \in Req : j \in S <=> Accepted < j /\ j <= Accepted + m
  BY <1>13, <1>14
<1>16. Answers(Accepted + m)
  BY <1>10, <1>15, ReplyAnswers
<1> QED
  BY <1>8, <1>11, <1>16 DEF Accepts

\* A batch that was taken is on wire or back in the buffer.
LEMMA TakenAccepts ==
  ASSUME Base, Base', NEW n \in Req, TakeBatch(n), UNCHANGED <<done, acks>>,
         Len(buf'.onwire) + Len(buf'.buffer) = Wire + n + LeftInBuffer(buf, n)
  PROVE  Accepts
<1> DEFINE m == done + Wire + n + LeftInBuffer(buf, n)
<1>1. m \in Nat /\ Accepted <= m /\ Answers(m)
  BY TakeAnswers
<1>2. Accepted' = done + Len(buf'.onwire) + Len(buf'.buffer)
  BY DEF Accepted, Wire
<1>3. /\ done \in Nat /\ Wire \in Nat /\ n \in Nat /\ LeftInBuffer(buf, n) \in Nat
      /\ Len(buf'.onwire) \in Nat /\ Len(buf'.buffer) \in Nat
  <2>1. LeftInBuffer(buf, n) \in Nat
    BY TakeBatchFacts, TakeMoves DEF Base, WellKept
  <2>2. n \in Nat
    BY DEF Req
  <2> QED
    BY <2>1, <2>2 DEF Base, Bordered, Wire
<1> DEFINE x == Len(buf'.onwire)  y == Len(buf'.buffer)  z == LeftInBuffer(buf, n)
<1>4. x + y = Wire + n + z /\ m = done + Wire + n + z /\ Accepted' = done + x + y
  BY <1>2
<1>5. x \in Nat /\ y \in Nat /\ z \in Nat
  BY <1>3
<1>6. done' = done /\ acks' = acks
  OBVIOUS
<1> HIDE DEF m, x, y, z
<1>7. Accepted' = m /\ m <= m /\ done <= done'
  BY <1>1, <1>3, <1>4, <1>5, <1>6
<1> QED
  BY <1>1, <1>6, <1>7 DEF Accepts

\* Where a batch that was taken is then: on wire, or back in the buffer.
LEMMA SendOkLengths ==
  ASSUME Base, NEW n \in Req, SendOk(n)
  PROVE  Len(buf'.onwire) = Wire + n /\ Len(buf'.buffer) = LeftInBuffer(buf, n)
<1> DEFINE t == TakeReqs(buf, n)
           e == Batch(buf, n)
           b == PutOnWire(t, e, next_ref)
<1>1. TakeBatch(n) /\ buf' = b
  BY DEF SendOk
<1>2. n \in 1..Len(Waiting(buf)) /\ buf \in Buffers /\ Counted(buf)
  BY <1>1, TakeBatchFacts DEF Base, WellKept
<1>3. /\ t \in Buffers /\ e \in Seq(Req) /\ Len(e) = n /\ t.onwire = buf.onwire
      /\ Len(t.buffer) = LeftInBuffer(buf, n) /\ LeftInBuffer(buf, n) \in Nat
  BY <1>2, TakeReqsLemma, TakeMoves
<1>4. next_ref \in Nat
  BY DEF Base, IInv, TypeOK
<1> HIDE DEF t, e
<1>5. Len(b.onwire) = Len(t.onwire) + Len(e) /\ b.buffer = t.buffer
  BY <1>3, <1>4, PutOnWireMoves
<1> HIDE DEF b
<1> QED
  BY <1>1, <1>3, <1>5 DEF Wire

LEMMA SendFailedLengths ==
  ASSUME Base, NEW n \in Req, TakeBatch(n), SendFailed(n)
  PROVE  \/ Exit("reached_max_retries")
         \/ /\ buf'.onwire = buf.onwire /\ Len(buf'.onwire) = Wire
            /\ Len(buf'.buffer) = n + LeftInBuffer(buf, n)
            /\ UNCHANGED <<done, lostTo, connection, mailboxVars>>
<1> DEFINE t == TakeReqs(buf, n)
           e == Batch(buf, n)
           b == Rebuffer(t, e)
<1>1. SUFFICES ASSUME buf' = b, UNCHANGED <<done, lostTo, connection, mailboxVars>>
               PROVE  /\ buf'.onwire = buf.onwire /\ Len(buf'.onwire) = Wire
                      /\ Len(buf'.buffer) = n + LeftInBuffer(buf, n)
  BY DEF SendFailed
<1>2. n \in 1..Len(Waiting(buf)) /\ buf \in Buffers /\ Counted(buf)
  BY TakeBatchFacts DEF Base, WellKept
<1>3. /\ t \in Buffers /\ e \in Seq(Req) /\ Len(e) = n /\ t.onwire = buf.onwire
      /\ Len(t.buffer) = LeftInBuffer(buf, n) /\ LeftInBuffer(buf, n) \in Nat
  BY <1>2, TakeReqsLemma, TakeMoves
<1> HIDE DEF t, e
<1>4. Len(b.buffer) = Len(e) + Len(t.buffer) /\ b.onwire = t.onwire
  BY <1>3, RebufferMoves
<1> HIDE DEF b
<1> QED
  BY <1>1, <1>3, <1>4 DEF Wire

LEMMA SendOkAccepts ==
  ASSUME Base, Base', NEW n \in Req, SendOk(n)
  PROVE  Accepts
<1>1. TakeBatch(n) /\ UNCHANGED <<done, acks>>
  BY DEF SendOk, historyVars
<1>2. Len(buf'.onwire) + Len(buf'.buffer) = Wire + n + LeftInBuffer(buf, n)
  BY SendOkLengths
<1> QED
  BY <1>1, <1>2, TakenAccepts

LEMMA SendFailedAccepts ==
  ASSUME Base, Base', NEW n \in Req, TakeBatch(n), SendFailed(n)
  PROVE  Accepts
<1>1. UNCHANGED <<last, acks>>
  BY DEF SendFailed
<1>2. CASE Exit("reached_max_retries")
  <2> DEFINE m == done + Wire + n + LeftInBuffer(buf, n)
  <2>1. m \in Nat /\ Accepted <= m /\ m <= Handled /\ Answers(m)
    BY TakeAnswers
  <2> HIDE DEF m
  <2> QED
    BY <1>1, <1>2, <2>1, EndAccepts
<1>3. CASE ~Exit("reached_max_retries")
  <2> DEFINE x == Len(buf'.onwire)  y == Len(buf'.buffer)  z == LeftInBuffer(buf, n)
  <2>1. x = Wire /\ y = n + z /\ done' = done
    BY <1>3, SendFailedLengths
  <2>2. Wire \in Nat /\ z \in Nat /\ n \in Nat
    <3>1. z \in Nat
      BY TakeBatchFacts, TakeMoves DEF Base, WellKept
    <3> QED
      BY <3>1 DEF Base, Bordered, Req
  <2> HIDE DEF x, y, z
  <2>3. x + y = Wire + n + z
    BY <2>1, <2>2
  <2> QED
    BY <1>1, <2>1, <2>3, TakenAccepts DEF x, y, z
<1> QED
  BY <1>2, <1>3

\* Nothing is pending that fits in the buffer, so nobody is answered by the
\* buffer that is dropped.
LEMMA LingerAccepts ==
  ASSUME Base, Base', Linger
  PROVE  Accepts
<1>1. replies' = Reply(BufferedBy(buf)) /\ UNCHANGED <<buf, done, acks>>
  BY DEF Linger, historyVars
<1>2. Room(buf) = 0
  <2>1. /\ buf.pending = <<>> \/ buf.buffer_count >= BufferLimit
        /\ buf.buffer_count \in Nat /\ BufferLimit \in Nat
    BY ConfigAssumption DEF Base, IInv, TypeOK, ProducerTypeOK, WellKept, Pressure, Buffers
  <2>2. buf.pending = <<>> => Len(buf.pending) = 0
    BY EmptySeq
  <2> DEFINE x == buf.buffer_count  y == Len(buf.pending)
  <2>3. Room(buf) = IF x < BufferLimit THEN Lesser(y, BufferLimit - x) ELSE 0
    BY DEF Room
  <2>4. x \in Nat /\ BufferLimit \in Nat /\ (y = 0 \/ x >= BufferLimit)
    BY <2>1, <2>2
  <2> HIDE DEF x, y
  <2> QED
    BY <2>3, <2>4 DEF Lesser
<1>3. BufferedBy(buf) = {}
  BY <1>2 DEF BufferedBy
<1>4. replies' = replies
  <2>1. replies \in [Req -> Nat]
    BY DEF Base, IInv, TypeOK, CallerTypeOK
  <2> QED
    BY <1>1, <1>3, <2>1 DEF Reply
<1> QED
  BY <1>1, <1>4, NobodyAccepted

\* What is acknowledged was on wire, so it was accepted.
LEMMA AckReplied ==
  ASSUME Base, Base', Replied, NEW k \in 1..Len(buf.onwire), NEW base \in Nat,
         acks' = acks \o AckedOffsets(buf, k, base), done' = done + k,
         buf' = Ack(buf, k), replies' = replies
  PROVE  Replied'
<1> DEFINE w == Len(buf.onwire)  h == Len(buf.buffer)
           x == Len(buf'.onwire)  y == Len(buf'.buffer)
           more == AckedOffsets(buf, k, base)
           Acked == [req : Req, offset : Nat]
<1>1. buf \in Buffers /\ acks \in Seq(Acked)
  BY DEF Base, IInv, TypeOK, ProducerTypeOK, HistoryTypeOK
<1>2. /\ w \in Nat /\ h \in Nat /\ done \in Nat
      /\ \A j \in 1..w : buf.onwire[j].req = done + j
  BY DEF Base, Standing, Placed
<1>3. x = w - k /\ y = h
  BY <1>1, AckMoves
<1>4. Accepted = done + w + h /\ Accepted' = done' + x + y
  BY DEF Accepted, Wire
<1>5. more \in Seq(Acked) /\ Len(more) = k /\ \A j \in 1..k : more[j].req = buf.onwire[j].req
  <2>1. more \in Seq(Acked)
    BY <1>1, AckedOffsetsType
  <2>2. /\ DOMAIN more = 1..k
        /\ \A j \in 1..k : more[j].req = buf.onwire[j].req
    BY DEF AckedOffsets
  <2>3. DOMAIN more = 1..Len(more) /\ Len(more) \in Nat /\ k \in Nat
    BY <1>2, <2>1, LenProperties
  <2> HIDE DEF more
  <2> QED
    BY <2>1, <2>2, <2>3
<1>6. k \in 1..w
  OBVIOUS
<1> HIDE DEF w, h, x, y, more, Acked
<1>7. /\ Accepted' = Accepted /\ done <= done' /\ done' \in Nat /\ Accepted \in Nat
      /\ done' = done + k /\ done' <= Accepted
  BY <1>2, <1>3, <1>4, <1>6
<1>8. ASSUME NEW i \in Req
      PROVE  /\ replies'[i] \in {0, 1}
             /\ i > Accepted' => replies'[i] = 0
             /\ done' < i /\ i <= Accepted' => replies'[i] = 1
  <2>1. /\ replies[i] \in {0, 1} /\ (i > Accepted => replies[i] = 0)
        /\ (done < i /\ i <= Accepted => replies[i] = 1)
    BY DEF Replied
  <2>2. i \in Nat /\ (done' < i => done < i)
    BY <1>2, <1>7 DEF Req
  <2> QED
    BY <1>7, <2>1, <2>2
<1>9. /\ Len(acks') = Len(acks) + k
      /\ \A j \in 1..(Len(acks) + k) :
           acks'[j] = IF j <= Len(acks) THEN acks[j] ELSE more[j - Len(acks)]
  BY ZenonT(60), <1>1, <1>5, ConcatProperties DEF more
<1>10. ASSUME NEW j \in 1..(Len(acks) + k)
       PROVE  acks'[j].req <= done' /\ replies[acks'[j].req] = 1
  <2>1. Len(acks) \in Nat
    BY <1>1, LenProperties
  <2>2. CASE j <= Len(acks)
    <3>1. j \in 1..Len(acks) /\ acks'[j] = acks[j]
      BY <1>9, <2>1, <2>2
    <3>2. acks[j].req <= done /\ replies[acks[j].req] = 1
      BY <3>1 DEF Replied
    <3>3. acks[j].req \in Nat
      <4>1. acks[j] \in Acked
        BY <1>1, <3>1, ElementOfSeq
      <4> QED
        BY <4>1 DEF Acked, Req
    <3> QED
      BY <1>2, <1>7, <3>1, <3>2, <3>3
  <2>3. CASE ~(j <= Len(acks))
    <3>1. PICK l \in 1..k : l = j - Len(acks)
      <4>1. j - Len(acks) \in 1..k
        BY <1>2, <1>6, <2>1, <2>3
      <4> QED
        BY <4>1
    <3>2. l \in 1..w
      BY <1>2, <1>6
    <3>3. acks'[j].req = done + l
      BY <1>2, <1>5, <1>9, <2>3, <3>1, <3>2
    <3>4. acks'[j].req \in Req
      <4>1. more[l] \in Acked
        BY <1>5, <3>1, ElementOfSeq
      <4> QED
        BY <1>9, <2>3, <3>1, <4>1 DEF Acked
    <3>5. done < acks'[j].req /\ acks'[j].req <= done' /\ acks'[j].req <= Accepted
      BY <1>2, <1>6, <1>7, <3>1, <3>3
    <3> QED
      BY <3>4, <3>5 DEF Replied
  <2> QED
    BY <2>2, <2>3
<1> QED
  BY <1>8, <1>9, <1>10 DEF Replied

\* The steps that concern no reply.
Elsewhere ==
  \/ CallerNext \/ HandleDown \/ HandleDelayedSend
  \/ \E c \in Conn \cup {0} : HandleRetry(c)
  \/ \E c \in Conn : HandleResponseRetriable(c) \/ HandleResponseFatal(c) \/ DiscardResponse(c)
  \/ EnvironmentNext

LEMMA ElsewhereAccepts ==
  ASSUME Base, Base', Elsewhere
  PROVE  Accepts
<1>1. ASSUME NEW reason, Ends(reason)
      PROVE  Accepts
  BY <1>1, EndsAccepts
<1>2. CASE CallerNext
  <2>1. UNCHANGED <<done, replies, acks, buf>>
    BY <1>2 DEF CallerNext, Submit, CallerBuffered, CallerDown, historyVars, producerVars
  <2> QED
    BY <2>1, NobodyAccepted
<1>3. CASE HandleDown
  BY <1>1, <1>3, NobodyAccepted DEF HandleDown, historyVars
<1>4. CASE HandleDelayedSend
  <2>1. UNCHANGED <<done, replies, acks, buf>>
    BY <1>4 DEF HandleDelayedSend, MaybeProduce, historyVars
  <2> QED
    BY <2>1, NobodyAccepted
<1>5. ASSUME NEW c \in Conn \cup {0}, HandleRetry(c)
      PROVE  Accepts
  <2>1. CASE ReinitCrashes(c)
    BY <1>1, <1>5, <2>1 DEF HandleRetry
  <2>2. CASE ~ReinitCrashes(c)
    <3>1. UNCHANGED <<done, replies, acks>> /\ buf' = ReinitBuffer(c)
      BY <1>5, <2>2 DEF HandleRetry, MaybeProduce, historyVars
    <3> QED
      BY <3>1, NobodyAccepted DEF ReinitBuffer
  <2> QED
    BY <2>1, <2>2
<1>6. ASSUME NEW c \in Conn, HandleResponseRetriable(c)
      PROVE  Accepts
  BY <1>1, <1>6, NobodyAccepted DEF HandleResponseRetriable, historyVars
<1>7. ASSUME NEW c \in Conn, HandleResponseFatal(c) \/ DiscardResponse(c)
      PROVE  Accepts
  <2>1. CASE HandleResponseFatal(c)
    BY <1>1, <2>1 DEF HandleResponseFatal
  <2>2. CASE DiscardResponse(c)
    <3>1. UNCHANGED <<done, replies, acks, buf>>
      BY <2>2 DEF DiscardResponse, historyVars, producerVars
    <3> QED
      BY <3>1, NobodyAccepted
  <2> QED
    BY <1>7, <2>1, <2>2
<1>8. CASE EnvironmentNext
  <2>1. CASE Stop
    BY <1>1, <2>1 DEF Stop
  <2>2. CASE ~Stop
    <3>1. UNCHANGED <<done, replies, acks, buf>>
      BY <1>8, <2>2 DEF EnvironmentNext, DelayTimerFires, Restart, ConnectionDies, ClientSeesExit,
        InFlightLost, BrokerHandles, historyVars, producerVars
    <3> QED
      BY <3>1, NobodyAccepted
  <2> QED
    BY <2>1, <2>2
<1> QED
  BY <1>2, <1>3, <1>4, <1>5, <1>6, <1>7, <1>8 DEF Elsewhere

LEMMA RepliedStep ==
  Base /\ Base' /\ Replied /\ [Next]_vars => Replied'
<1> SUFFICES ASSUME Base, Base', Replied, [Next]_vars
             PROVE  Replied'
  OBVIOUS
<1>1. Accepts => Replied'
  BY RepliedAccepts
<1>2. CASE UNCHANGED vars
  <2>1. UNCHANGED <<done, replies, acks, buf>>
    BY <1>2 DEF vars, historyVars, producerVars
  <2> QED
    BY <1>1, <2>1, NobodyAccepted
<1>3. CASE Elsewhere
  BY <1>1, <1>3, ElsewhereAccepts
<1>4. ASSUME NEW c \in Conn \cup {0}, HandleProduce(c)
      PROVE  Replied'
  <2>1. CASE ReinitCrashes(c)
    BY <1>1, <1>4, <2>1, EndsAccepts DEF HandleProduce
  <2>2. CASE ~ReinitCrashes(c)
    <3>1. PICK b \in {buf, NackAll(buf)} :
            /\ inbox # <<>> /\ buf' = Add(b, Head(inbox))
            /\ replies' = Reply(BufferedByAdd(b, Head(inbox)))
            /\ UNCHANGED <<done, acks>>
      BY <1>4, <2>2 DEF HandleProduce, MaybeProduce, ReinitBuffer, historyVars
    <3> QED
      BY <1>1, <3>1, AddAccepts
  <2> QED
    BY <2>1, <2>2
<1>5. ASSUME NEW c \in Conn, HandleResponseOk(c)
      PROVE  Replied'
  <2>1. CASE Ends("function_clause")
    BY <1>1, <2>1, EndsAccepts
  <2>2. CASE ~Ends("function_clause")
    <3>1. PICK k \in 1..Len(buf.onwire) :
            /\ acks' = acks \o AckedOffsets(buf, k, Head(responses[c]).base)
            /\ done' = done + k /\ buf' = Ack(buf, k) /\ replies' = replies
      BY <1>5, <2>2 DEF HandleResponseOk, MaybeProduce
    <3>2. Head(responses[c]).base \in Nat
      <4>1. responses[c] # <<>>
        BY <1>5 DEF HandleResponseOk, Response
      <4>2. Head(responses[c]) \in [ref : Nat, code : {"ok", "retriable", "fatal"}, base : Nat]
        BY <4>1, ResponsesTail DEF Base
      <4> QED
        BY <4>2
    <3> QED
      BY <3>1, <3>2, AckReplied
  <2> QED
    BY <2>1, <2>2
<1>6. CASE SendNext
  <2>1. ASSUME NEW n \in Req, SendOk(n) \/ SendError(n) \/ SendLost(n)
        PROVE  Accepts
    BY <2>1, SendOkAccepts, SendFailedAccepts DEF SendError, SendLost
  <2> QED
    BY <1>1, <1>6, <2>1, LingerAccepts DEF SendNext
<1> QED
  BY <1>2, <1>3, <1>4, <1>5, <1>6 DEF Next, HandlerNext, Elsewhere

\* A caller gets one 'buffered' reply.
LEMMA RepliedAlways == Spec => []Replied
<1>1. Init => Replied
  <2> SUFFICES ASSUME Init PROVE Replied
    OBVIOUS
  <2>1. Len(acks) = 0 /\ replies = [i \in Req |-> 0] /\ done = 0
        /\ Len(buf.onwire) = 0 /\ Len(buf.buffer) = 0
    BY EmptySeq DEF Init, NewBuffer
  <2>2. Accepted = 0
    BY <2>1 DEF Accepted, Wire
  <2> QED
    BY <2>1, <2>2 DEF Replied, Req
<1> QED
  BY <1>1, RepliedStep, Based, PTL DEF Spec

LEMMA RepliedMeans == Base /\ Replied => AnsweredOnce
<1> SUFFICES ASSUME Base, Replied PROVE AnsweredOnce
  OBVIOUS
<1> DEFINE w == Len(buf.onwire)  h == Len(buf.buffer)  p == Len(buf.pending)
<1>1. /\ w \in Nat /\ h \in Nat /\ p \in Nat /\ Len(inbox) \in Nat
      /\ done \in Nat /\ last \in Nat /\ last <= MaxReqs /\ MaxReqs \in Nat
      /\ done + w + h + p + Len(inbox) = last
      /\ \A k \in 1..w : buf.onwire[k].req = done + k
      /\ \A k \in 1..h : buf.buffer[k] = done + w + k
      /\ \A k \in 1..p : buf.pending[k] = done + w + h + k
      /\ \A k \in 1..Len(inbox) : inbox[k] = done + w + h + p + k
  BY DEF Base, Standing, Placed, Bordered
<1>2. Accepted = done + w + h
  BY DEF Accepted, Wire
<1> HIDE DEF w, h, p
<1>3. \A i \in Req : replies[i] <= 1
  BY DEF Replied
<1>4. \A i \in Nat : done < i /\ i <= Accepted => replies[i] = 1
  BY <1>1, <1>2 DEF Replied, Req
<1>5. \A i \in Nat : Accepted < i /\ i <= last => replies[i] = 0
  BY <1>1, <1>2 DEF Replied, Req
<1>6. \A k \in 1..p : replies[buf.pending[k]] = 0
  <2> TAKE k \in 1..p
  <2>1. buf.pending[k] = done + w + h + k
    BY <1>1
  <2>2. /\ done + w + h + k \in Nat
        /\ Accepted < done + w + h + k /\ done + w + h + k <= last
    BY <1>1, <1>2
  <2> QED
    BY <1>5, <2>1, <2>2
<1>7. ASSUME NEW k \in 1..Len(inbox) PROVE replies[inbox[k]] = 0
  <2>1. inbox[k] = done + w + h + p + k
    BY <1>1
  <2>2. /\ done + w + h + p + k \in Nat
        /\ Accepted < done + w + h + p + k /\ done + w + h + p + k <= last
    BY <1>1, <1>2
  <2> QED
    BY <1>5, <2>1, <2>2
<1>8. ASSUME NEW k \in 1..h PROVE replies[buf.buffer[k]] = 1
  <2>1. buf.buffer[k] = done + w + k
    BY <1>1
  <2>2. done + w + k \in Nat /\ done < done + w + k /\ done + w + k <= Accepted
    BY <1>1, <1>2
  <2> QED
    BY <1>4, <2>1, <2>2
<1>9. ASSUME NEW k \in 1..w PROVE replies[buf.onwire[k].req] = 1
  <2>1. buf.onwire[k].req = done + k
    BY <1>1
  <2>2. done + k \in Nat /\ done < done + k /\ done + k <= Accepted
    BY <1>1, <1>2
  <2> QED
    BY <1>4, <2>1, <2>2
<1>10. \A k \in 1..Len(acks) : replies[acks[k].req] = 1
  BY DEF Replied
<1> QED
  BY <1>3, <1>6, <1>7, <1>8, <1>9, <1>10 DEF AnsweredOnce, w, h, p

(***************************************************************************)
(* Each caller gets exactly one 'buffered' reply for a request that        *)
(* reaches the buffer, whatever puts it back there or pushes others out,   *)
(* and none before: also where take_reqs/1 answers and then drops the      *)
(* buffer in which it moved those it answered.                             *)
(***************************************************************************)
THEOREM RepliesOnce == Spec => []AnsweredOnce
  BY Based, RepliedAlways, RepliedMeans, PTL

-----------------------------------------------------------------------------
(***************************************************************************)
(* What travels and what is on wire                                        *)
(***************************************************************************)

\* What is on wire under ref, if anything is, begins with request a and is
\* no more than the m requests from there.
Carries(ref, a, m) ==
  \A k \in 1..Wire : buf.onwire[k].ref = ref =>
    /\ a - done \in 1..k
    /\ buf.onwire[a - done].ref = ref
    /\ done + k < a + m

\* The log has the m requests from a on, behind base.
LogHas(base, a, m) ==
  base + m <= Len(log) /\ \A j \in 1..m : log[base + j] = a + j - 1

\* A packet carries requests that follow one another, and what is on wire
\* under its reference is what it carries.
PacketTraced(p) ==
  /\ p.ref < next_ref
  /\ \E a \in Req, m \in Nat : /\ Len(p.reqs) = m
                               /\ \A j \in 1..m : p.reqs[j] = a + j - 1
                               /\ Carries(p.ref, a, m)

\* A response that is no error says where in the log they are.
ResponseTraced(r) ==
  /\ r.ref < next_ref
  /\ r.code = "ok" =>
       \E a \in Req, m \in Nat : LogHas(r.base, a, m) /\ Carries(r.ref, a, m)

Traced ==
  \A c \in Conn : /\ \A k \in 1..Len(net[c]) : PacketTraced(net[c][k])
                  /\ \A k \in 1..Len(responses[c]) : ResponseTraced(responses[c][k])

\* A step keeps the packets and responses that agree with the wire so.
CarriesKept ==
  \A ref, a, m \in Nat : ref < next_ref /\ Carries(ref, a, m) => Carries(ref, a, m)'

LogGrows ==
  Len(log) <= Len(log') /\ \A k \in 1..Len(log) : log'[k] = log[k]

\* Nothing on wire, or nothing new there.
LEMMA ClearedCarries ==
  ASSUME buf'.onwire = <<>>
  PROVE  CarriesKept
<1>1. Len(buf'.onwire) = 0
  BY EmptySeq
<1>2. Wire' = 0
  BY <1>1 DEF Wire
<1>3. 1..Wire' = {}
  BY <1>2
<1> QED
  BY <1>3 DEF CarriesKept, Carries

LEMMA SameCarries ==
  ASSUME buf'.onwire = buf.onwire, done' = done
  PROVE  CarriesKept
  BY DEF CarriesKept, Carries, Wire

\* A packet or a response that agrees with the wire and was there before.
LEMMA PacketStill ==
  ASSUME Base, CarriesKept, next_ref' \in Nat, next_ref <= next_ref',
         NEW p \in [ref : Nat, reqs : Seq(Req)], PacketTraced(p)
  PROVE  PacketTraced(p)'
<1>1. PICK a \in Req, m \in Nat : /\ Len(p.reqs) = m
                                  /\ \A j \in 1..m : p.reqs[j] = a + j - 1
                                  /\ Carries(p.ref, a, m)
  BY DEF PacketTraced
<1> DEFINE ref == p.ref
<1>2. ref \in Nat /\ ref < next_ref /\ a \in Nat /\ next_ref \in Nat
  BY DEF PacketTraced, Req, Base, IInv, TypeOK
<1>3. Carries(ref, a, m)
  BY <1>1
<1> HIDE DEF ref
<1>4. Carries(ref, a, m)' /\ ref < next_ref'
  BY <1>2, <1>3 DEF CarriesKept
<1> QED
  BY <1>1, <1>4 DEF PacketTraced, ref

LEMMA ResponseStill ==
  ASSUME Base, CarriesKept, next_ref' \in Nat, next_ref <= next_ref', LogGrows,
         log \in Seq(Req), log' \in Seq(Req),
         NEW r \in [ref : Nat, code : {"ok", "retriable", "fatal"}, base : Nat],
         ResponseTraced(r)
  PROVE  ResponseTraced(r)'
<1> DEFINE ref == r.ref
           base == r.base
<1>1. ref \in Nat /\ ref < next_ref /\ next_ref \in Nat /\ base \in Nat
  BY DEF ResponseTraced, Base, IInv, TypeOK
<1>2. ASSUME r.code = "ok"
      PROVE  \E a \in Req, m \in Nat : LogHas(base, a, m)' /\ Carries(ref, a, m)'
  <2>1. PICK a \in Req, m \in Nat : LogHas(base, a, m) /\ Carries(ref, a, m)
    BY <1>2 DEF ResponseTraced
  <2>2. a \in Nat
    BY DEF Req
  <2> HIDE DEF ref, base
  <2>3. Carries(ref, a, m)'
    BY <1>1, <2>1, <2>2 DEF CarriesKept
  <2>4. LogHas(base, a, m)'
    <3>1. Len(log) \in Nat /\ Len(log') \in Nat
      BY LenProperties
    <3>2. base + m <= Len(log) /\ \A j \in 1..m : log[base + j] = a + j - 1
      BY <2>1 DEF LogHas
    <3>3. \A j \in 1..m : base + j \in 1..Len(log)
      BY <1>1, <3>1, <3>2
    <3>4. base + m <= Len(log')
      BY <1>1, <3>1, <3>2 DEF LogGrows
    <3> QED
      BY <3>2, <3>3, <3>4 DEF LogHas, LogGrows
  <2> QED
    BY <2>3, <2>4
<1> HIDE DEF ref, base
<1>3. ref < next_ref'
  BY <1>1
<1> QED
  BY <1>2, <1>3 DEF ResponseTraced, ref, base

LEMMA WireOrdered ==
  ASSUME Base
  PROVE  /\ Wire \in Nat /\ done \in Nat /\ next_ref \in Nat
         /\ \A k \in 1..Wire : buf.onwire[k].ref \in Nat /\ buf.onwire[k].ref < next_ref
         /\ \A j, k \in 1..Wire : j < k => buf.onwire[j].ref <= buf.onwire[k].ref
<1>1. /\ buf.onwire \in Seq([ref : Nat, req : Req])
      /\ Wire \in Nat /\ done \in Nat /\ next_ref \in Nat
      /\ WireCounted(buf, next_ref)
  BY DEF Base, IInv, TypeOK, ProducerTypeOK, Buffers, WellKept, Bordered
<1>2. ASSUME NEW k \in 1..Wire
      PROVE  buf.onwire[k].ref \in Nat /\ buf.onwire[k].ref < next_ref
  <2>1. buf.onwire[k] \in [ref : Nat, req : Req]
    BY <1>1, ElementOfSeq DEF Wire
  <2> QED
    BY <1>1, <2>1 DEF WireCounted, Wire
<1> QED
  BY <1>1, <1>2 DEF WireCounted, Wire

\* What is behind the head batch has another reference.
LEMMA BehindHead ==
  ASSUME Base, NEW k \in 1..Wire, IsHeadBatch(buf, k), NEW i \in 1..Wire, k < i
  PROVE  buf.onwire[i].ref # buf.onwire[1].ref
<1> DEFINE w == buf.onwire
<1>1. /\ Wire \in Nat
      /\ \A j \in 1..Wire : w[j].ref \in Nat
      /\ \A f, j \in 1..Wire : f < j => w[f].ref <= w[j].ref
  BY WireOrdered
<1>2. k < Wire => w[k + 1].ref # w[1].ref
  BY DEF IsHeadBatch, Wire
<1> HIDE DEF w
<1>3. PICK g \in 1..Wire : g = k + 1
  BY <1>1
<1>4. /\ w[g].ref # w[1].ref /\ w[g].ref \in Nat /\ w[1].ref \in Nat /\ w[i].ref \in Nat
      /\ 1 \in 1..Wire /\ 1 < g
  BY <1>1, <1>2, <1>3
<1>5. w[1].ref <= w[g].ref
  BY <1>1, <1>4
<1>6. w[g].ref <= w[i].ref
  <2>1. g < i \/ g = i
    BY <1>1, <1>3
  <2> QED
    BY <1>1, <1>4, <2>1
<1>7. w[1].ref # w[i].ref
  BY <1>4, <1>5, <1>6
<1> QED
  BY <1>7 DEF w

\* The acknowledged batch is all that was on wire under its reference, so
\* every other one is still whole.
LEMMA AckCarries ==
  ASSUME Base, NEW b, NEW k \in 1..Wire, IsHeadBatch(buf, k),
         b = Ack(buf, k), buf' = b, done' = done + k
  PROVE  CarriesKept
<1> DEFINE w == buf.onwire
           v == b.onwire
<1>1. Wire \in Nat /\ done \in Nat
  BY WireOrdered
<1>2. \A j \in 1..k : w[j].ref = w[1].ref
  BY DEF IsHeadBatch, Wire
<1>3. Wire' = Wire - k /\ \A j \in 1..(Wire - k) : v[j] = w[j + k]
  <2>1. buf \in Buffers
    BY DEF Base, IInv, TypeOK, ProducerTypeOK
  <2> QED
    BY <2>1, AckMoves DEF Wire
<1> SUFFICES ASSUME NEW ref \in Nat, NEW a \in Nat, NEW m \in Nat, Carries(ref, a, m),
                    NEW j \in 1..(Wire - k), v[j].ref = ref
             PROVE  /\ a - (done + k) \in 1..j
                    /\ v[a - (done + k)].ref = ref
                    /\ (done + k) + j < a + m
  BY ZenonT(60), <1>3 DEF CarriesKept, Carries
<1>4. PICK i \in 1..Wire : i = j + k
  <2>1. j + k \in 1..Wire
    BY <1>1
  <2> QED
    BY <2>1
<1>5. w[i].ref = ref
  BY <1>3, <1>4
<1>6. a - done \in 1..i /\ w[a - done].ref = ref /\ done + i < a + m
  BY <1>5 DEF Carries, w
<1>7. PICK f \in 1..i : f = a - done
  BY <1>6
<1>8. k < f
  <2> SUFFICES ASSUME f <= k PROVE FALSE
    BY <1>1
  <2>1. f \in 1..k /\ w[f].ref = w[1].ref
    BY <1>1, <1>2
  <2>2. w[1].ref = ref
    BY <1>6, <1>7, <2>1
  <2>3. w[i].ref # w[1].ref
    <3>1. k < i
      BY <1>1, <1>4
    <3> QED
      BY <3>1, BehindHead
  <2> QED
    BY <1>5, <2>2, <2>3
<1>9. PICK g \in 1..(Wire - k) : g = f - k
  <2>1. f - k \in 1..(Wire - k)
    BY <1>1, <1>7, <1>8
  <2> QED
    BY <2>1
<1>10. a - (done + k) = g /\ g \in 1..j
  BY <1>1, <1>4, <1>7, <1>8, <1>9
<1>11. v[g] = w[g + k] /\ g + k = f
  BY <1>1, <1>3, <1>7, <1>9
<1>12. (done + k) + j < a + m
  BY <1>1, <1>4, <1>6
<1> QED
  BY <1>6, <1>7, <1>10, <1>11, <1>12

\* A batch that goes out under a new reference is all there is under it.
LEMMA SentCarries ==
  ASSUME Base, NEW n \in 1..Len(Waiting(buf)),
         buf' = PutOnWire(TakeReqs(buf, n), Batch(buf, n), next_ref), done' = done,
         NEW a \in Nat, a = done + Wire + 1, NEW new \in Nat, new = next_ref
  PROVE  CarriesKept /\ Carries(new, a, n)'
<1> DEFINE t == TakeReqs(buf, n)
           e == Batch(buf, n)
           b == PutOnWire(t, e, next_ref)
           w == buf.onwire
           v == b.onwire
<1>1. /\ Wire \in Nat /\ done \in Nat /\ next_ref \in Nat
      /\ \A k \in 1..Wire : w[k].ref \in Nat /\ w[k].ref < next_ref
  BY WireOrdered
<1>2. n \in Nat /\ n > 0
  <2>1. Waiting(buf) \in Seq(Req)
    BY WaitingType DEF Base, IInv, TypeOK, ProducerTypeOK
  <2>2. Len(Waiting(buf)) \in Nat
    BY <2>1, LenProperties
  <2> QED
    BY <2>2
<1>3. /\ Wire' = Wire + n
      /\ \A k \in 1..Wire : v[k] = w[k]
      /\ \A k \in (Wire + 1)..(Wire + n) : v[k].ref = next_ref
  <2>1. buf \in Buffers /\ Counted(buf)
    BY DEF Base, IInv, TypeOK, ProducerTypeOK, WellKept
  <2>2. t \in Buffers /\ e \in Seq(Req) /\ Len(e) = n /\ t.onwire = buf.onwire
    BY <2>1, TakeReqsLemma
  <2>3. buf' = b
    OBVIOUS
  <2> HIDE DEF t, e
  <2>4. /\ Len(b.onwire) = Len(t.onwire) + Len(e)
        /\ \A k \in 1..Len(t.onwire) : b.onwire[k] = t.onwire[k]
        /\ \A k \in (Len(t.onwire) + 1)..(Len(t.onwire) + Len(e)) :
             b.onwire[k].ref = next_ref
    BY ZenonT(60), <1>1, <2>2, PutOnWireMoves
  <2> HIDE DEF b
  <2> QED
    BY <2>2, <2>3, <2>4 DEF Wire
<1>4. Carries(new, a, n)'
  <2>1. buf' = b
    OBVIOUS
  <2> HIDE DEF b
  <2> SUFFICES ASSUME NEW k \in 1..(Wire + n), v[k].ref = next_ref
               PROVE  /\ a - done \in 1..k
                      /\ v[a - done].ref = next_ref
                      /\ done + k < a + n
    BY <1>3, <2>1 DEF Carries
  <2>4. ~(k \in 1..Wire)
    BY SMTT(30), <1>1, <1>3
  <2>2. PICK g \in 1..k : g = a - done /\ g = Wire + 1
    BY <1>1, <1>2, <2>4
  <2>3. v[g].ref = next_ref
    BY <1>1, <1>2, <1>3, <2>2
  <2> QED
    BY <1>1, <1>2, <2>2, <2>3
<1>5. ASSUME NEW ref \in Nat, NEW i \in Nat, NEW m \in Nat, ref < next_ref, Carries(ref, i, m),
             NEW k \in 1..(Wire + n), v[k].ref = ref
      PROVE  /\ i - done \in 1..k
             /\ v[i - done].ref = ref
             /\ done + k < i + m
  <2>1. k \in 1..Wire
    <3> HIDE DEF v
    <3> QED
      BY <1>1, <1>2, <1>3, <1>5
  <2>2. w[k].ref = ref
    BY <1>3, <1>5, <2>1
  <2>3. i - done \in 1..k /\ w[i - done].ref = ref /\ done + k < i + m
    BY <1>5, <2>1, <2>2 DEF Carries, w
  <2>4. i - done \in 1..Wire
    BY <1>1, <2>1, <2>3
  <2>5. v[i - done] = w[i - done]
    BY <1>3, <2>4
  <2> QED
    BY <2>3, <2>5
<1>6. CarriesKept
  <2>1. buf' = b
    OBVIOUS
  <2> HIDE DEF b
  <2> QED
    BY ZenonT(60), <1>3, <1>5, <2>1 DEF CarriesKept, Carries
<1> QED
  BY <1>4, <1>6

\* Nothing is on wire under a reference not given before.
LEMMA FreshCarries ==
  ASSUME Base, buf'.onwire = buf.onwire \/ buf'.onwire = <<>>
  PROVE  /\ buf'.onwire = <<>> \/ done' = done => CarriesKept
         /\ \A k \in 1..Wire' : buf'.onwire[k].ref # next_ref
<1>1. /\ Wire \in Nat /\ next_ref \in Nat
      /\ \A k \in 1..Wire : buf.onwire[k].ref \in Nat /\ buf.onwire[k].ref < next_ref
  BY WireOrdered
<1>2. CASE buf'.onwire = buf.onwire
  BY <1>1, <1>2, SameCarries, ClearedCarries DEF Wire
<1>3. CASE buf'.onwire = <<>>
  <2>1. Len(buf'.onwire) = 0
    BY <1>3, EmptySeq
  <2> QED
    BY <1>3, <2>1, ClearedCarries DEF Wire
<1> QED
  BY <1>2, <1>3

-----------------------------------------------------------------------------
(***************************************************************************)
(* Acknowledgements and the log                                            *)
(***************************************************************************)

\* Nothing in s that was not in t.
Fewer(s, t) == \A k \in 1..Len(s) : \E j \in 1..Len(t) : s[k] = t[j]

LEMMA FewerSame ==
  ASSUME NEW S, NEW s \in Seq(S)
  PROVE  Fewer(s, s)
  BY DEF Fewer

LEMMA FewerNone ==
  ASSUME NEW t
  PROVE  Fewer(<<>>, t)
<1>1. Len(<<>>) = 0
  BY EmptySeq
<1>2. 1..0 = {}
  OBVIOUS
<1> QED
  BY <1>1, <1>2 DEF Fewer

LEMMA FewerTail ==
  ASSUME NEW S, NEW s \in Seq(S), s # <<>>
  PROVE  Fewer(Tail(s), s)
<1>1. /\ Tail(s) \in Seq(S) /\ Len(Tail(s)) = Len(s) - 1 /\ Len(s) \in Nat
      /\ \A i \in 1..Len(Tail(s)) : Tail(s)[i] = s[i + 1]
  BY HeadTailProperties, LenProperties
<1> SUFFICES ASSUME NEW k \in 1..Len(Tail(s))
             PROVE  \E j \in 1..Len(s) : Tail(s)[k] = s[j]
  BY DEF Fewer
<1>2. k + 1 \in 1..Len(s) /\ Tail(s)[k] = s[k + 1]
  BY <1>1
<1> QED
  BY <1>2

LEMMA Appended ==
  ASSUME NEW S, NEW s \in Seq(S), NEW e \in S
  PROVE  /\ \A k \in 1..Len(Append(s, e)) :
              \/ \E j \in 1..Len(s) : Append(s, e)[k] = s[j]
              \/ Append(s, e)[k] = e
         /\ \A j \in 1..Len(s) : \E k \in 1..Len(Append(s, e)) : Append(s, e)[k] = s[j]
         /\ \E k \in 1..Len(Append(s, e)) : Append(s, e)[k] = e
<1>1. /\ Len(Append(s, e)) = Len(s) + 1 /\ Len(s) \in Nat
      /\ \A i \in 1..(Len(s) + 1) : Append(s, e)[i] = IF i <= Len(s) THEN s[i] ELSE e
  BY AppendProperties, LenProperties
<1>2. \A k \in 1..(Len(s) + 1) : k <= Len(s) => k \in 1..Len(s)
  BY <1>1
<1>3. \A j \in 1..Len(s) : j \in 1..(Len(s) + 1) /\ j <= Len(s)
  BY <1>1
<1>4. Len(s) + 1 \in 1..(Len(s) + 1) /\ ~(Len(s) + 1 <= Len(s))
  BY <1>1
<1> QED
  BY <1>1, <1>2, <1>3, <1>4

\* A step that puts nothing on wire and nothing in flight.
Quiet ==
  /\ buf'.onwire = <<>> \/ (buf'.onwire = buf.onwire /\ done' = done)
  /\ \A c \in Conn : Fewer(net'[c], net[c]) /\ Fewer(responses'[c], responses[c])
  /\ UNCHANGED <<log, acks, next_ref>>

FlightType == [ref : Nat, reqs : Seq(Req)]
AnswerType == [ref : Nat, code : {"ok", "retriable", "fatal"}, base : Nat]

LEMMA FlightTypes ==
  ASSUME Base
  PROVE  /\ net \in [Conn -> Seq(FlightType)] /\ responses \in [Conn -> Seq(AnswerType)]
         /\ log \in Seq(Req) /\ Len(log) \in Nat /\ acks \in Seq([req : Req, offset : Nat])
         /\ next_ref \in Nat /\ done \in Nat
         /\ \A c \in Conn : /\ net[c] \in Seq(FlightType) /\ responses[c] \in Seq(AnswerType)
                            /\ Len(net[c]) \in Nat /\ Len(responses[c]) \in Nat
<1>1. /\ net \in [Conn -> Seq(FlightType)] /\ responses \in [Conn -> Seq(AnswerType)]
      /\ log \in Seq(Req) /\ acks \in Seq([req : Req, offset : Nat])
      /\ next_ref \in Nat /\ done \in Nat
  BY DEF FlightType, AnswerType, Base, IInv, Bordered, TypeOK, NetworkTypeOK, MailboxTypeOK,
         HistoryTypeOK
<1> QED
  BY <1>1, LenProperties

LEMMA EverythingStays ==
  ASSUME Base
  PROVE  \A c \in Conn : Fewer(net[c], net[c]) /\ Fewer(responses[c], responses[c])
  BY FlightTypes, FewerSame

\* The end of the producer, and the steps at which what is on wire stays or
\* goes back to the buffer.
LEMMA EndsQuiet ==
  ASSUME Base, NEW reason, Exit(reason), UNCHANGED <<net, log, acks, next_ref>>
  PROVE  Quiet
<1>1. buf'.onwire = <<>> /\ \A c \in Conn : responses'[c] = <<>>
  BY DEF Exit, NewBuffer, NoResponses
<1> QED
  BY <1>1, EverythingStays, FewerNone DEF Quiet

LEMMA RearrangedQuiet ==
  ASSUME Base, UNCHANGED <<net, log, acks, next_ref, done>>,
         \/ buf' = buf \/ buf' = NackAll(buf)
         \/ \E i \in Req : buf' = Add(buf, i) \/ buf' = Add(NackAll(buf), i),
         \/ responses' = responses
         \/ \E c \in Conn : responses[c] # <<>> /\ responses' = [responses EXCEPT ![c] = Tail(@)]
  PROVE  Quiet
<1>1. buf \in Buffers
  BY DEF Base, IInv, TypeOK, ProducerTypeOK
<1>2. buf'.onwire = <<>> \/ buf'.onwire = buf.onwire
  <2>1. NackAll(buf).onwire = <<>> /\ NackAll(buf) \in Buffers
    BY <1>1, NackAllMoves, ReinitBufferKeeps, NackAllLemma DEF Base, IInv
  <2>2. \A i \in Req : /\ Add(buf, i).onwire = buf.onwire
                       /\ Add(NackAll(buf), i).onwire = NackAll(buf).onwire
    BY <1>1, <2>1, AddMoves
  <2> QED
    BY <2>1, <2>2
<1>3. \A c \in Conn : Fewer(net'[c], net[c])
  BY EverythingStays
<1>4. \A c \in Conn : Fewer(responses'[c], responses[c])
  <2>1. CASE responses' = responses
    BY <2>1, EverythingStays
  <2>2. ASSUME NEW c \in Conn, responses[c] # <<>>,
               responses' = [responses EXCEPT ![c] = Tail(@)], NEW d \in Conn
        PROVE  Fewer(responses'[d], responses[d])
    <3>1. responses'[d] = IF d = c THEN Tail(responses[d]) ELSE responses[d]
      BY <2>2, FlightTypes
    <3> QED
      BY <2>2, <3>1, EverythingStays, FlightTypes, FewerTail
  <2> QED
    BY <2>1, <2>2
<1> QED
  BY <1>2, <1>3, <1>4 DEF Quiet

\* A batch that could not be sent is back in the buffer.
LEMMA SendErrorQuiet ==
  ASSUME Base, NEW n \in Req, SendError(n)
  PROVE  Quiet
<1> DEFINE t == TakeReqs(buf, n)
           e == Batch(buf, n)
           b == Rebuffer(t, e)
<1>1. /\ TakeBatch(n) /\ SendFailed(n) /\ UNCHANGED <<net, log, next_ref>>
      /\ acks' = acks
  BY DEF SendError, SendFailed, networkVars
<1>2. CASE Exit("reached_max_retries")
  BY <1>1, <1>2, EndsQuiet
<1>3. CASE buf' = b /\ UNCHANGED <<mailboxVars, done>>
  <2>1. n \in 1..Len(Waiting(buf)) /\ buf \in Buffers /\ Counted(buf)
    BY <1>1, TakeBatchFacts DEF Base, WellKept
  <2>2. t \in Buffers /\ e \in Seq(Req) /\ t.onwire = buf.onwire
    BY <2>1, TakeReqsLemma
  <2> HIDE DEF t, e
  <2>3. b.onwire = t.onwire
    BY <2>2, RebufferMoves
  <2> HIDE DEF b
  <2>4. buf'.onwire = buf.onwire /\ UNCHANGED <<net, responses, log, acks, next_ref, done>>
    BY <1>1, <1>3, <2>2, <2>3 DEF mailboxVars
  <2> QED
    BY <2>4, EverythingStays DEF Quiet
<1> QED
  BY <1>1, <1>2, <1>3 DEF SendFailed

LEMMA QuietSteps ==
  ASSUME Base, [Next]_vars,
         \A n \in Req : ~SendOk(n) /\ ~SendLost(n),
         \A c \in Conn, out \in Outcomes : ~BrokerHandles(c, out),
         \A c \in Conn : HandleResponseOk(c) => Ends("function_clause")
  PROVE  Quiet
<1>1. ASSUME NEW reason, Ends(reason), UNCHANGED <<net, log>>
      PROVE  Quiet
  BY <1>1, EndsQuiet DEF Ends
<1>2. CASE UNCHANGED vars
  <2>1. UNCHANGED <<net, log, acks, next_ref, done, buf, responses>>
    BY <1>2 DEF vars, historyVars, producerVars, networkVars, mailboxVars
  <2> QED
    BY <2>1, RearrangedQuiet
<1>3. CASE CallerNext
  <2>1. UNCHANGED <<net, log, acks, next_ref, done, buf, responses>>
    BY <1>3 DEF CallerNext, Submit, CallerBuffered, CallerDown, historyVars, producerVars,
                networkVars, mailboxVars
  <2> QED
    BY <2>1, RearrangedQuiet
<1>4. ASSUME NEW c \in Conn \cup {0}, HandleProduce(c)
      PROVE  Quiet
  <2>1. CASE ReinitCrashes(c)
    BY <1>1, <1>4, <2>1 DEF HandleProduce
  <2>2. CASE ~ReinitCrashes(c)
    <3>1. /\ inbox # <<>> /\ UNCHANGED <<net, log, acks, next_ref, done, responses>>
          /\ buf' = Add(buf, Head(inbox)) \/ buf' = Add(NackAll(buf), Head(inbox))
      BY <1>4, <2>2 DEF HandleProduce, MaybeProduce, ReinitBuffer, historyVars
    <3>2. Head(inbox) \in Req
      <4>1. inbox \in Seq(Req)
        BY DEF Base, IInv, TypeOK, MailboxTypeOK
      <4> QED
        BY <3>1, <4>1, HeadTailProperties
    <3> QED
      BY <3>1, <3>2, RearrangedQuiet
  <2> QED
    BY <2>1, <2>2
<1>5. ASSUME NEW c \in Conn \cup {0}, HandleRetry(c)
      PROVE  Quiet
  <2>1. CASE ReinitCrashes(c)
    BY <1>1, <1>5, <2>1 DEF HandleRetry
  <2>2. CASE ~ReinitCrashes(c)
    <3>1. /\ UNCHANGED <<net, log, acks, next_ref, done, responses>>
          /\ buf' = buf \/ buf' = NackAll(buf)
      BY <1>5, <2>2 DEF HandleRetry, MaybeProduce, ReinitBuffer, historyVars, mailboxVars
    <3> QED
      BY <3>1, RearrangedQuiet
  <2> QED
    BY <2>1, <2>2
<1>6. ASSUME NEW c \in Conn, HandleResponseOk(c)
      PROVE  Quiet
  <2>1. UNCHANGED <<net, log>>
    BY <1>6 DEF HandleResponseOk, networkVars
  <2> QED
    BY <1>1, <1>6, <2>1
<1>7. ASSUME NEW c \in Conn, HandleResponseRetriable(c)
      PROVE  Quiet
  <2>1. UNCHANGED <<net, log>> /\ responses[c] # <<>>
    BY <1>7 DEF HandleResponseRetriable, networkVars, Response
  <2>2. CASE Ends("function_clause") \/ Ends("reached_max_retries")
    BY <1>1, <2>1, <2>2
  <2>3. CASE /\ buf' = NackAll(buf) /\ responses' = [responses EXCEPT ![c] = Tail(@)]
             /\ UNCHANGED <<acks, next_ref, done>>
    BY <2>1, <2>3, RearrangedQuiet
  <2> QED
    BY <1>7, <2>2, <2>3 DEF HandleResponseRetriable, historyVars
<1>8. ASSUME NEW c \in Conn, HandleResponseFatal(c) \/ DiscardResponse(c)
      PROVE  Quiet
  <2>1. CASE HandleResponseFatal(c)
    BY <1>1, <2>1 DEF HandleResponseFatal, networkVars
  <2>2. CASE DiscardResponse(c)
    <3>1. /\ responses[c] # <<>> /\ responses' = [responses EXCEPT ![c] = Tail(@)]
          /\ UNCHANGED <<net, log, acks, next_ref, done, buf>>
      BY <2>2 DEF DiscardResponse, historyVars, producerVars, networkVars
    <3> QED
      BY <3>1, RearrangedQuiet
  <2> QED
    BY <1>8, <2>1, <2>2
<1>9. CASE HandleDown
  <2>1. UNCHANGED <<net, log>>
    BY <1>9 DEF HandleDown, networkVars
  <2>2. CASE Ends("reached_max_retries")
    BY <1>1, <2>1, <2>2
  <2>3. CASE /\ buf' = IF IsEmpty(buf) THEN buf ELSE NackAll(buf)
             /\ UNCHANGED <<acks, next_ref, done, responses>>
    BY <2>1, <2>3, RearrangedQuiet
  <2> QED
    BY <1>9, <2>2, <2>3 DEF HandleDown, historyVars, mailboxVars
<1>10. CASE HandleDelayedSend
  <2>1. UNCHANGED <<net, log, acks, next_ref, done, buf, responses>>
    BY <1>10 DEF HandleDelayedSend, MaybeProduce, historyVars, networkVars, mailboxVars
  <2> QED
    BY <2>1, RearrangedQuiet
<1>11. CASE SendNext
  <2>1. CASE Linger
    <3>1. UNCHANGED <<net, log, acks, next_ref, done, buf, responses>>
      BY <2>1 DEF Linger, historyVars, networkVars, mailboxVars
    <3> QED
      BY <3>1, RearrangedQuiet
  <2> QED
    BY <1>11, <2>1, SendErrorQuiet DEF SendNext
<1>12. CASE EnvironmentNext
  <2>1. CASE Stop
    BY <1>1, <2>1 DEF Stop, networkVars
  <2>2. ASSUME NEW c \in Conn, InFlightLost(c)
        PROVE  Quiet
    <3>1. /\ net' = [net EXCEPT ![c] = <<>>]
          /\ UNCHANGED <<log, acks, next_ref, done, buf, responses>>
      BY <2>2 DEF InFlightLost, historyVars, producerVars, mailboxVars
    <3>2. ASSUME NEW d \in Conn
          PROVE  Fewer(net'[d], net[d])
      <4>1. net'[d] = IF d = c THEN <<>> ELSE net[d]
        BY <3>1, FlightTypes
      <4> QED
        BY <4>1, EverythingStays, FewerNone
    <3> QED
      BY <3>1, <3>2, EverythingStays DEF Quiet
  <2>3. CASE \/ DelayTimerFires \/ Restart
             \/ \E c \in Conn : ConnectionDies(c) \/ ClientSeesExit(c)
    <3>1. UNCHANGED <<net, log, acks, next_ref, done, buf, responses>>
      BY <2>3 DEF DelayTimerFires, Restart, ConnectionDies, ClientSeesExit, historyVars,
                  producerVars, networkVars, mailboxVars
    <3> QED
      BY <3>1, RearrangedQuiet
  <2> QED
    BY <1>12, <2>1, <2>2, <2>3 DEF EnvironmentNext
<1> QED
  BY <1>2, <1>3, <1>4, <1>5, <1>6, <1>7, <1>8, <1>9, <1>10, <1>11, <1>12 DEF Next, HandlerNext

\* What was acknowledged is in the log where the acknowledgement says, and
\* what may still be acknowledged is where its response says.
Delivered == Traced /\ AcksPointIntoLog

LEMMA LogStays ==
  ASSUME Base, Base', log' = log
  PROVE  LogGrows
  BY FlightTypes DEF LogGrows

\* The packets and responses after a step are old ones or agree with the
\* wire.
LEMMA TracedFrom ==
  ASSUME Base, Base', Traced, CarriesKept, LogGrows, next_ref <= next_ref',
         \A c \in Conn : \A k \in 1..Len(net'[c]) :
           \/ \E j \in 1..Len(net[c]) : net'[c][k] = net[c][j]
           \/ PacketTraced(net[c][k])',
         \A c \in Conn : \A k \in 1..Len(responses'[c]) :
           \/ \E j \in 1..Len(responses[c]) : responses'[c][k] = responses[c][j]
           \/ ResponseTraced(responses[c][k])'
  PROVE  Traced'
<1>1. /\ next_ref' \in Nat /\ log \in Seq(Req) /\ log' \in Seq(Req)
  BY FlightTypes DEF Base, IInv, TypeOK, NetworkTypeOK
<1>2. ASSUME NEW c \in Conn, NEW j \in 1..Len(net[c])
      PROVE  \A p : p = net[c][j] => PacketTraced(p)'
  <2>1. net[c][j] \in FlightType
    <3>1. net[c] \in Seq(FlightType)
      BY FlightTypes
    <3> QED
      BY <3>1, ElementOfSeq
  <2> TAKE p
  <2> HAVE p = net[c][j]
  <2>2. p \in FlightType /\ PacketTraced(p)
    BY <2>1 DEF Traced
  <2> QED
    BY <1>1, <2>2, PacketStill DEF FlightType
<1>3. ASSUME NEW c \in Conn, NEW j \in 1..Len(responses[c])
      PROVE  \A r : r = responses[c][j] => ResponseTraced(r)'
  <2>1. responses[c][j] \in AnswerType
    <3>1. responses[c] \in Seq(AnswerType)
      BY FlightTypes
    <3> QED
      BY <3>1, ElementOfSeq
  <2> TAKE r
  <2> HAVE r = responses[c][j]
  <2>2. r \in AnswerType /\ ResponseTraced(r)
    BY <2>1 DEF Traced
  <2> QED
    BY <1>1, <2>2, ResponseStill DEF AnswerType
<1> QED
  BY <1>2, <1>3 DEF Traced

LEMMA AcksStay ==
  ASSUME Base, Base', AcksPointIntoLog, LogGrows, acks' = acks
  PROVE  AcksPointIntoLog'
<1> SUFFICES ASSUME NEW k \in 1..Len(acks)
             PROVE  /\ acks[k].offset < Len(log')
                    /\ log'[acks[k].offset + 1] = acks[k].req
  BY DEF AcksPointIntoLog
<1> DEFINE o == acks[k].offset
<1>1. o \in Nat
  <2>1. acks[k] \in [req : Req, offset : Nat]
    BY FlightTypes, ElementOfSeq
  <2> QED
    BY <2>1
<1>2. o < Len(log) /\ log[o + 1] = acks[k].req
  BY DEF AcksPointIntoLog
<1>3. Len(log) \in Nat /\ Len(log') \in Nat
  BY FlightTypes, LenProperties DEF Base, IInv, TypeOK, NetworkTypeOK
<1> HIDE DEF o
<1>4. o + 1 \in 1..Len(log) /\ o < Len(log')
  BY <1>1, <1>2, <1>3 DEF LogGrows
<1> QED
  BY <1>2, <1>4 DEF o, LogGrows

LEMMA QuietDelivered ==
  ASSUME Base, Base', Delivered, Quiet
  PROVE  Delivered'
<1>1. CarriesKept /\ LogGrows /\ next_ref <= next_ref' /\ acks' = acks
  BY FlightTypes, ClearedCarries, SameCarries, LogStays DEF Quiet
<1>2. Traced'
  BY <1>1, TracedFrom DEF Delivered, Quiet, Fewer
<1> QED
  BY <1>1, <1>2, AcksStay DEF Delivered

\* The batch that is taken is what follows the wire.
LEMMA BatchFollowsWire ==
  ASSUME Base, NEW n \in 1..Len(Waiting(buf))
  PROVE  /\ n \in Nat /\ n > 0
         /\ Batch(buf, n) \in Seq(Req) /\ Len(Batch(buf, n)) = n
         /\ done + Wire + 1 \in Req /\ done + Wire + n <= Handled
         /\ \A j \in 1..n : Batch(buf, n)[j] = (done + Wire + 1) + j - 1
<1> DEFINE q == Waiting(buf)
           e == Batch(buf, n)
           w == Wire
           h == Len(buf.buffer)
           p == Len(buf.pending)
<1>1. /\ w \in Nat /\ h \in Nat /\ p \in Nat /\ done \in Nat /\ Len(q) = h + p
      /\ \A k \in 1..(h + p) : q[k] = done + w + k
      /\ Handled = done + w + h + p /\ Handled <= MaxReqs /\ MaxReqs \in Nat
      /\ Handled \in Nat
  <2>1. /\ w \in Nat /\ h \in Nat /\ p \in Nat /\ done \in Nat /\ Len(q) = h + p
        /\ \A k \in 1..(h + p) : q[k] = done + w + k
    BY DEF Base, Standing, Placed, Wire
  <2>2. Handled <= last /\ last <= MaxReqs /\ MaxReqs \in Nat /\ Handled \in Nat /\ last \in Nat
    BY DEF Base, Bordered
  <2>3. Handled = done + w + h + p
    BY DEF Handled, Accepted
  <2> HIDE DEF w, h, p, q
  <2> QED
    BY <2>1, <2>2, <2>3
<1>2. q \in Seq(Req)
  BY WaitingType DEF Base, IInv, TypeOK, ProducerTypeOK
<1>3. e = SubSeq(q, 1, n) /\ n \in 1..Len(q)
  BY DEF Batch
<1> HIDE DEF q, e, w, h, p
<1>4. n \in Nat /\ n > 0 /\ n <= h + p
  BY <1>1, <1>3
<1>5. /\ e \in Seq(Req) /\ Len(e) = n /\ \A j \in 1..n : e[j] = q[j]
  <2>1. /\ buf \in Buffers /\ Counted(buf)
    BY DEF Base, IInv, TypeOK, ProducerTypeOK, WellKept
  <2>2. e \in Seq(Req) /\ Len(e) = n
    BY <2>1, TakeReqsLemma DEF e
  <2>3. \A j \in 1..n : e[j] = q[j]
    <3>1. \A j \in 1..n : q[j] \in Req
      <4>1. \A j \in 1..n : j \in 1..Len(q)
        BY <1>1, <1>4
      <4> QED
        BY <1>2, <4>1, ElementOfSeq
    <3>2. \A i \in 1..(n - 1 + 1) : SubSeq(q, 1, n)[i] = q[1 + i - 1]
      BY <1>4, <3>1, SubSeqProperties
    <3> QED
      BY <1>3, <1>4, <3>2
  <2> QED
    BY <2>2, <2>3
<1>6. \A j \in 1..n : e[j] = (done + w + 1) + j - 1
  <2> TAKE j \in 1..n
  <2>1. j \in 1..(h + p) /\ (done + w + 1) + j - 1 = done + w + j
    BY <1>1, <1>4
  <2> QED
    BY <1>1, <1>5, <2>1
<1>7. done + w + 1 \in Req /\ done + w + n <= Handled
  BY <1>1, <1>4 DEF Req
<1> QED
  BY <1>4, <1>5, <1>6, <1>7 DEF e, w

LEMMA GivenPackets ==
  ASSUME Base, NEW n \in 1..Len(Waiting(buf)), connection # 0,
         net' = [net EXCEPT ![connection] = Append(@, Packet(n))]
  PROVE  \A c \in Conn : \A k \in 1..Len(net'[c]) :
           \/ \E j \in 1..Len(net[c]) : net'[c][k] = net[c][j]
           \/ net'[c][k] = [ref |-> next_ref, reqs |-> Batch(buf, n)]
<1> TAKE c \in Conn
<1>1. net[c] \in Seq(FlightType) /\ Len(net[c]) \in Nat
  BY FlightTypes
<1>2. net'[c] = IF c = connection THEN Append(net[c], Packet(n)) ELSE net[c]
  BY FlightTypes
<1>3. Packet(n) \in FlightType /\ Packet(n) = [ref |-> next_ref, reqs |-> Batch(buf, n)]
  BY BatchFollowsWire, FlightTypes DEF Packet, FlightType
<1>4. \A k \in 1..Len(Append(net[c], Packet(n))) :
        \/ \E j \in 1..Len(net[c]) : Append(net[c], Packet(n))[k] = net[c][j]
        \/ Append(net[c], Packet(n))[k] = Packet(n)
  BY <1>1, <1>3, Appended
<1> QED
  BY <1>2, <1>3, <1>4

LEMMA SendOkDelivered ==
  ASSUME Base, Base', Delivered, NEW n \in Req, SendOk(n)
  PROVE  Delivered'
<1>1. /\ TakeBatch(n) /\ connection # 0
      /\ net' = [net EXCEPT ![connection] = Append(@, Packet(n))]
      /\ buf' = PutOnWire(TakeReqs(buf, n), Batch(buf, n), next_ref)
      /\ next_ref' = next_ref + 1 /\ UNCHANGED <<responses, log, acks, done>>
  BY DEF SendOk, mailboxVars, historyVars
<1>2. n \in 1..Len(Waiting(buf))
  BY <1>1, TakeBatchFacts DEF Base
<1>3. /\ n \in Nat /\ Len(Batch(buf, n)) = n
      /\ done + Wire + 1 \in Req
      /\ \A j \in 1..n : Batch(buf, n)[j] = (done + Wire + 1) + j - 1
  BY <1>2, BatchFollowsWire
<1>4. PICK a \in Req : a = done + Wire + 1
  BY <1>3
<1>5. PICK new \in Nat : new = next_ref
  BY FlightTypes
<1>6. a \in Nat
  BY DEF Req
<1>7. CarriesKept /\ Carries(new, a, n)'
  BY <1>1, <1>2, <1>4, <1>5, <1>6, SentCarries
<1>8. \A p : p = [ref |-> next_ref, reqs |-> Batch(buf, n)] => PacketTraced(p)'
  <2> TAKE p
  <2> HAVE p = [ref |-> next_ref, reqs |-> Batch(buf, n)]
  <2>1. p.ref = new /\ Len(p.reqs) = n /\ \A j \in 1..n : p.reqs[j] = a + j - 1
    BY <1>3, <1>4, <1>5
  <2>2. new < next_ref'
    BY <1>1, <1>5
  <2> QED
    BY <1>3, <1>7, <2>1, <2>2 DEF PacketTraced
<1>9. Traced'
  <2>1. LogGrows /\ next_ref <= next_ref'
    BY <1>1, LogStays, FlightTypes
  <2> QED
    BY <1>1, <1>2, <1>7, <1>8, <2>1, GivenPackets, TracedFrom DEF Delivered
<1> QED
  BY <1>1, <1>9, AcksStay, LogStays DEF Delivered

\* The connection died on the batch: it may have left, though it goes back
\* to the buffer and its reference is never on wire.
LEMMA SendLostDelivered ==
  ASSUME Base, Base', Delivered, NEW n \in Req, SendLost(n)
  PROVE  Delivered'
<1> DEFINE t == TakeReqs(buf, n)
           e == Batch(buf, n)
           b == Rebuffer(t, e)
<1>1. /\ TakeBatch(n) /\ connection # 0 /\ SendFailed(n)
      /\ net' = [net EXCEPT ![connection] = Append(@, Packet(n))]
      /\ next_ref' = next_ref + 1 /\ UNCHANGED <<log, acks>>
  BY DEF SendLost, SendFailed
<1>2. n \in 1..Len(Waiting(buf)) /\ buf \in Buffers /\ Counted(buf)
  BY <1>1, TakeBatchFacts DEF Base, WellKept
<1>3. /\ n \in Nat /\ Len(Batch(buf, n)) = n
      /\ done + Wire + 1 \in Req
      /\ \A j \in 1..n : Batch(buf, n)[j] = (done + Wire + 1) + j - 1
  BY <1>2, BatchFollowsWire
<1>4. \/ buf'.onwire = <<>> /\ responses' = NoResponses
      \/ buf'.onwire = buf.onwire /\ done' = done /\ responses' = responses
  <2>1. CASE Exit("reached_max_retries")
    BY <2>1 DEF Exit, NewBuffer
  <2>2. CASE buf' = b /\ UNCHANGED <<mailboxVars, done>>
    <3>1. t \in Buffers /\ e \in Seq(Req) /\ t.onwire = buf.onwire
      BY <1>2, TakeReqsLemma
    <3> HIDE DEF t, e
    <3>2. b.onwire = t.onwire
      BY <3>1, RebufferMoves
    <3> HIDE DEF b
    <3> QED
      BY <2>2, <3>1, <3>2 DEF mailboxVars
  <2> QED
    BY <1>1, <2>1, <2>2 DEF SendFailed
<1>5. /\ CarriesKept
      /\ \A k \in 1..Wire' : buf'.onwire[k].ref # next_ref
  BY <1>4, FreshCarries
<1>6. \A c \in Conn : Fewer(responses'[c], responses[c])
  <2>1. CASE responses' = NoResponses
    BY <2>1, FewerNone DEF NoResponses
  <2> QED
    BY <1>4, <2>1, EverythingStays
<1>7. PICK a \in Req : a = done + Wire + 1
  BY <1>3
<1>8. \A p : p = [ref |-> next_ref, reqs |-> Batch(buf, n)] => PacketTraced(p)'
  <2> TAKE p
  <2> HAVE p = [ref |-> next_ref, reqs |-> Batch(buf, n)]
  <2>1. p.ref = next_ref /\ Len(p.reqs) = n /\ \A j \in 1..n : p.reqs[j] = a + j - 1
    BY <1>3, <1>7
  <2>2. p.ref < next_ref'
    BY <1>1, <2>1, FlightTypes
  <2>3. Carries(p.ref, a, n)'
    BY <1>5, <2>1 DEF Carries
  <2> QED
    BY <1>3, <2>1, <2>2, <2>3 DEF PacketTraced
<1>9. Traced'
  <2>1. LogGrows /\ next_ref <= next_ref'
    BY <1>1, LogStays, FlightTypes
  <2> QED
    BY ZenonT(60), <1>1, <1>2, <1>5, <1>6, <1>8, <2>1, GivenPackets, TracedFrom DEF Delivered, Fewer
<1> QED
  BY <1>1, <1>9, AcksStay, LogStays DEF Delivered

\* What is at the head of the wire is what the packet carried, from the first
\* on: where the response says, the log has the requests it settles.
LEMMA AckLocated ==
  ASSUME Base, Traced, NEW c \in Conn, HandleResponseOk(c), ~Ends("function_clause")
  PROVE  \E k \in 1..Wire, base \in Nat :
           /\ responses[c] # <<>> /\ IsHeadBatch(buf, k)
           /\ acks' = acks \o AckedOffsets(buf, k, base)
           /\ done' = done + k /\ buf' = Ack(buf, k)
           /\ responses' = [responses EXCEPT ![c] = Tail(@)]
           /\ UNCHANGED <<net, log, next_ref>>
           /\ base + k <= Len(log)
           /\ \A j \in 1..k : log[base + j] = done + j
<1> DEFINE r == Head(responses[c])
           ref == r.ref
           base == r.base
<1>1. PICK k \in 1..Wire :
        /\ responses[c] # <<>> /\ r.code = "ok" /\ HeadRefIs(buf, ref)
        /\ IsHeadBatch(buf, k)
        /\ acks' = acks \o AckedOffsets(buf, k, base)
        /\ done' = done + k /\ buf' = Ack(buf, k)
        /\ responses' = [responses EXCEPT ![c] = Tail(@)]
        /\ UNCHANGED <<net, log, next_ref>>
  BY DEF HandleResponseOk, Response, MaybeProduce, networkVars, Wire
<1>2. ref \in Nat /\ base \in Nat /\ ResponseTraced(r)
  <2>1. responses[c] \in Seq(AnswerType) /\ Len(responses[c]) \in Nat
    BY FlightTypes
  <2>2. 1 \in 1..Len(responses[c]) /\ r = responses[c][1]
    BY <1>1, <2>1, EmptySeq
  <2>3. responses[c][1] \in AnswerType
    BY <2>1, <2>2, ElementOfSeq
  <2> QED
    BY <2>2, <2>3 DEF AnswerType, Traced
<1>3. PICK a \in Req, m \in Nat : LogHas(base, a, m) /\ Carries(ref, a, m)
  BY <1>1, <1>2 DEF ResponseTraced
<1>4. Wire \in Nat /\ done \in Nat /\ a \in Nat /\ k \in Nat /\ Len(log) \in Nat
  BY WireOrdered, FlightTypes DEF Req
<1>5. a = done + 1 /\ k <= m
  <2>1. 1 \in 1..Wire /\ k \in 1..Wire /\ buf.onwire[1].ref = ref /\ buf.onwire[k].ref = ref
    BY SMTT(30), <1>1, <1>4 DEF HeadRefIs, IsHeadBatch
  <2> HIDE DEF ref
  <2>2. a - done \in 1..1 /\ done + k < a + m
    BY <1>3, <2>1 DEF Carries
  <2> QED
    BY <1>4, <2>2
<1> HIDE DEF base, ref, r
<1>6. base + k <= Len(log)
  BY <1>2, <1>3, <1>4, <1>5 DEF LogHas
<1>7. \A j \in 1..k : log[base + j] = done + j
  <2> TAKE j \in 1..k
  <2>1. j \in 1..m /\ a + j - 1 = done + j
    BY <1>4, <1>5
  <2> QED
    BY <1>3, <2>1 DEF LogHas
<1> QED
  BY <1>1, <1>2, <1>6, <1>7

\* An acknowledgement points at the requests its response stands for.
LEMMA AckDelivered ==
  ASSUME Base, Base', Delivered, NEW c \in Conn, HandleResponseOk(c), ~Ends("function_clause")
  PROVE  Delivered'
<1>1. PICK k \in 1..Wire, base \in Nat :
        /\ responses[c] # <<>> /\ IsHeadBatch(buf, k)
        /\ acks' = acks \o AckedOffsets(buf, k, base)
        /\ done' = done + k /\ buf' = Ack(buf, k)
        /\ responses' = [responses EXCEPT ![c] = Tail(@)]
        /\ UNCHANGED <<net, log, next_ref>>
        /\ base + k <= Len(log)
        /\ \A j \in 1..k : log[base + j] = done + j
  BY AckLocated DEF Delivered
<1>2. CarriesKept
  BY <1>1, AckCarries
<1>3. LogGrows /\ next_ref <= next_ref'
  BY <1>1, LogStays, FlightTypes
<1>4. Traced'
  <2>1. \A d \in Conn : Fewer(net'[d], net[d])
    BY <1>1, EverythingStays
  <2>2. ASSUME NEW d \in Conn
        PROVE  Fewer(responses'[d], responses[d])
    <3>1. responses'[d] = IF d = c THEN Tail(responses[d]) ELSE responses[d]
      BY <1>1, FlightTypes
    <3> QED
      BY <1>1, <3>1, EverythingStays, FlightTypes, FewerTail
  <2> QED
    BY <1>2, <1>3, <2>1, <2>2, TracedFrom DEF Delivered, Fewer
<1>7. /\ Wire \in Nat /\ done \in Nat /\ k \in Nat
      /\ \A j \in 1..Wire : buf.onwire[j].req = done + j
  BY WireOrdered DEF Base, Standing, Placed, Wire, Req
<1> DEFINE more == AckedOffsets(buf, k, base)
           Acked == [req : Req, offset : Nat]
<1>9. /\ acks \in Seq(Acked) /\ more \in Seq(Acked) /\ Len(more) = k
      /\ \A j \in 1..k : more[j].req = done + j /\ more[j].offset = base + j - 1
  <2>1. /\ buf \in Buffers /\ k \in 1..Len(buf.onwire) /\ acks \in Seq(Acked)
    BY FlightTypes DEF Base, IInv, TypeOK, ProducerTypeOK, Wire
  <2>2. more \in Seq(Acked)
    BY <2>1, AckedOffsetsType
  <2>3. /\ DOMAIN more = 1..k
        /\ \A j \in 1..k : more[j] = [req |-> buf.onwire[j].req, offset |-> base + j - 1]
    BY DEF AckedOffsets
  <2>4. DOMAIN more = 1..Len(more) /\ Len(more) \in Nat
    BY <2>2, LenProperties
  <2> HIDE DEF more
  <2>5. Len(more) = k
    BY <1>7, <2>3, <2>4
  <2>6. ASSUME NEW j \in 1..k
        PROVE  more[j].req = done + j /\ more[j].offset = base + j - 1
    <3>1. j \in 1..Wire
      BY <1>7
    <3>2. more[j].req = buf.onwire[j].req /\ more[j].offset = base + j - 1
      BY <2>3
    <3> QED
      BY <1>7, <3>1, <3>2
  <2> QED
    BY <2>1, <2>2, <2>5, <2>6
<1>10. /\ Len(acks') = Len(acks) + k /\ Len(acks) \in Nat
       /\ \A j \in 1..(Len(acks) + k) :
            acks'[j] = IF j <= Len(acks) THEN acks[j] ELSE more[j - Len(acks)]
  <2>1. acks' = acks \o more
    BY <1>1
  <2> HIDE DEF more, Acked
  <2> QED
    BY <1>9, <2>1, ConcatProperties, LenProperties
<1>11. AcksPointIntoLog'
  <2> HIDE DEF more, Acked
  <2> SUFFICES ASSUME NEW j \in 1..(Len(acks) + k)
               PROVE  /\ acks'[j].offset < Len(log)
                      /\ log[acks'[j].offset + 1] = acks'[j].req
    BY <1>1, <1>10 DEF AcksPointIntoLog
  <2>1. CASE j <= Len(acks)
    <3>1. j \in 1..Len(acks) /\ acks'[j] = acks[j]
      BY <1>10, <2>1
    <3> QED
      BY <3>1 DEF Delivered, AcksPointIntoLog
  <2>2. CASE ~(j <= Len(acks))
    <3>1. PICK l \in 1..k : l = j - Len(acks)
      <4>1. j - Len(acks) \in 1..k
        BY <1>7, <1>10, <2>2
      <4> QED
        BY <4>1
    <3>2. acks'[j].req = done + l /\ acks'[j].offset = base + l - 1
      BY <1>9, <1>10, <2>2, <3>1
    <3>3. Len(log) \in Nat /\ log[base + l] = done + l
      BY <1>1, FlightTypes
    <3>4. base + l - 1 < Len(log) /\ (base + l - 1) + 1 = base + l
      BY SMTT(30), <1>1, <1>7, <3>3
    <3> QED
      BY <3>2, <3>3, <3>4
  <2> QED
    BY <2>1, <2>2
<1> QED
  BY <1>4, <1>11 DEF Delivered

\* The broker appends what a packet carries and answers where.
LEMMA BrokerDelivered ==
  ASSUME Base, Base', Delivered, NEW c \in Conn, NEW out \in Outcomes, BrokerHandles(c, out)
  PROVE  Delivered'
<1> DEFINE p == Head(net[c])
           s == p.reqs
<1> PICK base \in Nat : base = Len(log)
  BY FlightTypes
<1>1. /\ net[c] # <<>> /\ net' = [net EXCEPT ![c] = Tail(@)]
      /\ log' = IF Appends(out) THEN log \o s ELSE log
      /\ \/ responses' = responses
         \/ responses' = [responses EXCEPT ![c] = Append(@,
              [ref |-> p.ref, code |-> Code(out), base |-> base])]
      /\ UNCHANGED <<buf, done, acks, next_ref>>
  BY DEF BrokerHandles, historyVars, producerVars
<1>2. CarriesKept
  BY <1>1, SameCarries
<1>3. /\ p \in FlightType /\ s \in Seq(Req) /\ PacketTraced(p)
      /\ Len(s) \in Nat
  <2>1. net[c] \in Seq(FlightType) /\ Len(net[c]) \in Nat
    BY FlightTypes
  <2>2. 1 \in 1..Len(net[c]) /\ p = net[c][1]
    BY <1>1, <2>1, EmptySeq
  <2>3. net[c][1] \in FlightType
    BY <2>1, <2>2, ElementOfSeq
  <2>4. p \in FlightType /\ PacketTraced(p)
    BY <2>2, <2>3 DEF Delivered, Traced
  <2>5. s \in Seq(Req)
    BY <2>4 DEF FlightType
  <2> QED
    BY <2>4, <2>5, FlightTypes, LenProperties
<1>4. /\ LogGrows
      /\ Appends(out) => /\ Len(log') = base + Len(s)
                         /\ \A j \in 1..Len(s) : log'[base + j] = s[j]
  <2>1. CASE ~Appends(out)
    BY <1>1, <2>1, LogStays
  <2>2. CASE Appends(out)
    <3>1. log \in Seq(Req)
      BY FlightTypes
    <3> HIDE DEF s
    <3>2. /\ Len(log') = base + Len(s)
          /\ \A i \in 1..(base + Len(s)) :
               log'[i] = IF i <= base THEN log[i] ELSE s[i - base]
      BY <1>1, <1>3, <2>2, <3>1, ConcatProperties
    <3>3. \A j \in 1..Len(s) : log'[base + j] = s[j]
      <4> TAKE j \in 1..Len(s)
      <4>1. base + j \in 1..(base + Len(s)) /\ ~(base + j <= base) /\ (base + j) - base = j
        BY <1>3
      <4> QED
        BY <3>2, <4>1
    <3>4. LogGrows
      <4>1. base <= base + Len(s) /\ \A k \in 1..base : k \in 1..(base + Len(s)) /\ k <= base
        BY <1>3
      <4> QED
        BY <3>2, <4>1 DEF LogGrows
    <3> QED
      BY <3>2, <3>3, <3>4
  <2> QED
    BY <2>1, <2>2
<1>5. \A d \in Conn : Fewer(net'[d], net[d])
  <2> TAKE d \in Conn
  <2>1. net'[d] = IF d = c THEN Tail(net[d]) ELSE net[d]
    BY <1>1, FlightTypes
  <2> QED
    BY <1>1, <2>1, EverythingStays, FlightTypes, FewerTail
<1>6. \A r : r = [ref |-> p.ref, code |-> Code(out), base |-> base] => ResponseTraced(r)'
  <2> TAKE r
  <2> HAVE r = [ref |-> p.ref, code |-> Code(out), base |-> base]
  <2>1. PICK a \in Req, m \in Nat : /\ Len(s) = m
                                    /\ \A j \in 1..m : s[j] = a + j - 1
                                    /\ Carries(p.ref, a, m)
    BY <1>3 DEF PacketTraced
  <2>2. PICK ref \in Nat : ref = p.ref /\ ref < next_ref
    BY <1>3 DEF PacketTraced, FlightType
  <2>3. r.ref = ref /\ r.base = base /\ r.code = Code(out)
    BY <2>2
  <2>4. Carries(ref, a, m) /\ a \in Nat
    BY <2>1, <2>2 DEF Req
  <2>5. Carries(ref, a, m)'
    BY <1>2, <2>2, <2>4 DEF CarriesKept
  <2>6. r.code = "ok" => Appends(out)
    BY <2>3 DEF Code, Appends, Outcomes
  <2>7. Appends(out) => LogHas(base, a, m)'
    <3> HAVE Appends(out)
    <3>1. Len(log') = base + m /\ \A j \in 1..m : log'[base + j] = a + j - 1
      BY <1>4, <2>1
    <3>2. base + m <= Len(log')
      BY <1>3, <3>1
    <3> QED
      BY <3>1, <3>2 DEF LogHas
  <2> QED
    BY <1>1, <2>2, <2>3, <2>5, <2>6, <2>7 DEF ResponseTraced
<1>7. \A d \in Conn : \A k \in 1..Len(responses'[d]) :
        \/ \E j \in 1..Len(responses[d]) : responses'[d][k] = responses[d][j]
        \/ responses'[d][k] = [ref |-> p.ref, code |-> Code(out), base |-> base]
  <2> DEFINE r == [ref |-> p.ref, code |-> Code(out), base |-> base]
  <2>1. CASE responses' = responses
    BY <2>1
  <2>2. CASE responses' = [responses EXCEPT ![c] = Append(@, r)]
    <3> TAKE d \in Conn
    <3>1. responses'[d] = IF d = c THEN Append(responses[d], r) ELSE responses[d]
      BY <2>2, FlightTypes
    <3>2. responses[d] \in Seq(AnswerType) /\ Len(responses[d]) \in Nat
      BY FlightTypes
    <3>3. r \in AnswerType
      <4>1. p.ref \in Nat
        BY <1>3 DEF FlightType
      <4>2. Code(out) \in {"ok", "retriable", "fatal"}
        BY EnvironmentAssumption DEF Code, Outcomes
      <4> QED
        BY <4>1, <4>2 DEF AnswerType
    <3>4. CASE d = c
      <4> HIDE DEF r
      <4>1. \A k \in 1..Len(Append(responses[d], r)) :
              \/ \E j \in 1..Len(responses[d]) : Append(responses[d], r)[k] = responses[d][j]
              \/ Append(responses[d], r)[k] = r
        BY <3>2, <3>3, Appended
      <4> QED
        BY <3>1, <3>4, <4>1 DEF r
    <3>5. CASE d # c
      BY <3>1, <3>5
    <3> QED
      BY <3>4, <3>5
  <2> QED
    BY <1>1, <2>1, <2>2
<1>8. Traced'
  <2>1. next_ref <= next_ref'
    BY <1>1, FlightTypes
  <2> QED
    BY <1>2, <1>4, <1>5, <1>6, <1>7, <2>1, TracedFrom DEF Delivered, Fewer
<1> QED
  BY <1>1, <1>4, <1>8, AcksStay DEF Delivered

LEMMA DeliveredAlways == Spec => []Delivered
<1>1. Init => Delivered
  <2> SUFFICES ASSUME Init PROVE Delivered
    OBVIOUS
  <2>1. /\ \A c \in Conn : net[c] = <<>> /\ responses[c] = <<>>
        /\ acks = <<>>
    BY DEF Init, NoResponses
  <2>2. Len(<<>>) = 0 /\ 1..0 = {}
    BY EmptySeq
  <2> QED
    BY <2>1, <2>2 DEF Delivered, Traced, AcksPointIntoLog
<1>2. Base /\ Base' /\ Delivered /\ [Next]_vars => Delivered'
  <2> SUFFICES ASSUME Base, Base', Delivered, [Next]_vars
               PROVE  Delivered'
    OBVIOUS
  <2>1. CASE \E n \in Req : SendOk(n) \/ SendLost(n)
    BY <2>1, SendOkDelivered, SendLostDelivered
  <2>2. CASE \E c \in Conn, out \in Outcomes : BrokerHandles(c, out)
    BY <2>2, BrokerDelivered
  <2>3. CASE \E c \in Conn : HandleResponseOk(c) /\ ~Ends("function_clause")
    BY <2>3, AckDelivered
  <2> QED
    BY <2>1, <2>2, <2>3, QuietSteps, QuietDelivered
<1> QED
  BY <1>1, <1>2, Based, PTL DEF Spec

(***************************************************************************)
(* The offset handed to a callback is where the partition's log has that   *)
(* request, for every position in a batch, whatever was retried,           *)
(* duplicated or answered late, and however many requests are on wire.     *)
(***************************************************************************)
THEOREM OffsetsPointIntoLog == Spec => []AcksPointIntoLog
  BY DeliveredAlways, PTL DEF Delivered

-----------------------------------------------------------------------------
(***************************************************************************)
(* No lost wakeup                                                          *)
(***************************************************************************)

\* What an ended incarnation lost is settled.
LostSettled == lostTo <= done

LEMMA LostIsSettled == Spec => []LostSettled
<1>1. Init => LostSettled
  BY DEF Init, LostSettled
<1>2. Base /\ LostSettled /\ [Next]_vars => LostSettled'
  <2> SUFFICES ASSUME Base, lostTo <= done, [Next]_vars
               PROVE  lostTo' <= done'
    BY DEF LostSettled
  <2>1. done \in Nat /\ lostTo \in Nat /\ last \in Nat /\ Wire \in Nat
    BY DEF Base, Bordered, IInv, TypeOK, HistoryTypeOK, Req
  <2>2. ASSUME NEW reason, Exit(reason)
        PROVE  lostTo' <= done'
    BY <2>1, <2>2 DEF Exit
  <2>3. CASE UNCHANGED <<lostTo, done>>
    BY <2>3
  <2>4. CASE UNCHANGED vars
    BY <2>3, <2>4 DEF vars, historyVars
  <2>5. CASE CallerNext
    BY <2>3, <2>5 DEF CallerNext, Submit, CallerBuffered, CallerDown, historyVars
  <2>6. ASSUME NEW c \in Conn \cup {0}, HandleProduce(c) \/ HandleRetry(c)
        PROVE  lostTo' <= done'
    BY <2>2, <2>3, <2>6 DEF HandleProduce, HandleRetry, Ends, historyVars
  <2>7. ASSUME NEW c \in Conn, HandleResponseOk(c)
        PROVE  lostTo' <= done'
    <3>1. CASE \E k \in 1..Wire : done' = done + k /\ lostTo' = lostTo
      BY <2>1, <3>1
    <3> QED
      BY <2>2, <2>7, <3>1 DEF HandleResponseOk, Ends, Wire
  <2>8. ASSUME NEW c \in Conn,
               HandleResponseRetriable(c) \/ HandleResponseFatal(c) \/ DiscardResponse(c)
        PROVE  lostTo' <= done'
    BY <2>2, <2>3, <2>8 DEF HandleResponseRetriable, HandleResponseFatal, DiscardResponse,
                            Ends, historyVars
  <2>9. CASE HandleDown \/ HandleDelayedSend
    BY <2>2, <2>3, <2>9 DEF HandleDown, HandleDelayedSend, Ends, historyVars
  <2>10. CASE SendNext
    BY <2>2, <2>3, <2>10 DEF SendNext, SendOk, SendError, SendLost, SendFailed, Linger, historyVars
  <2>11. CASE EnvironmentNext
    BY <2>2, <2>3, <2>11 DEF EnvironmentNext, DelayTimerFires, Stop, Restart, ConnectionDies,
                             ClientSeesExit, InFlightLost, BrokerHandles, Ends, historyVars
  <2> QED
    BY <2>4, <2>5, <2>6, <2>7, <2>8, <2>9, <2>10, <2>11 DEF Next, HandlerNext
<1> QED
  BY <1>1, <1>2, Based, PTL DEF Spec

\* An idle producer that may send waits for a timer.
Wakeful == ~sending /\ CanTake(buf) => retry_tref \/ delay.state \in {"armed", "fired"}

\* All that is on wire is in flight on the connection in use, in one
\* direction or the other, or that connection is dead.
Answerable ==
  \A k \in 1..Wire :
    connection # 0 /\ (conns[connection] = "dead" \/ InFlightOn(connection, buf.onwire[k].ref))

Awake == Wakeful /\ Answerable

\* A step that leaves the wire and what is in flight for it alone.
WireAlone ==
  \/ buf'.onwire = <<>>
  \/ /\ buf'.onwire = buf.onwire /\ connection' = connection
     /\ connection # 0 =>
          \/ conns'[connection] = "dead"
          \/ /\ conns[connection] # "dead"
             /\ net'[connection] = net[connection]
             /\ responses'[connection] = responses[connection]

LEMMA AloneAnswerable ==
  ASSUME Answerable, WireAlone
  PROVE  Answerable'
<1>1. CASE buf'.onwire = <<>>
  <2>1. Wire' = 0
    BY <1>1, EmptySeq DEF Wire
  <2>2. 1..Wire' = {}
    BY <2>1
  <2> QED
    BY <2>2 DEF Answerable
<1>2. CASE buf'.onwire # <<>>
  <2>1. /\ buf'.onwire = buf.onwire /\ connection' = connection /\ Wire' = Wire
        /\ connection # 0 =>
             \/ conns'[connection] = "dead"
             \/ /\ conns[connection] # "dead"
                /\ net'[connection] = net[connection]
                /\ responses'[connection] = responses[connection]
    BY <1>2 DEF WireAlone, Wire
  <2> SUFFICES ASSUME NEW k \in 1..Wire
               PROVE  /\ connection # 0
                      /\ \/ conns'[connection] = "dead"
                         \/ \E j \in 1..Len(net'[connection]) :
                              net'[connection][j].ref = buf.onwire[k].ref
                         \/ \E j \in 1..Len(responses'[connection]) :
                              responses'[connection][j].ref = buf.onwire[k].ref
    BY <2>1 DEF Answerable, InFlightOn
  <2> QED
    BY <2>1 DEF Answerable, InFlightOn
<1> QED
  BY <1>1, <1>2

\* Nothing can be taken from a new buffer, or from an empty one.
LEMMA NothingToTake ==
  /\ ~CanTake(NewBuffer)
  /\ \A b : IsEmpty(b) => ~CanTake(b)
  BY DEF CanTake, NewBuffer, IsEmpty

LEMMA EndsAwake ==
  ASSUME NEW reason, Exit(reason)
  PROVE  Awake'
<1>1. Wakeful'
  BY NothingToTake DEF Wakeful, Exit
<1>2. Answerable'
  <2>1. Wire' = 0
    BY EmptySeq DEF Wire, Exit, NewBuffer
  <2>2. 1..Wire' = {}
    BY <2>1
  <2> QED
    BY <2>2 DEF Answerable
<1> QED
  BY <1>1, <1>2 DEF Awake

LEMMA MaybeProduceWakeful ==
  ASSUME NEW b, NEW retry \in BOOLEAN, NEW d, MaybeProduce(b, retry, d)
  PROVE  Wakeful'
<1>1. buf' = b /\ retry_tref' = retry /\ sending' = (~retry /\ CanTake(b))
  BY DEF MaybeProduce
<1> SUFFICES ASSUME ~sending', CanTake(b)
             PROVE  retry_tref'
  BY <1>1 DEF Wakeful
<1> QED
  BY <1>1

\* Handlers that end in maybe_produce/1.  Without a connection nothing is on
\* wire, so adding to the buffer leaves the wire alone.
LEMMA HandleProduceAwake ==
  ASSUME Base, Awake, NEW c \in Conn \cup {0}, HandleProduce(c)
  PROVE  Awake'
<1>1. buf \in Buffers /\ retry_tref \in BOOLEAN
  BY DEF Base, IInv, TypeOK, ProducerTypeOK
<1>2. NackAll(buf).onwire = <<>> /\ NackAll(buf) \in Buffers
  BY <1>1, NackAllMoves, ReinitBufferKeeps, NackAllLemma DEF Base, IInv
<1>3. CASE ReinitCrashes(c)
  BY <1>3, EndsAwake DEF HandleProduce, Ends
<1>4. CASE ~ReinitCrashes(c)
  <2>1. PICK b \in {buf, NackAll(buf)} :
          /\ inbox # <<>> /\ MaybeProduce(Add(b, Head(inbox)), retry_tref, delay)
          /\ connection' = c /\ UNCHANGED <<net, responses>>
          /\ b = buf \/ connection = 0
          /\ connection # 0 => c = connection /\ UNCHANGED conns
    BY <1>4 DEF HandleProduce, ReinitBuffer
  <2>2. Head(inbox) \in Req
    <3>1. inbox \in Seq(Req)
      BY DEF Base, IInv, TypeOK, MailboxTypeOK
    <3> QED
      BY <2>1, <3>1, HeadTailProperties
  <2>3. Wakeful'
    BY <1>1, <2>1, MaybeProduceWakeful
  <2>4. Add(b, Head(inbox)).onwire = b.onwire
    BY <1>1, <1>2, <2>1, <2>2, AddMoves
  <2>5. buf'.onwire = b.onwire
    BY <2>1, <2>4 DEF MaybeProduce
  <2>6. connection = 0 => buf.onwire = <<>>
    <3>1. connection = 0 => 1..Wire = {}
      BY DEF Awake, Answerable
    <3>2. Wire \in Nat /\ buf.onwire \in Seq([ref : Nat, req : Req])
      BY <1>1, WireOrdered DEF Buffers
    <3>3. connection = 0 => Wire = 0
      BY <3>1, <3>2
    <3> QED
      BY <3>2, <3>3, EmptySeq DEF Wire
  <2>7. WireAlone
    BY <1>2, <2>1, <2>5, <2>6 DEF WireAlone
  <2> QED
    BY <2>3, <2>7, AloneAnswerable DEF Awake
<1> QED
  BY <1>3, <1>4

LEMMA HandleRetryAwake ==
  ASSUME Base, Awake, NEW c \in Conn \cup {0}, HandleRetry(c)
  PROVE  Awake'
<1>1. buf \in Buffers /\ connection \in Conn \cup {0}
      /\ conns \in [Conn -> {"new", "up", "dead"}]
  BY DEF Base, IInv, TypeOK, ProducerTypeOK, NetworkTypeOK
<1>2. CASE ReinitCrashes(c)
  BY <1>2, EndsAwake DEF HandleRetry, Ends
<1>3. CASE ~ReinitCrashes(c)
  <2>1. /\ MaybeProduce(ReinitBuffer(c), FALSE, delay) /\ GetLeaderConnection(c)
        /\ connection' = c /\ UNCHANGED <<net, responses>>
    BY <1>3 DEF HandleRetry, mailboxVars
  <2>2. Wakeful'
    BY <2>1, MaybeProduceWakeful
  <2>3. buf' = ReinitBuffer(c)
    BY <2>1 DEF MaybeProduce
  <2>4. CASE SameConnection(c)
    <3>1. buf' = buf /\ c = connection /\ connection' = connection
      BY <2>1, <2>3, <2>4 DEF ReinitBuffer, SameConnection
    <3>2. conns[connection] = "dead" => conns'[connection] = "dead"
      BY <1>1, <2>1, <3>1 DEF GetLeaderConnection
    <3>3. WireAlone
      BY <2>1, <3>1, <3>2 DEF WireAlone
    <3> QED
      BY <2>2, <3>3, AloneAnswerable DEF Awake
  <2>5. CASE ~SameConnection(c)
    <3>1. buf'.onwire = <<>>
      BY <1>1, <2>3, <2>5, NackAllMoves DEF ReinitBuffer
    <3> QED
      BY <2>2, <3>1, AloneAnswerable DEF WireAlone, Awake
  <2> QED
    BY <2>4, <2>5
<1> QED
  BY <1>2, <1>3

LEMMA HandleDownAwake ==
  ASSUME Base, Awake, HandleDown
  PROVE  Awake'
<1>1. buf \in Buffers
  BY DEF Base, IInv, TypeOK, ProducerTypeOK
<1>2. CASE Ends("reached_max_retries")
  BY <1>2, EndsAwake DEF Ends
<1>3. CASE /\ buf' = IF IsEmpty(buf) THEN buf ELSE NackAll(buf)
           /\ retry_tref' = (retry_tref \/ ~IsEmpty(buf))
  <2>1. buf'.onwire = <<>>
    BY <1>1, <1>3, NackAllMoves DEF IsEmpty
  <2>2. Wakeful'
    <3>1. CASE IsEmpty(buf)
      BY <1>3, <3>1, NothingToTake DEF Wakeful
    <3>2. CASE ~IsEmpty(buf)
      BY <1>3, <3>2 DEF Wakeful
    <3> QED
      BY <3>1, <3>2
  <2> QED
    BY <2>1, <2>2, AloneAnswerable DEF WireAlone, Awake
<1> QED
  BY <1>2, <1>3 DEF HandleDown

\* With an answer that says to retry everything on wire goes back.
LEMMA OtherResponsesAwake ==
  ASSUME Base, Awake, NEW c \in Conn,
         HandleResponseRetriable(c) \/ HandleResponseFatal(c) \/ DiscardResponse(c)
  PROVE  Awake'
<1>1. buf \in Buffers
  BY DEF Base, IInv, TypeOK, ProducerTypeOK
<1>2. ASSUME NEW reason, Ends(reason)
      PROVE  Awake'
  BY <1>2, EndsAwake DEF Ends
<1>3. CASE HandleResponseRetriable(c)
  <2>1. CASE buf' = NackAll(buf) /\ retry_tref' = TRUE
    <3>1. buf'.onwire = <<>>
      BY <1>1, <2>1, NackAllMoves
    <3>2. Wakeful'
      BY <2>1 DEF Wakeful
    <3> QED
      BY <3>1, <3>2, AloneAnswerable DEF WireAlone, Awake
  <2> QED
    BY <1>2, <1>3, <2>1 DEF HandleResponseRetriable
<1>4. CASE HandleResponseFatal(c)
  BY <1>2, <1>4 DEF HandleResponseFatal
<1>5. CASE DiscardResponse(c)
  <2>1. /\ connection # c /\ responses' = [responses EXCEPT ![c] = Tail(@)]
        /\ UNCHANGED <<producerVars, networkVars>>
    BY <1>5 DEF DiscardResponse
  <2>2. UNCHANGED <<buf, connection, retry_tref, delay, sending, conns, net>>
    BY <2>1 DEF producerVars, networkVars
  <2>3. connection # 0 => responses'[connection] = responses[connection]
    <3>1. connection # 0 => connection \in Conn
      BY DEF Base, IInv, TypeOK, ProducerTypeOK
    <3> QED
      BY <2>1, <3>1, FlightTypes
  <2>4. WireAlone /\ Wakeful'
    BY <2>2, <2>3 DEF WireAlone, Wakeful, Awake
  <2> QED
    BY <2>4, AloneAnswerable DEF Awake
<1> QED
  BY <1>3, <1>4, <1>5

LEMMA AckAwake ==
  ASSUME Base, Awake, NEW c \in Conn, HandleResponseOk(c)
  PROVE  Awake'
<1> DEFINE r == Head(responses[c])
           w == buf.onwire
           v == buf'.onwire
<1>1. CASE Ends("function_clause")
  BY <1>1, EndsAwake DEF Ends
<1>2. CASE ~Ends("function_clause")
  <2>1. PICK k \in 1..Wire :
          /\ responses[c] # <<>> /\ HeadRefIs(buf, r.ref) /\ IsHeadBatch(buf, k)
          /\ buf' = Ack(buf, k) /\ MaybeProduce(Ack(buf, k), retry_tref, delay)
          /\ responses' = [responses EXCEPT ![c] = Tail(@)]
          /\ connection = c /\ UNCHANGED <<net, conns, connection>>
    BY <1>2 DEF HandleResponseOk, Response, MaybeProduce, networkVars, Wire
  <2>2. Wakeful'
    <3>1. retry_tref \in BOOLEAN
      BY DEF Base, IInv, TypeOK, ProducerTypeOK
    <3> QED
      BY <2>1, <3>1, MaybeProduceWakeful
  <2>3. /\ Wire \in Nat /\ Wire' = Wire - k
        /\ \A j \in 1..(Wire - k) : v[j] = w[j + k]
    <3>1. buf \in Buffers
      BY DEF Base, IInv, TypeOK, ProducerTypeOK
    <3> QED
      BY <2>1, <3>1, AckMoves, WireOrdered DEF Wire
  <2>4. /\ responses[c] \in Seq(AnswerType) /\ Len(responses[c]) \in Nat
        /\ responses'[c] = Tail(responses[c])
    BY <2>1, FlightTypes
  <2>5. /\ Len(Tail(responses[c])) = Len(responses[c]) - 1
        /\ \A i \in 1..Len(Tail(responses[c])) : Tail(responses[c])[i] = responses[c][i + 1]
        /\ r = responses[c][1]
    BY <2>1, <2>4, HeadTailProperties
  <2>6. ASSUME NEW j \in 1..(Wire - k), NEW ref, ref = v[j].ref
        PROVE  connection # 0 /\ (conns[connection] = "dead" \/ InFlightOn(connection, ref)')
    <3>1. PICK i \in 1..Wire : i = j + k /\ k < i
      <4>1. j + k \in 1..Wire /\ k < j + k
        BY <2>3
      <4> QED
        BY <4>1
    <3>2. ref = w[i].ref /\ ref # r.ref
      BY <2>1, <2>3, <2>6, <3>1, BehindHead DEF HeadRefIs
    <3>3. connection # 0 /\ (conns[connection] = "dead" \/ InFlightOn(connection, ref))
      BY <3>2 DEF Awake, Answerable
    <3>4. CASE \E l \in 1..Len(responses[c]) : responses[c][l].ref = ref
      <4>1. PICK l \in 1..Len(responses[c]) : responses[c][l].ref = ref
        BY <3>4
      <4>2. l # 1
        BY <2>5, <3>2, <4>1
      <4>3. PICK m \in 1..Len(Tail(responses[c])) : m + 1 = l
        <5>1. l - 1 \in 1..(Len(responses[c]) - 1) /\ (l - 1) + 1 = l
          BY <2>4, <4>2
        <5> QED
          BY <2>5, <5>1
      <4>4. responses'[c][m].ref = ref /\ m \in 1..Len(responses'[c])
        BY <2>4, <2>5, <4>1, <4>3
      <4> QED
        BY <2>1, <3>3, <4>4 DEF InFlightOn
    <3>5. CASE \E l \in 1..Len(net[c]) : net[c][l].ref = ref
      BY <2>1, <3>3, <3>5 DEF InFlightOn
    <3> QED
      BY <2>1, <3>3, <3>4, <3>5 DEF InFlightOn
  <2>7. Answerable'
    <3>1. connection' = connection /\ conns' = conns
      BY <2>1
    <3> QED
      BY <2>3, <2>6, <3>1 DEF Answerable
  <2> QED
    BY <2>2, <2>7 DEF Awake
<1> QED
  BY <1>1, <1>2

LEMMA SendFailedAwake ==
  ASSUME Base, Awake, NEW n \in Req, SendError(n) \/ SendLost(n)
  PROVE  Awake'
<1> DEFINE t == TakeReqs(buf, n)
           e == Batch(buf, n)
           b == Rebuffer(t, e)
<1>1. TakeBatch(n) /\ SendFailed(n)
  BY DEF SendError, SendLost
<1>2. CASE Exit("reached_max_retries")
  BY <1>2, EndsAwake
<1>3. CASE buf' = b /\ retry_tref' = TRUE /\ UNCHANGED <<connection, mailboxVars>>
  <2>1. n \in 1..Len(Waiting(buf)) /\ buf \in Buffers /\ Counted(buf)
    BY <1>1, TakeBatchFacts DEF Base, WellKept
  <2>2. t \in Buffers /\ e \in Seq(Req) /\ t.onwire = buf.onwire
    BY <2>1, TakeReqsLemma
  <2> HIDE DEF t, e
  <2>3. b.onwire = t.onwire
    BY <2>2, RebufferMoves
  <2> HIDE DEF b
  <2>4. buf'.onwire = buf.onwire
    BY <1>3, <2>2, <2>3
  <2>5. connection # 0 => conns'[connection] = "dead"
    <3>1. /\ connection \in Conn \cup {0}
          /\ conns \in [Conn -> {"new", "up", "dead"}]
      BY DEF Base, IInv, TypeOK, ProducerTypeOK, NetworkTypeOK
    <3> QED
      BY <3>1 DEF SendError, SendLost, networkVars
  <2>6. WireAlone
    BY <1>3, <2>4, <2>5 DEF WireAlone
  <2>7. Wakeful'
    BY <1>3 DEF Wakeful
  <2> QED
    BY <2>6, <2>7, AloneAnswerable DEF Awake
<1> QED
  BY <1>1, <1>2, <1>3 DEF SendFailed

LEMMA SendOkAwake ==
  ASSUME Base, Awake, NEW n \in Req, SendOk(n)
  PROVE  Awake'
<1> DEFINE t == TakeReqs(buf, n)
           e == Batch(buf, n)
           b == PutOnWire(t, e, next_ref)
           w == buf.onwire
           v == b.onwire
<1>1. /\ TakeBatch(n) /\ connection # 0 /\ connection' = connection
      /\ net' = [net EXCEPT ![connection] = Append(@, Packet(n))]
      /\ buf' = b /\ sending' = CanTake(b)
      /\ UNCHANGED <<responses, conns>>
  BY DEF SendOk, mailboxVars
<1>2. n \in 1..Len(Waiting(buf)) /\ buf \in Buffers /\ Counted(buf) /\ connection \in Conn
  BY <1>1, TakeBatchFacts DEF Base, WellKept, IInv, TypeOK, ProducerTypeOK
<1>3. Wakeful'
  BY <1>1 DEF Wakeful
<1>4. /\ Wire \in Nat /\ n \in Nat /\ next_ref \in Nat
      /\ Len(v) = Wire + n
      /\ \A k \in 1..Wire : v[k] = w[k]
      /\ \A k \in (Wire + 1)..(Wire + n) : v[k].ref = next_ref
  <2>1. t \in Buffers /\ e \in Seq(Req) /\ Len(e) = n /\ t.onwire = buf.onwire
    BY <1>2, TakeReqsLemma
  <2>2. next_ref \in Nat /\ Wire \in Nat /\ n \in Nat
    BY <1>2, WireOrdered, BatchFollowsWire
  <2> HIDE DEF t, e
  <2>3. /\ Len(b.onwire) = Len(t.onwire) + Len(e)
        /\ \A k \in 1..Len(t.onwire) : b.onwire[k] = t.onwire[k]
        /\ \A k \in (Len(t.onwire) + 1)..(Len(t.onwire) + Len(e)) :
             b.onwire[k].ref = next_ref
    BY ZenonT(60), <2>1, <2>2, PutOnWireMoves
  <2> HIDE DEF b
  <2> QED
    BY <2>1, <2>2, <2>3 DEF Wire
<1>5. /\ \A j \in 1..Len(net[connection]) :
           \E k \in 1..Len(net'[connection]) : net'[connection][k] = net[connection][j]
      /\ \E k \in 1..Len(net'[connection]) : net'[connection][k].ref = next_ref
  <2>1. Packet(n) \in FlightType /\ Packet(n).ref = next_ref
    BY <1>2, BatchFollowsWire, FlightTypes DEF Packet, FlightType
  <2>2. net'[connection] = Append(net[connection], Packet(n))
    BY <1>1, <1>2, FlightTypes
  <2>3. net[connection] \in Seq(FlightType)
    BY <1>2, FlightTypes
  <2> QED
    BY SMTT(30), <2>1, <2>2, <2>3, Appended
<1>6. ASSUME NEW k \in 1..(Wire + n), NEW ref, ref = v[k].ref
      PROVE  conns[connection] = "dead" \/ InFlightOn(connection, ref)'
  <2> HIDE DEF v
  <2>1. CASE k \in 1..Wire
    <3>1. ref = w[k].ref
      BY <1>4, <1>6, <2>1
    <3>2. conns[connection] = "dead" \/ InFlightOn(connection, ref)
      BY <2>1, <3>1 DEF Awake, Answerable
    <3> QED
      BY <1>1, <1>5, <3>2 DEF InFlightOn
  <2>2. CASE ~(k \in 1..Wire)
    <3>1. k \in (Wire + 1)..(Wire + n)
      BY <1>4, <2>2
    <3>2. ref = next_ref
      BY <1>4, <1>6, <3>1
    <3> QED
      BY <1>1, <1>5, <3>2 DEF InFlightOn
  <2> QED
    BY <2>1, <2>2
<1>7. Answerable'
  <2>1. /\ connection' = connection /\ connection # 0 /\ conns' = conns
        /\ buf'.onwire = v /\ Wire' = Wire + n
    BY <1>1, <1>4 DEF Wire
  <2> HIDE DEF v
  <2> QED
    BY <1>6, <2>1 DEF Answerable
<1> QED
  BY <1>3, <1>7 DEF Awake

\* Nothing travels on a connection that was never opened.
Unopened == \A c \in Conn : conns[c] = "new" => net[c] = <<>>

LEMMA NothingUnopened == Spec => []Unopened
<1>1. Init => Unopened
  BY DEF Init, Unopened
<1>2. Base /\ Unopened /\ [Next]_vars => Unopened'
  <2> SUFFICES ASSUME Base, Unopened, [Next]_vars
               PROVE  Unopened'
    OBVIOUS
  <2>1. /\ conns \in [Conn -> {"new", "up", "dead"}]
        /\ net \in [Conn -> Seq(FlightType)]
    BY FlightTypes DEF Base, IInv, TypeOK, NetworkTypeOK
  <2>2. CASE UNCHANGED <<conns, net>>
    BY <2>2 DEF Unopened
  <2>3. ASSUME NEW c \in Conn \cup {0}, GetLeaderConnection(c), UNCHANGED net
        PROVE  Unopened'
    BY <2>1, <2>3 DEF GetLeaderConnection, Unopened
  <2>4. CASE UNCHANGED vars
    BY <2>2, <2>4 DEF vars, networkVars
  <2>5. CASE CallerNext
    BY <2>2, <2>5 DEF CallerNext, Submit, CallerBuffered, CallerDown, networkVars
  <2>6. ASSUME NEW c \in Conn \cup {0}, HandleProduce(c) \/ HandleRetry(c)
        PROVE  Unopened'
    BY <2>2, <2>3, <2>6 DEF HandleProduce, HandleRetry
  <2>7. ASSUME NEW c \in Conn,
               \/ HandleResponseOk(c) \/ HandleResponseRetriable(c)
               \/ HandleResponseFatal(c) \/ DiscardResponse(c)
        PROVE  Unopened'
    BY <2>2, <2>7 DEF HandleResponseOk, HandleResponseRetriable, HandleResponseFatal,
                      DiscardResponse, networkVars
  <2>8. CASE HandleDown \/ HandleDelayedSend \/ Linger
    BY <2>2, <2>8 DEF HandleDown, HandleDelayedSend, Linger, networkVars
  <2>9. ASSUME NEW n \in Req, SendOk(n) \/ SendError(n) \/ SendLost(n)
        PROVE  Unopened'
    <3>1. CASE SendError(n)
      BY <2>2, <3>1 DEF SendError, networkVars
    <3>2. CASE SendOk(n) \/ SendLost(n)
      <4>1. /\ conns[connection] = "up"
            /\ net' = [net EXCEPT ![connection] = Append(@, Packet(n))]
            /\ conns' = conns \/ conns' = [conns EXCEPT ![connection] = "dead"]
        BY <3>2 DEF SendOk, SendLost
      <4> QED
        BY <2>1, <4>1 DEF Unopened
    <3> QED
      BY <2>9, <3>1, <3>2
  <2>10. CASE EnvironmentNext
    <3>1. CASE DelayTimerFires \/ Stop \/ Restart
      BY <2>2, <3>1 DEF DelayTimerFires, Stop, Restart, networkVars
    <3>2. ASSUME NEW c \in Conn, ConnectionDies(c) \/ ClientSeesExit(c) \/ InFlightLost(c)
          PROVE  Unopened'
      BY <2>1, <3>2 DEF ConnectionDies, ClientSeesExit, InFlightLost, Unopened
    <3>3. ASSUME NEW c \in Conn, NEW out \in Outcomes, BrokerHandles(c, out)
          PROVE  Unopened'
      BY <2>1, <3>3 DEF BrokerHandles, Unopened
    <3> QED
      BY <2>10, <3>1, <3>2, <3>3 DEF EnvironmentNext
  <2> QED
    BY <2>4, <2>5, <2>6, <2>7, <2>8, <2>9, <2>10 DEF Next, HandlerNext, SendNext
<1> QED
  BY <1>1, <1>2, Based, PTL DEF Spec

\* What the broker takes from the connection in use it answers there: a
\* packet that is on wire is of this incarnation of the producer.
LEMMA BrokerAwake ==
  ASSUME Base, Traced, LostSettled, Unopened, Awake,
         NEW c \in Conn, NEW out \in Outcomes, BrokerHandles(c, out)
  PROVE  Awake'
<1> DEFINE p == Head(net[c])
           r == [ref |-> p.ref, code |-> Code(out), base |-> Len(log)]
           w == buf.onwire
<1>1. /\ net[c] # <<>> /\ net' = [net EXCEPT ![c] = Tail(@)]
      /\ responses' = IF conns[c] = "up" /\ p.reqs[1] > lostTo
                      THEN [responses EXCEPT ![c] = Append(@, r)]
                      ELSE responses
      /\ UNCHANGED <<buf, connection, retry_tref, delay, sending, conns>>
  BY DEF BrokerHandles, producerVars
<1>2. Wakeful'
  BY <1>1 DEF Awake, Wakeful
<1>3. /\ net \in [Conn -> Seq(FlightType)] /\ responses \in [Conn -> Seq(AnswerType)]
      /\ net[c] \in Seq(FlightType) /\ Len(net[c]) \in Nat
      /\ responses[c] \in Seq(AnswerType) /\ connection \in Conn \cup {0}
      /\ conns \in [Conn -> {"new", "up", "dead"}]
  BY FlightTypes DEF Base, IInv, TypeOK, ProducerTypeOK, NetworkTypeOK
<1>4. CASE c # connection \/ conns[c] # "up"
  <2>1. c = connection => conns[c] = "dead"
    BY <1>1, <1>3, <1>4 DEF Unopened
  <2>2. c # connection /\ connection # 0 =>
          net'[connection] = net[connection] /\ responses'[connection] = responses[connection]
    BY <1>1, <1>3
  <2>3. WireAlone
    BY <1>1, <1>3, <2>1, <2>2 DEF WireAlone
  <2> QED
    BY <1>2, <2>3, AloneAnswerable DEF Awake
<1>5. CASE c = connection /\ conns[c] = "up"
  <2>1. /\ p = net[c][1] /\ 1 \in 1..Len(net[c]) /\ p \in FlightType /\ PacketTraced(p)
        /\ Len(Tail(net[c])) = Len(net[c]) - 1
        /\ \A i \in 1..Len(Tail(net[c])) : Tail(net[c])[i] = net[c][i + 1]
    <3>1. 1 \in 1..Len(net[c]) /\ p = net[c][1]
      BY <1>1, <1>3, EmptySeq
    <3>2. net[c][1] \in FlightType
      BY <1>3, <3>1, ElementOfSeq
    <3>3. /\ Len(Tail(net[c])) = Len(net[c]) - 1
          /\ \A i \in 1..Len(Tail(net[c])) : Tail(net[c])[i] = net[c][i + 1]
      BY <1>1, <1>3, HeadTailProperties
    <3> QED
      BY <3>1, <3>2, <3>3 DEF Traced
  <2>2. ASSUME NEW k \in 1..Wire, w[k].ref = p.ref
        PROVE  p.reqs[1] > lostTo
    <3>1. PICK a \in Req, m \in Nat : /\ Len(p.reqs) = m
                                      /\ \A j \in 1..m : p.reqs[j] = a + j - 1
                                      /\ Carries(p.ref, a, m)
      BY <2>1 DEF PacketTraced
    <3>2. a - done \in 1..k /\ done + k < a + m
      BY <2>2, <3>1 DEF Carries
    <3>3. done \in Nat /\ lostTo \in Nat /\ lostTo <= done /\ a \in Nat /\ Wire \in Nat
      BY WireOrdered DEF LostSettled, Base, IInv, TypeOK, HistoryTypeOK, Req
    <3>4. 1 \in 1..m /\ a > lostTo
      BY <3>2, <3>3
    <3>5. p.reqs[1] = a + 1 - 1
      BY <3>1, <3>4
    <3> QED
      BY <3>3, <3>4, <3>5
  <2>3. r \in AnswerType
    <3>1. p.ref \in Nat
      BY <2>1 DEF FlightType
    <3>2. Code(out) \in {"ok", "retriable", "fatal"}
      BY EnvironmentAssumption DEF Code, Outcomes
    <3> QED
      BY <3>1, <3>2, FlightTypes DEF AnswerType
  <2>4. /\ \A j \in 1..Len(responses[c]) :
             \E k \in 1..Len(Append(responses[c], r)) : Append(responses[c], r)[k] = responses[c][j]
        /\ \E k \in 1..Len(Append(responses[c], r)) : Append(responses[c], r)[k] = r
    <3> DEFINE s == responses[c]
    <3>1. s \in Seq(AnswerType)
      BY <1>3
    <3> HIDE DEF r, s
    <3>2. \A j \in 1..Len(s) : \E k \in 1..Len(Append(s, r)) : Append(s, r)[k] = s[j]
      BY SMTT(60), <2>3, <3>1, Appended
    <3>3. \E k \in 1..Len(Append(s, r)) : Append(s, r)[k] = r
      BY SMTT(60), <2>3, <3>1, Appended
    <3> QED
      BY <3>2, <3>3 DEF s
  <2>5. ASSUME NEW k \in 1..Wire, NEW ref, ref = w[k].ref
        PROVE  connection # 0 /\ InFlightOn(connection, ref)'
    <3>1. connection # 0 /\ InFlightOn(connection, ref)
      BY <1>5, <2>5 DEF Awake, Answerable
    <3>2. CASE p.ref = ref
      <4>1. responses'[c] = Append(responses[c], r)
        BY <1>1, <1>3, <1>5, <2>2, <2>5, <3>2
      <4>2. r.ref = ref
        BY <3>2
      <4> HIDE DEF r
      <4> QED
        BY SMTT(60), <1>1, <1>5, <2>4, <3>1, <4>1, <4>2 DEF InFlightOn
    <3>3. CASE p.ref # ref /\ \E l \in 1..Len(net[c]) : net[c][l].ref = ref
      <4>1. PICK l \in 1..Len(net[c]) : net[c][l].ref = ref
        BY <3>3
      <4>2. l # 1
        BY <2>1, <3>3, <4>1
      <4>3. PICK m \in 1..Len(Tail(net[c])) : m + 1 = l
        <5>1. l - 1 \in 1..(Len(net[c]) - 1) /\ (l - 1) + 1 = l
          BY <1>3, <4>2
        <5> QED
          BY <2>1, <5>1
      <4>4. net'[c][m].ref = ref /\ m \in 1..Len(net'[c])
        BY <1>1, <1>3, <2>1, <4>1, <4>3
      <4> QED
        BY <1>1, <1>5, <3>1, <4>4 DEF InFlightOn
    <3>4. CASE \E l \in 1..Len(responses[c]) : responses[c][l].ref = ref
      <4>1. PICK l \in 1..Len(responses[c]) : responses[c][l].ref = ref
        BY <3>4
      <4>2. responses'[c] = responses[c] \/ responses'[c] = Append(responses[c], r)
        BY <1>1, <1>3
      <4> HIDE DEF r
      <4> QED
        BY SMTT(60), <1>1, <1>5, <2>4, <3>1, <4>1, <4>2 DEF InFlightOn
    <3> QED
      BY <1>5, <3>1, <3>2, <3>3, <3>4 DEF InFlightOn
  <2>6. Answerable'
    <3>1. connection' = connection /\ conns' = conns /\ buf' = buf /\ Wire' = Wire
      BY <1>1 DEF Wire
    <3> QED
      BY <2>5, <3>1 DEF Answerable
  <2> QED
    BY <1>2, <2>6 DEF Awake
<1> QED
  BY <1>4, <1>5

LEMMA AwakeStep ==
  Base /\ Traced /\ LostSettled /\ Unopened /\ Awake /\ [Next]_vars => Awake'
<1> SUFFICES ASSUME Base, Traced, LostSettled, Unopened, Awake, [Next]_vars
             PROVE  Awake'
  OBVIOUS
<1>1. /\ connection \in Conn \cup {0} /\ conns \in [Conn -> {"new", "up", "dead"}]
      /\ net \in [Conn -> Seq(FlightType)] /\ retry_tref \in BOOLEAN
  BY FlightTypes DEF Base, IInv, TypeOK, ProducerTypeOK, NetworkTypeOK
<1>2. CASE /\ UNCHANGED <<buf, connection, conns, net, responses>>
           /\ Wakeful'
  <2>1. WireAlone
    BY <1>2 DEF WireAlone
  <2> QED
    BY <1>2, <2>1, AloneAnswerable DEF Awake
<1>3. CASE UNCHANGED <<buf, connection, conns, net, responses, retry_tref, delay, sending>>
  BY <1>2, <1>3 DEF Awake, Wakeful
<1>4. CASE UNCHANGED vars
  BY <1>3, <1>4 DEF vars, producerVars, networkVars, mailboxVars
<1>5. CASE CallerNext
  BY <1>3, <1>5 DEF CallerNext, Submit, CallerBuffered, CallerDown, producerVars, networkVars,
                    mailboxVars
<1>6. CASE HandleDelayedSend
  <2>1. MaybeProduce(buf, retry_tref, NoTimer) /\ UNCHANGED <<connection, conns, net, responses>>
    BY <1>6 DEF HandleDelayedSend, networkVars, mailboxVars
  <2>2. Wakeful' /\ buf' = buf
    BY <1>1, <2>1, MaybeProduceWakeful DEF MaybeProduce
  <2> QED
    BY <1>2, <2>1, <2>2
<1>7. CASE Linger
  <2>1. UNCHANGED <<buf, connection, conns, net, responses>> /\ delay'.state = "armed"
    BY <1>7 DEF Linger, networkVars, mailboxVars
  <2> QED
    BY <1>2, <2>1 DEF Wakeful
<1>8. CASE EnvironmentNext
  <2>1. CASE Stop
    BY <2>1, EndsAwake DEF Stop, Ends
  <2>2. CASE DelayTimerFires
    <3>1. /\ UNCHANGED <<buf, connection, conns, net, responses>>
          /\ delay' = [delay EXCEPT !.state = "fired"]
      BY <2>2 DEF DelayTimerFires, networkVars, mailboxVars
    <3>2. delay'.state = "fired"
      BY <3>1 DEF Base, IInv, TypeOK, ProducerTypeOK
    <3> QED
      BY <1>2, <3>1, <3>2 DEF Wakeful
  <2>3. CASE Restart
    BY <1>3, <2>3 DEF Restart, networkVars, mailboxVars
  <2>4. ASSUME NEW c \in Conn, ConnectionDies(c) \/ ClientSeesExit(c) \/ InFlightLost(c)
        PROVE  Awake'
    <3>1. /\ UNCHANGED <<buf, connection, responses, retry_tref, delay, sending>>
          /\ \/ conns' = [conns EXCEPT ![c] = "dead"] /\ net' = net
             \/ conns' = conns /\ net' = net
             \/ conns[c] = "dead" /\ conns' = conns /\ net' = [net EXCEPT ![c] = <<>>]
      BY <2>4 DEF ConnectionDies, ClientSeesExit, InFlightLost, producerVars, mailboxVars
    <3>2. WireAlone
      BY <1>1, <3>1 DEF WireAlone
    <3>3. Wakeful'
      BY <3>1 DEF Awake, Wakeful
    <3> QED
      BY <3>2, <3>3, AloneAnswerable DEF Awake
  <2> QED
    BY <1>8, <2>1, <2>2, <2>3, <2>4, BrokerAwake DEF EnvironmentNext
<1> QED
  BY <1>4, <1>5, <1>6, <1>7, <1>8, HandleProduceAwake, HandleRetryAwake, HandleDownAwake,
     OtherResponsesAwake, AckAwake, SendOkAwake, SendFailedAwake DEF Next, HandlerNext, SendNext

LEMMA AwakeAlways == Spec => []Awake
<1>1. Init => Awake
  <2> SUFFICES ASSUME Init PROVE Awake
    OBVIOUS
  <2>1. Wakeful
    BY NothingToTake DEF Wakeful, Init
  <2>2. Wire = 0
    BY EmptySeq DEF Init, NewBuffer, Wire
  <2>3. 1..Wire = {}
    BY <2>2
  <2> QED
    BY <2>1, <2>3 DEF Awake, Answerable
<1> QED
  BY <1>1, AwakeStep, Based, DeliveredAlways, LostIsSettled, NothingUnopened, PTL
     DEF Spec, Delivered

LEMMA AwakeMeans == Base /\ Awake => NoLostWakeup
<1> SUFFICES ASSUME Base, Awake, up, ~sending, ~IsEmpty(buf)
             PROVE  \/ retry_tref
                    \/ delay.state \in {"armed", "fired"}
                    \/ connection # 0 /\ conns[connection] = "dead"
                    \/ /\ connection # 0
                       /\ buf.onwire # <<>>
                       /\ InFlightOn(connection, buf.onwire[1].ref)
  BY DEF NoLostWakeup
<1>1. CASE buf.onwire # <<>>
  <2>1. Wire \in Nat /\ Wire # 0
    <3>1. buf.onwire \in Seq([ref : Nat, req : Req])
      BY DEF Base, IInv, TypeOK, ProducerTypeOK, Buffers
    <3> QED
      BY <1>1, <3>1, EmptySeq, LenProperties DEF Wire
  <2>2. 1 \in 1..Wire
    BY <2>1
  <2> QED
    BY <1>1, <2>2 DEF Awake, Answerable
<1>2. CASE buf.onwire = <<>>
  <2>1. buf.onwire_count = 0
    <3>1. Len(buf.onwire) = 0
      BY <1>2, EmptySeq
    <3>2. 1..Len(buf.onwire) = {}
      BY <3>1
    <3>3. Refs(buf) = {}
      BY <3>2 DEF Refs
    <3> QED
      BY <3>3, FS_EmptySet DEF Base, IInv, WellKept, WireCounted
  <2>2. CanTake(buf)
    BY <1>2, <2>1, ConfigAssumption DEF CanTake, IsEmpty
  <2> QED
    BY <2>2 DEF Awake, Wakeful
<1> QED
  BY <1>1, <1>2

(***************************************************************************)
(* No lost wakeup: an idle producer that holds requests has a timer        *)
(* running, or everything on its wire travels on the connection it listens *)
(* to, or that connection is dead and its DOWN is due - through failed     *)
(* sends, discarded responses, retries, a lingering batch that is dropped  *)
(* with its timer, changes of leader and restarts.                         *)
(***************************************************************************)
THEOREM NoWakeupLost == Spec => []NoLostWakeup
  BY Based, AwakeAlways, AwakeMeans, PTL
=============================================================================
