--------------------------- MODULE ProducerBuffer ---------------------------
(***************************************************************************)
(* brod_producer_buffer.erl: the buffer one partition producer keeps.      *)
(*                                                                         *)
(* The module is purely functional, as the Erlang one: every operator      *)
(* takes the buffer record and returns the new one.  A produce request is  *)
(* its number in order of arrival; Size gives the bytes of its data.       *)
(*                                                                         *)
(*   pending       requests whose callers are still blocked                *)
(*   buffer        requests whose callers were answered 'buffered'         *)
(*   buffer_count  the counter the code keeps beside that queue            *)
(*   onwire        requests sent and not answered; the code's list of      *)
(*                 {Ref, [Req]} is kept flat, each request with the        *)
(*                 reference of the Kafka request it travelled in          *)
(*   onwire_count  number of Kafka requests on wire                        *)
(*   failures      failed sending attempts of each request                 *)
(*                                                                         *)
(* The recursive loops of the code (maybe_buffer/1, take_reqs_loop/3) are  *)
(* given here by what they compute; module BufferLoops has the loops and   *)
(* TLC compares the two.                                                   *)
(***************************************************************************)
EXTENDS Integers, Sequences, FiniteSets

CONSTANTS
  MaxReqs,       \* bound: number of produce requests
  Size,          \* bytes of each request
  BufferLimit,   \* partition_buffer_limit
  OnWireLimit,   \* partition_onwire_limit
  MaxBatchSize,  \* max_batch_size, in bytes
  MaxRetries,    \* max_retries; negative: retry for ever
  Lingering,     \* max_linger_ms > 0
  MaxLingerCount \* max_linger_count as configured

Req == 1..MaxReqs

ASSUME ConfigAssumption ==
  /\ MaxReqs \in Nat
  /\ Size \in [1..MaxReqs -> Nat]
  /\ BufferLimit \in Nat \ {0}
  /\ OnWireLimit \in Nat \ {0}
  /\ MaxBatchSize \in Nat \ {0}
  /\ MaxRetries \in Int
  /\ Lingering \in BOOLEAN
  /\ MaxLingerCount \in Nat

Lesser(a, b) == IF a < b THEN a ELSE b
Greater(a, b) == IF a < b THEN b ELSE a

\* new/7 caps the linger count by the buffer limit.
LingerCount == Lesser(BufferLimit, MaxLingerCount)

Buffers ==
  [ pending : Seq(Req), buffer : Seq(Req), buffer_count : Nat,
    onwire : Seq([ref : Nat, req : Req]), onwire_count : Nat,
    failures : [Req -> Nat] ]

NewBuffer ==
  [ pending |-> <<>>, buffer |-> <<>>, buffer_count |-> 0,
    onwire |-> <<>>, onwire_count |-> 0, failures |-> [i \in Req |-> 0] ]

(***************************************************************************)
(* maybe_buffer/1 moves requests from pending to buffer until the buffer   *)
(* counts buffer_limit of them, answering 'buffered' to each.              *)
(***************************************************************************)
Room(b) ==
  IF b.buffer_count < BufferLimit
  THEN Lesser(Len(b.pending), BufferLimit - b.buffer_count)
  ELSE 0

MaybeBuffer(b) ==
  LET m == Room(b)
  IN  [b EXCEPT !.pending = SubSeq(@, m + 1, Len(@)),
                !.buffer = @ \o SubSeq(b.pending, 1, m),
                !.buffer_count = @ + m]

\* The requests MaybeBuffer(b) answers.
BufferedBy(b) == {b.pending[k] : k \in 1..Room(b)}

\* add/3
Add(b, i) ==
  MaybeBuffer([b EXCEPT !.pending = Append(@, i), !.failures[i] = 0])

\* Mutant of BufferedByAdd: answer every caller at once, full or not.
BufferedByAddAlways(b, i) == {i}

BufferedByAdd(b, i) == BufferedBy([b EXCEPT !.pending = Append(@, i)])

IsEmpty(b) == b.pending = <<>> /\ b.buffer = <<>> /\ b.onwire = <<>>

\* Mutant of CanTake: one request on wire too many.
CanTakeOneMore(b) ==
  /\ b.onwire_count <= OnWireLimit
  /\ b.buffer # <<>> \/ b.pending # <<>>

(***************************************************************************)
(* take_reqs/1: nothing to take when the wire is full or no request waits; *)
(* a batch may linger when the buffer counts less than LingerCount.        *)
(***************************************************************************)
CanTake(b) ==
  /\ b.onwire_count < OnWireLimit
  /\ b.buffer # <<>> \/ b.pending # <<>>

MayLinger(b) == Lingering /\ MaybeBuffer(b).buffer_count < LingerCount

Waiting(b) == b.buffer \o b.pending

Bytes(s, n) ==
  LET upTo[k \in 0..n] == IF k = 0 THEN 0 ELSE upTo[k - 1] + Size[s[k]]
  IN  upTo[n]

\* take_reqs_loop/3 accumulates requests while they fit in max_batch_size,
\* and takes the first one whatever its size.
IsBatch(b, n) ==
  LET q == Waiting(b)
  IN  /\ n \in 1..Len(q)
      /\ n > 1 => Bytes(q, n) <= MaxBatchSize
      /\ n < Len(q) => Bytes(q, n + 1) > MaxBatchSize

Batch(b, n) == SubSeq(Waiting(b), 1, n)

\* Mutant of LeftInBuffer: no maybe_buffer/1 after the batch was taken.
LeftInBufferNoRefill(b, n) == Greater(b.buffer_count - n, 0)

\* What the buffer still counts once n requests were taken: what was above
\* the limit stays, below it pending requests fill the places left.
LeftInBuffer(b, n) ==
  Greater(b.buffer_count - n, Lesser(BufferLimit, Len(Waiting(b)) - n))

\* Mutant of TakeReqs: the last request taken stays in the queue.
TakeReqsKeepsLast(b, n) ==
  LET q == Waiting(b)
      left == LeftInBuffer(b, n)
  IN  [b EXCEPT !.buffer = SubSeq(q, n, n + left),
                !.pending = SubSeq(q, n + left + 1, Len(q)),
                !.buffer_count = left]

TakeReqs(b, n) ==
  LET q == Waiting(b)
      left == LeftInBuffer(b, n)
  IN  [b EXCEPT !.buffer = SubSeq(q, n + 1, n + left),
                !.pending = SubSeq(q, n + left + 1, Len(q)),
                !.buffer_count = left]

\* The pending requests answered 'buffered' on the way.
BufferedByTake(b, n) ==
  {Waiting(b)[k] : k \in Len(b.buffer) + 1 .. n + LeftInBuffer(b, n)}

\* do_send/4 when the connection took the request: remember it by reference.
PutOnWire(b, reqs, ref) ==
  [b EXCEPT !.onwire = @ \o [k \in 1..Len(reqs) |-> [ref |-> ref, req |-> reqs[k]]],
            !.onwire_count = @ + 1]

\* Mutant of ReachedMaxRetries: one retry too many.
ReachedMaxRetriesLate(b, reqs) ==
  reqs # <<>> /\ MaxRetries >= 0 /\ b.failures[reqs[1]] > MaxRetries

(***************************************************************************)
(* rebuffer_or_crash/3 looks at the failures of the first request only.    *)
(* Nothing reads the failures when max_retries is negative: they are then  *)
(* not counted, which keeps the state finite.                              *)
(***************************************************************************)
ReachedMaxRetries(b, reqs) ==
  reqs # <<>> /\ MaxRetries >= 0 /\ b.failures[reqs[1]] >= MaxRetries

\* Mutants of Rebuffer: put back at the tail; not counted.
RebufferAtTail(b, reqs) ==
  [b EXCEPT !.buffer = @ \o reqs,
            !.buffer_count = Len(reqs) + @,
            !.failures = [i \in Req |->
               IF MaxRetries >= 0 /\ \E k \in 1..Len(reqs) : reqs[k] = i
               THEN @[i] + 1
               ELSE @[i]]]

RebufferUncounted(b, reqs) ==
  [b EXCEPT !.buffer = reqs \o @,
            !.failures = [i \in Req |->
               IF MaxRetries >= 0 /\ \E k \in 1..Len(reqs) : reqs[k] = i
               THEN @[i] + 1
               ELSE @[i]]]

Rebuffer(b, reqs) ==
  [b EXCEPT !.buffer = reqs \o @,
            !.buffer_count = Len(reqs) + @,
            !.failures = [i \in Req |->
               IF MaxRetries >= 0 /\ \E k \in 1..Len(reqs) : reqs[k] = i
               THEN @[i] + 1
               ELSE @[i]]]

OnWireReqs(b) == [k \in 1..Len(b.onwire) |-> b.onwire[k].req]

\* nack_all/2: everything on wire goes back to the head of the buffer.
NackAllCrashes(b) == ReachedMaxRetries(b, OnWireReqs(b))

NackAll(b) ==
  Rebuffer([b EXCEPT !.onwire = <<>>, !.onwire_count = 0], OnWireReqs(b))

\* ack/3 and nack/3 match only the reference at the head of the wire.
HeadRefIs(b, ref) == b.onwire # <<>> /\ b.onwire[1].ref = ref

\* Mutant of IsHeadBatch: one answer settles the whole wire.
IsHeadBatchWholeWire(b, k) == k \in 1..Len(b.onwire) /\ k = Len(b.onwire)

\* The first k requests on wire are the ones that travelled with that head.
IsHeadBatch(b, k) ==
  /\ k \in 1..Len(b.onwire)
  /\ \A j \in 1..k : b.onwire[j].ref = b.onwire[1].ref
  /\ k < Len(b.onwire) => b.onwire[k + 1].ref # b.onwire[1].ref

\* Mutant of Ack: onwire_count counts requests instead of Kafka requests.
AckCountsRequests(b, k) ==
  [b EXCEPT !.onwire = SubSeq(@, k + 1, Len(@)), !.onwire_count = @ - k]

Ack(b, k) ==
  [b EXCEPT !.onwire = SubSeq(@, k + 1, Len(@)), !.onwire_count = @ - 1]

\* eval_acked/2, next_base_offset/2: each request of one message takes the
\* next offset after the base offset of the response.
AckedOffsets(b, k, base) ==
  [j \in 1..k |-> [req |-> b.onwire[j].req, offset |-> base + j - 1]]
=============================================================================
