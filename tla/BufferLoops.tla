---------------------------- MODULE BufferLoops ----------------------------
(***************************************************************************)
(* The loops of brod_producer_buffer.erl written as the code writes them,  *)
(* one request per turn and with the wire as a list of {Ref, [Req]}, to    *)
(* check that the closed forms of ProducerBuffer compute the same, on      *)
(* every buffer a producer has and on some that none ever has.  Only TLC   *)
(* uses this module (its operators are RECURSIVE).                         *)
(***************************************************************************)
EXTENDS BrodProducer, SequencesExt

\* maybe_buffer/1, with the requests answered in order.
RECURSIVE BufferLoop(_, _)
BufferLoop(b, answered) ==
  IF b.buffer_count < BufferLimit /\ b.pending # <<>>
  THEN BufferLoop([b EXCEPT !.buffer_count = @ + 1,
                            !.pending = Tail(@),
                            !.buffer = Append(@, Head(b.pending))],
                  Append(answered, Head(b.pending)))
  ELSE [buf |-> b, answered |-> answered]

\* take_reqs_loop/3 and take_reqs_loop_2/3
RECURSIVE TakeLoop(_, _, _, _), TakeLoop2(_, _, _, _)
TakeLoop(b, acc, accBytes, answered) ==
  IF b.buffer_count # 0 THEN TakeLoop2(b, acc, accBytes, answered)
  ELSE IF b.pending = <<>> THEN [reqs |-> acc, buf |-> b, answered |-> answered]
  ELSE LET r == BufferLoop(b, answered)
       IN  TakeLoop2(r.buf, acc, accBytes, r.answered)

TakeLoop2(b, acc, accBytes, answered) ==
  LET req == Head(b.buffer)
      batchSize == accBytes + Size[req]
  IN  IF acc # <<>> /\ batchSize > MaxBatchSize
      THEN LET r == BufferLoop(b, answered)
           IN  [reqs |-> acc, buf |-> r.buf, answered |-> r.answered]
      ELSE TakeLoop([b EXCEPT !.buffer_count = @ - 1, !.buffer = Tail(@)],
                    Append(acc, req), batchSize, answered)

\* take_reqs/1 without the linger check
TakeReqsLoop(b) ==
  LET r == BufferLoop(b, <<>>) IN TakeLoop(r.buf, <<>>, 0, r.answered)

\* eval_acked/2 folded over the requests of the acknowledged batch
RECURSIVE AckedLoop(_, _, _)
AckedLoop(reqs, offset, acc) ==
  IF reqs = <<>> THEN acc
  ELSE AckedLoop(Tail(reqs), offset + 1,
                 Append(acc, [req |-> Head(reqs), offset |-> offset]))

\* nack_all/2: flatten the wire, count a failure each, push to the front one
\* by one from the last.
PushAll(reqs, queue) == FoldRight(LAMBDA req, q : <<req>> \o q, reqs, queue)

RebufferLoop(b, reqs) ==
  [b EXCEPT !.buffer = PushAll(reqs, @),
            !.buffer_count = Len(reqs) + @,
            !.failures = [i \in Req |->
               IF MaxRetries >= 0 /\ Contains(reqs, i) THEN @[i] + 1 ELSE @[i]]]

WireReqs(wire) == FlattenSeq([k \in 1..Len(wire) |-> wire[k].reqs])

\* ProducerBuffer's flat view of the wire, the abstraction of the record.
Flat(b) ==
  [b EXCEPT !.onwire =
     FlattenSeq([k \in 1..Len(@) |->
        [j \in 1..Len(@[k].reqs) |-> [ref |-> @[k].ref, req |-> @[k].reqs[j]]]])]

\* The record of which b is the flat view.
Nested(b) ==
  LET put(wire, r) ==
        IF wire # <<>> /\ Last(wire).ref = r.ref
        THEN Append(Front(wire), [Last(wire) EXCEPT !.reqs = Append(@, r.req)])
        ELSE Append(wire, [ref |-> r.ref, reqs |-> <<r.req>>])
  IN  [b EXCEPT !.onwire = FoldLeft(put, <<>>, @)]

-----------------------------------------------------------------------------
Numbers(lo, hi) == [k \in 1..(hi - lo + 1) |-> lo + k - 1]

\* Every way of sharing out a queue between wire, buffer and pending,
\* reachable or not.
Splits ==
  {[NewBuffer EXCEPT !.onwire = IF wire = 0 THEN <<>> ELSE <<[ref |-> 1, reqs |-> Numbers(1, wire)]>>,
                     !.onwire_count = IF wire = 0 THEN 0 ELSE 1,
                     !.buffer = Numbers(wire + 1, split),
                     !.buffer_count = split - wire,
                     !.pending = Numbers(split + 1, n)] :
     <<wire, split, n>> \in {t \in (0..MaxReqs) \X (0..MaxReqs) \X (0..MaxReqs) :
                              t[1] <= t[2] /\ t[2] <= t[3]}}

-----------------------------------------------------------------------------
\* maybe_buffer/1 and add/3 as ProducerBuffer states them, the callers they
\* answer included.
MaybeBufferIsTheLoop(code) ==
  LET r == BufferLoop(code, <<>>)
  IN  /\ Flat(r.buf) = MaybeBuffer(Flat(code))
      /\ ToSet(r.answered) = BufferedBy(Flat(code))

\* The batch a turn takes is the one IsBatch describes, and no other; what
\* is left where, and which callers were answered, is what TakeReqs says.
TakeReqsIsTheLoop(code) ==
  CanTake(Flat(code)) =>
    LET r == TakeReqsLoop(code)
        b == Flat(code)
        n == Len(r.reqs)
    IN  /\ \A k \in 1..MaxReqs : IsBatch(b, k) <=> k = n
        /\ r.reqs = Batch(b, n)
        /\ Flat(r.buf) = TakeReqs(b, n)
        /\ ToSet(r.answered) = BufferedByTake(b, n)
        /\ IsInjective(r.answered)

\* Acknowledging the head of the nested wire is removing IsHeadBatch many
\* requests of the flat one, with the same offsets.
AckIsTheLoop(code) ==
  code.onwire # <<>> =>
    LET b == Flat(code)
        reqs == code.onwire[1].reqs
    IN  /\ \A k \in 1..MaxReqs : IsHeadBatch(b, k) <=> k = Len(reqs)
        /\ Ack(b, Len(reqs)) =
             Flat([code EXCEPT !.onwire = Tail(@), !.onwire_count = @ - 1])
        /\ AckedOffsets(b, Len(reqs), 7) = AckedLoop(reqs, 7, <<>>)

\* Putting the nested wire back is putting the flat one back.
NackAllIsTheLoop(code) ==
  NackAll(Flat(code)) =
    RebufferLoop([code EXCEPT !.onwire = <<>>, !.onwire_count = 0],
                 WireReqs(code.onwire))

\* The closed forms of ProducerBuffer compute what the loops of the code do:
\* on the buffer of every moment, and before the first request on all Splits.
ClosedFormsAreTheLoops ==
  \A code \in {Nested(buf)} \cup (IF last = 0 THEN Splits ELSE {}) :
    /\ MaybeBufferIsTheLoop(code)
    /\ TakeReqsIsTheLoop(code)
    /\ AckIsTheLoop(code)
    /\ NackAllIsTheLoop(code)
=============================================================================
