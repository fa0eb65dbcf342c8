--------------------------- MODULE BrodProducerAlone ---------------------------
(***************************************************************************)
(* What holds of a producer that has one Kafka request on wire at a time   *)
(* (partition_onwire_limit = 1, the limit the plugin leaves at its         *)
(* default), proved on top of BrodProducerDelivery: RetriesBounded from    *)
(* the invariant Falling, AnswersMatchTheWire from Alone, and the          *)
(* refinement of ProducePipe from Room1, LoggedMade and SettledLogged.     *)
(* The last part holds for any limit: NoDuplicateWithoutFault from         *)
(* Flawless and LoggedOnce.                                                *)
(***************************************************************************)
EXTENDS BrodProducerDelivery, WellFoundedInduction

-----------------------------------------------------------------------------
(***************************************************************************)
(* Failed attempts                                                         *)
(***************************************************************************)

\* Of the requests after d up to h none has failed more often than an older
\* one, and none too often.
Falls(f, d, h) ==
  /\ \A i, j \in Req : d < i /\ i <= j /\ j <= h => f[j] <= f[i]
  /\ MaxRetries >= 0 => \A i \in Req : d < i /\ i <= h => f[i] <= MaxRetries

\* With one Kafka request on wire this is so for all that the producer
\* holds, those included whose callers are still blocked.
Falling == OnWireLimit = 1 => Falls(buf.failures, done, Handled)

\* One failure more for the n requests after d.
Bumped(f, d, n) ==
  [i \in Req |-> IF MaxRetries >= 0 /\ d < i /\ i <= d + n THEN f[i] + 1 ELSE f[i]]

LEMMA FallsBumped ==
  ASSUME NEW f \in [Req -> Nat], NEW d \in Nat, NEW n \in Nat, NEW h \in Nat, h <= MaxReqs,
         Falls(f, d, h), d + n <= h,
         MaxRetries >= 0 /\ n > 0 => f[d + 1] < MaxRetries
  PROVE  Falls(Bumped(f, d, n), d, h) /\ Bumped(f, d, n) \in [Req -> Nat]
<1> DEFINE g == Bumped(f, d, n)
<1>1. /\ Req \subseteq Nat /\ MaxReqs \in Nat /\ MaxRetries \in Int
      /\ \A i \in Req : f[i] \in Nat
  BY ConfigAssumption DEF Req
<1>2. \A i \in Req : g[i] = IF MaxRetries >= 0 /\ d < i /\ i <= d + n THEN f[i] + 1 ELSE f[i]
  BY DEF Bumped
<1>3. g \in [Req -> Nat]
  BY <1>1 DEF Bumped
<1> HIDE DEF g
<1>4. ASSUME NEW i \in Req, NEW j \in Req, d < i, i <= j, j <= h
      PROVE  g[j] <= g[i]
  <2>1. f[j] <= f[i] /\ f[i] \in Nat /\ f[j] \in Nat
    BY <1>1, <1>4 DEF Falls
  <2>2. i \in Nat /\ j \in Nat /\ (j <= d + n => i <= d + n) /\ d < j
    BY <1>1, <1>4
  <2> QED
    BY <1>2, <1>4, <2>1, <2>2
<1>5. ASSUME MaxRetries >= 0, NEW i \in Req, d < i, i <= h
      PROVE  g[i] <= MaxRetries
  <2>1. f[i] <= MaxRetries /\ f[i] \in Nat
    BY <1>1, <1>5 DEF Falls
  <2>2. CASE i <= d + n
    <3>1. n > 0 /\ d + 1 \in Req /\ d < d + 1 /\ d + 1 <= i
      BY <1>1, <1>5, <2>2 DEF Req
    <3>2. f[i] <= f[d + 1] /\ f[d + 1] < MaxRetries /\ f[d + 1] \in Nat
      BY <1>1, <1>5, <3>1 DEF Falls
    <3> QED
      BY <1>1, <1>2, <1>5, <2>1, <2>2, <3>2
  <2>3. CASE ~(i <= d + n)
    BY <1>2, <2>1, <2>3
  <2> QED
    BY <2>2, <2>3
<1> QED
  BY <1>3, <1>4, <1>5 DEF Falls, g

LEMMA FallsNew ==
  ASSUME NEW f \in [Req -> Nat], NEW d \in Nat, NEW h \in Nat, Falls(f, d, h), h + 1 \in Req
  PROVE  Falls([f EXCEPT ![h + 1] = 0], d, h + 1)
<1> DEFINE g == [f EXCEPT ![h + 1] = 0]
<1>1. /\ Req \subseteq Nat /\ MaxRetries \in Int /\ \A i \in Req : f[i] \in Nat
  BY ConfigAssumption DEF Req
<1>2. \A i \in Req : g[i] = IF i = h + 1 THEN 0 ELSE f[i]
  OBVIOUS
<1> HIDE DEF g
<1>3. ASSUME NEW i \in Req, NEW j \in Req, d < i, i <= j, j <= h + 1
      PROVE  g[j] <= g[i]
  <2>1. CASE j = h + 1
    <3>1. g[j] = 0 /\ g[i] \in Nat
      BY <1>1, <1>2, <2>1
    <3> QED
      BY <3>1
  <2>2. CASE j # h + 1
    <3>1. j <= h /\ i # h + 1
      BY <1>1, <1>3, <2>2
    <3> QED
      BY <1>2, <1>3, <2>2, <3>1 DEF Falls
  <2> QED
    BY <2>1, <2>2
<1>4. ASSUME MaxRetries >= 0, NEW i \in Req, d < i, i <= h + 1
      PROVE  g[i] <= MaxRetries
  <2>1. CASE i = h + 1
    BY <1>2, <1>4, <2>1
  <2>2. CASE i # h + 1
    <3>1. i <= h
      BY <1>1, <1>4, <2>2
    <3> QED
      BY <1>2, <1>4, <2>2, <3>1 DEF Falls
  <2> QED
    BY <2>1, <2>2
<1> QED
  BY <1>3, <1>4 DEF Falls, g

LEMMA FallsFewer ==
  ASSUME NEW f, NEW d \in Nat, NEW h, NEW e \in Nat, d <= e, Falls(f, d, h)
  PROVE  Falls(f, e, h)
<1>1. \A i \in Req : e < i => d < i
  BY DEF Req
<1> QED
  BY <1>1 DEF Falls

LEMMA FallsNone ==
  ASSUME NEW f, NEW d \in Nat, NEW h \in Nat, h <= d
  PROVE  Falls(f, d, h)
<1>1. \A i \in Req : ~(d < i /\ i <= h)
  BY DEF Req
<1>2. \A i, j \in Req : ~(d < i /\ i <= j /\ j <= h)
  BY DEF Req
<1> QED
  BY <1>1, <1>2 DEF Falls

\* rebuffer_or_crash/3 counts one failure for each of the requests it is
\* given, and looks at the first of them.
LEMMA RebufferCounts ==
  ASSUME NEW b \in Buffers, NEW reqs \in Seq(Req), NEW d \in Nat,
         \A k \in 1..Len(reqs) : reqs[k] = d + k
  PROVE  /\ Rebuffer(b, reqs).failures = Bumped(b.failures, d, Len(reqs))
         /\ ~ReachedMaxRetries(b, reqs) =>
              (MaxRetries >= 0 /\ Len(reqs) > 0 => b.failures[d + 1] < MaxRetries)
<1>1. /\ MaxRetries \in Int /\ Len(reqs) \in Nat /\ b.failures \in [Req -> Nat]
  BY ConfigAssumption, LenProperties DEF Buffers
<1>2. \A i \in Req : (\E k \in 1..Len(reqs) : reqs[k] = i) <=> d < i /\ i <= d + Len(reqs)
  <2> SUFFICES ASSUME NEW i \in Req
               PROVE  (\E k \in 1..Len(reqs) : reqs[k] = i) <=> d < i /\ i <= d + Len(reqs)
    OBVIOUS
  <2>1. i \in Nat
    BY DEF Req
  <2>2. ASSUME NEW k \in 1..Len(reqs), reqs[k] = i
        PROVE  d < i /\ i <= d + Len(reqs)
    BY <1>1, <2>1, <2>2
  <2>3. ASSUME d < i, i <= d + Len(reqs)
        PROVE  \E k \in 1..Len(reqs) : reqs[k] = i
    <3>1. PICK k \in 1..Len(reqs) : k = i - d
      <4>1. i - d \in 1..Len(reqs)
        BY <1>1, <2>1, <2>3
      <4> QED
        BY <4>1
    <3>2. reqs[k] = d + k /\ d + k = i
      BY <1>1, <2>1, <3>1
    <3> QED
      BY <3>2
  <2> QED
    BY <2>2, <2>3
<1>3. Rebuffer(b, reqs).failures =
        [i \in Req |-> IF MaxRetries >= 0 /\ \E k \in 1..Len(reqs) : reqs[k] = i
                       THEN b.failures[i] + 1 ELSE b.failures[i]]
  BY DEF Rebuffer, Buffers
<1>4. Rebuffer(b, reqs).failures = Bumped(b.failures, d, Len(reqs))
  BY <1>2, <1>3 DEF Bumped
<1>5. ASSUME ~ReachedMaxRetries(b, reqs), MaxRetries >= 0, Len(reqs) > 0
      PROVE  b.failures[d + 1] < MaxRetries
  <2>1. reqs # <<>> /\ 1 \in 1..Len(reqs)
    <3>1. Len(<<>>) = 0
      BY EmptySeq
    <3> QED
      BY <1>1, <1>5, <3>1
  <2>2. reqs[1] = d + 1 /\ reqs[1] \in Req
    BY <2>1, ElementOfSeq
  <2>3. b.failures[d + 1] \in Nat /\ ~(b.failures[d + 1] >= MaxRetries)
    BY <1>1, <1>5, <2>1, <2>2 DEF ReachedMaxRetries
  <2> QED
    BY <1>1, <2>3
<1> QED
  BY <1>4, <1>5

\* nack_all/2 counts one failure for each request on wire.
LEMMA NackAllFalls ==
  ASSUME Base, OnWireLimit = 1, Falling, ~NackAllCrashes(buf)
  PROVE  /\ Falls(NackAll(buf).failures, done, Handled)
         /\ NackAll(buf).failures \in [Req -> Nat] /\ NackAll(buf) \in Buffers
<1> DEFINE a == [buf EXCEPT !.onwire = <<>>, !.onwire_count = 0]
           r == OnWireReqs(buf)
<1>1. buf \in Buffers /\ buf.failures \in [Req -> Nat] /\ NackAll(buf) \in Buffers
  BY NackAllLemma DEF Base, IInv, TypeOK, ProducerTypeOK, Buffers
<1>2. a \in Buffers /\ a.failures = buf.failures
  BY <1>1, EmptySeq DEF Buffers
<1>3. /\ r \in Seq(Req) /\ Len(r) = Wire /\ \A k \in 1..Len(r) : r[k] = done + k
  <2>1. r \in Seq(Req) /\ Len(r) = Wire
    BY <1>1, OnWireReqsType DEF Wire
  <2>2. \A k \in 1..Wire : r[k] = done + k
    BY DEF Base, Standing, Placed, Wire, OnWireReqs
  <2> QED
    BY <2>1, <2>2
<1>4. ~ReachedMaxRetries(a, r)
  BY <1>2 DEF NackAllCrashes, ReachedMaxRetries
<1>5. NackAll(buf) = Rebuffer(a, r)
  BY DEF NackAll
<1>6. done \in Nat /\ Wire \in Nat /\ Handled \in Nat /\ Handled <= MaxReqs /\ done + Wire <= Handled
  <2>1. /\ done \in Nat /\ Wire \in Nat /\ Handled \in Nat /\ Accepted \in Nat /\ MaxReqs \in Nat
        /\ last \in Nat
        /\ done + Wire <= Accepted /\ Accepted <= Handled /\ Handled <= last /\ last <= MaxReqs
    BY DEF Base, Bordered
  <2> QED
    BY <2>1
<1> HIDE DEF a, r
<1>7. /\ Rebuffer(a, r).failures = Bumped(a.failures, done, Wire)
      /\ MaxRetries >= 0 /\ Wire > 0 => a.failures[done + 1] < MaxRetries
  BY <1>2, <1>3, <1>4, <1>6, RebufferCounts
<1>8. Falls(a.failures, done, Handled)
  BY <1>2 DEF Falling
<1> QED
  BY <1>1, <1>2, <1>5, <1>6, <1>7, <1>8, FallsBumped

\* What is held after a step as what was made and is not in the mailbox.
LEMMA HandledKept ==
  ASSUME Base, Base', UNCHANGED <<last, inbox>>
  PROVE  Handled' = Handled
<1>1. /\ Handled \in Nat /\ Len(inbox) \in Nat /\ Handled + Len(inbox) = last
      /\ Handled' \in Nat /\ Len(inbox') \in Nat /\ Handled' + Len(inbox') = last'
  BY DEF Base, Bordered
<1>2. Len(inbox') = Len(inbox) /\ last' = last
  OBVIOUS
<1> QED
  BY <1>1, <1>2

LEMMA HandledNext ==
  ASSUME Base, Base', inbox # <<>>, inbox' = Tail(inbox), last' = last
  PROVE  Handled' = Handled + 1 /\ Head(inbox) = Handled + 1 /\ Handled + 1 \in Req
<1>1. /\ Handled \in Nat /\ Len(inbox) \in Nat /\ Handled + Len(inbox) = last
      /\ Handled' \in Nat /\ Len(inbox') \in Nat /\ Handled' + Len(inbox') = last
      /\ last \in Nat /\ last <= MaxReqs /\ MaxReqs \in Nat
  BY DEF Base, Bordered
<1>2. inbox \in Seq(Req)
  BY DEF Base, IInv, TypeOK, MailboxTypeOK
<1>3. Len(inbox') = Len(inbox) - 1 /\ Head(inbox) = inbox[1] /\ 1 \in 1..Len(inbox)
  <2>1. Len(Tail(inbox)) = Len(inbox) - 1 /\ Head(inbox) = inbox[1]
    BY <1>2, HeadTailProperties
  <2>2. Len(inbox) # 0
    BY <1>2, EmptySeq
  <2> QED
    BY <1>1, <2>1, <2>2
<1>4. inbox[1] = Handled + 1
  <2>1. \A k \in 1..Len(inbox) : inbox[k] = done + Wire + Len(buf.buffer) + Len(buf.pending) + k
    BY DEF Base, Standing, Placed, Wire
  <2>2. Handled = done + Wire + Len(buf.buffer) + Len(buf.pending)
    BY DEF Handled, Accepted
  <2> QED
    BY <1>3, <2>1, <2>2
<1>5. Handled' = Handled + 1 /\ Handled + 1 \in Req
  BY <1>1, <1>3 DEF Req
<1> QED
  BY <1>3, <1>4, <1>5

LEMMA AddFails ==
  ASSUME NEW b \in Buffers, NEW i \in Req
  PROVE  Add(b, i).failures = [b.failures EXCEPT ![i] = 0]
<1> DEFINE a == [b EXCEPT !.pending = Append(@, i), !.failures[i] = 0]
<1>1. a.failures = [b.failures EXCEPT ![i] = 0]
  BY DEF Buffers
<1>2. MaybeBuffer(a).failures = a.failures
  BY DEF MaybeBuffer, Buffers
<1>3. Add(b, i) = MaybeBuffer(a)
  BY DEF Add
<1> QED
  BY <1>1, <1>2, <1>3

\* Steps that settle what failed as often as before.
LEMMA FallingKept ==
  ASSUME Base, Base', Falling, Handled' = Handled, buf'.failures = buf.failures, done <= done'
  PROVE  Falling'
<1>1. done \in Nat /\ done' \in Nat
  BY DEF Base, Bordered
<1>2. \A f, d, h : f = buf.failures /\ d = done' /\ h = Handled /\ OnWireLimit = 1 => Falls(f, d, h)
  BY <1>1, FallsFewer DEF Falling
<1> QED
  BY <1>2 DEF Falling

LEMMA EndFalls ==
  ASSUME Base, Base', NEW reason, Exit(reason), last' = last
  PROVE  Falling'
<1>1. /\ done' = last' /\ done' \in Nat /\ Handled' \in Nat /\ Handled' <= last'
  BY DEF Exit, Base, Bordered
<1>2. \A f, d, h : d = done' /\ h = Handled' => Falls(f, d, h)
  BY <1>1, FallsNone
<1> QED
  BY <1>2 DEF Falling

LEMMA RearrangedFalls ==
  ASSUME Base, Base', Falling, done' = done,
         \/ buf' = buf
         \/ buf' = NackAll(buf) /\ ~NackAllCrashes(buf) /\ UNCHANGED <<last, inbox>>
  PROVE  Falling'
<1>1. CASE buf' = buf
  <2>1. Handled' = Handled /\ buf'.failures = buf.failures
    BY <1>1 DEF Handled, Accepted, Wire
  <2>2. done <= done'
    BY DEF Base, Bordered
  <2> QED
    BY <2>1, <2>2, FallingKept
<1>2. CASE buf' = NackAll(buf) /\ ~NackAllCrashes(buf) /\ UNCHANGED <<last, inbox>>
  <2>1. OnWireLimit = 1 => Falls(NackAll(buf).failures, done, Handled)
    BY <1>2, NackAllFalls
  <2>2. Handled' = Handled
    BY <1>2, HandledKept
  <2> QED
    BY <1>2, <2>1, <2>2 DEF Falling
<1> QED
  BY <1>1, <1>2

LEMMA HandleProduceFalls ==
  ASSUME Base, Base', Falling, NEW c \in Conn \cup {0}, HandleProduce(c)
  PROVE  Falling'
<1>1. CASE ReinitCrashes(c)
  BY <1>1, EndFalls DEF HandleProduce, Ends
<1>2. CASE ~ReinitCrashes(c)
  <2>1. PICK b : /\ b = buf \/ (b = NackAll(buf) /\ ~NackAllCrashes(buf))
                 /\ inbox # <<>> /\ inbox' = Tail(inbox) /\ buf' = Add(b, Head(inbox))
                 /\ UNCHANGED <<done, last>>
    BY <1>2 DEF HandleProduce, MaybeProduce, ReinitBuffer, ReinitCrashes, historyVars
  <2>2. Handled' = Handled + 1 /\ Head(inbox) = Handled + 1 /\ Handled + 1 \in Req
    BY <2>1, HandledNext
  <2>3. SUFFICES ASSUME OnWireLimit = 1
                 PROVE  Falls(buf'.failures, done, Handled + 1)
    BY <2>1, <2>2 DEF Falling
  <2>4. /\ b \in Buffers /\ b.failures \in [Req -> Nat] /\ Falls(b.failures, done, Handled)
        /\ done \in Nat /\ Handled \in Nat
    BY <2>1, <2>3, NackAllFalls DEF Falling, Base, Bordered, IInv, TypeOK, ProducerTypeOK, Buffers
  <2>5. buf'.failures = [b.failures EXCEPT ![Handled + 1] = 0]
    BY <2>1, <2>2, <2>4, AddFails
  <2> QED
    BY ZenonT(60), <2>2, <2>4, <2>5, FallsNew
<1> QED
  BY <1>1, <1>2

LEMMA AckFalls ==
  ASSUME Base, Base', Falling, NEW c \in Conn, HandleResponseOk(c)
  PROVE  Falling'
<1>1. CASE Ends("function_clause")
  BY <1>1, EndFalls DEF Ends
<1>2. CASE ~Ends("function_clause")
  <2>1. PICK k \in 1..Len(buf.onwire) : /\ done' = done + k /\ buf' = Ack(buf, k)
                                        /\ UNCHANGED <<last, inbox>>
    BY <1>2 DEF HandleResponseOk, MaybeProduce
  <2>2. buf'.failures = buf.failures
    <3>1. buf \in Buffers
      BY DEF Base, IInv, TypeOK, ProducerTypeOK
    <3> QED
      BY <2>1, <3>1, AckMoves
  <2>3. done <= done'
    <3>1. done \in Nat
      BY DEF Base, Bordered
    <3> QED
      BY <2>1, <3>1
  <2> QED
    BY <2>1, <2>2, <2>3, HandledKept, FallingKept
<1> QED
  BY <1>1, <1>2

LEMMA SendOkFalls ==
  ASSUME Base, Base', Falling, NEW n \in Req, SendOk(n)
  PROVE  Falling'
<1> DEFINE t == TakeReqs(buf, n)
           e == Batch(buf, n)
<1>1. /\ TakeBatch(n) /\ buf' = PutOnWire(t, e, next_ref)
      /\ UNCHANGED <<last, inbox, done>>
  BY DEF SendOk, historyVars, mailboxVars
<1>2. n \in 1..Len(Waiting(buf)) /\ buf \in Buffers /\ Counted(buf) /\ next_ref \in Nat
  BY <1>1, TakeBatchFacts DEF Base, WellKept, IInv, TypeOK
<1>3. t \in Buffers /\ e \in Seq(Req) /\ t.failures = buf.failures
  BY <1>2, TakeReqsLemma, TakeMoves
<1> HIDE DEF t, e
<1>4. PutOnWire(t, e, next_ref).failures = t.failures
  BY <1>2, <1>3, PutOnWireMoves
<1>5. done <= done'
  BY <1>1 DEF Base, Bordered
<1> QED
  BY <1>1, <1>3, <1>4, <1>5, HandledKept, FallingKept

\* With room for one Kafka request, whatever is to be sent finds the wire
\* empty.
LEMMA NothingOnWire ==
  ASSUME Base, OnWireLimit = 1, CanTake(buf)
  PROVE  Wire = 0 /\ buf.onwire = <<>>
<1>1. /\ buf \in Buffers /\ WellKept(buf) /\ buf.onwire_count \in Nat /\ buf.onwire_count < 1
      /\ next_ref \in Nat
  BY DEF Base, IInv, TypeOK, ProducerTypeOK, CanTake, Buffers
<1>2. buf.onwire_count = 0 /\ Cardinality(Refs(buf)) = 0 /\ IsFiniteSet(Refs(buf))
  <2>1. WireCounted(buf, next_ref)
    BY <1>1 DEF WellKept
  <2>2. IsFiniteSet(Refs(buf))
    BY <1>1, <2>1, RefsFinite
  <2>3. buf.onwire_count = 0
    BY <1>1
  <2> QED
    BY <2>1, <2>2, <2>3 DEF WireCounted
<1>3. Refs(buf) = {}
  BY <1>2, FS_EmptySet
<1>4. Wire \in Nat /\ buf.onwire \in Seq([ref : Nat, req : Req])
  BY <1>1 DEF Base, Bordered, Buffers
<1>5. Wire = 0
  <2> SUFFICES ASSUME Wire # 0 PROVE FALSE
    OBVIOUS
  <2>1. 1 \in 1..Len(buf.onwire)
    BY <1>4 DEF Wire
  <2> QED
    BY <1>3, <2>1 DEF Refs
<1> QED
  BY <1>4, <1>5, EmptySeq DEF Wire

LEMMA SendFailedFalls ==
  ASSUME Base, Base', Falling, NEW n \in Req, TakeBatch(n), SendFailed(n)
  PROVE  Falling'
<1> DEFINE t == TakeReqs(buf, n)
           e == Batch(buf, n)
<1>1. CASE Exit("reached_max_retries")
  BY <1>1, EndFalls DEF SendFailed
<1>2. CASE /\ ~ReachedMaxRetries(t, e) /\ buf' = Rebuffer(t, e)
           /\ UNCHANGED <<mailboxVars, done, last>>
  <2>1. n \in 1..Len(Waiting(buf)) /\ buf \in Buffers /\ Counted(buf) /\ CanTake(buf)
    BY TakeBatchFacts DEF Base, WellKept
  <2>2. t \in Buffers /\ e \in Seq(Req) /\ t.failures = buf.failures
    BY <2>1, TakeReqsLemma, TakeMoves
  <2>3. SUFFICES ASSUME OnWireLimit = 1
                 PROVE  Falls(buf'.failures, done, Handled)
    BY <1>2, HandledKept DEF Falling, mailboxVars
  <2>4. /\ done \in Nat /\ n \in Nat /\ Len(e) = n /\ Handled \in Nat /\ Handled <= MaxReqs
        /\ done + n <= Handled /\ \A k \in 1..n : e[k] = done + k
    <3>1. Wire = 0
      BY <2>1, <2>3, NothingOnWire
    <3>2. /\ n \in Nat /\ Len(e) = n /\ done + Wire + n <= Handled
          /\ \A j \in 1..n : e[j] = (done + Wire + 1) + j - 1
      BY <2>1, BatchFollowsWire
    <3>3. done \in Nat /\ Handled \in Nat /\ Handled <= last /\ last <= MaxReqs /\ last \in Nat
          /\ MaxReqs \in Nat
      BY DEF Base, Bordered
    <3> HIDE DEF e
    <3>4. \A k \in 1..n : (done + 0 + 1) + k - 1 = done + k
      BY <3>2, <3>3
    <3> QED
      BY <3>1, <3>2, <3>3, <3>4
  <2> HIDE DEF t, e
  <2>5. /\ buf'.failures = Bumped(buf.failures, done, n)
        /\ MaxRetries >= 0 /\ n > 0 => buf.failures[done + 1] < MaxRetries
    BY <1>2, <2>2, <2>4, RebufferCounts
  <2>6. buf.failures \in [Req -> Nat] /\ Falls(buf.failures, done, Handled)
    BY <2>1, <2>3 DEF Buffers, Falling
  <2> QED
    BY <2>4, <2>5, <2>6, FallsBumped
<1> QED
  BY <1>1, <1>2 DEF SendFailed

LEMMA FallingStep ==
  Base /\ Base' /\ Falling /\ [Next]_vars => Falling'
<1> SUFFICES ASSUME Base, Base', Falling, [Next]_vars
             PROVE  Falling'
  OBVIOUS
<1>1. ASSUME NEW reason, Ends(reason)
      PROVE  Falling'
  BY <1>1, EndFalls DEF Ends
<1>2. CASE UNCHANGED vars
  <2>1. UNCHANGED <<done, buf>>
    BY <1>2 DEF vars, historyVars, producerVars
  <2> QED
    BY <2>1, RearrangedFalls
<1>3. CASE CallerNext
  <2>1. UNCHANGED <<done, buf>>
    BY <1>3 DEF CallerNext, Submit, CallerBuffered, CallerDown, historyVars, producerVars
  <2> QED
    BY <2>1, RearrangedFalls
<1>4. CASE HandleDown
  <2>1. \/ Ends("reached_max_retries")
        \/ /\ buf' = buf \/ (buf' = NackAll(buf) /\ ~NackAllCrashes(buf))
           /\ UNCHANGED <<last, inbox, done>>
    BY <1>4 DEF HandleDown, historyVars, mailboxVars
  <2> QED
    BY <1>1, <2>1, RearrangedFalls
<1>5. CASE HandleDelayedSend
  <2>1. UNCHANGED <<done, buf>>
    BY <1>5 DEF HandleDelayedSend, MaybeProduce, historyVars
  <2> QED
    BY <2>1, RearrangedFalls
<1>6. ASSUME NEW c \in Conn \cup {0}, HandleRetry(c)
      PROVE  Falling'
  <2>1. CASE ReinitCrashes(c)
    BY <1>1, <1>6, <2>1 DEF HandleRetry
  <2>2. CASE ~ReinitCrashes(c)
    <3>1. /\ UNCHANGED <<last, inbox, done>>
          /\ buf' = buf \/ (buf' = NackAll(buf) /\ ~NackAllCrashes(buf))
      BY <1>6, <2>2 DEF HandleRetry, MaybeProduce, ReinitBuffer, ReinitCrashes, historyVars,
                        mailboxVars
    <3> QED
      BY <3>1, RearrangedFalls
  <2> QED
    BY <2>1, <2>2
<1>7. ASSUME NEW c \in Conn, HandleResponseRetriable(c)
      PROVE  Falling'
  <2>1. \/ \E reason : Ends(reason)
        \/ /\ buf' = NackAll(buf) /\ ~NackAllCrashes(buf)
           /\ UNCHANGED <<last, inbox, done>>
    BY <1>7 DEF HandleResponseRetriable, historyVars
  <2> QED
    BY <1>1, <2>1, RearrangedFalls
<1>8. ASSUME NEW c \in Conn, HandleResponseFatal(c) \/ DiscardResponse(c)
      PROVE  Falling'
  <2>1. CASE HandleResponseFatal(c)
    BY <1>1, <2>1 DEF HandleResponseFatal
  <2>2. CASE DiscardResponse(c)
    <3>1. UNCHANGED <<done, buf>>
      BY <2>2 DEF DiscardResponse, historyVars, producerVars
    <3> QED
      BY <3>1, RearrangedFalls
  <2> QED
    BY <1>8, <2>1, <2>2
<1>9. CASE SendNext
  <2>1. CASE Linger
    <3>1. UNCHANGED <<done, buf>>
      BY <2>1 DEF Linger, historyVars
    <3> QED
      BY <3>1, RearrangedFalls
  <2>2. ASSUME NEW n \in Req, SendOk(n) \/ SendError(n) \/ SendLost(n)
        PROVE  Falling'
    BY <2>2, SendOkFalls, SendFailedFalls DEF SendError, SendLost
  <2> QED
    BY <1>9, <2>1, <2>2 DEF SendNext
<1>10. CASE EnvironmentNext
  <2>1. CASE Stop
    BY <1>1, <2>1 DEF Stop
  <2>2. CASE ~Stop
    <3>1. UNCHANGED <<done, buf>>
      BY <1>10, <2>2 DEF EnvironmentNext, DelayTimerFires, Restart, ConnectionDies, ClientSeesExit,
        InFlightLost, BrokerHandles, historyVars, producerVars
    <3> QED
      BY <3>1, RearrangedFalls
  <2> QED
    BY <2>1, <2>2
<1> QED
  BY <1>2, <1>3, <1>4, <1>5, <1>6, <1>7, <1>8, <1>9, <1>10, HandleProduceFalls, AckFalls
     DEF Next, HandlerNext

LEMMA FallingAlways == Spec => []Falling
<1>1. Init => Falling
  <2> SUFFICES ASSUME Init PROVE Falling
    OBVIOUS
  <2>1. done = 0 /\ Len(buf.onwire) = 0 /\ Len(buf.buffer) = 0 /\ Len(buf.pending) = 0
    BY EmptySeq DEF Init, NewBuffer
  <2>2. Handled = 0
    BY <2>1 DEF Handled, Accepted, Wire
  <2>3. Falls(buf.failures, 0, 0)
    BY FallsNone
  <2> QED
    BY <2>1, <2>2, <2>3 DEF Falling
<1> QED
  BY <1>1, FallingStep, Based, PTL DEF Spec

\* The requests on wire and in the buffer, by their numbers.
LEMMA SentOrBuffered ==
  ASSUME Base
  PROVE  LET q == OnWireReqs(buf) \o buf.buffer
         IN  /\ Len(q) \in Nat /\ done + Len(q) = Accepted
             /\ \A k \in 1..Len(q) : q[k] = done + k /\ q[k] \in Req
<1> DEFINE r == OnWireReqs(buf)
           u == buf.buffer
           q == r \o u
           w == Len(buf.onwire)
           h == Len(u)
<1>1. /\ w \in Nat /\ h \in Nat /\ done \in Nat
      /\ \A k \in 1..h : u[k] = done + w + k
      /\ \A k \in 1..w : buf.onwire[k].req = done + k
  BY DEF Base, Standing, Placed
<1>2. /\ r \in Seq(Req) /\ u \in Seq(Req) /\ Len(r) = w
  BY OnWireReqsType DEF Base, IInv, TypeOK, ProducerTypeOK, Buffers
<1>3. \A k \in 1..w : r[k] = done + k
  BY <1>1 DEF OnWireReqs
<1>4. Accepted = done + w + h
  BY DEF Accepted, Wire
<1> HIDE DEF r, u, w, h
<1>5. /\ Len(q) = w + h
      /\ \A k \in 1..(w + h) : q[k] = IF k <= w THEN r[k] ELSE u[k - w]
  BY <1>2, ConcatProperties DEF h
<1>6. ASSUME NEW k \in 1..(w + h)
      PROVE  q[k] = done + k
  <2>1. CASE k <= w
    <3>1. k \in 1..w
      BY <1>1, <2>1
    <3> QED
      BY <1>3, <1>5, <2>1, <3>1
  <2>2. CASE ~(k <= w)
    <3>1. PICK j \in 1..h : j = k - w
      <4>1. k - w \in 1..h
        BY <1>1, <2>2
      <4> QED
        BY <4>1
    <3>2. q[k] = u[j] /\ u[j] = done + w + j
      BY <1>1, <1>5, <2>2, <3>1
    <3>3. done + w + j = done + k
      BY <1>1, <3>1
    <3> QED
      BY <3>2, <3>3
  <2> QED
    BY <2>1, <2>2
<1>7. ASSUME NEW k \in 1..(w + h)
      PROVE  done + k \in Req
  <2>1. done + w + h <= MaxReqs /\ MaxReqs \in Nat
    <3>1. Accepted <= Handled /\ Handled <= last /\ last <= MaxReqs /\ MaxReqs \in Nat
          /\ Accepted \in Nat /\ Handled \in Nat /\ last \in Nat
      BY DEF Base, Bordered
    <3>2. Accepted <= MaxReqs
      BY <3>1
    <3> QED
      BY <1>4, <3>1, <3>2
  <2> QED
    BY <1>1, <2>1 DEF Req
<1>8. w + h \in Nat /\ done + (w + h) = Accepted
  BY <1>1, <1>4
<1> HIDE DEF q
<1> QED
  BY <1>5, <1>6, <1>7, <1>8 DEF q, r, u

LEMMA FallingMeans ==
  Base /\ Falling => RetriesBounded
<1> SUFFICES ASSUME Base, Falling, OnWireLimit = 1
             PROVE  LET q == OnWireReqs(buf) \o buf.buffer
                    IN  /\ \A k \in 1..(Len(q) - 1) : buf.failures[q[k]] >= buf.failures[q[k + 1]]
                        /\ MaxRetries >= 0 =>
                             \A k \in 1..Len(q) : buf.failures[q[k]] <= MaxRetries
  BY DEF RetriesBounded
<1> DEFINE q == OnWireReqs(buf) \o buf.buffer
           f == buf.failures
<1>1. /\ Len(q) \in Nat /\ done + Len(q) = Accepted
      /\ \A k \in 1..Len(q) : q[k] = done + k /\ q[k] \in Req
  BY SentOrBuffered
<1>2. done \in Nat /\ Accepted \in Nat /\ Handled \in Nat /\ Accepted <= Handled
  BY DEF Base, Bordered
<1>3. f \in [Req -> Nat] /\ Falls(f, done, Handled)
  BY DEF Base, IInv, TypeOK, ProducerTypeOK, Buffers, Falling
<1> HIDE DEF q, f
<1>4. ASSUME NEW k \in 1..Len(q)
      PROVE  done < q[k] /\ q[k] <= Handled
  BY <1>1, <1>2
<1>5. ASSUME NEW k \in 1..(Len(q) - 1)
      PROVE  f[q[k]] >= f[q[k + 1]]
  <2>1. k \in 1..Len(q) /\ k + 1 \in 1..Len(q)
    BY <1>1
  <2>2. q[k] <= q[k + 1] /\ q[k] \in Req /\ q[k + 1] \in Req
    BY <1>1, <1>2, <2>1
  <2>3. f[q[k + 1]] <= f[q[k]] /\ f[q[k]] \in Nat /\ f[q[k + 1]] \in Nat
    BY <1>3, <1>4, <2>1, <2>2 DEF Falls
  <2> QED
    BY <2>3
<1>6. ASSUME MaxRetries >= 0, NEW k \in 1..Len(q)
      PROVE  f[q[k]] <= MaxRetries
  BY <1>1, <1>3, <1>4, <1>6 DEF Falls
<1> QED
  BY <1>5, <1>6 DEF q, f

(***************************************************************************)
(* rebuffer_or_crash/3 may look at the first request only: an older one    *)
(* never has failed less often, so no request is tried more than           *)
(* max_retries + 1 times, through errors, deaths of connections and        *)
(* batches cut differently each time.                                      *)
(***************************************************************************)
THEOREM RetriesStayBounded == Spec => []RetriesBounded
  BY Based, FallingAlways, FallingMeans, PTL

-----------------------------------------------------------------------------
(***************************************************************************)
(* What packets carry                                                      *)
(***************************************************************************)

\* The borders move on only.
LEMMA BordersGrow ==
  ASSUME Base, Base', [Next]_vars
  PROVE  Accepted <= Accepted' /\ done <= done'
<1>1. ASSUME Accepts
      PROVE  Accepted <= Accepted' /\ done <= done'
  <2>1. PICK m \in Nat : Accepted <= m /\ m <= Accepted'
    BY <1>1 DEF Accepts
  <2>2. done <= done' /\ Accepted \in Nat /\ Accepted' \in Nat
    BY <1>1 DEF Accepts, Base, Bordered
  <2> QED
    BY <2>1, <2>2
<1>2. CASE UNCHANGED vars
  <2>1. UNCHANGED <<done, replies, acks, buf>>
    BY <1>2 DEF vars, historyVars, producerVars
  <2> QED
    BY <1>1, <2>1, NobodyAccepted
<1>3. CASE Elsewhere
  BY <1>1, <1>3, ElsewhereAccepts
<1>4. ASSUME NEW c \in Conn \cup {0}, HandleProduce(c)
      PROVE  Accepts
  <2>1. CASE ReinitCrashes(c)
    BY <1>4, <2>1, EndsAccepts DEF HandleProduce
  <2>2. CASE ~ReinitCrashes(c)
    <3>1. PICK b \in {buf, NackAll(buf)} :
            /\ inbox # <<>> /\ buf' = Add(b, Head(inbox))
            /\ replies' = Reply(BufferedByAdd(b, Head(inbox)))
            /\ UNCHANGED <<done, acks>>
      BY <1>4, <2>2 DEF HandleProduce, MaybeProduce, ReinitBuffer, historyVars
    <3> QED
      BY <3>1, AddAccepts
  <2> QED
    BY <2>1, <2>2
<1>5. ASSUME NEW c \in Conn, HandleResponseOk(c), ~Ends("function_clause")
      PROVE  Accepted <= Accepted' /\ done <= done'
  <2> DEFINE w == Len(buf.onwire)  h == Len(buf.buffer)
             x == Len(buf'.onwire)  y == Len(buf'.buffer)
  <2>1. PICK k \in 1..Len(buf.onwire) : done' = done + k /\ buf' = Ack(buf, k)
    BY <1>5 DEF HandleResponseOk, MaybeProduce
  <2>2. buf \in Buffers
    BY DEF Base, IInv, TypeOK, ProducerTypeOK
  <2>3. x = w - k /\ y = h
    BY <2>1, <2>2, AckMoves
  <2>4. /\ w \in Nat /\ h \in Nat /\ done \in Nat /\ k \in 1..w
        /\ Accepted = done + w + h /\ Accepted' = done' + x + y
    BY DEF Accepted, Wire, Base, Bordered
  <2>5. done' = done + k
    BY <2>1
  <2> HIDE DEF w, h, x, y
  <2> QED
    BY <2>3, <2>4, <2>5
<1>6. CASE SendNext
  <2>1. ASSUME NEW n \in Req, SendOk(n) \/ SendError(n) \/ SendLost(n)
        PROVE  Accepts
    BY <2>1, SendOkAccepts, SendFailedAccepts DEF SendError, SendLost
  <2> QED
    BY <1>1, <1>6, <2>1, LingerAccepts DEF SendNext
<1> QED
  BY <1>1, <1>2, <1>3, <1>4, <1>5, <1>6, EndsAccepts DEF Next, HandlerNext, Elsewhere

LEMMA LostMoves ==
  ASSUME [Next]_vars
  PROVE  lostTo' = lostTo \/ lostTo' = last
<1>1. ASSUME NEW reason, Exit(reason)
      PROVE  lostTo' = last
  BY <1>1 DEF Exit
<1>2. CASE UNCHANGED vars
  BY <1>2 DEF vars, historyVars
<1>3. CASE CallerNext
  BY <1>3 DEF CallerNext, Submit, CallerBuffered, CallerDown, historyVars
<1>4. CASE HandlerNext
  BY <1>1, <1>4 DEF HandlerNext, HandleProduce, HandleRetry, HandleResponseOk,
     HandleResponseRetriable, HandleResponseFatal, DiscardResponse, HandleDown,
     HandleDelayedSend, Ends, historyVars
<1>5. CASE SendNext
  BY <1>1, <1>5 DEF SendNext, SendOk, SendError, SendLost, SendFailed, Linger, historyVars
<1>6. CASE EnvironmentNext
  BY <1>1, <1>6 DEF EnvironmentNext, DelayTimerFires, Stop, Restart, ConnectionDies,
     ClientSeesExit, InFlightLost, BrokerHandles, Ends, historyVars
<1> QED
  BY <1>2, <1>3, <1>4, <1>5, <1>6 DEF Next

\* Where packets come from.
LEMMA NetMoves ==
  ASSUME [Next]_vars
  PROVE  \/ net' = net
         \/ \E c \in Conn : /\ net[c] # <<>>
                            /\ \/ net' = [net EXCEPT ![c] = Tail(@)]
                               \/ net' = [net EXCEPT ![c] = <<>>]
         \/ \E n \in Req : SendOk(n) \/ SendLost(n)
<1>2. CASE UNCHANGED vars
  BY <1>2 DEF vars, networkVars
<1>3. CASE CallerNext
  BY <1>3 DEF CallerNext, Submit, CallerBuffered, CallerDown, networkVars
<1>4. CASE HandlerNext
  BY <1>4 DEF HandlerNext, HandleProduce, HandleRetry, HandleResponseOk,
     HandleResponseRetriable, HandleResponseFatal, DiscardResponse, HandleDown,
     HandleDelayedSend, networkVars
<1>5. CASE SendNext
  BY <1>5 DEF SendNext, SendError, Linger, networkVars
<1>6. CASE EnvironmentNext
  BY <1>6 DEF EnvironmentNext, DelayTimerFires, Stop, Restart, ConnectionDies,
     ClientSeesExit, InFlightLost, BrokerHandles, networkVars
<1> QED
  BY <1>2, <1>3, <1>4, <1>5, <1>6 DEF Next

\* A packet carries requests that were accepted, one after the other, all of
\* this incarnation or all of ended ones.  With one Kafka request on wire it
\* began where the wire began, and the wire has only moved on since.
Shaped(p) ==
  \E a \in Req, m \in Nat :
    /\ m > 0 /\ Len(p.reqs) = m /\ \A j \in 1..m : p.reqs[j] = a + j - 1
    /\ a + m - 1 <= Accepted
    /\ lostTo < a \/ a + m - 1 <= lostTo
    /\ OnWireLimit = 1 => a <= done + 1

PacketsShaped == \A c \in Conn : \A k \in 1..Len(net[c]) : Shaped(net[c][k])

LEMMA ShapedKept ==
  ASSUME Base, Base', [Next]_vars, NEW p, Shaped(p)
  PROVE  Shaped(p)'
<1>1. Accepted <= Accepted' /\ done <= done' /\ (lostTo' = lostTo \/ lostTo' = last)
  BY BordersGrow, LostMoves
<1>2. /\ Accepted \in Nat /\ Accepted' \in Nat /\ done \in Nat /\ done' \in Nat
      /\ Accepted <= Handled /\ Handled <= last /\ Handled \in Nat /\ last \in Nat
  BY DEF Base, Bordered
<1>3. PICK a \in Req, m \in Nat :
        /\ m > 0 /\ Len(p.reqs) = m /\ \A j \in 1..m : p.reqs[j] = a + j - 1
        /\ a + m - 1 <= Accepted
        /\ lostTo < a \/ a + m - 1 <= lostTo
        /\ OnWireLimit = 1 => a <= done + 1
  BY DEF Shaped
<1>4. a \in Nat
  BY DEF Req
<1>5. a + m - 1 <= Accepted' /\ a + m - 1 <= last
  <2>1. a + m - 1 \in Int /\ a + m - 1 <= Accepted
    BY <1>3, <1>4
  <2> DEFINE z == a + m - 1
  <2>2. z \in Int /\ z <= Accepted
    BY <2>1
  <2> HIDE DEF z
  <2>3. z <= Accepted' /\ z <= last
    BY <1>1, <1>2, <2>2
  <2> QED
    BY <2>3 DEF z
<1>6. lostTo' < a \/ a + m - 1 <= lostTo'
  BY <1>1, <1>3, <1>5
<1>7. OnWireLimit = 1 => a <= done' + 1
  <2>3. \A x, y, z \in Nat : x <= y + 1 /\ y <= z => x <= z + 1
    OBVIOUS
  <2> SUFFICES ASSUME OnWireLimit = 1 PROVE a <= done' + 1
    OBVIOUS
  <2>1. a <= done + 1
    BY <1>3
  <2>2. done <= done'
    BY <1>1
  <2> QED
    BY ONLY <1>2, <1>4, <2>1, <2>2, <2>3
<1> QED
  BY <1>3, <1>5, <1>6, <1>7 DEF Shaped

\* The packet that is made of a batch.
LEMMA GivenShaped ==
  ASSUME Base, Base', LostSettled, NEW n \in Req, SendOk(n) \/ SendLost(n), [Next]_vars
  PROVE  \A p : p = [ref |-> next_ref, reqs |-> Batch(buf, n)] => Shaped(p)'
<1> DEFINE a == done + Wire + 1
           e == Batch(buf, n)
<1>1. n \in 1..Len(Waiting(buf)) /\ CanTake(buf) /\ TakeBatch(n)
  BY TakeBatchFacts DEF Base, SendOk, SendLost
<1>2. /\ n \in Nat /\ n > 0 /\ Len(e) = n /\ a \in Req
      /\ \A j \in 1..n : e[j] = a + j - 1
  BY <1>1, BatchFollowsWire
<1>3. a + n - 1 = done + Wire + n /\ done < a /\ (OnWireLimit = 1 => a <= done + 1)
  <2>1. done \in Nat /\ Wire \in Nat
    BY DEF Base, Bordered
  <2>2. OnWireLimit = 1 => Wire = 0
    BY <1>1, NothingOnWire
  <2> QED
    BY <1>2, <2>1, <2>2
<1>4. LeftInBuffer(buf, n) \in Nat
  BY <1>1, TakeBatchFacts, TakeMoves DEF Base, WellKept
<1>5. a + n - 1 <= Accepted'
  <2>1. CASE SendFailed(n) /\ Exit("reached_max_retries")
    <3>1. /\ done' = last /\ done' <= Accepted' /\ Handled <= last /\ done + Wire + n <= Handled
          /\ Handled \in Nat /\ last \in Nat /\ Accepted' \in Nat /\ done \in Nat /\ Wire \in Nat
      BY <1>1, <2>1, BatchFollowsWire DEF Exit, Base, Bordered
    <3> QED
      BY <1>2, <1>3, <3>1
  <2>2. CASE ~(SendFailed(n) /\ Exit("reached_max_retries"))
    <3> DEFINE x == Len(buf'.onwire)  y == Len(buf'.buffer)  z == LeftInBuffer(buf, n)
    <3>1. /\ \/ x = Wire + n /\ y = z
             \/ x = Wire /\ y = n + z
          /\ done' = done
      <4>1. CASE SendOk(n)
        BY <4>1, SendOkLengths DEF SendOk, historyVars
      <4>2. CASE SendLost(n)
        BY <1>1, <2>2, <4>2, SendFailedLengths DEF SendLost
      <4> QED
        BY <4>1, <4>2
    <3>2. Accepted' = done' + x + y /\ z \in Nat
      BY <1>4 DEF Accepted, Wire
    <3>3. done \in Nat /\ Wire \in Nat
      BY DEF Base, Bordered
    <3> HIDE DEF x, y, z
    <3> QED
      BY <1>2, <1>3, <3>1, <3>2, <3>3
  <2> QED
    BY <2>1, <2>2
<1>6. lostTo' < a \/ a + n - 1 <= lostTo'
  <2>1. CASE lostTo' = lostTo
    <3>1. lostTo <= done /\ lostTo \in Nat /\ done \in Nat /\ a \in Nat
      BY <1>2 DEF LostSettled, Base, Bordered, IInv, TypeOK, HistoryTypeOK, Req
    <3> HIDE DEF a
    <3> QED
      BY <1>3, <2>1, <3>1
  <2>2. CASE lostTo' = last
    <3>1. /\ Handled <= last /\ done + Wire + n <= Handled
          /\ Handled \in Nat /\ last \in Nat /\ done \in Nat /\ Wire \in Nat
      BY <1>1, BatchFollowsWire DEF Base, Bordered
    <3> QED
      BY <1>2, <1>3, <2>2, <3>1
  <2> QED
    BY <2>1, <2>2, LostMoves
<1>7. OnWireLimit = 1 => a <= done' + 1
  <2>5. \A x, y, z \in Nat : x <= y + 1 /\ y <= z => x <= z + 1
    OBVIOUS
  <2> SUFFICES ASSUME OnWireLimit = 1 PROVE a <= done' + 1
    OBVIOUS
  <2>1. done <= done'
    BY BordersGrow
  <2>2. done \in Nat /\ done' \in Nat
    BY DEF Base, Bordered
  <2>3. a <= done + 1
    BY <1>3
  <2> HIDE DEF a
  <2>4. a \in Nat
    BY <1>2 DEF Req
  <2> QED
    BY ONLY <2>1, <2>2, <2>3, <2>4, <2>5
<1>8. ASSUME NEW p, p = [ref |-> next_ref, reqs |-> e]
      PROVE  Shaped(p)'
  <2>1. p.reqs = e
    BY <1>8
  <2> HIDE DEF a, e
  <2> QED
    BY <1>2, <1>5, <1>6, <1>7, <2>1 DEF Shaped
<1> QED
  BY <1>8

LEMMA PacketsShapedStep ==
  Base /\ Base' /\ LostSettled /\ PacketsShaped /\ [Next]_vars => PacketsShaped'
<1> SUFFICES ASSUME Base, Base', LostSettled, PacketsShaped, [Next]_vars,
                    NEW c \in Conn, NEW k \in 1..Len(net'[c])
             PROVE  \A p : p = net'[c][k] => Shaped(p)'
  BY DEF PacketsShaped
<1>1. ASSUME NEW j \in 1..Len(net[c]), net'[c][k] = net[c][j]
      PROVE  \A p : p = net'[c][k] => Shaped(p)'
  BY <1>1, ShapedKept DEF PacketsShaped
<1>2. ASSUME NEW n \in Req, SendOk(n) \/ SendLost(n)
      PROVE  \A p : p = net'[c][k] => Shaped(p)'
  <2>1. /\ connection # 0 /\ net' = [net EXCEPT ![connection] = Append(@, Packet(n))]
        /\ n \in 1..Len(Waiting(buf))
    BY <1>2, TakeBatchFacts DEF Base, SendOk, SendLost
  <2>2. \/ \E j \in 1..Len(net[c]) : net'[c][k] = net[c][j]
        \/ net'[c][k] = [ref |-> next_ref, reqs |-> Batch(buf, n)]
    BY <2>1, GivenPackets
  <2> QED
    BY <1>1, <1>2, <2>2, GivenShaped
<1>3. CASE net' = net
  BY <1>1, <1>3
<1>4. ASSUME NEW d \in Conn, net[d] # <<>>,
             \/ net' = [net EXCEPT ![d] = Tail(@)]
             \/ net' = [net EXCEPT ![d] = <<>>]
      PROVE  \E j \in 1..Len(net[c]) : net'[c][k] = net[c][j]
  <2>1. net'[c] = net[c] \/ (net[c] # <<>> /\ net'[c] = Tail(net[c])) \/ net'[c] = <<>>
    BY <1>4, FlightTypes
  <2>2. Fewer(net'[c], net[c])
    BY <2>1, FlightTypes, FewerSame, FewerTail, FewerNone
  <2> QED
    BY <2>2 DEF Fewer
<1> QED
  BY <1>1, <1>2, <1>3, <1>4, NetMoves

LEMMA PacketsShapedAlways == Spec => []PacketsShaped
<1>1. Init => PacketsShaped
  <2>1. Len(<<>>) = 0
    BY EmptySeq
  <2> QED
    BY <2>1 DEF Init, PacketsShaped
<1> QED
  BY <1>1, PacketsShapedStep, LostIsSettled, Based, PTL DEF Spec

-----------------------------------------------------------------------------
(***************************************************************************)
(* Answers and the head of the wire                                        *)
(***************************************************************************)
OneOnWire == OnWireLimit = 1

\* A packet of this incarnation of the producer.
Fresh(p) == p.reqs[1] > lostTo

NoneFresh(c) == \A k \in 1..Len(net[c]) : ~Fresh(net[c][k])

\* Connection c carries nothing for this incarnation.
Silent(c) == NoneFresh(c) /\ responses[c] = <<>>

\* It carries one packet that the head of the wire waits for, or the answer
\* to it.
Carrying(c) ==
  \/ /\ responses[c] = <<>>
     /\ \E k \in 1..Len(net[c]) : /\ HeadRefIs(buf, net[c][k].ref)
                                  /\ \A j \in 1..Len(net[c]) : Fresh(net[c][j]) => j = k
  \/ /\ NoneFresh(c)
     /\ Len(responses[c]) = 1 /\ HeadRefIs(buf, responses[c][1].ref)

\* Of the live connections only the one in use carries anything; a producer
\* that waits to retry has nothing on wire.
Alone ==
  OneOnWire =>
    /\ retry_tref => buf.onwire = <<>>
    /\ \A c \in Conn : conns[c] = "up" => Silent(c) \/ (c = connection /\ Carrying(c))

\* A producer in its sending loop does not wait to retry.
Paused == sending => ~retry_tref

\* Nothing was answered on a connection that was never opened.
Unanswered == \A c \in Conn : conns[c] = "new" => responses[c] = <<>>

LEMMA PausedAlways == Spec => []Paused
<1>1. Init => Paused
  BY DEF Init, Paused
<1>2. Paused /\ [Next]_vars => Paused'
  <2> SUFFICES ASSUME Paused, [Next]_vars PROVE Paused'
    OBVIOUS
  <2>1. ASSUME NEW reason, Exit(reason)
        PROVE  Paused'
    BY <2>1 DEF Exit, Paused
  <2>2. ASSUME NEW b, NEW retry, NEW d, MaybeProduce(b, retry, d)
        PROVE  Paused'
    BY <2>2 DEF MaybeProduce, Paused
  <2>3. CASE UNCHANGED <<sending, retry_tref>>
    BY <2>3 DEF Paused
  <2>4. CASE sending' = FALSE
    BY <2>4 DEF Paused
  <2>5. CASE UNCHANGED vars \/ CallerNext
    BY <2>3, <2>5 DEF vars, CallerNext, Submit, CallerBuffered, CallerDown, producerVars
  <2>6. ASSUME NEW c \in Conn \cup {0}, HandleProduce(c) \/ HandleRetry(c)
        PROVE  Paused'
    BY <2>1, <2>2, <2>6 DEF HandleProduce, HandleRetry, Ends
  <2>7. ASSUME NEW c \in Conn,
               \/ HandleResponseOk(c) \/ HandleResponseRetriable(c)
               \/ HandleResponseFatal(c) \/ DiscardResponse(c)
        PROVE  Paused'
    <3>1. CASE HandleResponseOk(c)
      BY <2>1, <2>2, <3>1 DEF HandleResponseOk, Ends
    <3>2. CASE HandleResponseRetriable(c)
      <4>1. ~sending
        BY <3>2 DEF HandleResponseRetriable, Response
      <4> QED
        BY <2>1, <3>2, <4>1 DEF HandleResponseRetriable, Ends, Paused
    <3>3. CASE HandleResponseFatal(c) \/ DiscardResponse(c)
      BY <2>1, <2>3, <3>3 DEF HandleResponseFatal, DiscardResponse, Ends, producerVars
    <3> QED
      BY <2>7, <3>1, <3>2, <3>3
  <2>8. CASE HandleDown \/ HandleDelayedSend
    <3>1. ~sending
      BY <2>8 DEF HandleDown, HandleDelayedSend
    <3> QED
      BY <2>1, <2>2, <2>8, <3>1 DEF HandleDown, HandleDelayedSend, Ends, Paused
  <2>9. ASSUME NEW n \in Req, SendOk(n)
        PROVE  Paused'
    <3>1. sending /\ retry_tref' = retry_tref
      BY <2>9 DEF SendOk, TakeBatch
    <3> QED
      BY <3>1 DEF Paused
  <2>10. CASE SendNext
    BY <2>1, <2>4, <2>9, <2>10 DEF SendNext, SendError, SendLost, SendFailed, Linger
  <2>11. CASE EnvironmentNext
    BY <2>1, <2>3, <2>11 DEF EnvironmentNext, DelayTimerFires, Stop, Restart, ConnectionDies,
       ClientSeesExit, InFlightLost, BrokerHandles, Ends, producerVars
  <2> QED
    BY <2>5, <2>6, <2>7, <2>8, <2>10, <2>11 DEF Next, HandlerNext
<1> QED
  BY <1>1, <1>2, PTL DEF Spec

LEMMA UnansweredAlways == Spec => []Unanswered
<1>1. Init => Unanswered
  BY DEF Init, Unanswered, NoResponses
<1>2. Base /\ Unanswered /\ [Next]_vars => Unanswered'
  <2> SUFFICES ASSUME Base, Unanswered, [Next]_vars, NEW c \in Conn, conns'[c] = "new"
               PROVE  responses'[c] = <<>>
    BY DEF Unanswered
  <2>1. /\ conns \in [Conn -> {"new", "up", "dead"}]
        /\ responses \in [Conn -> Seq(AnswerType)]
    BY FlightTypes DEF Base, IInv, TypeOK, NetworkTypeOK
  <2>2. conns[c] = "new"
    <3>1. \/ conns' = conns
          \/ \E d : conns' = [conns EXCEPT ![d] = "up"] \/ conns' = [conns EXCEPT ![d] = "dead"]
      <4>1. CASE UNCHANGED vars \/ CallerNext
        BY <4>1 DEF vars, CallerNext, Submit, CallerBuffered, CallerDown, networkVars
      <4>2. CASE HandlerNext
        BY <4>2 DEF HandlerNext, HandleProduce, HandleRetry, HandleResponseOk,
           HandleResponseRetriable, HandleResponseFatal, DiscardResponse, HandleDown,
           HandleDelayedSend, GetLeaderConnection, networkVars
      <4>3. CASE SendNext
        BY <4>3 DEF SendNext, SendOk, SendError, SendLost, Linger, networkVars
      <4>4. CASE EnvironmentNext
        BY <4>4 DEF EnvironmentNext, DelayTimerFires, Stop, Restart, ConnectionDies,
           ClientSeesExit, InFlightLost, BrokerHandles, networkVars
      <4> QED
        BY <4>1, <4>2, <4>3, <4>4 DEF Next
    <3> QED
      BY <2>1, <3>1
  <2>3. responses[c] = <<>>
    BY <2>2 DEF Unanswered
  <2>4. ASSUME NEW d \in Conn, responses[d] # <<>>, responses' = [responses EXCEPT ![d] = Tail(@)]
        PROVE  responses'[c] = responses[c]
    BY <2>1, <2>3, <2>4
  <2>5. ASSUME NEW reason, Exit(reason)
        PROVE  responses'[c] = <<>>
    BY <2>5 DEF Exit, NoResponses
  <2>6. CASE responses' = responses
    BY <2>3, <2>6
  <2>7. CASE UNCHANGED vars \/ CallerNext
    BY <2>6, <2>7 DEF vars, CallerNext, Submit, CallerBuffered, CallerDown, mailboxVars
  <2>8. ASSUME NEW d \in Conn \cup {0}, HandleProduce(d) \/ HandleRetry(d)
        PROVE  responses'[c] = <<>>
    BY <2>5, <2>6, <2>8 DEF HandleProduce, HandleRetry, Ends, mailboxVars
  <2>9. ASSUME NEW d \in Conn,
               \/ HandleResponseOk(d) \/ HandleResponseRetriable(d)
               \/ HandleResponseFatal(d) \/ DiscardResponse(d)
        PROVE  responses'[c] = <<>>
    BY <2>3, <2>4, <2>5, <2>9 DEF HandleResponseOk, HandleResponseRetriable,
       HandleResponseFatal, DiscardResponse, Response, Ends
  <2>10. CASE HandleDown \/ HandleDelayedSend
    BY <2>5, <2>6, <2>10 DEF HandleDown, HandleDelayedSend, Ends, mailboxVars
  <2>11. CASE SendNext
    BY <2>5, <2>6, <2>11 DEF SendNext, SendOk, SendError, SendLost, SendFailed, Linger,
       mailboxVars
  <2>12. CASE EnvironmentNext
    <3>1. ASSUME NEW d \in Conn, NEW out \in Outcomes, BrokerHandles(d, out)
          PROVE  responses'[c] = <<>>
      BY <2>1, <2>2, <2>3, <3>1 DEF BrokerHandles
    <3> QED
      BY <2>5, <2>6, <2>12, <3>1 DEF EnvironmentNext, DelayTimerFires, Stop, Restart,
         ConnectionDies, ClientSeesExit, InFlightLost, Ends, mailboxVars
  <2> QED
    BY <2>7, <2>8, <2>9, <2>10, <2>11, <2>12 DEF Next, HandlerNext
<1> QED
  BY <1>1, <1>2, Based, PTL DEF Spec

\* Nothing is different for connection c.
SameFor(c) ==
  /\ conns[c] = "up" /\ net'[c] = net[c] /\ responses'[c] = responses[c]
  /\ UNCHANGED <<lostTo, connection>> /\ buf'.onwire = buf.onwire

LEMMA SameAlone ==
  ASSUME Alone, OneOnWire, NEW c \in Conn, SameFor(c)
  PROVE  Silent(c)' \/ (c = connection' /\ Carrying(c)')
<1>1. Silent(c) \/ (c = connection /\ Carrying(c))
  BY DEF Alone, SameFor
<1>2. NoneFresh(c) => NoneFresh(c)'
  BY DEF NoneFresh, Fresh, SameFor
<1>3. Silent(c) => Silent(c)'
  BY <1>2 DEF Silent, SameFor
<1>4. Carrying(c) => Carrying(c)'
  BY <1>2 DEF Carrying, HeadRefIs, Fresh, SameFor
<1> QED
  BY <1>1, <1>3, <1>4 DEF SameFor

LEMMA AloneFrom ==
  ASSUME Alone,
         OneOnWire => /\ retry_tref' => buf'.onwire = <<>>
                      /\ \A c \in Conn : conns'[c] = "up" => Silent(c)' \/ SameFor(c)
  PROVE  Alone'
  BY SameAlone DEF Alone, OneOnWire

LEMMA NothingTravels ==
  ASSUME Alone, OneOnWire, buf.onwire = <<>> \/ connection = 0, NEW c \in Conn, conns[c] = "up"
  PROVE  Silent(c)
<1>1. Silent(c) \/ (c = connection /\ Carrying(c))
  BY DEF Alone
<1>2. connection # 0 => ~Carrying(c)
  BY DEF Carrying, HeadRefIs
<1>3. c # 0
  BY DEF Conn
<1> QED
  BY <1>1, <1>2, <1>3

LEMMA SilentStays ==
  ASSUME Base, NEW c \in Conn, Silent(c), lostTo' = lostTo, responses'[c] = responses[c],
         net'[c] = net[c] \/ net'[c] = <<>> \/ (net[c] # <<>> /\ net'[c] = Tail(net[c]))
  PROVE  Silent(c)'
<1>1. Fewer(net'[c], net[c])
  BY FlightTypes, FewerSame, FewerNone, FewerTail
<1>2. NoneFresh(c)'
  BY <1>1 DEF Fewer, NoneFresh, Fresh, Silent
<1> QED
  BY <1>2 DEF Silent

\* A connection that is opened carries nothing.
LEMMA NewSilent ==
  ASSUME Base, Unopened, Unanswered, NEW c \in Conn, conns[c] = "new"
  PROVE  Silent(c)
<1>1. net[c] = <<>> /\ responses[c] = <<>> /\ Len(net[c]) = 0
  BY EmptySeq DEF Unopened, Unanswered
<1> QED
  BY <1>1 DEF Silent, NoneFresh

\* When the producer ends, what travels is of an ended incarnation.
LEMMA EndAlone ==
  ASSUME Base, PacketsShaped, Alone, NEW reason, Exit(reason),
         \A c \in Conn : conns'[c] = "up" => net'[c] = net[c]
  PROVE  Alone'
<1>1. /\ ~retry_tref' /\ lostTo' = last /\ responses' = NoResponses
  BY DEF Exit
<1>2. ASSUME NEW c \in Conn, net'[c] = net[c], NEW k \in 1..Len(net[c])
      PROVE  ~Fresh(net[c][k])'
  <2>1. PICK a \in Req, m \in Nat : /\ m > 0 /\ \A j \in 1..m : net[c][k].reqs[j] = a + j - 1
                                    /\ a + m - 1 <= Accepted
    BY <1>2 DEF PacketsShaped, Shaped
  <2>2. Accepted <= Handled /\ Handled <= last /\ Accepted \in Nat /\ Handled \in Nat /\ last \in Nat
    BY DEF Base, Bordered
  <2>3. a \in Nat /\ 1 \in 1..m
    BY <2>1 DEF Req
  <2>4. net[c][k].reqs[1] = a + 1 - 1
    BY <2>1, <2>3
  <2>5. a + 1 - 1 <= last
    BY <2>1, <2>2, <2>3
  <2> DEFINE z == a + 1 - 1
  <2>6. z \in Int /\ z <= last
    BY <2>3, <2>5
  <2> HIDE DEF z
  <2>7. ~(z > last)
    BY <2>2, <2>6
  <2> QED
    BY <1>1, <1>2, <2>4, <2>7 DEF Fresh, z
<1>3. ASSUME NEW c \in Conn, conns'[c] = "up"
      PROVE  Silent(c)'
  <2>1. net'[c] = net[c] /\ responses'[c] = <<>>
    BY <1>1, <1>3 DEF NoResponses
  <2>2. NoneFresh(c)'
    BY <1>2, <2>1 DEF NoneFresh, Fresh
  <2> QED
    BY <2>1, <2>2 DEF Silent
<1> QED
  BY <1>1, <1>3, AloneFrom

\* With nothing on wire there is nothing on its way; connections may be
\* opened or die, and what is on wire may be rearranged.
LEMMA QuietAlone ==
  ASSUME Base, Alone, Unopened, Unanswered,
         OneOnWire => /\ buf.onwire = <<>> \/ connection = 0
                      /\ retry_tref' => buf'.onwire = <<>>,
         UNCHANGED <<lostTo, responses>>,
         \A c \in Conn : conns'[c] = "up" => /\ conns[c] \in {"new", "up"}
                                             /\ net'[c] = net[c]
  PROVE  Alone'
<1>1. ASSUME OneOnWire, NEW c \in Conn, conns'[c] = "up"
      PROVE  Silent(c)'
  <2>1. Silent(c)
    BY <1>1, NothingTravels, NewSilent
  <2> QED
    BY <1>1, <2>1, SilentStays
<1> QED
  BY <1>1, AloneFrom

LEMMA LeaderConns ==
  ASSUME Base, NEW d, GetLeaderConnection(d), NEW c \in Conn, conns'[c] = "up"
  PROVE  conns[c] \in {"new", "up"}
<1>1. conns \in [Conn -> {"new", "up", "dead"}]
  BY DEF Base, IInv, TypeOK, NetworkTypeOK
<1> QED
  BY <1>1 DEF GetLeaderConnection

LEMMA HandleProduceAlone ==
  ASSUME Base, PacketsShaped, Alone, Unopened, Unanswered, NEW c \in Conn \cup {0}, HandleProduce(c)
  PROVE  Alone'
<1>1. UNCHANGED <<net, log>>
  BY DEF HandleProduce
<1>2. CASE ReinitCrashes(c)
  <2>1. Exit("reached_max_retries")
    BY <1>2 DEF HandleProduce, Ends
  <2> QED
    BY <1>1, <2>1, EndAlone
<1>3. CASE ~ReinitCrashes(c)
  <2>1. /\ retry_tref' = retry_tref /\ connection' = c /\ UNCHANGED <<responses, lostTo>>
        /\ inbox # <<>>
    BY <1>3 DEF HandleProduce, MaybeProduce, historyVars
  <2>2. Head(inbox) \in Req /\ buf \in Buffers
    <3>1. inbox \in Seq(Req) /\ buf \in Buffers
      BY DEF Base, IInv, TypeOK, MailboxTypeOK, ProducerTypeOK
    <3> QED
      BY <2>1, <3>1, HeadTailProperties
  <2>3. CASE retry_tref \/ connection # 0
    <3>1. c = connection /\ conns' = conns /\ buf' = Add(buf, Head(inbox))
      BY <1>3, <2>3 DEF HandleProduce, MaybeProduce
    <3>2. buf'.onwire = buf.onwire
      BY <2>2, <3>1, AddMoves
    <3>3. \A d \in Conn : conns'[d] = "up" => SameFor(d)
      BY <1>1, <2>1, <3>1, <3>2 DEF SameFor
    <3>4. OneOnWire /\ retry_tref' => buf'.onwire = <<>>
      BY <2>1, <3>2 DEF Alone
    <3> QED
      BY <3>3, <3>4, AloneFrom
  <2>4. CASE ~retry_tref /\ connection = 0
    <3>1. GetLeaderConnection(c)
      BY <2>4 DEF HandleProduce
    <3> QED
      BY <1>1, <2>1, <2>4, <3>1, LeaderConns, QuietAlone
  <2> QED
    BY <2>3, <2>4
<1> QED
  BY <1>2, <1>3

LEMMA HandleRetryAlone ==
  ASSUME Base, PacketsShaped, Alone, Unopened, Unanswered, NEW c \in Conn \cup {0}, HandleRetry(c)
  PROVE  Alone'
<1>1. UNCHANGED <<net, log>> /\ retry_tref /\ GetLeaderConnection(c)
  BY DEF HandleRetry
<1>2. CASE ReinitCrashes(c)
  <2>1. Exit("reached_max_retries")
    BY <1>2 DEF HandleRetry, Ends
  <2> QED
    BY <1>1, <2>1, EndAlone
<1>3. CASE ~ReinitCrashes(c)
  <2>1. ~retry_tref' /\ UNCHANGED <<responses, lostTo>>
    BY <1>3 DEF HandleRetry, MaybeProduce, mailboxVars, historyVars
  <2>2. OneOnWire => buf.onwire = <<>>
    BY <1>1 DEF Alone
  <2> QED
    BY <1>1, <2>1, <2>2, LeaderConns, QuietAlone
<1> QED
  BY <1>2, <1>3

LEMMA HandleDownAlone ==
  ASSUME Base, PacketsShaped, Alone, HandleDown
  PROVE  Alone'
<1>1. UNCHANGED <<net, conns>> /\ connection # 0 /\ conns[connection] = "dead"
  BY DEF HandleDown, networkVars
<1>2. CASE Ends("reached_max_retries")
  <2>1. Exit("reached_max_retries")
    BY <1>2 DEF Ends
  <2> QED
    BY <1>1, <2>1, EndAlone
<1>3. CASE ~Ends("reached_max_retries")
  <2>1. /\ UNCHANGED <<responses, lostTo>>
        /\ buf' = IF IsEmpty(buf) THEN buf ELSE NackAll(buf)
    BY <1>3 DEF HandleDown, mailboxVars, historyVars
  <2>2. buf'.onwire = <<>>
    <3>1. NackAll(buf).onwire = <<>>
      BY NackAllMoves DEF Base, IInv, TypeOK, ProducerTypeOK
    <3> QED
      BY <2>1, <3>1 DEF IsEmpty
  <2>3. ASSUME OneOnWire, NEW c \in Conn, conns'[c] = "up"
        PROVE  Silent(c)'
    <3>1. Silent(c)
      BY <1>1, <2>3 DEF Alone
    <3> QED
      BY <1>1, <2>1, <3>1, SilentStays
  <2> QED
    BY <2>2, <2>3, AloneFrom
<1> QED
  BY <1>2, <1>3

\* The answer to the head of the wire is the last thing that travels.
LEMMA AnswerTaken ==
  ASSUME Base, Alone, OneOnWire, NEW c \in Conn, connection = c, responses[c] # <<>>,
         responses' = [responses EXCEPT ![c] = Tail(@)], UNCHANGED <<net, conns, lostTo>>,
         NEW d \in Conn, conns[d] = "up"
  PROVE  Silent(d)'
<1>1. Silent(d) \/ (d = c /\ Carrying(d))
  BY DEF Alone
<1>2. responses'[d] = IF d = c THEN Tail(responses[d]) ELSE responses[d]
  BY FlightTypes
<1>3. CASE Silent(d)
  <2>1. d # c
    BY <1>3 DEF Silent
  <2> QED
    BY <1>2, <1>3, <2>1, SilentStays
<1>4. CASE d = c /\ Carrying(d)
  <2>1. NoneFresh(d) /\ Len(responses[d]) = 1 /\ responses[d] # <<>>
    BY <1>4 DEF Carrying
  <2>2. responses'[d] = <<>>
    <3>1. Len(Tail(responses[d])) = 0 /\ Tail(responses[d]) \in Seq(AnswerType)
      BY <2>1, FlightTypes, HeadTailProperties
    <3> QED
      BY <1>2, <1>4, <3>1, EmptySeq
  <2>3. NoneFresh(d)'
    BY <2>1 DEF NoneFresh, Fresh
  <2> QED
    BY <2>2, <2>3 DEF Silent
<1> QED
  BY <1>1, <1>3, <1>4

LEMMA ResponsesAlone ==
  ASSUME Base, PacketsShaped, Alone, NEW c \in Conn,
         \/ HandleResponseOk(c) \/ HandleResponseRetriable(c)
         \/ HandleResponseFatal(c) \/ DiscardResponse(c)
  PROVE  Alone'
<1>1. UNCHANGED <<net, conns>> /\ responses[c] # <<>>
  BY DEF HandleResponseOk, HandleResponseRetriable, HandleResponseFatal, DiscardResponse,
         Response, networkVars
<1>2. ASSUME NEW reason, Ends(reason)
      PROVE  Alone'
  BY <1>1, <1>2, EndAlone DEF Ends
<1>3. CASE HandleResponseOk(c) /\ ~Ends("function_clause")
  <2>1. /\ connection = c /\ responses' = [responses EXCEPT ![c] = Tail(@)]
        /\ lostTo' = lostTo /\ retry_tref' = retry_tref /\ buf.onwire # <<>>
    BY <1>3 DEF HandleResponseOk, Response, MaybeProduce, HeadRefIs
  <2>2. OneOnWire => ~retry_tref'
    BY <2>1 DEF Alone
  <2>3. OneOnWire => \A d \in Conn : conns'[d] = "up" => Silent(d)'
    BY <1>1, <2>1, AnswerTaken
  <2> QED
    BY <2>2, <2>3, AloneFrom
<1>4. CASE HandleResponseRetriable(c) /\ (\A reason : ~Ends(reason))
  <2>1. /\ connection = c /\ responses' = [responses EXCEPT ![c] = Tail(@)]
        /\ lostTo' = lostTo /\ buf' = NackAll(buf)
    BY <1>4 DEF HandleResponseRetriable, Response, historyVars
  <2>2. buf'.onwire = <<>>
    BY <2>1, NackAllMoves DEF Base, IInv, TypeOK, ProducerTypeOK
  <2>3. OneOnWire => \A d \in Conn : conns'[d] = "up" => Silent(d)'
    BY <1>1, <2>1, AnswerTaken
  <2> QED
    BY <2>2, <2>3, AloneFrom
<1>5. CASE HandleResponseFatal(c)
  BY <1>2, <1>5 DEF HandleResponseFatal
<1>6. CASE DiscardResponse(c)
  <2>1. /\ connection # c /\ responses' = [responses EXCEPT ![c] = Tail(@)]
        /\ UNCHANGED <<lostTo, retry_tref, buf, connection>>
    BY <1>6 DEF DiscardResponse, historyVars, producerVars
  <2>2. ASSUME OneOnWire, NEW d \in Conn, conns'[d] = "up"
        PROVE  SameFor(d)
    <3>1. d # c
      BY <1>1, <2>1, <2>2 DEF Alone, Silent
    <3>2. responses'[d] = responses[d]
      BY <2>1, <3>1, FlightTypes
    <3> QED
      BY <1>1, <2>1, <2>2, <3>2 DEF SameFor
  <2>3. OneOnWire => (retry_tref' => buf'.onwire = <<>>)
    BY <2>1 DEF Alone
  <2> QED
    BY <2>2, <2>3, AloneFrom
<1> QED
  BY <1>2, <1>3, <1>4, <1>5, <1>6

LEMMA SendOkAlone ==
  ASSUME Base, Alone, Paused, NEW n \in Req, SendOk(n)
  PROVE  Alone'
<1> DEFINE t == TakeReqs(buf, n)
           e == Batch(buf, n)
           b == PutOnWire(t, e, next_ref)
<1>1. /\ TakeBatch(n) /\ connection # 0 /\ conns' = conns /\ buf' = b
      /\ net' = [net EXCEPT ![connection] = Append(@, Packet(n))]
      /\ UNCHANGED <<lostTo, responses, retry_tref, connection>>
  BY DEF SendOk, mailboxVars, historyVars
<1>2. n \in 1..Len(Waiting(buf)) /\ Counted(buf) /\ CanTake(buf) /\ buf \in Buffers
      /\ connection \in Conn
  BY <1>1, TakeBatchFacts DEF Base, WellKept, IInv, TypeOK, ProducerTypeOK
<1>3. ~retry_tref'
  BY <1>1 DEF Paused, TakeBatch
<1>4. SUFFICES ASSUME OneOnWire, NEW c \in Conn, conns'[c] = "up"
               PROVE  Silent(c)' \/ (c = connection' /\ Carrying(c)')
  BY <1>3 DEF Alone, OneOnWire
<1>5. buf.onwire = <<>> /\ Wire = 0
  BY <1>2, <1>4, NothingOnWire DEF OneOnWire
<1>6. Silent(c)
  BY <1>1, <1>4, <1>5, NothingTravels
<1>7. CASE c # connection
  <2>1. net'[c] = net[c] /\ responses'[c] = responses[c]
    BY <1>1, <1>2, <1>7, FlightTypes
  <2> QED
    BY <1>1, <1>6, <2>1, SilentStays
<1>8. CASE c = connection
  <2> DEFINE s == net[c]
  <2>1. /\ s \in Seq(FlightType) /\ Len(s) \in Nat /\ net'[c] = Append(s, Packet(n))
        /\ responses'[c] = <<>>
    BY <1>1, <1>2, <1>6, <1>8, FlightTypes DEF Silent
  <2>2. Packet(n) \in FlightType /\ Packet(n).ref = next_ref
    BY <1>2, BatchFollowsWire, FlightTypes DEF Packet, FlightType
  <2>3. \A j \in 1..Len(s) : ~Fresh(s[j])
    BY <1>6 DEF Silent, NoneFresh
  <2> HIDE DEF s
  <2>4. /\ Len(Append(s, Packet(n))) = Len(s) + 1
        /\ \A i \in 1..(Len(s) + 1) :
             Append(s, Packet(n))[i] = IF i <= Len(s) THEN s[i] ELSE Packet(n)
    BY <2>1, <2>2, AppendProperties
  <2> DEFINE k == Len(s) + 1
  <2>5. k \in 1..Len(net'[c]) /\ net'[c][k].ref = next_ref
    <3>1. k \in 1..(Len(s) + 1) /\ ~(k <= Len(s))
      BY <2>1
    <3> HIDE DEF k
    <3>2. Append(s, Packet(n))[k] = Packet(n) /\ k \in 1..Len(Append(s, Packet(n)))
      BY <2>4, <3>1
    <3>3. net'[c][k] = Packet(n)
      BY <2>1, <3>2
    <3>4. k \in 1..Len(net'[c])
      BY <2>1, <3>2
    <3> QED
      BY ONLY <2>2, <3>3, <3>4
  <2>6. ASSUME NEW j \in 1..Len(net'[c]), net'[c][j].reqs[1] > lostTo'
        PROVE  j = k
    <3>1. j \in Nat /\ j >= 1 /\ j <= Len(s) + 1 /\ j \in 1..(Len(s) + 1)
      BY <2>1, <2>4, <2>6
    <3>2. SUFFICES ASSUME j <= Len(s) PROVE FALSE
      BY <2>1, <3>1
    <3>3. net'[c][j] = s[j] /\ j \in 1..Len(s)
      BY <2>1, <2>4, <3>1, <3>2
    <3>4. Fresh(s[j])
      BY <1>1, <2>6, <3>3 DEF Fresh
    <3> QED
      BY <2>3, <3>3, <3>4
  <2>7. HeadRefIs(b, next_ref)
    <3>1. t \in Buffers /\ e \in Seq(Req) /\ Len(e) = n /\ t.onwire = buf.onwire
          /\ n \in Nat /\ n > 0 /\ next_ref \in Nat
      BY <1>2, TakeReqsLemma, BatchFollowsWire, FlightTypes
    <3> HIDE DEF t, e
    <3>2. Len(t.onwire) = 0
      BY <1>5, <3>1 DEF Wire
    <3>3. /\ Len(b.onwire) = Len(t.onwire) + Len(e)
          /\ \A i \in (Len(t.onwire) + 1)..(Len(t.onwire) + Len(e)) : b.onwire[i].ref = next_ref
      BY ZenonT(60), <3>1, PutOnWireMoves
    <3> HIDE DEF b
    <3>4. 1 \in (0 + 1)..(0 + n) /\ Len(b.onwire) > 0
      BY <3>1, <3>2, <3>3
    <3>5. b.onwire[1].ref = next_ref
      BY <3>1, <3>2, <3>3, <3>4
    <3>6. b.onwire # <<>>
      BY <3>4, EmptySeq
    <3> QED
      BY <3>5, <3>6 DEF HeadRefIs
  <2>8. \E i \in 1..Len(net'[c]) : /\ HeadRefIs(buf', net'[c][i].ref)
                                   /\ \A j \in 1..Len(net'[c]) : net'[c][j].reqs[1] > lostTo' => j = i
    BY <1>1, <2>5, <2>6, <2>7
  <2> HIDE DEF k, b
  <2>9. Carrying(c)'
    BY <2>1, <2>8 DEF Carrying, HeadRefIs, Fresh
  <2> QED
    BY <1>1, <1>8, <2>9
<1> QED
  BY <1>7, <1>8

LEMMA SendFailedAlone ==
  ASSUME Base, PacketsShaped, Alone, Unopened, Unanswered, NEW n \in Req,
         SendError(n) \/ SendLost(n)
  PROVE  Alone'
<1>1. TakeBatch(n) /\ SendFailed(n)
  BY DEF SendError, SendLost
<1>2. CanTake(buf) /\ connection \in Conn \cup {0} /\ conns \in [Conn -> {"new", "up", "dead"}]
  BY <1>1, TakeBatchFacts DEF Base, IInv, TypeOK, ProducerTypeOK, NetworkTypeOK
<1>3. \A c \in Conn : conns'[c] = "up" => conns[c] = "up" /\ net'[c] = net[c]
  BY <1>2, FlightTypes DEF SendError, SendLost, networkVars
<1>4. CASE Exit("reached_max_retries")
  BY <1>3, <1>4, EndAlone
<1>5. CASE buf'.onwire = buf.onwire /\ UNCHANGED <<lostTo, mailboxVars>>
  <2>1. OneOnWire => buf.onwire = <<>>
    BY <1>2, NothingOnWire DEF OneOnWire
  <2> QED
    BY <1>3, <1>5, <2>1, QuietAlone DEF mailboxVars
<1> QED
  BY <1>1, <1>4, <1>5, SendFailedLengths

LEMMA BrokerAlone ==
  ASSUME Base, Alone, NEW d \in Conn, NEW out \in Outcomes, BrokerHandles(d, out)
  PROVE  Alone'
<1> DEFINE p == Head(net[d])
           r == [ref |-> p.ref, code |-> Code(out), base |-> Len(log)]
           s == net[d]
<1>1. /\ s # <<>> /\ net' = [net EXCEPT ![d] = Tail(@)] /\ conns' = conns
      /\ responses' = IF conns[d] = "up" /\ p.reqs[1] > lostTo
                      THEN [responses EXCEPT ![d] = Append(@, r)]
                      ELSE responses
      /\ UNCHANGED <<lostTo, buf, connection, retry_tref>>
  BY DEF BrokerHandles, historyVars, producerVars
<1>2. SUFFICES ASSUME OneOnWire, NEW c \in Conn, conns'[c] = "up"
               PROVE  Silent(c)' \/ SameFor(c) \/ (c = connection' /\ Carrying(c)')
  <2>1. OneOnWire => (retry_tref' => buf'.onwire = <<>>)
    BY <1>1 DEF Alone
  <2>2. ASSUME NEW c \in Conn, SameFor(c), OneOnWire
        PROVE  Silent(c)' \/ (c = connection' /\ Carrying(c)')
    BY <2>2, SameAlone
  <2> QED
    BY <1>2, <2>1, <2>2 DEF Alone, OneOnWire
<1>3. CASE c # d
  BY <1>1, <1>2, <1>3, FlightTypes DEF SameFor
<1>4. CASE c = d
  <2>1. /\ s \in Seq(FlightType) /\ Len(s) \in Nat /\ conns[c] = "up"
        /\ net'[c] = Tail(s) /\ 1 \in 1..Len(s) /\ p = s[1]
        /\ Len(Tail(s)) = Len(s) - 1
        /\ \A i \in 1..Len(Tail(s)) : Tail(s)[i] = s[i + 1]
    <3>1. s \in Seq(FlightType) /\ Len(s) \in Nat /\ net'[c] = Tail(s) /\ conns[c] = "up"
      BY <1>1, <1>2, <1>4, FlightTypes
    <3>2. 1 \in 1..Len(s) /\ p = s[1]
      BY <1>1, <3>1, EmptySeq
    <3> QED
      BY <1>1, <3>1, <3>2, HeadTailProperties
  <2>2. Silent(c) \/ (c = connection /\ Carrying(c))
    BY <1>2, <2>1 DEF Alone
  <2>3. CASE NoneFresh(c)
    <3>1. ~Fresh(p)
      BY <1>4, <2>1, <2>3 DEF NoneFresh
    <3>2. responses' = responses
      BY <1>1, <3>1 DEF Fresh
    <3>3. NoneFresh(c)'
      <4>1. Fewer(Tail(s), s)
        BY <1>1, <2>1, FewerTail
      <4> HIDE DEF s
      <4>2. \A k \in 1..Len(s) : ~Fresh(s[k])
        BY <1>4, <2>3 DEF NoneFresh, s
      <4>3. \A k \in 1..Len(Tail(s)) : ~(Tail(s)[k].reqs[1] > lostTo)
        BY <4>1, <4>2 DEF Fewer, Fresh
      <4> QED
        BY <1>1, <2>1, <4>3 DEF NoneFresh, Fresh
    <3>4. Silent(c) => Silent(c)'
      BY <3>2, <3>3 DEF Silent
    <3>5. c = connection /\ Carrying(c) /\ ~Silent(c) => Carrying(c)'
      BY <1>1, <2>3, <3>2, <3>3 DEF Silent, Carrying, HeadRefIs
    <3> QED
      BY <1>1, <2>2, <3>4, <3>5
  <2>4. CASE ~NoneFresh(c)
    <3>1. PICK k \in 1..Len(s) : /\ HeadRefIs(buf, s[k].ref)
                                 /\ \A j \in 1..Len(s) : Fresh(s[j]) => j = k
      BY <1>4, <2>2, <2>4 DEF Silent, Carrying
    <3>2. responses[c] = <<>> /\ c = connection
      BY <2>2, <2>4 DEF Silent, Carrying
    <3>3. CASE Fresh(p)
      <4>1. k = 1
        BY <2>1, <3>1, <3>3
      <4>2. responses'[c] = Append(<<>>, r)
        BY <1>1, <1>4, <2>1, <3>2, <3>3, FlightTypes DEF Fresh
      <4>3. r \in AnswerType
        <5>1. p \in FlightType
          BY <2>1, ElementOfSeq
        <5>2. p.ref \in Nat
          BY <5>1 DEF FlightType
        <5>3. Code(out) \in {"ok", "retriable", "fatal"}
          BY EnvironmentAssumption DEF Code, Outcomes
        <5> QED
          BY <5>2, <5>3, FlightTypes DEF AnswerType
      <4>4. r.ref = p.ref
        OBVIOUS
      <4>5. ASSUME NEW j \in 1..Len(Tail(s))
            PROVE  ~Fresh(Tail(s)[j])
        <5>1. j + 1 \in 1..Len(s) /\ j + 1 # 1
          BY <2>1
        <5> QED
          BY <2>1, <3>1, <4>1, <5>1
      <4> HIDE DEF r, p, s
      <4>6. Len(Append(<<>>, r)) = 1 /\ Append(<<>>, r)[1] = r
        <5>1. <<>> \in Seq(AnswerType) /\ Len(<<>>) = 0
          BY EmptySeq
        <5>2. /\ Len(Append(<<>>, r)) = Len(<<>>) + 1
              /\ \A i \in 1..(Len(<<>>) + 1) :
                   Append(<<>>, r)[i] = IF i <= Len(<<>>) THEN <<>>[i] ELSE r
          BY <4>3, <5>1, AppendProperties
        <5> QED
          BY <5>1, <5>2
      <4>7. NoneFresh(c)'
        BY <1>1, <2>1, <4>5 DEF NoneFresh, Fresh
      <4>8. Len(responses'[c]) = 1 /\ HeadRefIs(buf, responses'[c][1].ref)
        BY <2>1, <3>1, <4>1, <4>2, <4>4, <4>6
      <4>9. Carrying(c)'
        BY <1>1, <4>7, <4>8 DEF Carrying, HeadRefIs
      <4> QED
        BY <1>1, <3>2, <4>9
    <3>4. CASE ~Fresh(p)
      <4>1. responses' = responses
        BY <1>1, <3>4 DEF Fresh
      <4>2. PICK m \in 1..Len(s) : Fresh(s[m])
        BY <1>4, <2>4 DEF NoneFresh
      <4>3. m = k /\ Fresh(s[k]) /\ k # 1
        BY <2>1, <3>1, <3>4, <4>2
      <4>4. PICK l \in 1..Len(Tail(s)) : l + 1 = k
        <5>1. k - 1 \in 1..(Len(s) - 1) /\ (k - 1) + 1 = k
          BY <2>1, <4>3
        <5> QED
          BY <2>1, <5>1
      <4>5. Tail(s)[l] = s[k]
        BY <2>1, <4>4
      <4>6. ASSUME NEW j \in 1..Len(Tail(s)), Fresh(Tail(s)[j])
            PROVE  j = l
        <5>1. j + 1 \in 1..Len(s) /\ Fresh(s[j + 1])
          BY <2>1, <4>6
        <5>2. j + 1 = k
          BY <3>1, <5>1
        <5> QED
          BY <2>1, <4>4, <5>2
      <4> HIDE DEF s, p, r
      <4>7. Carrying(c)'
        <5>1. \E i \in 1..Len(Tail(s)) : /\ HeadRefIs(buf, Tail(s)[i].ref)
                                         /\ \A j \in 1..Len(Tail(s)) : Fresh(Tail(s)[j]) => j = i
          BY <3>1, <4>5, <4>6
        <5>2. responses'[c] = <<>> /\ net'[c] = Tail(s) /\ buf' = buf /\ lostTo' = lostTo
          BY <1>1, <2>1, <3>2, <4>1
        <5> QED
          BY <5>1, <5>2 DEF Carrying, Fresh, HeadRefIs
      <4> QED
        BY <1>1, <3>2, <4>7
    <3> QED
      BY <3>3, <3>4
  <2> QED
    BY <2>3, <2>4
<1> QED
  BY <1>3, <1>4

LEMMA AloneStep ==
  Base /\ PacketsShaped /\ Unopened /\ Unanswered /\ Paused /\ Alone /\ [Next]_vars => Alone'
<1> SUFFICES ASSUME Base, PacketsShaped, Unopened, Unanswered, Paused, Alone, [Next]_vars
             PROVE  Alone'
  OBVIOUS
<1>1. CASE /\ UNCHANGED <<net, responses, lostTo, connection, retry_tref>>
           /\ buf'.onwire = buf.onwire
           /\ \A c \in Conn : conns'[c] = "up" => conns[c] = "up"
  <2>1. \A c \in Conn : conns'[c] = "up" => SameFor(c)
    BY <1>1 DEF SameFor
  <2>2. OneOnWire => (retry_tref' => buf'.onwire = <<>>)
    BY <1>1 DEF Alone
  <2> QED
    BY <2>1, <2>2, AloneFrom
<1>2. CASE UNCHANGED vars \/ CallerNext
  BY <1>1, <1>2 DEF vars, CallerNext, Submit, CallerBuffered, CallerDown, producerVars,
     mailboxVars, networkVars, historyVars
<1>3. CASE HandlerNext
  <2>1. HandleDelayedSend => Alone'
    BY <1>1 DEF HandleDelayedSend, MaybeProduce, mailboxVars, networkVars, historyVars
  <2> QED
    BY <1>3, <2>1, HandleProduceAlone, HandleRetryAlone, HandleDownAlone, ResponsesAlone
       DEF HandlerNext
<1>4. CASE SendNext
  <2>1. Linger => Alone'
    BY <1>1 DEF Linger, mailboxVars, networkVars, historyVars
  <2> QED
    BY <1>4, <2>1, SendOkAlone, SendFailedAlone DEF SendNext
<1>5. CASE EnvironmentNext
  <2>1. CASE DelayTimerFires \/ Restart
    BY <1>1, <2>1 DEF DelayTimerFires, Restart, producerVars, mailboxVars, networkVars,
       historyVars
  <2>2. CASE Stop
    <3>1. Exit("normal") /\ net' = net
      BY <2>2 DEF Stop, Ends, networkVars
    <3> QED
      BY <3>1, EndAlone
  <2>3. ASSUME NEW c \in Conn, ConnectionDies(c) \/ ClientSeesExit(c)
        PROVE  Alone'
    <3>1. \A d \in Conn : conns'[d] = "up" => conns[d] = "up"
      <4>1. conns \in [Conn -> {"new", "up", "dead"}]
        BY DEF Base, IInv, TypeOK, NetworkTypeOK
      <4> QED
        BY <2>3, <4>1 DEF ConnectionDies, ClientSeesExit
    <3> QED
      BY <1>1, <2>3, <3>1 DEF ConnectionDies, ClientSeesExit, producerVars, mailboxVars,
         historyVars
  <2>4. ASSUME NEW c \in Conn, InFlightLost(c)
        PROVE  Alone'
    <3>1. /\ conns' = conns /\ conns[c] = "dead" /\ net' = [net EXCEPT ![c] = <<>>]
          /\ UNCHANGED <<buf, connection, retry_tref, responses, lostTo>>
      BY <2>4 DEF InFlightLost, producerVars, mailboxVars, historyVars
    <3>2. \A d \in Conn : conns'[d] = "up" => net'[d] = net[d]
      BY <3>1, FlightTypes
    <3>3. \A d \in Conn : conns'[d] = "up" => SameFor(d)
      BY <3>1, <3>2 DEF SameFor
    <3>4. OneOnWire => (retry_tref' => buf'.onwire = <<>>)
      BY <3>1 DEF Alone
    <3> QED
      BY <3>3, <3>4, AloneFrom
  <2> QED
    BY <1>5, <2>1, <2>2, <2>3, <2>4, BrokerAlone DEF EnvironmentNext
<1> QED
  BY <1>2, <1>3, <1>4, <1>5 DEF Next

LEMMA AloneAlways == Spec => []Alone
<1>1. Init => Alone
  BY DEF Init, Alone
<1> QED
  BY <1>1, AloneStep, PacketsShapedAlways, NothingUnopened, UnansweredAlways, PausedAlways,
     Based, PTL DEF Spec

LEMMA AloneMeans == Alone => AnswersMatchTheWire
<1> SUFFICES ASSUME Alone, OneOnWire, NEW c \in Conn, conns[c] = "up"
             PROVE  /\ \A k \in 1..Len(net[c]) : net[c][k].reqs[1] > lostTo =>
                         c = connection /\ HeadRefIs(buf, net[c][k].ref)
                    /\ \A k \in 1..Len(responses[c]) :
                         c = connection /\ HeadRefIs(buf, responses[c][k].ref)
  BY DEF AnswersMatchTheWire, OneOnWire
<1>1. CASE Silent(c)
  <2>1. Len(<<>>) = 0
    BY EmptySeq
  <2> QED
    BY <1>1, <2>1 DEF Silent, NoneFresh, Fresh
<1>2. CASE c = connection /\ responses[c] = <<>> /\ Carrying(c)
  <2>1. Len(<<>>) = 0
    BY EmptySeq
  <2> QED
    BY <1>2, <2>1 DEF Carrying, NoneFresh, Fresh
<1>3. CASE c = connection /\ NoneFresh(c) /\ Len(responses[c]) = 1
           /\ HeadRefIs(buf, responses[c][1].ref)
  <2>1. \A k \in 1..Len(responses[c]) : k = 1
    BY <1>3
  <2> QED
    BY <1>3, <2>1 DEF NoneFresh, Fresh
<1> QED
  BY <1>1, <1>2, <1>3 DEF Alone, Carrying

(***************************************************************************)
(* An answer never meets a head of the wire that it is not for.            *)
(***************************************************************************)
THEOREM AnswersMeetTheHead == Spec => []AnswersMatchTheWire
  BY AloneAlways, AloneMeans, PTL

-----------------------------------------------------------------------------
(***************************************************************************)
(* The pipe: how many requests a batch takes                               *)
(***************************************************************************)
\* A set of numbers that is not empty has a least one.
LEMMA LeastNat ==
  ASSUME NEW S, S \subseteq Nat, S # {}
  PROVE  \E x \in S : \A y \in S : x <= y
<1> DEFINE R == OpToRel(<, Nat)
<1>1. \A x, y \in Nat : x < y => <<x, y>> \in R
  BY DEF OpToRel
<1>2. IsWellFoundedOn(R, Nat)
  BY NatLessThanWellFounded
<1> HIDE DEF R
<1>3. PICK x \in S : \A y \in S : ~(<<y, x>> \in R)
  BY <1>2, WFMin
<1>4. \A y \in S : ~(y < x)
  BY <1>1, <1>3
<1> QED
  BY <1>3, <1>4

\* f has the sums of the sizes of the first requests of s.
IsSums(s, n, f) == f = [k \in 0..n |-> IF k = 0 THEN 0 ELSE f[k - 1] + Size[s[k]]]

LEMMA SumsExist ==
  ASSUME NEW s, NEW n \in Nat
  PROVE  \E f : IsSums(s, n, f)
<1> DEFINE S == {m \in Nat : ~ \E f : IsSums(s, m, f)}
<1> SUFFICES ASSUME n \in S PROVE FALSE
  OBVIOUS
<1>1. PICK x \in S : \A y \in S : x <= y
  BY LeastNat
<1>2. CASE x = 0
  <2>1. IsSums(s, 0, [k \in 0..0 |-> 0])
    BY DEF IsSums
  <2> QED
    BY <1>2, <2>1
<1>3. CASE x # 0
  <2>1. x \in Nat /\ x - 1 \in Nat /\ ~(x <= x - 1)
    BY <1>3
  <2>2. PICK g : IsSums(s, x - 1, g)
    BY <1>1, <2>1
  <2> DEFINE f == [k \in 0..x |-> IF k = x THEN g[x - 1] + Size[s[x]] ELSE g[k]]
  <2>3. ASSUME NEW k \in 0..x
        PROVE  f[k] = IF k = 0 THEN 0 ELSE f[k - 1] + Size[s[k]]
    <3>1. k \in Nat /\ k <= x
      BY <2>1
    <3>2. CASE k = x
      <4>1. f[k] = g[x - 1] + Size[s[x]] /\ f[k - 1] = g[x - 1]
        BY <2>1, <3>2
      <4> QED
        BY <1>3, <3>2, <4>1
    <3>3. CASE k # x
      <4>1. k \in 0..(x - 1) /\ f[k] = g[k]
        BY <2>1, <3>1, <3>3
      <4>2. g[k] = IF k = 0 THEN 0 ELSE g[k - 1] + Size[s[k]]
        BY <2>2, <4>1 DEF IsSums
      <4>3. k # 0 => f[k - 1] = g[k - 1]
        BY <2>1, <3>1, <3>3
      <4> QED
        BY <4>1, <4>2, <4>3
    <3> QED
      BY <3>2, <3>3
  <2>4. f = [k \in 0..x |-> IF k = 0 THEN 0 ELSE f[k - 1] + Size[s[k]]]
    <3>1. f = [k \in 0..x |-> f[k]]
      OBVIOUS
    <3> HIDE DEF f
    <3> QED
      BY <2>3, <3>1
  <2> HIDE DEF f
  <2>5. IsSums(s, x, f)
    BY <2>4 DEF IsSums
  <2> QED
    BY <2>5
<1> QED
  BY <1>2, <1>3

\* A batch of requests that have something to send has at least a byte of
\* each.
LEMMA BytesOfEach ==
  ASSUME NEW s, NEW n \in Nat, \A k \in 1..n : Size[s[k]] \in Nat /\ Size[s[k]] > 0
  PROVE  Bytes(s, n) \in Nat /\ Bytes(s, n) >= n
<1> DEFINE f == CHOOSE g : IsSums(s, n, g)
<1>1. Bytes(s, n) = f[n]
  BY DEF Bytes, IsSums
<1>2. IsSums(s, n, f)
  BY SumsExist
<1> HIDE DEF f
<1> DEFINE S == {m \in Nat : m <= n /\ ~(f[m] \in Nat /\ f[m] >= m)}
<1> SUFFICES ASSUME n \in S PROVE FALSE
  BY <1>1
<1>3. PICK x \in S : \A y \in S : x <= y
  BY LeastNat
<1>4. x \in 0..n /\ x \in Nat
  OBVIOUS
<1>5. f[x] = IF x = 0 THEN 0 ELSE f[x - 1] + Size[s[x]]
  BY <1>2, <1>4 DEF IsSums
<1>6. x # 0
  BY <1>5
<1>7. f[x - 1] \in Nat /\ f[x - 1] >= x - 1
  <2>1. x - 1 \in Nat /\ x - 1 <= n /\ ~(x <= x - 1)
    BY <1>4, <1>6
  <2> QED
    BY <1>3, <2>1
<1>8. Size[s[x]] \in Nat /\ Size[s[x]] > 0
  BY <1>4, <1>6
<1> DEFINE u == f[x - 1]  v == Size[s[x]]
<1>9. f[x] = u + v
  BY <1>5, <1>6
<1> HIDE DEF u, v
<1>10. u + v \in Nat /\ u + v >= x
  BY <1>4, <1>6, <1>7, <1>8 DEF u, v
<1> QED
  BY <1>9, <1>10

LEMMA BatchBounded ==
  ASSUME Base, NEW n, IsBatch(buf, n)
  PROVE  n \in Nat /\ n > 0 /\ n <= LargestBatch /\ LargestBatch \in Nat
<1> DEFINE q == Waiting(buf)
<1>1. n \in 1..Len(q) /\ (n > 1 => Bytes(q, n) <= MaxBatchSize)
  BY DEF IsBatch
<1>2. n \in Nat /\ n > 0 /\ done + Wire + n <= Handled
  BY <1>1, BatchFollowsWire
<1>3. q \in Seq(Req) /\ Len(q) \in Nat
  BY WaitingType, LenProperties DEF Base, IInv, TypeOK, ProducerTypeOK
<1>4. /\ MaxReqs \in Nat /\ MaxBatchSize \in Nat \ {0}
      /\ Size \in [Req -> Nat]
  BY ConfigAssumption DEF Req
<1> HIDE DEF q
<1>5. CASE \A i \in Req : Size[i] > 0
  <2>1. LargestBatch = MaxBatchSize
    BY <1>5 DEF LargestBatch
  <2>2. \A k \in 1..n : Size[q[k]] \in Nat /\ Size[q[k]] > 0
    <3>1. \A k \in 1..n : q[k] \in Req
      <4>1. \A k \in 1..n : k \in 1..Len(q)
        BY <1>1, <1>3
      <4> QED
        BY <1>3, <4>1, ElementOfSeq
    <3> QED
      BY <1>4, <1>5, <3>1
  <2>3. Bytes(q, n) \in Nat /\ Bytes(q, n) >= n
    BY <1>2, <2>2, BytesOfEach
  <2> QED
    BY <1>1, <1>2, <1>4, <2>1, <2>3
<1>6. CASE ~(\A i \in Req : Size[i] > 0)
  <2>1. LargestBatch = MaxReqs
    BY <1>6 DEF LargestBatch
  <2>2. /\ done \in Nat /\ Wire \in Nat /\ Handled \in Nat /\ last \in Nat
        /\ Handled <= last /\ last <= MaxReqs
    BY DEF Base, Bordered
  <2>3. n <= MaxReqs
    BY <1>2, <1>4, <2>2
  <2> QED
    BY <1>2, <1>4, <2>1, <2>3
<1> QED
  BY <1>5, <1>6

\* One Kafka request on wire leaves room in the pipe: what is on wire is one
\* batch, what is buffered fits in the buffer or was on wire before.
Roomy(w, h) == w <= LargestBatch /\ w + h <= BufferLimit + LargestBatch

Room1 == OneOnWire => Roomy(Wire, Len(buf.buffer))

LEMMA BatchSizes == LargestBatch \in Nat /\ BufferLimit \in Nat
  BY ConfigAssumption DEF LargestBatch

LEMMA Lengths ==
  ASSUME Base
  PROVE  /\ Wire \in Nat /\ Len(buf.buffer) \in Nat /\ buf \in Buffers
         /\ buf.buffer_count = Len(buf.buffer)
  BY DEF Base, Bordered, IInv, TypeOK, ProducerTypeOK, WellKept, Counted

\* A buffer that is put back or refilled.
LEMMA NackAllRoom ==
  ASSUME Base, Roomy(Wire, Len(buf.buffer))
  PROVE  Roomy(Len(NackAll(buf).onwire), Len(NackAll(buf).buffer))
<1> DEFINE w == Wire  h == Len(buf.buffer)
<1>1. /\ Len(NackAll(buf).onwire) = 0 /\ Len(NackAll(buf).buffer) = w + h
      /\ w \in Nat /\ h \in Nat
  BY Lengths, NackAllMoves DEF Wire
<1> HIDE DEF w, h
<1>2. Roomy(w, h)
  BY DEF w, h
<1>3. Roomy(0, w + h)
  BY <1>1, <1>2, BatchSizes DEF Roomy
<1> QED
  BY <1>1, <1>3

LEMMA AddRoom ==
  ASSUME NEW b \in Buffers, Counted(b), NEW i \in Req, Roomy(Len(b.onwire), Len(b.buffer))
  PROVE  Roomy(Len(Add(b, i).onwire), Len(Add(b, i).buffer))
<1> DEFINE a == [b EXCEPT !.pending = Append(@, i), !.failures[i] = 0]
           h == Len(b.buffer)
           p == Len(b.pending) + 1
           w == Len(b.onwire)
<1>1. /\ b.pending \in Seq(Req) /\ h \in Nat /\ p \in Nat /\ w \in Nat /\ b.buffer_count = h
  BY LenProperties DEF Buffers, Counted
<1>2. a.buffer_count = h /\ Len(a.pending) = p
  BY <1>1, AppendProperties DEF Buffers
<1>3. Add(b, i).buffer_count = a.buffer_count + Room(a)
  <2>1. Add(b, i) = MaybeBuffer(a)
    BY DEF Add
  <2>2. a \in [pending : Seq(Req), buffer : Seq(Req), buffer_count : Nat,
               onwire : Seq([ref : Nat, req : Req]), onwire_count : Nat,
               failures : [Req -> Nat]]
    <3>1. Append(b.pending, i) \in Seq(Req) /\ [b.failures EXCEPT ![i] = 0] \in [Req -> Nat]
      BY <1>1, AppendProperties DEF Buffers
    <3> QED
      BY <3>1 DEF Buffers
  <2> HIDE DEF a
  <2> QED
    BY <2>1, <2>2 DEF MaybeBuffer
<1>4. Room(a) = IF h < BufferLimit THEN Lesser(p, BufferLimit - h) ELSE 0
  BY <1>2 DEF Room
<1>5. Len(Add(b, i).buffer) = h + Room(a) /\ Len(Add(b, i).onwire) = w
  BY <1>2, <1>3, AddLemma DEF Counted
<1>6. Roomy(w, h)
  OBVIOUS
<1> DEFINE m == Room(a)
<1> HIDE DEF h, p, w, a, m
<1>7. h + m \in Nat /\ (h + m <= h \/ h + m <= BufferLimit)
  BY <1>1, <1>4, BatchSizes DEF Lesser, m
<1>8. Roomy(w, h + m)
  BY <1>1, <1>6, <1>7, BatchSizes DEF Roomy
<1> QED
  BY <1>5, <1>8 DEF m

LEMMA HandleProduceRoom ==
  ASSUME Base, Base', Roomy(Wire, Len(buf.buffer)), NEW c \in Conn \cup {0}, HandleProduce(c),
         ~ReinitCrashes(c)
  PROVE  Roomy(Len(buf'.onwire), Len(buf'.buffer))
<1>1. PICK b : /\ b = buf \/ b = NackAll(buf)
               /\ inbox # <<>> /\ buf' = Add(b, Head(inbox))
  BY DEF HandleProduce, MaybeProduce, ReinitBuffer
<1>2. b \in Buffers /\ Counted(b) /\ Roomy(Len(b.onwire), Len(b.buffer))
  <2>1. CASE b = buf
    BY <2>1, Lengths DEF Counted, Wire
  <2>2. CASE b = NackAll(buf)
    BY <2>2, Lengths, NackAllLemma, NackAllRoom DEF Counted
  <2> QED
    BY <1>1, <2>1, <2>2
<1>3. Head(inbox) \in Req
  <2>1. inbox \in Seq(Req)
    BY DEF Base, IInv, TypeOK, MailboxTypeOK
  <2> QED
    BY <1>1, <2>1, HeadTailProperties
<1> QED
  BY <1>1, <1>2, <1>3, AddRoom

LEMMA AckRoom ==
  ASSUME Base, Roomy(Wire, Len(buf.buffer)), NEW k \in 1..Len(buf.onwire), buf' = Ack(buf, k)
  PROVE  Roomy(Len(buf'.onwire), Len(buf'.buffer))
<1> DEFINE w == Wire  h == Len(buf.buffer)
<1>1. /\ w \in Nat /\ h \in Nat /\ k \in 1..w /\ Len(buf'.onwire) = w - k
      /\ Len(buf'.buffer) = h
  BY Lengths, AckMoves DEF Wire
<1>2. Roomy(w, h)
  OBVIOUS
<1> HIDE DEF w, h
<1>3. Roomy(w - k, h)
  BY <1>1, <1>2, BatchSizes DEF Roomy
<1> QED
  BY <1>1, <1>3

\* A batch and what take_reqs/1 leaves in the buffer.
LEMMA TakenRoom ==
  ASSUME Base, Roomy(Wire, Len(buf.buffer)), NEW n \in Req, TakeBatch(n)
  PROVE  /\ n \in Nat /\ LeftInBuffer(buf, n) \in Nat
         /\ n <= LargestBatch /\ n + LeftInBuffer(buf, n) <= BufferLimit + LargestBatch
<1> DEFINE w == Wire  h == Len(buf.buffer)  left == LeftInBuffer(buf, n)
           q == Len(Waiting(buf))
<1>1. n \in Nat /\ n > 0 /\ n <= LargestBatch
  BY BatchBounded DEF TakeBatch
<1>2. /\ w \in Nat /\ h \in Nat /\ left = Greater(h - n, Lesser(BufferLimit, q - n))
      /\ left \in Nat /\ q \in Nat
  BY Lengths, TakeBatchFacts, TakeMoves, WaitingType, LenProperties
     DEF LeftInBuffer, Base, Counted
<1>3. Roomy(w, h)
  OBVIOUS
<1> HIDE DEF w, h, left, q
<1>4. left = h - n \/ left <= BufferLimit
  BY <1>1, <1>2, BatchSizes DEF Greater, Lesser
<1>5. n + left <= BufferLimit + LargestBatch
  BY <1>1, <1>2, <1>3, <1>4, BatchSizes DEF Roomy
<1> QED
  BY <1>1, <1>2, <1>5 DEF left

LEMMA SendRoom ==
  ASSUME Base, OneOnWire, Roomy(Wire, Len(buf.buffer)), NEW n \in Req, TakeBatch(n),
         SendOk(n) \/ (SendFailed(n) /\ ~Exit("reached_max_retries"))
  PROVE  Roomy(Len(buf'.onwire), Len(buf'.buffer))
<1> DEFINE w == Wire  left == LeftInBuffer(buf, n)
<1>1. w = 0
  <2>1. CanTake(buf)
    BY TakeBatchFacts DEF Base
  <2> QED
    BY <2>1, NothingOnWire DEF OneOnWire
<1>2. n \in Nat /\ left \in Nat /\ n <= LargestBatch /\ n + left <= BufferLimit + LargestBatch
  BY TakenRoom
<1>3. CASE SendOk(n)
  <2>1. Len(buf'.onwire) = w + n /\ Len(buf'.buffer) = left
    BY <1>3, SendOkLengths
  <2> HIDE DEF w, left
  <2>2. Roomy(w + n, left)
    BY <1>1, <1>2 DEF Roomy
  <2> QED
    BY <2>1, <2>2
<1>4. CASE SendFailed(n) /\ ~Exit("reached_max_retries")
  <2>1. Len(buf'.onwire) = w /\ Len(buf'.buffer) = n + left
    BY <1>4, SendFailedLengths
  <2> HIDE DEF w, left
  <2>2. Roomy(w, n + left)
    BY <1>1, <1>2, BatchSizes DEF Roomy
  <2> QED
    BY <2>1, <2>2
<1> QED
  BY <1>3, <1>4

\* What a step does to the buffer.
LEMMA BufferMoves ==
  ASSUME [Next]_vars
  PROVE  \/ buf' = buf \/ buf' = NackAll(buf)
         \/ \E reason : Exit(reason)
         \/ \E c \in Conn \cup {0} : HandleProduce(c) /\ ~ReinitCrashes(c)
         \/ \E k \in 1..Len(buf.onwire) : buf' = Ack(buf, k)
         \/ \E n \in Req : /\ TakeBatch(n)
                           /\ SendOk(n) \/ (SendFailed(n) /\ ~Exit("reached_max_retries"))
<1>1. CASE UNCHANGED vars \/ CallerNext
  BY <1>1 DEF vars, CallerNext, Submit, CallerBuffered, CallerDown, producerVars
<1>2. ASSUME NEW c \in Conn \cup {0}, HandleProduce(c)
      PROVE  ReinitCrashes(c) => Exit("reached_max_retries")
  BY <1>2 DEF HandleProduce, Ends
<1>3. ASSUME NEW c \in Conn \cup {0}, HandleRetry(c)
      PROVE  Exit("reached_max_retries") \/ buf' = buf \/ buf' = NackAll(buf)
  BY <1>3 DEF HandleRetry, Ends, MaybeProduce, ReinitBuffer
<1>4. ASSUME NEW c \in Conn, HandleResponseOk(c)
      PROVE  Exit("function_clause") \/ \E k \in 1..Len(buf.onwire) : buf' = Ack(buf, k)
  BY <1>4 DEF HandleResponseOk, Ends, MaybeProduce
<1>5. ASSUME NEW c \in Conn,
             HandleResponseRetriable(c) \/ HandleResponseFatal(c) \/ DiscardResponse(c)
      PROVE  (\E reason : Exit(reason)) \/ buf' = buf \/ buf' = NackAll(buf)
  BY <1>5 DEF HandleResponseRetriable, HandleResponseFatal, DiscardResponse, Ends, producerVars
<1>6. CASE HandleDown \/ HandleDelayedSend
  BY <1>6 DEF HandleDown, HandleDelayedSend, Ends, MaybeProduce
<1>7. CASE SendNext
  <2>1. ASSUME NEW n \in Req, SendOk(n) \/ SendError(n) \/ SendLost(n)
        PROVE  TakeBatch(n) /\ (SendOk(n) \/ SendFailed(n))
    BY <2>1 DEF SendOk, SendError, SendLost
  <2>2. Linger => buf' = buf
    BY DEF Linger
  <2> QED
    BY <1>7, <2>1, <2>2 DEF SendNext
<1>8. CASE EnvironmentNext
  BY <1>8 DEF EnvironmentNext, DelayTimerFires, Stop, Restart, ConnectionDies, ClientSeesExit,
     InFlightLost, BrokerHandles, Ends, producerVars
<1> QED
  BY <1>1, <1>2, <1>3, <1>4, <1>5, <1>6, <1>7, <1>8 DEF Next, HandlerNext

LEMMA RoomStep ==
  Base /\ Base' /\ Room1 /\ [Next]_vars => Room1'
<1> SUFFICES ASSUME Base, Base', Room1, [Next]_vars, OneOnWire
             PROVE  Roomy(Len(buf'.onwire), Len(buf'.buffer))
  BY DEF Room1, Roomy, Wire, OneOnWire
<1>1. Roomy(Wire, Len(buf.buffer))
  BY DEF Room1
<1>2. CASE buf' = buf \/ buf' = NackAll(buf)
  BY <1>1, <1>2, NackAllRoom DEF Wire
<1>3. ASSUME NEW reason, Exit(reason)
      PROVE  Roomy(Len(buf'.onwire), Len(buf'.buffer))
  <2>1. Len(buf'.onwire) = 0 /\ Len(buf'.buffer) = 0
    BY <1>3, EmptySeq DEF Exit, NewBuffer
  <2>2. Roomy(0, 0)
    BY BatchSizes DEF Roomy
  <2> QED
    BY <2>1, <2>2
<1> QED
  BY <1>1, <1>2, <1>3, BufferMoves, HandleProduceRoom, AckRoom, SendRoom

LEMMA RoomAlways == Spec => []Room1
<1>1. Init => Room1
  <2>1. Len(<<>>) = 0 /\ Roomy(0, 0)
    BY EmptySeq, BatchSizes DEF Roomy
  <2> QED
    BY <2>1 DEF Init, NewBuffer, Room1, Wire
<1> QED
  BY <1>1, RoomStep, Based, PTL DEF Spec

-----------------------------------------------------------------------------
(***************************************************************************)
(* The pipe: what the log has                                              *)
(***************************************************************************)

\* Requests in the log were accepted; those acknowledged in this incarnation
\* are in the log.
LoggedMade == \A k \in 1..Len(log) : log[k] \in Req /\ log[k] <= Accepted

SettledLogged == \A i \in (lostTo + 1)..done : InLog(i)

\* How the log grows.
LEMMA LogMoves ==
  ASSUME [Next]_vars
  PROVE  \/ log' = log
         \/ \E c \in Conn : /\ net[c] # <<>> /\ log' = log \o Head(net[c]).reqs
                            /\ UNCHANGED <<up, last, done, lostTo, buf>>
<1>1. CASE UNCHANGED vars \/ CallerNext
  BY <1>1 DEF vars, CallerNext, Submit, CallerBuffered, CallerDown, networkVars
<1>2. CASE HandlerNext
  BY <1>2 DEF HandlerNext, HandleProduce, HandleRetry, HandleResponseOk,
     HandleResponseRetriable, HandleResponseFatal, DiscardResponse, HandleDown,
     HandleDelayedSend, networkVars
<1>3. CASE SendNext
  BY <1>3 DEF SendNext, SendOk, SendError, SendLost, Linger, networkVars
<1>4. CASE EnvironmentNext
  BY <1>4 DEF EnvironmentNext, DelayTimerFires, Stop, Restart, ConnectionDies,
     ClientSeesExit, InFlightLost, BrokerHandles, networkVars, producerVars, historyVars
<1> QED
  BY <1>1, <1>2, <1>3, <1>4 DEF Next

\* What the broker appends.
LEMMA AppendedLog ==
  ASSUME Base, PacketsShaped, NEW c \in Conn, net[c] # <<>>
  PROVE  \E a \in Req, m \in Nat :
           /\ m > 0 /\ a + m - 1 <= Accepted
           /\ lostTo < a \/ a + m - 1 <= lostTo
           /\ OneOnWire => a <= done + 1
           /\ \A t : t = log \o Head(net[c]).reqs =>
                /\ t \in Seq(Req) /\ Len(t) = Len(log) + m
                /\ \A k \in 1..Len(log) : t[k] = log[k]
                /\ \A j \in 1..m : t[Len(log) + j] = a + j - 1
<1> DEFINE p == net[c][1]
           s == p.reqs
<1>1. 1 \in 1..Len(net[c]) /\ Head(net[c]) = p /\ p \in FlightType
  <2>1. net[c] \in Seq(FlightType) /\ Len(net[c]) \in Nat
    BY FlightTypes
  <2>2. 1 \in 1..Len(net[c]) /\ Head(net[c]) = p
    BY <2>1, EmptySeq
  <2> QED
    BY <2>1, <2>2, ElementOfSeq
<1>2. s \in Seq(Req)
  BY <1>1 DEF FlightType
<1>3. PICK a \in Req, m \in Nat :
        /\ m > 0 /\ Len(s) = m /\ \A j \in 1..m : s[j] = a + j - 1
        /\ a + m - 1 <= Accepted
        /\ lostTo < a \/ a + m - 1 <= lostTo
        /\ OneOnWire => a <= done + 1
  BY <1>1 DEF PacketsShaped, Shaped, OneOnWire
<1>4. log \in Seq(Req) /\ Len(log) \in Nat
  BY FlightTypes
<1> HIDE DEF s, p
<1>5. /\ log \o s \in Seq(Req) /\ Len(log \o s) = Len(log) + Len(s)
      /\ \A i \in 1..(Len(log) + Len(s)) :
           (log \o s)[i] = IF i <= Len(log) THEN log[i] ELSE s[i - Len(log)]
  BY <1>2, <1>4, ConcatProperties
<1>6. \A k \in 1..Len(log) : (log \o s)[k] = log[k]
  BY <1>3, <1>4, <1>5
<1>7. \A j \in 1..m : (log \o s)[Len(log) + j] = a + j - 1
  <2> TAKE j \in 1..m
  <2>1. /\ Len(log) + j \in 1..(Len(log) + m) /\ ~(Len(log) + j <= Len(log))
        /\ (Len(log) + j) - Len(log) = j
    BY <1>4
  <2> QED
    BY <1>3, <1>5, <2>1
<1>8. \A t : t = log \o Head(net[c]).reqs =>
        /\ t \in Seq(Req) /\ Len(t) = Len(log) + m
        /\ \A k \in 1..Len(log) : t[k] = log[k]
        /\ \A j \in 1..m : t[Len(log) + j] = a + j - 1
  BY <1>1, <1>3, <1>5, <1>6, <1>7 DEF s
<1> QED
  BY <1>3, <1>8

LEMMA LoggedMadeStep ==
  Base /\ Base' /\ PacketsShaped /\ LoggedMade /\ [Next]_vars => LoggedMade'
<1> SUFFICES ASSUME Base, Base', PacketsShaped, LoggedMade, [Next]_vars,
                    NEW k \in 1..Len(log')
             PROVE  log'[k] \in Req /\ log'[k] <= Accepted'
  BY DEF LoggedMade
<1>1. Accepted \in Nat /\ Accepted' \in Nat /\ Accepted <= Accepted' /\ Len(log) \in Nat
  BY BordersGrow, FlightTypes DEF Base, Bordered
<1>2. log'[k] \in Req
  BY ElementOfSeq DEF Base, IInv, TypeOK, NetworkTypeOK
<1>3. ASSUME k \in 1..Len(log), log'[k] = log[k]
      PROVE  log'[k] <= Accepted'
  <2>1. log[k] <= Accepted /\ log[k] \in Nat
    BY <1>3 DEF LoggedMade, Req
  <2> QED
    BY <1>1, <1>3, <2>1
<1>4. CASE log' = log
  BY <1>2, <1>3, <1>4
<1>5. ASSUME NEW c \in Conn, net[c] # <<>>, log' = log \o Head(net[c]).reqs
      PROVE  log'[k] <= Accepted'
  <2>1. PICK a \in Req, m \in Nat :
          /\ a + m - 1 <= Accepted
          /\ Len(log') = Len(log) + m
          /\ \A l \in 1..Len(log) : log'[l] = log[l]
          /\ \A j \in 1..m : log'[Len(log) + j] = a + j - 1
    BY ZenonT(60), <1>5, AppendedLog
  <2>2. CASE k <= Len(log)
    <3>1. k \in 1..Len(log)
      BY <1>1, <2>2
    <3> QED
      BY <1>3, <2>1, <3>1
  <2>3. CASE ~(k <= Len(log))
    <3> DEFINE j == k - Len(log)
    <3>1. j \in 1..m /\ Len(log) + j = k
      BY <1>1, <2>1, <2>3
    <3>2. log'[k] = a + j - 1
      BY <2>1, <3>1
    <3> HIDE DEF j
    <3>3. a + j - 1 <= Accepted'
      BY <1>1, <2>1, <3>1 DEF Req
    <3> QED
      BY <3>2, <3>3
  <2> QED
    BY <2>2, <2>3
<1> QED
  BY <1>2, <1>4, <1>5, LogMoves

LEMMA LoggedMadeAlways == Spec => []LoggedMade
<1>1. Init => LoggedMade
  <2>1. Len(<<>>) = 0
    BY EmptySeq
  <2> QED
    BY <2>1 DEF Init, LoggedMade
<1> QED
  BY <1>1, LoggedMadeStep, PacketsShapedAlways, Based, PTL DEF Spec

\* Nothing leaves the log.
LEMMA StaysInLog ==
  ASSUME Base, PacketsShaped, [Next]_vars, NEW i, InLog(i)
  PROVE  InLog(i)'
<1>1. PICK k \in 1..Len(log) : log[k] = i
  BY DEF InLog
<1>2. CASE log' = log
  BY <1>1, <1>2 DEF InLog
<1>3. ASSUME NEW c \in Conn, net[c] # <<>>, log' = log \o Head(net[c]).reqs
      PROVE  InLog(i)'
  <2>1. PICK m \in Nat : Len(log') = Len(log) + m /\ \A l \in 1..Len(log) : log'[l] = log[l]
    BY <1>3, AppendedLog
  <2>2. Len(log) \in Nat
    BY FlightTypes
  <2>3. k \in 1..Len(log') /\ log'[k] = i
    BY <1>1, <2>1, <2>2
  <2> QED
    BY <2>3 DEF InLog
<1> QED
  BY <1>2, <1>3, LogMoves

\* Who moves the border of what is settled.
LEMMA SettledMoves ==
  ASSUME [Next]_vars
  PROVE  \/ UNCHANGED <<done, lostTo>>
         \/ \E reason : Exit(reason)
         \/ \E c \in Conn : HandleResponseOk(c) /\ ~Ends("function_clause")
<1>1. CASE UNCHANGED vars \/ CallerNext
  BY <1>1 DEF vars, CallerNext, Submit, CallerBuffered, CallerDown, historyVars
<1>2. ASSUME NEW c \in Conn, HandleResponseOk(c)
      PROVE  Exit("function_clause") \/ (HandleResponseOk(c) /\ ~Ends("function_clause"))
  BY <1>2 DEF Ends
<1>3. CASE HandlerNext
  BY <1>2, <1>3 DEF HandlerNext, HandleProduce, HandleRetry, HandleResponseRetriable,
     HandleResponseFatal, DiscardResponse, HandleDown, HandleDelayedSend, Ends, historyVars
<1>4. CASE SendNext
  BY <1>4 DEF SendNext, SendOk, SendError, SendLost, SendFailed, Linger, historyVars
<1>5. CASE EnvironmentNext
  BY <1>5 DEF EnvironmentNext, DelayTimerFires, Stop, Restart, ConnectionDies,
     ClientSeesExit, InFlightLost, BrokerHandles, Ends, historyVars
<1> QED
  BY <1>1, <1>3, <1>4, <1>5 DEF Next

LEMMA SettledLoggedStep ==
  Base /\ Base' /\ PacketsShaped /\ Delivered /\ SettledLogged /\ [Next]_vars => SettledLogged'
<1> SUFFICES ASSUME Base, Base', PacketsShaped, Delivered, SettledLogged, [Next]_vars,
                    NEW i \in (lostTo' + 1)..done'
             PROVE  InLog(i)'
  BY DEF SettledLogged, InLog
<1>1. CASE UNCHANGED <<done, lostTo>>
  BY <1>1, StaysInLog DEF SettledLogged
<1>2. ASSUME NEW reason, Exit(reason)
      PROVE  FALSE
  <2>1. done' = last /\ lostTo' = last /\ last \in Nat
    BY <1>2 DEF Exit, Base, Bordered
  <2> QED
    BY <2>1
<1>3. ASSUME NEW c \in Conn, HandleResponseOk(c), ~Ends("function_clause")
      PROVE  InLog(i)'
  <2>1. PICK k \in 1..Wire, base \in Nat :
          /\ done' = done + k /\ log' = log /\ base + k <= Len(log)
          /\ \A j \in 1..k : log[base + j] = done + j
    BY <1>3, AckLocated DEF Delivered
  <2>2. lostTo' = lostTo
    BY <1>3 DEF HandleResponseOk
  <2>3. /\ Wire \in Nat /\ done \in Nat /\ Len(log) \in Nat /\ k \in Nat
        /\ lostTo \in Nat
    BY FlightTypes, WireOrdered DEF Base, IInv, TypeOK, HistoryTypeOK, Req
  <2>4. CASE i <= done
    <3>1. i \in (lostTo + 1)..done
      BY <2>2, <2>3, <2>4
    <3> QED
      BY <3>1, StaysInLog DEF SettledLogged
  <2>5. CASE ~(i <= done)
    <3> DEFINE j == i - done
    <3>1. j \in 1..k /\ done + j = i
      BY <2>1, <2>2, <2>3, <2>5
    <3> HIDE DEF j
    <3>2. log[base + j] = i
      BY <2>1, <3>1
    <3>3. base + j \in 1..Len(log)
      BY <2>1, <2>3, <3>1
    <3>4. log'[base + j] = i /\ base + j \in 1..Len(log')
      BY <2>1, <3>2, <3>3
    <3> QED
      BY <3>4 DEF InLog
  <2> QED
    BY <2>4, <2>5
<1> QED
  BY <1>1, <1>2, <1>3, SettledMoves

LEMMA SettledLoggedAlways == Spec => []SettledLogged
<1>1. Init => SettledLogged
  BY DEF Init, SettledLogged
<1> QED
  BY <1>1, SettledLoggedStep, PacketsShapedAlways, DeliveredAlways, Based, PTL DEF Spec

-----------------------------------------------------------------------------
(***************************************************************************)
(* The pipe: every step is one of ProducePipe or changes nothing there     *)
(***************************************************************************)
LogSet == {log[k] : k \in 1..Len(log)}

LEMMA StepKinds ==
  ASSUME [Next]_vars
  PROVE  \/ up /\ UNCHANGED <<last, log>> /\ \E reason : Exit(reason)
         \/ UNCHANGED <<up, last, done, lostTo, log>> /\ (up \/ buf' = buf)
         \/ up /\ last' = last + 1 /\ UNCHANGED <<up, buf, done, lostTo, log>>
         \/ ~up /\ up' = TRUE /\ UNCHANGED <<last, buf, done, lostTo, log>>
         \/ \E c \in Conn : HandleResponseOk(c) /\ ~Ends("function_clause")
         \/ \E c \in Conn : /\ net[c] # <<>> /\ log' = log \o Head(net[c]).reqs
                            /\ UNCHANGED <<up, last, buf, done, lostTo>>
<1> DEFINE Ended == up /\ UNCHANGED <<last, log>> /\ \E reason : Exit(reason)
           Moved == UNCHANGED <<up, last, done, lostTo, log>> /\ (up \/ buf' = buf)
<1>1. CASE UNCHANGED vars \/ \E p \in Callers : CallerBuffered(p) \/ CallerDown(p)
  BY <1>1 DEF vars, CallerBuffered, CallerDown, producerVars, networkVars, historyVars
<1>2. ASSUME NEW p \in Callers, Submit(p)
      PROVE  up /\ last' = last + 1 /\ UNCHANGED <<up, buf, done, lostTo, log>>
  BY <1>2 DEF Submit, producerVars, networkVars
<1>3. ASSUME NEW c \in Conn \cup {0}, HandleProduce(c) \/ HandleRetry(c)
      PROVE  Ended \/ Moved
  BY <1>3 DEF HandleProduce, HandleRetry, Ends, historyVars
<1>4. ASSUME NEW c \in Conn,
             \/ HandleResponseRetriable(c) \/ HandleResponseFatal(c) \/ DiscardResponse(c)
             \/ HandleResponseOk(c) /\ Ends("function_clause")
      PROVE  Ended \/ Moved
  BY <1>4 DEF HandleResponseOk, HandleResponseRetriable, HandleResponseFatal, DiscardResponse,
     Response, Ends, historyVars, networkVars, producerVars
<1>5. CASE HandleDown \/ HandleDelayedSend
  BY <1>5 DEF HandleDown, HandleDelayedSend, Ends, historyVars, networkVars
<1>6. ASSUME NEW n \in Req, SendOk(n) \/ SendError(n) \/ SendLost(n)
      PROVE  Ended \/ Moved
  BY <1>6 DEF SendOk, SendError, SendLost, SendFailed, TakeBatch, historyVars, networkVars
<1>7. CASE Linger
  BY <1>7 DEF Linger, historyVars, networkVars
<1>8. CASE Restart
  BY <1>8 DEF Restart, historyVars, networkVars
<1>9. CASE DelayTimerFires \/ Stop
  BY <1>9 DEF DelayTimerFires, Stop, Ends, historyVars, networkVars
<1>10. ASSUME NEW c \in Conn, ConnectionDies(c) \/ ClientSeesExit(c) \/ InFlightLost(c)
       PROVE  Moved
  BY <1>10 DEF ConnectionDies, ClientSeesExit, InFlightLost, historyVars, producerVars
<1>11. ASSUME NEW c \in Conn, NEW out \in Outcomes, BrokerHandles(c, out)
       PROVE  \/ Moved
              \/ /\ net[c] # <<>> /\ log' = log \o Head(net[c]).reqs
                 /\ UNCHANGED <<up, last, buf, done, lostTo>>
  BY <1>11 DEF BrokerHandles, historyVars, producerVars
<1> QED
  BY <1>1, <1>2, <1>3, <1>4, <1>5, <1>6, <1>7, <1>8, <1>9, <1>10, <1>11
     DEF Next, CallerNext, HandlerNext, SendNext, EnvironmentNext

\* Requests are accepted, or merely put back, sent or waited for.
LEMMA MovedInPipe ==
  ASSUME Base, Base', Room1', OneOnWire, UNCHANGED <<up, last, done, lostTo, log>>,
         up \/ buf' = buf, Accepted <= Accepted'
  PROVE  [Pipe!Next]_(Pipe!vars)
<1> DEFINE a == Accepted
           w == Len(buf'.onwire)
           h == Len(buf'.buffer)
<1>1. /\ w \in Nat /\ h \in Nat /\ done \in Nat /\ a \in Nat /\ last \in Nat
      /\ w + h <= BufferLimit + LargestBatch /\ a <= done + w + h /\ done + w + h <= last
  <2>1. Accepted' = done + w + h /\ Accepted' <= last
    <3>1. Accepted' = done + w + h
      BY DEF Accepted, Wire
    <3>2. Accepted' <= Handled' /\ Handled' <= last /\ Accepted' \in Nat /\ Handled' \in Nat
          /\ last \in Nat
      BY DEF Base, Bordered
    <3> QED
      BY <3>1, <3>2
  <2>2. w \in Nat /\ h \in Nat /\ done \in Nat /\ a \in Nat /\ last \in Nat
    BY DEF Base, Bordered, Wire
  <2>3. w + h <= BufferLimit + LargestBatch
    BY DEF Room1, Roomy, Wire, OneOnWire
  <2> QED
    BY <2>1, <2>2, <2>3
<1>2. CASE done + w + h = a
  BY <1>2 DEF Pipe!vars, Accepted, Wire
<1>3. CASE done + w + h # a
  <2>1. up
    BY <1>3 DEF Accepted, Wire
  <2>2. a = done + Len(buf.onwire) + Len(buf.buffer)
    BY DEF Accepted, Wire
  <2>3. /\ done + w + h \in (a + 1)..last
        /\ (done + w + h) - done <= BufferLimit + LargestBatch
    <3> HIDE DEF a, w, h
    <3> QED
      BY <1>1, <1>3, BatchSizes
  <2> DEFINE b == done + w + h
  <2>4. (done + Len(buf.onwire) + Len(buf.buffer))' = b
    OBVIOUS
  <2> HIDE DEF a, w, h
  <2>5. b \in (a + 1)..last /\ b - done <= BufferLimit + LargestBatch
    BY <2>3
  <2> HIDE DEF b
  <2>6. UNCHANGED LogSet
    BY DEF LogSet
  <2>7. Pipe!Accept
    BY <2>1, <2>2, <2>4, <2>5, <2>6 DEF Pipe!Accept, LogSet
  <2> QED
    BY <2>7 DEF Pipe!Next
<1> QED
  BY <1>2, <1>3

\* The end of the producer gives up what was not acknowledged.
LEMMA EndInPipe ==
  ASSUME Base', up, UNCHANGED <<last, log>>, NEW reason, Exit(reason)
  PROVE  [Pipe!Next]_(Pipe!vars)
<1>1. up' = FALSE /\ done' = last /\ lostTo' = last
  BY DEF Exit
<1>2. Accepted' = last
  <2>1. /\ done' <= Accepted' /\ Accepted' <= Handled' /\ Handled' <= last' /\ last' = last
        /\ done' \in Nat /\ Accepted' \in Nat /\ Handled' \in Nat
    BY DEF Base, Bordered
  <2> QED
    BY <1>1, <2>1
<1>3. Pipe!End
  BY <1>1, <1>2 DEF Pipe!End, Accepted, Wire
<1> QED
  BY <1>3 DEF Pipe!Next

\* What is acknowledged was accepted, and is in the log.
LEMMA AckInPipe ==
  ASSUME Base, Delivered, NEW c \in Conn, HandleResponseOk(c), ~Ends("function_clause")
  PROVE  [Pipe!Next]_(Pipe!vars)
<1>1. PICK k \in 1..Wire, base \in Nat :
        /\ done' = done + k /\ log' = log /\ buf' = Ack(buf, k) /\ base + k <= Len(log)
        /\ \A j \in 1..k : log[base + j] = done + j
  BY AckLocated DEF Delivered
<1>2. up /\ UNCHANGED <<up, last, lostTo>>
  BY DEF HandleResponseOk, Response
<1> DEFINE w == Wire
           h == Len(buf.buffer)
           a == Accepted
<1>3. /\ w \in Nat /\ h \in Nat /\ k \in 1..w /\ a = done + w + h
      /\ Len(buf'.onwire) = w - k /\ Len(buf'.buffer) = h
      /\ done \in Nat /\ Len(log) \in Nat
  BY <1>1, Lengths, AckMoves, FlightTypes DEF Wire, Accepted
<1>4. (done + k) + (w - k) + h = a /\ done + k \in (done + 1)..a
  <2> HIDE DEF w, h, a
  <2> QED
    BY <1>3
<1>5. ASSUME NEW i \in (done + 1)..(done + k)
      PROVE  i \in LogSet
  <2> DEFINE j == i - done
  <2>1. j \in 1..k /\ done + j = i
    BY <1>3
  <2> HIDE DEF j
  <2>2. log[base + j] = i
    BY <1>1, <2>1
  <2>3. base + j \in 1..Len(log)
    BY <1>1, <1>3, <2>1
  <2> QED
    BY <2>2, <2>3 DEF LogSet
<1> DEFINE x == Len(buf'.onwire)  y == Len(buf'.buffer)
<1>6. done' + x + y = a
  <2> HIDE DEF w, h, a, x, y
  <2> QED
    BY <1>1, <1>3, <1>4 DEF x, y
<1>7. a = done + Len(buf.onwire) + Len(buf.buffer)
  BY DEF Accepted, Wire
<1> HIDE DEF a, w, h
<1>8. Pipe!Acknowledge
  BY <1>1, <1>2, <1>4, <1>5, <1>6, <1>7 DEF Pipe!Acknowledge, LogSet
<1> QED
  BY <1>8 DEF Pipe!Next

\* What enters the log follows what was acknowledged, or is of an
\* incarnation that ended.
LEMMA LogInPipe ==
  ASSUME Base, Base', OneOnWire, PacketsShaped, SettledLogged, LoggedMade',
         NEW c \in Conn, net[c] # <<>>, log' = log \o Head(net[c]).reqs,
         UNCHANGED <<up, last, buf, done, lostTo>>
  PROVE  [Pipe!Next]_(Pipe!vars)
<1>1. PICK a \in Req, m \in Nat :
        /\ lostTo < a \/ a + m - 1 <= lostTo
        /\ a <= done + 1
        /\ Len(log') = Len(log) + m
        /\ \A k \in 1..Len(log) : log'[k] = log[k]
        /\ \A j \in 1..m : log'[Len(log) + j] = a + j - 1
  BY ZenonT(60), AppendedLog
<1>2. /\ Len(log) \in Nat /\ done \in Nat /\ lostTo \in Nat /\ a \in Nat /\ Accepted \in Nat
  BY FlightTypes DEF Base, Bordered, IInv, TypeOK, HistoryTypeOK, Req
<1>3. LogSet \subseteq LogSet'
  BY <1>1, <1>2 DEF LogSet
<1>4. ASSUME NEW j \in 1..m
      PROVE  a + j - 1 \in LogSet'
  <2>1. Len(log) + j \in 1..Len(log')
    BY <1>1, <1>2
  <2>2. log'[Len(log) + j] = a + j - 1
    BY <1>1
  <2> QED
    BY <2>1, <2>2 DEF LogSet
<1>5. LogSet' \subseteq 1..Accepted
  <2>1. Accepted' = Accepted
    BY DEF Accepted, Wire
  <2> QED
    BY <1>2, <2>1 DEF LoggedMade, LogSet, Req
<1>6. ASSUME NEW i \in LogSet' \ LogSet, NEW n \in (lostTo + 1)..i
      PROVE  n \in LogSet'
  <2>1. PICK k \in 1..Len(log') : log'[k] = i
    BY <1>6 DEF LogSet
  <2>2. ~(k <= Len(log))
    BY <1>1, <1>2, <1>6, <2>1 DEF LogSet
  <2> DEFINE j == k - Len(log)
  <2>3. j \in 1..m /\ Len(log) + j = k
    BY <1>1, <1>2, <2>2
  <2>4. i = a + j - 1
    BY <1>1, <2>1, <2>3
  <2> HIDE DEF j
  <2>5. lostTo < a
    BY <1>1, <1>2, <1>6, <2>3, <2>4
  <2>6. CASE n <= done
    <3>1. n \in (lostTo + 1)..done
      BY <1>2, <1>6, <2>4, <2>3, <2>6
    <3>2. n \in LogSet
      BY <3>1 DEF SettledLogged, InLog, LogSet
    <3> QED
      BY <1>3, <3>2
  <2>7. CASE ~(n <= done)
    <3> DEFINE l == n - a + 1
    <3>1. l \in 1..m /\ a + l - 1 = n
      BY <1>1, <1>2, <1>6, <2>3, <2>4, <2>7
    <3> HIDE DEF l
    <3> QED
      BY <1>4, <3>1
  <2> QED
    BY <2>6, <2>7
<1> DEFINE accepted == Accepted
<1>7. accepted = done + Len(buf.onwire) + Len(buf.buffer)
  BY DEF Accepted, Wire
<1>8. CASE LogSet' = LogSet
  BY <1>8 DEF Pipe!vars, LogSet
<1>9. CASE LogSet' # LogSet
  <2> HIDE DEF accepted
  <2>1. Pipe!Log
    BY <1>3, <1>5, <1>6, <1>7, <1>9 DEF Pipe!Log, LogSet, accepted
  <2> QED
    BY <2>1 DEF Pipe!Next
<1> QED
  BY <1>8, <1>9

LEMMA StepInPipe ==
  ASSUME Base, Base', OneOnWire, PacketsShaped, Delivered, SettledLogged, LoggedMade', Room1',
         [Next]_vars
  PROVE  [Pipe!Next]_(Pipe!vars)
<1>1. Accepted <= Accepted'
  BY BordersGrow
<1>2. CASE up /\ last' = last + 1 /\ UNCHANGED <<up, buf, done, lostTo, log>>
  <2>1. Pipe!Make
    BY <1>2 DEF Pipe!Make
  <2> QED
    BY <2>1 DEF Pipe!Next
<1>3. CASE ~up /\ up' = TRUE /\ UNCHANGED <<last, buf, done, lostTo, log>>
  <2>1. Pipe!Begin
    BY <1>3 DEF Pipe!Begin
  <2> QED
    BY <2>1 DEF Pipe!Next
<1> QED
  BY <1>1, <1>2, <1>3, StepKinds, MovedInPipe, EndInPipe, AckInPipe, LogInPipe

(***************************************************************************)
(* A producer with one Kafka request on wire at a time is a bounded pipe   *)
(* into the partition's log: requests are accepted in order and never more *)
(* than the limit of the buffer and one batch beyond what is settled,      *)
(* acknowledged in order and only when they are in the log, and enter the  *)
(* log in order.                                                           *)
(***************************************************************************)
THEOREM ProducerIsPipe ==
  ASSUME OnWireLimit = 1
  PROVE  Spec => ImplementsPipe
<1>1. OneOnWire
  BY DEF OneOnWire
<1>2. Init => Pipe!Init
  <2>1. Len(<<>>) = 0 /\ 1..0 = {}
    BY EmptySeq
  <2> QED
    BY <2>1 DEF Init, NewBuffer, Pipe!Init
<1>3. ASSUME Base, Base', PacketsShaped, Delivered, SettledLogged, LoggedMade', Room1',
             [Next]_vars
      PROVE  [Pipe!Next]_(Pipe!vars)
  BY <1>1, <1>3, StepInPipe
<1> QED
  BY <1>2, <1>3, Based, PacketsShapedAlways, DeliveredAlways, SettledLoggedAlways,
     LoggedMadeAlways, RoomAlways, PTL DEF Spec, ImplementsPipe, Pipe!Spec

-----------------------------------------------------------------------------
(***************************************************************************)
(* Without a fault nothing is repeated                                     *)
(***************************************************************************)

\* Requests up to this one have left the buffer.
Sent == done + Wire

\* As long as no fault happened the producer has nothing to retry and no
\* connection is dead; without a connection it holds nothing.
Flawless ==
  faults = 0 =>
    /\ ~retry_tref
    /\ connection = 0 => IsEmpty(buf)
    /\ \A c \in Conn : conns[c] # "dead"
    /\ \A c \in Conn : \A k \in 1..Len(responses[c]) : responses[c][k].code = "ok"

\* Every step counts its fault.
LEMMA FaultsCount ==
  ASSUME Base, [Next]_vars
  PROVE  /\ faults \in Nat /\ faults <= faults'
         /\ \A c \in Conn \cup {0} : GetLeaderConnection(c) /\ faults' = 0 =>
              /\ c # 0 /\ (conns' = conns \/ conns' = [conns EXCEPT ![c] = "up"])
         /\ faults' = 0 => \A n \in Req : ~SendLost(n)
         /\ faults' = 0 => \A c \in Conn, out \in Outcomes :
              BrokerHandles(c, out) => out = "ok"
<1>1. faults \in Nat /\ known \in SUBSET Conn /\ 0 \notin Conn
  BY DEF Base, IInv, TypeOK, NetworkTypeOK, Conn
<1>2. ASSUME NEW c \in Conn \cup {0}, GetLeaderConnection(c)
      PROVE  /\ faults <= faults'
             /\ faults' = 0 => c # 0 /\ (conns' = conns \/ conns' = [conns EXCEPT ![c] = "up"])
  BY <1>1, <1>2 DEF GetLeaderConnection
<1>3. \A n \in Req : SendLost(n) => faults' = faults + 1
  BY DEF SendLost
<1>4. \A c \in Conn, out \in Outcomes :
        BrokerHandles(c, out) => faults' = IF out = "ok" THEN faults ELSE faults + 1
  BY DEF BrokerHandles
<1>5. ASSUME UNCHANGED vars \/ CallerNext
      PROVE  faults <= faults'
  BY <1>1, <1>5 DEF vars, CallerNext, Submit, CallerBuffered, CallerDown
<1>6. ASSUME HandlerNext
      PROVE  faults <= faults'
  <2>1. ASSUME NEW c \in Conn \cup {0}, HandleProduce(c) \/ HandleRetry(c)
        PROVE  faults <= faults'
    <3>1. GetLeaderConnection(c) \/ faults' = faults
      BY <2>1 DEF HandleProduce, HandleRetry
    <3> QED
      BY <1>1, <1>2, <3>1
  <2>2. ASSUME NEW c \in Conn,
               \/ HandleResponseOk(c) \/ HandleResponseRetriable(c)
               \/ HandleResponseFatal(c) \/ DiscardResponse(c)
        PROVE  faults <= faults'
    BY <1>1, <2>2 DEF HandleResponseOk, HandleResponseRetriable, HandleResponseFatal,
       DiscardResponse
  <2>3. CASE HandleDown \/ HandleDelayedSend
    BY <1>1, <2>3 DEF HandleDown, HandleDelayedSend
  <2> QED
    BY <1>6, <2>1, <2>2, <2>3 DEF HandlerNext
<1>7. ASSUME SendNext
      PROVE  faults <= faults'
  BY <1>1, <1>7 DEF SendNext, SendOk, SendError, SendLost, Linger
<1>8. ASSUME EnvironmentNext
      PROVE  faults <= faults'
  BY <1>1, <1>4, <1>8 DEF EnvironmentNext, DelayTimerFires, Stop, Restart, ConnectionDies,
     ClientSeesExit, InFlightLost
<1>9. faults <= faults'
  BY <1>5, <1>6, <1>7, <1>8 DEF Next
<1> QED
  BY <1>1, <1>2, <1>3, <1>4, <1>9

LEMMA FlawlessStep ==
  Base /\ Base' /\ Flawless /\ [Next]_vars => Flawless'
<1> SUFFICES ASSUME Base, Base', Flawless, [Next]_vars, faults' = 0
             PROVE  /\ ~retry_tref'
                    /\ connection' = 0 => IsEmpty(buf')
                    /\ \A c \in Conn : conns'[c] # "dead"
                    /\ \A c \in Conn : \A k \in 1..Len(responses'[c]) : responses'[c][k].code = "ok"
  BY DEF Flawless, IsEmpty
<1>1. /\ faults = 0 /\ ~retry_tref /\ (connection = 0 => IsEmpty(buf))
      /\ \A c \in Conn : conns[c] # "dead"
      /\ \A c \in Conn : \A k \in 1..Len(responses[c]) : responses[c][k].code = "ok"
  <2>1. faults = 0
    BY FaultsCount
  <2> QED
    BY <2>1 DEF Flawless
<1>2. /\ connection \in Conn \cup {0} /\ 0 \notin Conn
      /\ conns \in [Conn -> {"new", "up", "dead"}] /\ conns' \in [Conn -> {"new", "up", "dead"}]
      /\ IsEmpty(NewBuffer)
  BY DEF Base, IInv, TypeOK, ProducerTypeOK, NetworkTypeOK, Conn, IsEmpty, NewBuffer
<1>3. ~retry_tref' /\ (connection' = 0 => IsEmpty(buf'))
  <2>1. ASSUME NEW reason, Exit(reason)
        PROVE  ~retry_tref' /\ (connection' = 0 => IsEmpty(buf'))
    BY <1>2, <2>1 DEF Exit
  <2>2. CASE UNCHANGED <<buf, connection, retry_tref>>
    BY <1>1, <2>2
  <2>3. ASSUME NEW c \in Conn \cup {0}, HandleProduce(c), ~Exit("reached_max_retries")
        PROVE  ~retry_tref' /\ (connection' = 0 => IsEmpty(buf'))
    <3>1. retry_tref' = retry_tref /\ connection' = c
      BY <2>3 DEF HandleProduce, Ends, MaybeProduce
    <3>2. c # 0
      BY <1>1, <2>3, FaultsCount DEF HandleProduce
    <3> QED
      BY <1>1, <3>1, <3>2
  <2>4. ASSUME NEW c \in Conn
        PROVE  Head(responses[c]).code = "ok" \/ responses[c] = <<>>
    <3>1. responses[c] \in Seq(AnswerType)
      BY FlightTypes
    <3>2. responses[c] # <<>> => 1 \in 1..Len(responses[c]) /\ Head(responses[c]) = responses[c][1]
      BY <3>1, EmptySeq
    <3> QED
      BY <1>1, <3>2
  <2>5. /\ ~HandleDown
        /\ \A c \in Conn : ~HandleResponseRetriable(c) /\ ~HandleResponseFatal(c)
        /\ \A c \in Conn \cup {0} : ~HandleRetry(c)
    BY <1>1, <1>2, <2>4 DEF HandleResponseRetriable, HandleResponseFatal, Response,
       HandleRetry, HandleDown
  <2>6. ASSUME NEW c \in Conn, HandleResponseOk(c), ~Exit("function_clause")
        PROVE  ~retry_tref' /\ (connection' = 0 => IsEmpty(buf'))
    <3>1. retry_tref' = retry_tref /\ connection' = c
      BY <2>6 DEF HandleResponseOk, Response, Ends, MaybeProduce
    <3> QED
      BY <1>1, <1>2, <3>1
  <2>7. CASE UNCHANGED vars \/ CallerNext
    BY <2>2, <2>7 DEF vars, CallerNext, Submit, CallerBuffered, CallerDown, producerVars
  <2>8. CASE HandleDelayedSend \/ \E c \in Conn : DiscardResponse(c)
    BY <2>2, <2>8 DEF HandleDelayedSend, DiscardResponse, MaybeProduce, producerVars
  <2>9. ASSUME NEW n \in Req, SendOk(n)
        PROVE  ~retry_tref' /\ (connection' = 0 => IsEmpty(buf'))
    BY <1>1, <2>9 DEF SendOk
  <2>10. ASSUME NEW n \in Req, SendError(n)
         PROVE  FALSE
    <3>1. connection = 0 /\ IsEmpty(buf)
      BY <1>1, <1>2, <2>10 DEF SendError
    <3>2. CanTake(buf)
      BY <2>10, TakeBatchFacts DEF Base, SendError
    <3> QED
      BY <3>1, <3>2 DEF CanTake, IsEmpty
  <2>11. CASE SendNext
    BY <2>2, <2>9, <2>10, <2>11, FaultsCount DEF SendNext, Linger
  <2>12. CASE EnvironmentNext
    BY <2>1, <2>2, <2>12 DEF EnvironmentNext, DelayTimerFires, Stop, Restart, ConnectionDies,
       ClientSeesExit, InFlightLost, BrokerHandles, Ends, producerVars
  <2>13. CASE HandlerNext
    BY <2>1, <2>3, <2>5, <2>6, <2>8, <2>13 DEF HandlerNext
  <2> QED
    BY <2>7, <2>11, <2>12, <2>13 DEF Next
<1>4. ASSUME NEW c \in Conn
      PROVE  conns'[c] # "dead"
  <2>1. \/ conns' = conns
        \/ \E d : conns' = [conns EXCEPT ![d] = "up"]
        \/ \E d \in Conn : ConnectionDies(d)
        \/ \E n \in Req : SendLost(n)
    <3>1. CASE UNCHANGED vars \/ CallerNext
      BY <3>1 DEF vars, CallerNext, Submit, CallerBuffered, CallerDown, networkVars
    <3>2. CASE HandlerNext
      BY <3>2 DEF HandlerNext, HandleProduce, HandleRetry, HandleResponseOk,
         HandleResponseRetriable, HandleResponseFatal, DiscardResponse, HandleDown,
         HandleDelayedSend, GetLeaderConnection, networkVars
    <3>3. CASE SendNext
      BY <3>3 DEF SendNext, SendOk, SendError, Linger, networkVars
    <3>4. CASE EnvironmentNext
      BY <3>4 DEF EnvironmentNext, DelayTimerFires, Stop, Restart, ClientSeesExit,
         InFlightLost, BrokerHandles, networkVars
    <3> QED
      BY <3>1, <3>2, <3>3, <3>4 DEF Next
  <2>2. \A d \in Conn : ~ConnectionDies(d)
    BY <1>1 DEF ConnectionDies
  <2>3. \A n \in Req : ~SendLost(n)
    BY FaultsCount
  <2>4. conns[c] # "dead"
    BY <1>1
  <2> QED
    BY <1>2, <2>1, <2>2, <2>3, <2>4
<1>5. ASSUME NEW c \in Conn, NEW k \in 1..Len(responses'[c])
      PROVE  responses'[c][k].code = "ok"
  <2>1. ASSUME Fewer(responses'[c], responses[c])
        PROVE  responses'[c][k].code = "ok"
    BY <1>1, <2>1 DEF Fewer
  <2>2. /\ responses[c] \in Seq(AnswerType) /\ responses \in [Conn -> Seq(AnswerType)]
        /\ Len(responses[c]) \in Nat
    BY FlightTypes
  <2>3. CASE responses' = responses
    BY <2>1, <2>2, <2>3, FewerSame
  <2>4. ASSUME NEW reason, Exit(reason)
        PROVE  responses'[c][k].code = "ok"
    <3>1. responses'[c] = <<>>
      BY <2>4 DEF Exit, NoResponses
    <3> QED
      BY <2>1, <3>1, FewerNone
  <2>5. ASSUME NEW d \in Conn, responses[d] # <<>>, responses' = [responses EXCEPT ![d] = Tail(@)]
        PROVE  responses'[c][k].code = "ok"
    <3>1. responses'[c] = responses[c] \/ (responses[c] # <<>> /\ responses'[c] = Tail(responses[c]))
      BY <2>2, <2>5
    <3> QED
      BY <2>1, <2>2, <3>1, FewerSame, FewerTail
  <2>6. ASSUME NEW d \in Conn, NEW out \in Outcomes, BrokerHandles(d, out)
        PROVE  responses'[c][k].code = "ok"
    <3> DEFINE r == [ref |-> Head(net[d]).ref, code |-> Code(out), base |-> Len(log)]
    <3>1. r.code = "ok" /\ r \in AnswerType
      <4>1. out = "ok"
        BY <2>6, FaultsCount
      <4>2. net[d] \in Seq(FlightType) /\ net[d] # <<>> /\ Len(log) \in Nat
        BY <2>6, FlightTypes DEF BrokerHandles
      <4>3. Head(net[d]) \in FlightType
        BY <4>2
      <4> QED
        BY <4>1, <4>2, <4>3 DEF Code, FlightType, AnswerType
    <3>2. responses'[c] = responses[c] \/ responses'[c] = Append(responses[c], r)
      BY <2>2, <2>6 DEF BrokerHandles
    <3> HIDE DEF r
    <3>3. CASE responses'[c] = Append(responses[c], r)
      <4>1. k \in 1..Len(Append(responses[c], r))
        BY <3>3
      <4>2. \/ \E j \in 1..Len(responses[c]) : responses'[c][k] = responses[c][j]
            \/ responses'[c][k] = r
        BY <2>2, <3>1, <3>3, <4>1, Appended
      <4> QED
        BY <1>1, <3>1, <4>2
    <3> QED
      BY <2>1, <2>2, <3>2, <3>3, FewerSame
  <2>7. CASE UNCHANGED vars \/ CallerNext
    BY <2>3, <2>7 DEF vars, CallerNext, Submit, CallerBuffered, CallerDown, mailboxVars
  <2>8. ASSUME NEW d \in Conn \cup {0}, HandleProduce(d) \/ HandleRetry(d)
        PROVE  responses'[c][k].code = "ok"
    BY <2>3, <2>4, <2>8 DEF HandleProduce, HandleRetry, Ends, mailboxVars
  <2>9. ASSUME NEW d \in Conn,
               \/ HandleResponseOk(d) \/ HandleResponseRetriable(d)
               \/ HandleResponseFatal(d) \/ DiscardResponse(d)
        PROVE  responses'[c][k].code = "ok"
    BY <2>4, <2>5, <2>9 DEF HandleResponseOk, HandleResponseRetriable,
       HandleResponseFatal, DiscardResponse, Response, Ends
  <2>10. CASE HandleDown \/ HandleDelayedSend
    BY <2>3, <2>4, <2>10 DEF HandleDown, HandleDelayedSend, Ends, mailboxVars
  <2>11. CASE SendNext
    BY <2>3, <2>4, <2>11 DEF SendNext, SendOk, SendError, SendLost, SendFailed, Linger,
       mailboxVars
  <2>12. CASE EnvironmentNext
    BY <2>3, <2>4, <2>6, <2>12 DEF EnvironmentNext, DelayTimerFires, Stop, Restart,
       ConnectionDies, ClientSeesExit, InFlightLost, Ends, mailboxVars
  <2> QED
    BY <2>7, <2>8, <2>9, <2>10, <2>11, <2>12 DEF Next, HandlerNext
<1> QED
  BY <1>3, <1>4, <1>5

LEMMA FlawlessAlways == Spec => []Flawless
<1>1. Init => Flawless
  <2>1. Len(<<>>) = 0
    BY EmptySeq
  <2> QED
    BY <2>1 DEF Init, Flawless, NewBuffer, NoResponses, IsEmpty
<1> QED
  BY <1>1, FlawlessStep, Based, PTL DEF Spec

\* What left the buffer does not come back.
LEMMA SentGrows ==
  ASSUME Base, Base', Flawless, Flawless', [Next]_vars, faults' = 0
  PROVE  Sent <= Sent'
<1>1. /\ faults = 0 /\ ~retry_tref /\ (connection = 0 => IsEmpty(buf))
      /\ \A c \in Conn : conns[c] # "dead"
      /\ \A c \in Conn : \A k \in 1..Len(responses[c]) : responses[c][k].code = "ok"
  <2>1. faults = 0
    BY FaultsCount
  <2> QED
    BY <2>1 DEF Flawless
<1>2. /\ Wire \in Nat /\ done \in Nat /\ Wire' \in Nat /\ done' \in Nat /\ last \in Nat
      /\ done + Wire <= last /\ buf \in Buffers /\ 0 \notin Conn /\ connection \in Conn \cup {0}
  BY DEF Base, Bordered, IInv, TypeOK, ProducerTypeOK, Conn
<1>3. ASSUME NEW reason, Exit(reason)
      PROVE  Sent <= Sent'
  <2>1. done' = last /\ buf'.onwire = <<>>
    BY <1>3 DEF Exit, NewBuffer
  <2>2. Len(buf'.onwire) = 0
    BY <2>1, EmptySeq
  <2>3. Sent' = last
    BY <1>2, <2>1, <2>2 DEF Sent, Wire
  <2>4. Sent <= last
    BY <1>2 DEF Sent
  <2> QED
    BY <2>3, <2>4
<1>4. ASSUME done' = done, Wire' = Wire
      PROVE  Sent <= Sent'
  BY <1>2, <1>4 DEF Sent
<1>5. CASE UNCHANGED vars \/ CallerNext
  BY <1>4, <1>5 DEF vars, CallerNext, Submit, CallerBuffered, CallerDown, producerVars,
     historyVars, Wire
<1>6. ASSUME NEW c \in Conn \cup {0}, HandleProduce(c), ~Exit("reached_max_retries")
      PROVE  Sent <= Sent'
  <2>1. PICK b : /\ b = buf \/ (IsEmpty(buf) /\ b = NackAll(buf))
                 /\ inbox # <<>> /\ buf' = Add(b, Head(inbox)) /\ done' = done
    BY <1>1, <1>6 DEF HandleProduce, Ends, MaybeProduce, ReinitBuffer, historyVars
  <2>2. b \in Buffers /\ Head(inbox) \in Req /\ b.onwire = buf.onwire
    <3>1. Head(inbox) \in Req
      BY <2>1 DEF Base, IInv, TypeOK, MailboxTypeOK
    <3>2. ASSUME IsEmpty(buf), b = NackAll(buf)
          PROVE  b \in Buffers /\ b.onwire = buf.onwire
      BY <1>2, <3>2, NackAllLemma, NackAllMoves DEF IsEmpty
    <3> QED
      BY <1>2, <2>1, <3>1, <3>2
  <2>3. buf'.onwire = buf.onwire
    BY <2>1, <2>2, AddMoves
  <2> QED
    BY <1>4, <2>1, <2>3 DEF Wire
<1>7. /\ ~HandleDown
      /\ \A c \in Conn : ~HandleResponseRetriable(c) /\ ~HandleResponseFatal(c)
      /\ \A c \in Conn \cup {0} : ~HandleRetry(c)
  <2>1. ASSUME NEW c \in Conn
        PROVE  Head(responses[c]).code = "ok" \/ responses[c] = <<>>
    <3>1. responses[c] \in Seq(AnswerType)
      BY FlightTypes
    <3>2. responses[c] # <<>> => 1 \in 1..Len(responses[c]) /\ Head(responses[c]) = responses[c][1]
      BY <3>1, EmptySeq
    <3> QED
      BY <1>1, <3>2
  <2> QED
    BY <1>1, <1>2, <2>1 DEF HandleResponseRetriable, HandleResponseFatal, Response,
       HandleRetry, HandleDown
<1>8. ASSUME NEW c \in Conn, HandleResponseOk(c), ~Exit("function_clause")
      PROVE  Sent <= Sent'
  <2>1. PICK k \in 1..Len(buf.onwire) : done' = done + k /\ buf' = Ack(buf, k)
    BY <1>8 DEF HandleResponseOk, Ends, MaybeProduce
  <2>2. Wire' = Wire - k
    BY <1>2, <2>1, AckMoves DEF Wire
  <2>3. k \in Nat
    BY <1>2, <2>1 DEF Wire
  <2> QED
    BY <1>2, <2>1, <2>2, <2>3 DEF Sent
<1>9. CASE HandleDelayedSend \/ \E c \in Conn : DiscardResponse(c)
  BY <1>4, <1>9 DEF HandleDelayedSend, DiscardResponse, MaybeProduce, producerVars,
     historyVars, Wire
<1>10. ASSUME NEW n \in Req, SendOk(n)
       PROVE  Sent <= Sent'
  <2>1. Wire' = Wire + n /\ done' = done
    BY <1>10, SendOkLengths DEF SendOk, historyVars, Wire
  <2> QED
    BY <1>2, <2>1 DEF Sent, Req
<1>11. ASSUME NEW n \in Req, SendError(n)
       PROVE  FALSE
  <2>1. connection = 0 /\ IsEmpty(buf)
    BY <1>1, <1>2, <1>11 DEF SendError
  <2>2. CanTake(buf)
    BY <1>11, TakeBatchFacts DEF Base, SendError
  <2> QED
    BY <2>1, <2>2 DEF CanTake, IsEmpty
<1>12. CASE SendNext
  BY <1>4, <1>10, <1>11, <1>12, FaultsCount DEF SendNext, Linger, historyVars, Wire
<1>13. CASE EnvironmentNext
  BY <1>3, <1>4, <1>13 DEF EnvironmentNext, DelayTimerFires, Stop, Restart, ConnectionDies,
     ClientSeesExit, InFlightLost, BrokerHandles, Ends, producerVars, historyVars, Wire
<1> QED
  BY <1>3, <1>5, <1>6, <1>7, <1>8, <1>9, <1>12, <1>13 DEF Next, HandlerNext

\* What a step does to the packets and to the log.
LEMMA OnceMoves ==
  ASSUME Base, Flawless, [Next]_vars, faults' = 0
  PROVE  \/ net' = net /\ log' = log
         \/ \E n \in Req : SendOk(n)
         \/ \E c \in Conn : /\ net[c] # <<>> /\ net' = [net EXCEPT ![c] = Tail(@)]
                            /\ log' = log \o Head(net[c]).reqs
                            /\ UNCHANGED <<buf, done>>
<1>1. \A c \in Conn : conns[c] # "dead"
  <2>1. faults = 0
    BY FaultsCount
  <2> QED
    BY <2>1 DEF Flawless
<1>2. CASE UNCHANGED vars \/ CallerNext
  BY <1>2 DEF vars, CallerNext, Submit, CallerBuffered, CallerDown, networkVars
<1>3. CASE HandlerNext
  BY <1>3 DEF HandlerNext, HandleProduce, HandleRetry, HandleResponseOk,
     HandleResponseRetriable, HandleResponseFatal, DiscardResponse, HandleDown,
     HandleDelayedSend, networkVars
<1>4. CASE SendNext
  BY <1>4, FaultsCount DEF SendNext, SendError, Linger, networkVars
<1>5. ASSUME NEW c \in Conn, NEW out \in Outcomes, BrokerHandles(c, out)
      PROVE  /\ net[c] # <<>> /\ net' = [net EXCEPT ![c] = Tail(@)]
             /\ log' = log \o Head(net[c]).reqs
             /\ UNCHANGED <<buf, done>>
  <2>1. out = "ok"
    BY <1>5, FaultsCount
  <2> QED
    BY <1>5, <2>1 DEF BrokerHandles, Appends, producerVars, historyVars
<1>6. CASE EnvironmentNext
  BY <1>1, <1>5, <1>6 DEF EnvironmentNext, DelayTimerFires, Stop, Restart, ConnectionDies,
     ClientSeesExit, InFlightLost, networkVars
<1> QED
  BY <1>2, <1>3, <1>4, <1>6 DEF Next

\* The requests of a packet left the buffer and are not in the log.
NotLogged(p) == \A j \in 1..Len(p.reqs) : ~InLog(p.reqs[j]) /\ p.reqs[j] <= Sent

\* Two packets have no request in common.
Apart(p, q) == \A i \in 1..Len(p.reqs), j \in 1..Len(q.reqs) : p.reqs[i] # q.reqs[j]

\* As long as no fault happened every request that left the buffer is in one
\* place only: in the log, once, or in one packet, or nowhere any more.
LoggedOnce ==
  faults = 0 =>
    /\ \A j, k \in 1..Len(log) : log[j] = log[k] => j = k
    /\ \A k \in 1..Len(log) : log[k] <= Sent
    /\ \A c \in Conn : \A k \in 1..Len(net[c]) : NotLogged(net[c][k])
    /\ \A c, d \in Conn : \A k \in 1..Len(net[c]), l \in 1..Len(net[d]) :
         c # d \/ k # l => Apart(net[c][k], net[d][l])

LEMMA PacketRequests ==
  ASSUME Base, NEW c \in Conn, NEW k \in 1..Len(net[c])
  PROVE  /\ net[c][k] \in FlightType /\ net[c][k].reqs \in Seq(Req)
         /\ \A j \in 1..Len(net[c][k].reqs) : net[c][k].reqs[j] \in Nat
<1>1. net[c] \in Seq(FlightType)
  BY FlightTypes
<1>2. net[c][k] \in FlightType
  BY <1>1, ElementOfSeq
<1>3. net[c][k].reqs \in Seq(Req)
  BY <1>2 DEF FlightType
<1>4. \A j \in 1..Len(net[c][k].reqs) : net[c][k].reqs[j] \in Req
  BY <1>3, ElementOfSeq
<1> QED
  BY <1>2, <1>3, <1>4 DEF Req

\* Packets that were there already, the log as it was.
LEMMA NotLoggedKept ==
  ASSUME Base, log' = log, Sent \in Nat, Sent' \in Nat, Sent <= Sent',
         NEW c \in Conn, NEW k \in 1..Len(net[c]), NotLogged(net[c][k]), NEW p, p = net[c][k]
  PROVE  NotLogged(p)'
<1> SUFFICES ASSUME NEW j \in 1..Len(p.reqs)
             PROVE  ~InLog(p.reqs[j])' /\ p.reqs[j] <= Sent'
  BY DEF NotLogged
<1>1. ~InLog(p.reqs[j]) /\ p.reqs[j] <= Sent
  BY DEF NotLogged
<1>2. p.reqs[j] \in Nat
  BY PacketRequests
<1> QED
  BY <1>1, <1>2 DEF InLog

\* A batch joins the packets.
LEMMA GivenOnce ==
  ASSUME Base, Base', LoggedOnce, NEW n \in Req, SendOk(n), faults = 0
  PROVE  LoggedOnce'
<1> DEFINE e == Batch(buf, n)
           p == [ref |-> next_ref, reqs |-> e]
<1>1. /\ TakeBatch(n) /\ connection # 0 /\ connection \in Conn
      /\ net' = [net EXCEPT ![connection] = Append(@, Packet(n))]
      /\ log' = log /\ done' = done
  BY DEF SendOk, historyVars, Base, IInv, TypeOK, ProducerTypeOK
<1>2. n \in 1..Len(Waiting(buf))
  BY <1>1, TakeBatchFacts DEF Base
<1>3. /\ e \in Seq(Req) /\ Len(e) = n /\ n \in Nat
      /\ \A j \in 1..n : e[j] = (done + Wire + 1) + j - 1
  BY <1>2, BatchFollowsWire
<1>4. /\ Sent \in Nat /\ Sent' \in Nat /\ Sent' = Sent + n /\ Sent <= Sent'
      /\ \A j \in 1..n : e[j] = Sent + j
  <2>1. Wire' = Wire + n
    BY SendOkLengths DEF Wire
  <2>2. Wire \in Nat /\ done \in Nat
    BY DEF Base, Bordered
  <2>3. \A j \in 1..n : (done + Wire + 1) + j - 1 = (done + Wire) + j
    BY <1>3, <2>2
  <2> HIDE DEF e
  <2> QED
    BY <1>1, <1>3, <2>1, <2>2, <2>3 DEF Sent
<1>5. p \in FlightType /\ p.reqs = e /\ Packet(n) = p
  <2>1. next_ref \in Nat
    BY FlightTypes
  <2> QED
    BY <1>3, <2>1 DEF FlightType, Packet
<1> HIDE DEF e, p
<1>6. ASSUME NEW c \in Conn, NEW k \in 1..Len(net'[c])
      PROVE  \/ k \in 1..Len(net[c]) /\ net'[c][k] = net[c][k]
             \/ c = connection /\ k = Len(net[c]) + 1 /\ net'[c][k] = p
  <2>1. net[c] \in Seq(FlightType) /\ Len(net[c]) \in Nat
    BY FlightTypes
  <2>2. net'[c] = IF c = connection THEN Append(net[c], p) ELSE net[c]
    BY <1>1, <1>5, FlightTypes
  <2>3. /\ Len(Append(net[c], p)) = Len(net[c]) + 1
        /\ \A i \in 1..(Len(net[c]) + 1) :
             Append(net[c], p)[i] = IF i <= Len(net[c]) THEN net[c][i] ELSE p
    BY <1>5, <2>1, AppendProperties
  <2> QED
    BY <2>1, <2>2, <2>3
<1>7. /\ \A j, k \in 1..Len(log) : log[j] = log[k] => j = k
      /\ \A k \in 1..Len(log) : log[k] \in Nat /\ log[k] <= Sent
      /\ \A c \in Conn : \A k \in 1..Len(net[c]) : NotLogged(net[c][k])
      /\ \A c, d \in Conn : \A k \in 1..Len(net[c]), l \in 1..Len(net[d]) :
           c # d \/ k # l => Apart(net[c][k], net[d][l])
  <2>1. \A k \in 1..Len(log) : log[k] \in Req
    BY FlightTypes, ElementOfSeq
  <2> QED
    BY <2>1 DEF LoggedOnce, Req
<1>8. ASSUME NEW k \in 1..Len(log)
      PROVE  log[k] <= Sent'
  BY <1>4, <1>7
<1>9. ASSUME NEW q, q = p
      PROVE  NotLogged(q)'
  <2>1. q.reqs = e
    BY <1>5, <1>9
  <2> SUFFICES ASSUME NEW j \in 1..n
               PROVE  ~InLog(q.reqs[j])' /\ q.reqs[j] <= Sent'
    BY <1>3, <2>1 DEF NotLogged
  <2>2. q.reqs[j] = Sent + j /\ j \in Nat /\ j > 0 /\ j <= n
    BY <1>3, <1>4, <2>1
  <2>3. Sent + j <= Sent + n /\ ~(Sent + j <= Sent)
    BY <1>3, <1>4, <2>2
  <2>4. \A k \in 1..Len(log) : log[k] # q.reqs[j]
    BY <1>7, <2>2, <2>3
  <2> QED
    BY <1>1, <1>4, <2>2, <2>3, <2>4 DEF InLog
<1>10. ASSUME NEW c \in Conn, NEW k \in 1..Len(net'[c]), NEW q, q = net'[c][k]
       PROVE  NotLogged(q)'
  <2>1. CASE k \in 1..Len(net[c]) /\ net'[c][k] = net[c][k]
    BY <1>1, <1>4, <1>7, <1>10, <2>1, NotLoggedKept
  <2> QED
    BY <1>6, <1>9, <1>10, <2>1
<1>11. ASSUME NEW c \in Conn, NEW k \in 1..Len(net[c])
       PROVE  Apart(net[c][k], p) /\ Apart(p, net[c][k])
  <2> SUFFICES ASSUME NEW i \in 1..Len(net[c][k].reqs), NEW j \in 1..n
               PROVE  net[c][k].reqs[i] # e[j]
    BY <1>3, <1>5 DEF Apart
  <2>1. net[c][k].reqs[i] <= Sent /\ net[c][k].reqs[i] \in Nat
    BY <1>7, PacketRequests DEF NotLogged
  <2>2. e[j] = Sent + j /\ j \in Nat /\ j > 0
    BY <1>3, <1>4
  <2> QED
    BY <1>4, <2>1, <2>2
<1>12. ASSUME NEW c \in Conn, NEW d \in Conn,
              NEW k \in 1..Len(net'[c]), NEW l \in 1..Len(net'[d]), c # d \/ k # l
       PROVE  Apart(net'[c][k], net'[d][l])
  <2>1. ~(c = connection /\ k = Len(net[c]) + 1 /\ d = connection /\ l = Len(net[d]) + 1)
    BY <1>12
  <2> QED
    BY <1>6, <1>7, <1>11, <1>12, <2>1
<1>13. \A c \in Conn : \A k \in 1..Len(net'[c]) : NotLogged(net[c][k])'
  BY <1>10 DEF NotLogged, InLog
<1>14. \A c, d \in Conn : \A k \in 1..Len(net'[c]), l \in 1..Len(net'[d]) :
         c # d \/ k # l => Apart(net'[c][k], net'[d][l])
  BY <1>12
<1>15. \A j, k \in 1..Len(log') : log'[j] = log'[k] => j = k
  BY <1>1, <1>7
<1>16. \A k \in 1..Len(log') : log'[k] <= Sent'
  BY <1>1, <1>8
<1> QED
  BY <1>13, <1>14, <1>15, <1>16 DEF LoggedOnce, Apart

\* The broker moves a packet into the log.
LEMMA BrokerOnce ==
  ASSUME Base, Base', PacketsShaped, LoggedOnce, faults = 0,
         NEW c \in Conn, net[c] # <<>>, net' = [net EXCEPT ![c] = Tail(@)],
         log' = log \o Head(net[c]).reqs, UNCHANGED <<buf, done>>
  PROVE  LoggedOnce'
<1> DEFINE s == net[c][1].reqs
           n == Len(log)
           past(d, k) == IF d = c THEN k + 1 ELSE k
<1>1. /\ \A j, k \in 1..Len(log) : log[j] = log[k] => j = k
      /\ \A k \in 1..Len(log) : log[k] <= Sent
      /\ \A d \in Conn : \A k \in 1..Len(net[d]) : NotLogged(net[d][k])
      /\ \A d, f \in Conn : \A k \in 1..Len(net[d]), l \in 1..Len(net[f]) :
           d # f \/ k # l => Apart(net[d][k], net[f][l])
  BY DEF LoggedOnce
<1>2. 1 \in 1..Len(net[c]) /\ Head(net[c]) = net[c][1]
  <2>1. net[c] \in Seq(FlightType) /\ Len(net[c]) \in Nat
    BY FlightTypes
  <2> QED
    BY <2>1, EmptySeq
<1>3. /\ s \in Seq(Req) /\ log \in Seq(Req) /\ n \in Nat
      /\ \A j \in 1..Len(s) : s[j] \in Nat
  BY <1>2, PacketRequests, FlightTypes
<1>4. PICK a \in Req, m \in Nat : m > 0 /\ Len(s) = m /\ \A j \in 1..m : s[j] = a + j - 1
  BY <1>2 DEF PacketsShaped, Shaped
<1>5. /\ Len(log') = n + m
      /\ \A i \in 1..(n + m) : log'[i] = IF i <= n THEN log[i] ELSE s[i - n]
  <2>1. log' = log \o s
    BY <1>2
  <2> HIDE DEF s
  <2>2. /\ Len(log \o s) = Len(log) + Len(s)
        /\ \A i \in 1..(Len(log) + Len(s)) :
             (log \o s)[i] = IF i <= Len(log) THEN log[i] ELSE s[i - Len(log)]
    BY <1>3, ConcatProperties
  <2> QED
    BY <1>4, <2>1, <2>2
<1>6. /\ \A j \in 1..m : s[j] <= Sent
      /\ \A j \in 1..m : \A k \in 1..n : log[k] # s[j]
  <2>1. NotLogged(net[c][1])
    BY <1>1, <1>2
  <2>2. \A j \in 1..m : ~InLog(s[j]) /\ s[j] <= Sent
    BY <1>4, <2>1 DEF NotLogged
  <2> HIDE DEF s
  <2> QED
    BY <2>2 DEF InLog
<1>7. Sent' = Sent
  BY DEF Sent, Wire
<1>8. ASSUME NEW d \in Conn, NEW k \in 1..Len(net'[d])
      PROVE  /\ past(d, k) \in 1..Len(net[d]) /\ net'[d][k] = net[d][past(d, k)]
             /\ d # c \/ 1 # past(d, k)
  <2>1. /\ net[c] \in Seq(FlightType) /\ Len(net[c]) \in Nat
        /\ net'[d] = IF d = c THEN Tail(net[c]) ELSE net[d]
    BY FlightTypes
  <2>2. /\ Len(Tail(net[c])) = Len(net[c]) - 1
        /\ \A i \in 1..Len(Tail(net[c])) : Tail(net[c])[i] = net[c][i + 1]
    BY <2>1, HeadTailProperties
  <2>3. CASE d = c
    <3>1. k \in 1..Len(Tail(net[c])) /\ net'[d][k] = net[c][k + 1] /\ past(d, k) = k + 1
      BY <2>1, <2>2, <2>3
    <3>2. k + 1 \in 1..Len(net[c]) /\ 1 # k + 1
      BY <2>1, <2>2, <3>1
    <3> QED
      BY <2>3, <3>1, <3>2
  <2> QED
    BY <2>1, <2>3
<1> HIDE DEF s, n, past
<1>9. ASSUME NEW i \in 1..Len(log')
      PROVE  \/ i \in 1..n /\ log'[i] = log[i]
             \/ /\ i - n \in 1..m /\ log'[i] = s[i - n] /\ i = n + (i - n)
                /\ log'[i] = a + (i - n) - 1
  <2>1. CASE i <= n
    BY <1>3, <1>4, <1>5, <2>1
  <2>2. CASE ~(i <= n)
    <3>1. i - n \in 1..m /\ i = n + (i - n) /\ log'[i] = s[i - n]
      BY <1>3, <1>4, <1>5, <2>2
    <3>2. s[i - n] = a + (i - n) - 1
      BY <1>4, <3>1
    <3> QED
      BY <3>1, <3>2
  <2> QED
    BY <2>1, <2>2
<1>10. n = Len(log)
  BY DEF n
<1>11. ASSUME NEW i \in 1..Len(log'), NEW k \in 1..Len(log'), log'[i] = log'[k]
       PROVE  i = k
  <2>1. CASE i \in 1..n /\ k \in 1..n
    <3>1. log[i] = log[k]
      <4>1. ~(i - n \in 1..m) /\ ~(k - n \in 1..m)
        BY <1>3, <2>1
      <4> QED
        BY <1>9, <1>11, <4>1
    <3> QED
      BY <1>1, <1>10, <2>1, <3>1
  <2>2. CASE i \in 1..n /\ k \notin 1..n
    <3>1. k - n \in 1..m /\ log'[k] = s[k - n]
      BY <1>9, <2>2
    <3>2. log'[i] = log[i]
      <4>1. ~(i - n \in 1..m)
        BY <1>3, <2>2
      <4> QED
        BY <1>9, <4>1
    <3> QED
      BY <1>6, <1>11, <2>2, <3>1, <3>2
  <2>3. CASE i \notin 1..n /\ k \in 1..n
    <3>1. i - n \in 1..m /\ log'[i] = s[i - n]
      BY <1>9, <2>3
    <3>2. log'[k] = log[k]
      <4>1. ~(k - n \in 1..m)
        BY <1>3, <2>3
      <4> QED
        BY <1>9, <4>1
    <3> QED
      BY <1>6, <1>11, <2>3, <3>1, <3>2
  <2>4. CASE i \notin 1..n /\ k \notin 1..n
    <3>1. log'[i] = a + (i - n) - 1 /\ log'[k] = a + (k - n) - 1
      BY <1>9, <2>4
    <3>2. a \in Nat /\ i \in Nat /\ k \in Nat /\ n \in Nat
      BY <1>3 DEF Req
    <3> QED
      BY <1>11, <3>1, <3>2
  <2> QED
    BY <2>1, <2>2, <2>3, <2>4
<1>12. ASSUME NEW i \in 1..Len(log')
       PROVE  log'[i] <= Sent'
  BY <1>1, <1>6, <1>7, <1>9, <1>10
<1>13. ASSUME NEW d \in Conn, NEW k \in 1..Len(net'[d]), NEW p, p = net'[d][k]
       PROVE  NotLogged(p)'
  <2>1. PICK l \in 1..Len(net[d]) : p = net[d][l] /\ (d # c \/ 1 # l)
    BY <1>8, <1>13
  <2>2. NotLogged(p) /\ Apart(net[c][1], p)
    BY <1>1, <1>2, <2>1
  <2> SUFFICES ASSUME NEW j \in 1..Len(p.reqs)
               PROVE  ~InLog(p.reqs[j])' /\ p.reqs[j] <= Sent'
    BY DEF NotLogged
  <2>3. /\ p.reqs[j] <= Sent /\ \A i \in 1..n : log[i] # p.reqs[j]
    BY <1>10, <2>2 DEF NotLogged, InLog
  <2>4. \A i \in 1..m : s[i] # p.reqs[j]
    BY <1>4, <2>2 DEF Apart, s
  <2>5. \A i \in 1..Len(log') : log'[i] # p.reqs[j]
    BY <1>9, <2>3, <2>4
  <2> QED
    BY <1>7, <2>3, <2>5 DEF InLog
<1>14. ASSUME NEW d \in Conn, NEW f \in Conn,
              NEW k \in 1..Len(net'[d]), NEW l \in 1..Len(net'[f]), d # f \/ k # l
       PROVE  Apart(net'[d][k], net'[f][l])
  <2>1. d = f => past(d, k) # past(f, l)
    BY <1>14 DEF past
  <2> QED
    BY SMTT(30), <1>1, <1>8, <2>1
<1>15. \A d \in Conn : \A k \in 1..Len(net'[d]) : NotLogged(net[d][k])'
  BY <1>13 DEF NotLogged, InLog
<1> QED
  BY <1>11, <1>12, <1>14, <1>15 DEF LoggedOnce, Apart

LEMMA LoggedOnceStep ==
  ASSUME Base, Base', PacketsShaped, Flawless, Flawless', LoggedOnce, [Next]_vars
  PROVE  LoggedOnce'
<1> SUFFICES ASSUME faults' = 0 PROVE LoggedOnce'
  BY DEF LoggedOnce
<1>1. faults = 0
  BY FaultsCount
<1>2. CASE net' = net /\ log' = log
  <2>1. /\ \A j, k \in 1..Len(log) : log[j] = log[k] => j = k
        /\ \A k \in 1..Len(log) : log[k] <= Sent /\ log[k] \in Nat
        /\ \A c \in Conn : \A k \in 1..Len(net[c]) : NotLogged(net[c][k])
        /\ \A c, d \in Conn : \A k \in 1..Len(net[c]), l \in 1..Len(net[d]) :
             c # d \/ k # l => Apart(net[c][k], net[d][l])
    <3>1. \A k \in 1..Len(log) : log[k] \in Req
      BY FlightTypes, ElementOfSeq
    <3> QED
      BY <1>1, <3>1 DEF LoggedOnce, Req
  <2>2. Sent \in Nat /\ Sent' \in Nat /\ Sent <= Sent'
    <3>1. /\ done \in Nat /\ Len(buf.onwire) \in Nat
          /\ done' \in Nat /\ Len(buf'.onwire) \in Nat
      BY DEF Base, Bordered, Wire
    <3>2. Sent = done + Len(buf.onwire) /\ Sent' = done' + Len(buf'.onwire)
      BY DEF Sent, Wire
    <3>3. Sent \in Nat /\ Sent' \in Nat
      BY <3>1, <3>2
    <3> QED
      BY <3>3, SentGrows
  <2>3. ASSUME NEW c \in Conn, NEW k \in 1..Len(net'[c]), NEW p, p = net'[c][k]
        PROVE  NotLogged(p)'
    BY <1>2, <2>1, <2>2, <2>3, NotLoggedKept
  <2>4. \A c \in Conn : \A k \in 1..Len(net'[c]) : NotLogged(net[c][k])'
    BY <2>3 DEF NotLogged, InLog
  <2>5. \A k \in 1..Len(log') : log'[k] <= Sent'
    BY <1>2, <2>1, <2>2
  <2>6. \A c, d \in Conn : \A k \in 1..Len(net'[c]), l \in 1..Len(net'[d]) :
          c # d \/ k # l => Apart(net'[c][k], net'[d][l])
    BY <1>2, <2>1
  <2>7. \A j, k \in 1..Len(log') : log'[j] = log'[k] => j = k
    BY <1>2, <2>1
  <2> QED
    BY <2>4, <2>5, <2>6, <2>7 DEF LoggedOnce, Apart
<1> QED
  BY <1>1, <1>2, OnceMoves, GivenOnce, BrokerOnce

LEMMA LoggedOnceAlways == Spec => []LoggedOnce
<1>1. Init => LoggedOnce
  <2>1. Len(<<>>) = 0
    BY EmptySeq
  <2> QED
    BY <2>1 DEF Init, LoggedOnce
<1> QED
  BY <1>1, LoggedOnceStep, PacketsShapedAlways, FlawlessAlways, Based, PTL DEF Spec

\* NoDuplicateWithoutFault is one part of LoggedOnce: only a fault puts a
\* request into the log twice, however the sending loop, the answers, the end
\* of the producer and its restarts interleave.
THEOREM OnlyFaultsDuplicate == Spec => []NoDuplicateWithoutFault
<1>1. LoggedOnce => NoDuplicateWithoutFault
  BY DEF LoggedOnce, NoDuplicateWithoutFault
<1> QED
  BY <1>1, LoggedOnceAlways, PTL
=============================================================================
