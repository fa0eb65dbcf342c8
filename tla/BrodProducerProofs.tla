------------------------- MODULE BrodProducerProofs -------------------------
(***************************************************************************)
(* Theorems about BrodProducer for every number of requests, callers and   *)
(* connections, every configuration of the buffer and every bound.         *)
(*                                                                         *)
(* None of the properties is inductive alone: done stays within the        *)
(* requests made because what is on wire is a part of what is unsettled,   *)
(* onwire_count stays a natural number because it counts references that   *)
(* come in order, and the wire stays within its limit because the sending  *)
(* loop is entered only when CanTake holds.  IInv is their conjunction.    *)
(***************************************************************************)
EXTENDS BrodProducer, ProducerBufferProofs

\* The requests after a up to b, in order.
From(a, b) == [k \in 1..(b - a) |-> a + k]

\* Everything made and not settled is held, once and in order.
Accounted ==
  /\ done <= last
  /\ Content(buf) \o inbox = From(done, last)

\* What every operation of the buffer keeps.
WellKept(b) ==
  /\ Counted(b)
  /\ Pressure(b)
  /\ WireCounted(b, next_ref)
  /\ b.onwire_count <= OnWireLimit

Sendable == sending => CanTake(buf)

IInv == TypeOK /\ Accounted /\ WellKept(buf) /\ Sendable

-----------------------------------------------------------------------------
(* Sequences of consecutive numbers.                                       *)

LEMMA FromType ==
  ASSUME NEW a \in Nat, NEW b \in Nat, a <= b, b <= MaxReqs
  PROVE  /\ From(a, b) \in Seq(Req)
         /\ Len(From(a, b)) = b - a
         /\ \A k \in 1..(b - a) : From(a, b)[k] = a + k
<1>1. b - a \in Nat
  OBVIOUS
<1>2. \A k \in 1..(b - a) : a + k \in Req
  BY ConfigAssumption DEF Req
<1>3. From(a, b) \in [1..(b - a) -> Req]
  BY <1>2 DEF From
<1>4. \A k \in 1..(b - a) : From(a, b)[k] = a + k
  BY DEF From
<1> QED
  BY <1>1, <1>3, <1>4, FunctionIsSeq

\* One more request at the end.
LEMMA FromAppend ==
  ASSUME NEW a \in Nat, NEW b \in Nat, a <= b, b + 1 <= MaxReqs
  PROVE  From(a, b) \o <<b + 1>> = From(a, b + 1)
<1> DEFINE s == From(a, b)
           e == <<b + 1>>
           u == From(a, b + 1)
<1>1. b + 1 \in Req /\ b <= MaxReqs
  BY ConfigAssumption DEF Req
<1>2. /\ s \in Seq(Req) /\ Len(s) = b - a
      /\ \A k \in 1..(b - a) : s[k] = a + k
  BY <1>1, FromType
<1>3. /\ u \in Seq(Req) /\ Len(u) = (b + 1) - a
      /\ \A k \in 1..((b + 1) - a) : u[k] = a + k
  <2>1. b + 1 \in Nat /\ a <= b + 1
    OBVIOUS
  <2> QED
    BY <2>1, FromType
<1>4. e \in Seq(Req) /\ Len(e) = 1 /\ e[1] = b + 1
  BY <1>1
<1> HIDE DEF s, e, u
<1>5. /\ s \o e \in Seq(Req)
      /\ Len(s \o e) = Len(s) + Len(e)
      /\ \A i \in 1..(Len(s) + Len(e)) :
           (s \o e)[i] = IF i <= Len(s) THEN s[i] ELSE e[i - Len(s)]
  BY <1>2, <1>4, ConcatProperties
<1>6. Len(s) + Len(e) = (b + 1) - a
  BY <1>2, <1>4
<1>7. \A i \in 1..((b + 1) - a) : (s \o e)[i] = u[i]
  <2> SUFFICES ASSUME NEW i \in 1..((b + 1) - a)
               PROVE  (s \o e)[i] = u[i]
    OBVIOUS
  <2>1. CASE i <= b - a
    <3>1. i \in 1..(b - a)
      BY <2>1
    <3> QED
      BY <1>2, <1>3, <1>5, <1>6, <3>1
  <2>2. CASE ~(i <= b - a)
    <3>1. i - (b - a) = 1 /\ a + i = b + 1
      BY <2>2
    <3> QED
      BY <1>2, <1>3, <1>4, <1>5, <1>6, <2>2, <3>1
  <2> QED
    BY <2>1, <2>2
<1>8. s \o e = u
  BY <1>3, <1>5, <1>6, <1>7, SeqEqual
<1> QED
  BY <1>8 DEF s, e, u

\* Without its first requests.
LEMMA FromCut ==
  ASSUME NEW a \in Nat, NEW b \in Nat, a <= b, b <= MaxReqs,
         NEW p \in Seq(Req), NEW r \in Seq(Req), p \o r = From(a, b)
  PROVE  a + Len(p) <= b /\ r = From(a + Len(p), b)
<1> DEFINE s == From(a, b)
           u == From(a + Len(p), b)
           c == Len(p)
<1>1. /\ s \in Seq(Req) /\ Len(s) = b - a
      /\ \A k \in 1..(b - a) : s[k] = a + k
  BY FromType
<1>2. Len(r) \in Nat /\ c \in Nat
  BY LenProperties
<1>3. p \o r = s
  OBVIOUS
<1> HIDE DEF s, c
<1>4. /\ Len(s) = c + Len(r)
      /\ \A i \in 1..(c + Len(r)) : s[i] = IF i <= c THEN p[i] ELSE r[i - c]
  BY <1>3, ConcatProperties DEF c
<1>5. Len(r) = b - (a + c) /\ a + c <= b /\ a + c \in Nat
  <2> DEFINE x == Len(r)
  <2>1. x \in Nat /\ c \in Nat /\ c + x = b - a
    BY <1>1, <1>2, <1>4
  <2> HIDE DEF x
  <2>2. x = b - (a + c) /\ a + c <= b /\ a + c \in Nat
    BY <2>1
  <2> QED
    BY <2>2 DEF x
<1>6. /\ u \in Seq(Req) /\ Len(u) = b - (a + c)
      /\ \A k \in 1..(b - (a + c)) : u[k] = (a + c) + k
  BY <1>5, FromType DEF c
<1> HIDE DEF u
<1>7. \A i \in 1..(b - (a + c)) : r[i] = u[i]
  <2> SUFFICES ASSUME NEW i \in 1..(b - (a + c))
               PROVE  r[i] = u[i]
    OBVIOUS
  <2>1. /\ i + c \in 1..(c + Len(r)) /\ ~(i + c <= c) /\ (i + c) - c = i
        /\ i + c \in 1..(b - a) /\ a + (i + c) = (a + c) + i
    BY <1>2, <1>5
  <2>2. s[i + c] = r[i]
    BY <1>4, <2>1
  <2>3. s[i + c] = a + (i + c)
    BY <1>1, <2>1
  <2> QED
    BY <1>6, <2>1, <2>2, <2>3
<1>8. r = u
  BY <1>5, <1>6, <1>7, SeqEqual
<1> QED
  BY <1>5, <1>8 DEF u, c

\* Nothing.
LEMMA FromEmpty ==
  ASSUME NEW a \in Nat
  PROVE  From(a, a) = <<>>
  BY DEF From

-----------------------------------------------------------------------------
(* Facts about the invariant.                                              *)

LEMMA Numbers ==
  ASSUME TypeOK
  PROVE  /\ MaxReqs \in Nat /\ OnWireLimit \in Nat \ {0}
         /\ last \in Nat /\ last <= MaxReqs
         /\ done \in Nat /\ lostTo \in Nat /\ matured \in Nat
  BY ConfigAssumption DEF TypeOK, ProducerTypeOK, HistoryTypeOK, Req

\* Unchanged variables keep their types.
LEMMA TypesKept ==
  ASSUME TypeOK
  PROVE  /\ UNCHANGED producerVars => ProducerTypeOK'
         /\ UNCHANGED mailboxVars => MailboxTypeOK'
         /\ UNCHANGED <<caller, replies>> => CallerTypeOK'
         /\ UNCHANGED networkVars => NetworkTypeOK'
         /\ UNCHANGED historyVars => HistoryTypeOK'
         /\ UNCHANGED next_ref => next_ref' \in Nat
         /\ UNCHANGED faults => faults' \in Nat
         /\ UNCHANGED restarts => restarts' \in Nat
<1>1. UNCHANGED producerVars => ProducerTypeOK'
  BY DEF TypeOK, ProducerTypeOK, producerVars
<1>2. UNCHANGED mailboxVars => MailboxTypeOK'
  BY DEF TypeOK, MailboxTypeOK, mailboxVars
<1>3. UNCHANGED <<caller, replies>> => CallerTypeOK'
  BY DEF TypeOK, CallerTypeOK
<1>4. UNCHANGED networkVars => NetworkTypeOK'
  BY DEF TypeOK, NetworkTypeOK, networkVars
<1>5. UNCHANGED historyVars => HistoryTypeOK'
  BY DEF TypeOK, HistoryTypeOK, historyVars
<1>6. /\ UNCHANGED next_ref => next_ref' \in Nat
      /\ UNCHANGED faults => faults' \in Nat
      /\ UNCHANGED restarts => restarts' \in Nat
  BY DEF TypeOK
<1> QED
  BY <1>1, <1>2, <1>3, <1>4, <1>5, <1>6

\* The buffer of a producer that just started.
LEMMA NewBufferLemma ==
  ASSUME NEW next
  PROVE  /\ NewBuffer \in Buffers
         /\ Content(NewBuffer) = <<>>
         /\ Counted(NewBuffer) /\ Pressure(NewBuffer)
         /\ WireCounted(NewBuffer, next)
         /\ NewBuffer.onwire_count = 0
<1>1. NewBuffer \in Buffers
  BY EmptySeq DEF NewBuffer, Buffers
<1>2. /\ NewBuffer.onwire = <<>> /\ NewBuffer.onwire_count = 0
      /\ NewBuffer.pending = <<>> /\ NewBuffer.buffer = <<>>
      /\ NewBuffer.buffer_count = 0
  BY DEF NewBuffer
<1>3. WireCounted(NewBuffer, next) /\ OnWireReqs(NewBuffer) = <<>>
  BY <1>2, EmptyWire
<1>4. Content(NewBuffer) = <<>> \o (<<>> \o <<>>)
  BY <1>2, <1>3 DEF Content, Waiting
<1>5. Content(NewBuffer) = <<>>
  BY <1>4, EmptySeq, ConcatEmptySeq
<1>6. Counted(NewBuffer) /\ Pressure(NewBuffer)
  BY <1>2, EmptySeq DEF Counted, Pressure
<1> QED
  BY <1>1, <1>2, <1>3, <1>5, <1>6

\* With what it speaks of unchanged the invariant stays.
LEMMA Untouched ==
  ASSUME IInv, UNCHANGED <<buf, inbox, done, last, next_ref, sending>>
  PROVE  Accounted' /\ WellKept(buf)' /\ Sendable'
<1>1. Accounted'
  BY DEF IInv, Accounted, Content, OnWireReqs, Waiting, From
<1>2. WellKept(buf)'
  BY DEF IInv, WellKept, Counted, Pressure, WireCounted, Refs
<1>3. Sendable'
  BY DEF IInv, Sendable, CanTake
<1> QED
  BY <1>1, <1>2, <1>3

\* The end of the producer settles everything by giving it up.
LEMMA ExitLemma ==
  ASSUME IInv,
         NEW reason \in {"normal", "reached_max_retries", "not_retriable",
                         "function_clause"},
         Exit(reason), UNCHANGED <<last, acks>>, matured' \in Req \cup {0}
  PROVE  /\ ProducerTypeOK' /\ MailboxTypeOK' /\ HistoryTypeOK'
         /\ Accounted' /\ WellKept(buf)' /\ Sendable'
<1>1. buf' = NewBuffer /\ inbox' = <<>> /\ done' = last /\ last' = last /\ sending' = FALSE
  BY DEF Exit
<1>2. NewBuffer \in Buffers
  BY NewBufferLemma
<1>3. ProducerTypeOK'
  BY <1>1, <1>2 DEF ProducerTypeOK, Exit, NoTimer
<1>4. MailboxTypeOK'
  <2> DEFINE Rsp == [ref : Nat, code : {"ok", "retriable", "fatal"}, base : Nat]
  <2>1. <<>> \in Seq(Rsp) /\ <<>> \in Seq(Req)
    BY EmptySeq
  <2>2. NoResponses \in [Conn -> Seq(Rsp)]
    BY <2>1 DEF NoResponses
  <2> QED
    BY <1>1, <2>1, <2>2 DEF MailboxTypeOK, Exit
<1>5. HistoryTypeOK'
  BY DEF IInv, TypeOK, HistoryTypeOK, Exit
<1>6. Accounted'
  <2>1. last \in Nat
    BY Numbers DEF IInv
  <2>2. Content(buf') = <<>>
    BY <1>1, NewBufferLemma
  <2>3. <<>> \o <<>> = <<>>
    BY EmptySeq, ConcatEmptySeq
  <2>4. From(last, last) = <<>> /\ last <= last
    BY <2>1, FromEmpty
  <2> QED
    BY <1>1, <2>2, <2>3, <2>4 DEF Accounted
<1>7. WellKept(buf)'
  <2>1. 0 <= OnWireLimit
    BY ConfigAssumption
  <2>2. /\ Counted(buf') /\ Pressure(buf') /\ WireCounted(buf', next_ref')
        /\ buf'.onwire_count <= OnWireLimit
    BY <1>1, <2>1, NewBufferLemma
  <2> QED
    BY <2>2 DEF WellKept
<1>8. Sendable'
  BY <1>1 DEF Sendable
<1> QED
  BY <1>3, <1>4, <1>5, <1>6, <1>7, <1>8

-----------------------------------------------------------------------------
(* Steps that leave the requests of the producer alone.                    *)

LEMMA CallerSteps ==
  ASSUME IInv, NEW p \in Callers, CallerBuffered(p) \/ CallerDown(p)
  PROVE  IInv'
<1>1. /\ caller' = [caller EXCEPT ![p] = 0]
      /\ UNCHANGED <<producerVars, mailboxVars, replies, networkVars, historyVars,
                     next_ref, faults, restarts>>
  BY DEF CallerBuffered, CallerDown
<1>2. CallerTypeOK'
  BY <1>1 DEF IInv, TypeOK, CallerTypeOK
<1>3. TypeOK'
  BY <1>1, <1>2, TypesKept DEF IInv, TypeOK
<1>4. Accounted' /\ WellKept(buf)' /\ Sendable'
  BY <1>1, Untouched DEF producerVars, mailboxVars, historyVars
<1> QED
  BY <1>3, <1>4 DEF IInv

LEMMA StutterStep ==
  ASSUME IInv, UNCHANGED vars
  PROVE  IInv'
<1>1. /\ UNCHANGED producerVars /\ UNCHANGED mailboxVars
      /\ UNCHANGED <<caller, replies>>
      /\ UNCHANGED networkVars /\ UNCHANGED historyVars
      /\ UNCHANGED next_ref /\ UNCHANGED faults /\ UNCHANGED restarts
  BY DEF vars
<1>2. TypeOK'
  BY <1>1, TypesKept DEF IInv, TypeOK
<1>3. Accounted' /\ WellKept(buf)' /\ Sendable'
  BY <1>1, Untouched DEF producerVars, mailboxVars, historyVars
<1> QED
  BY <1>2, <1>3 DEF IInv

LEMMA RestartStep ==
  ASSUME IInv, Restart
  PROVE  IInv'
<1>1. ProducerTypeOK' /\ restarts' \in Nat
  BY DEF Restart, IInv, TypeOK, ProducerTypeOK
<1>2. TypeOK'
  BY <1>1, TypesKept DEF Restart, IInv, TypeOK
<1>3. Accounted' /\ WellKept(buf)' /\ Sendable'
  BY Untouched DEF Restart, mailboxVars, historyVars
<1> QED
  BY <1>2, <1>3 DEF IInv

LEMMA DelayTimerFiresStep ==
  ASSUME IInv, DelayTimerFires
  PROVE  IInv'
<1>1. matured' \in Req \cup {0}
  BY DEF DelayTimerFires, IInv, TypeOK, ProducerTypeOK, Greater
<1>2. delay' \in [state : {"undef", "off", "armed", "fired"}, head : Req \cup {0}]
  BY DEF DelayTimerFires, IInv, TypeOK, ProducerTypeOK
<1>3. ProducerTypeOK'
  BY <1>1, <1>2 DEF DelayTimerFires, IInv, TypeOK, ProducerTypeOK
<1>4. TypeOK'
  BY <1>3, TypesKept DEF DelayTimerFires, IInv, TypeOK
<1>5. Accounted' /\ WellKept(buf)' /\ Sendable'
  BY Untouched DEF DelayTimerFires, mailboxVars, historyVars
<1> QED
  BY <1>4, <1>5 DEF IInv

LEMMA DiscardResponseStep ==
  ASSUME IInv, NEW c \in Conn, DiscardResponse(c)
  PROVE  IInv'
<1>1. MailboxTypeOK'
  <2> DEFINE Rsp == [ref : Nat, code : {"ok", "retriable", "fatal"}, base : Nat]
  <2>1. Tail(responses[c]) \in Seq(Rsp)
    <3>1. responses[c] \in Seq(Rsp) /\ responses[c] # <<>>
      BY DEF DiscardResponse, IInv, TypeOK, MailboxTypeOK
    <3> HIDE DEF Rsp
    <3> QED
      BY <3>1, HeadTailProperties
  <2>2. responses' \in [Conn -> Seq(Rsp)]
    BY <2>1 DEF DiscardResponse, IInv, TypeOK, MailboxTypeOK
  <2> QED
    BY <2>2 DEF DiscardResponse, IInv, TypeOK, MailboxTypeOK
<1>2. TypeOK'
  BY <1>1, TypesKept DEF DiscardResponse, IInv, TypeOK
<1>3. Accounted' /\ WellKept(buf)' /\ Sendable'
  BY Untouched DEF DiscardResponse, producerVars, historyVars
<1> QED
  BY <1>2, <1>3 DEF IInv

LEMMA ConnectionSteps ==
  ASSUME IInv, NEW c \in Conn, ConnectionDies(c) \/ ClientSeesExit(c)
  PROVE  IInv'
<1>1. /\ UNCHANGED <<producerVars, mailboxVars, caller, replies, net, log, historyVars,
                     next_ref, restarts>>
      /\ \/ /\ conns' = [conns EXCEPT ![c] = "dead"]
            /\ known' = known /\ faults' = faults + 1
         \/ conns' = conns /\ known' = known \ {c} /\ faults' = faults
  BY DEF ConnectionDies, ClientSeesExit
<1>2. NetworkTypeOK'
  <2>1. conns' \in [Conn -> {"new", "up", "dead"}] /\ known' \in SUBSET Conn
    BY <1>1 DEF IInv, TypeOK, NetworkTypeOK
  <2> QED
    BY <1>1, <2>1 DEF IInv, TypeOK, NetworkTypeOK
<1>3. faults' \in Nat
  BY <1>1 DEF IInv, TypeOK
<1>4. TypeOK'
  BY <1>1, <1>2, <1>3, TypesKept DEF IInv, TypeOK
<1>5. Accounted' /\ WellKept(buf)' /\ Sendable'
  BY <1>1, Untouched DEF producerVars, mailboxVars, historyVars
<1> QED
  BY <1>4, <1>5 DEF IInv

LEMMA InFlightLostStep ==
  ASSUME IInv, NEW c \in Conn, InFlightLost(c)
  PROVE  IInv'
<1>1. NetworkTypeOK'
  <2>1. <<>> \in Seq([ref : Nat, reqs : Seq(Req)])
    BY EmptySeq
  <2> QED
    BY <2>1 DEF InFlightLost, IInv, TypeOK, NetworkTypeOK
<1>2. TypeOK'
  BY <1>1, TypesKept DEF InFlightLost, IInv, TypeOK
<1>3. Accounted' /\ WellKept(buf)' /\ Sendable'
  BY Untouched DEF InFlightLost, producerVars, mailboxVars, historyVars
<1> QED
  BY <1>2, <1>3 DEF IInv

LEMMA BrokerHandlesStep ==
  ASSUME IInv, NEW c \in Conn, NEW out \in Outcomes, BrokerHandles(c, out)
  PROVE  IInv'
<1> DEFINE Rsp == [ref : Nat, code : {"ok", "retriable", "fatal"}, base : Nat]
           Pkt == [ref : Nat, reqs : Seq(Req)]
           pkt == Head(net[c])
           rsp == [ref |-> pkt.ref, code |-> Code(out), base |-> Len(log)]
<1>1. /\ net \in [Conn -> Seq(Pkt)] /\ log \in Seq(Req)
      /\ responses \in [Conn -> Seq(Rsp)] /\ inbox \in Seq(Req)
  BY DEF IInv, TypeOK, NetworkTypeOK, MailboxTypeOK
<1>2. /\ net[c] # <<>> /\ net' = [net EXCEPT ![c] = Tail(@)]
      /\ log' = log \/ log' = log \o pkt.reqs
      /\ responses' = responses \/ responses' = [responses EXCEPT ![c] = Append(@, rsp)]
      /\ faults' = faults \/ faults' = faults + 1
      /\ UNCHANGED <<producerVars, inbox, caller, replies, conns, known, historyVars,
                     next_ref, restarts>>
  BY DEF BrokerHandles
<1>3. pkt \in Pkt /\ Tail(net[c]) \in Seq(Pkt)
  <2>1. net[c] \in Seq(Pkt)
    BY <1>1
  <2> HIDE DEF Pkt
  <2> QED
    BY <1>2, <2>1, HeadTailProperties
<1>4. Code(out) \in {"ok", "retriable", "fatal"}
  BY EnvironmentAssumption DEF Code, Outcomes
<1>5. rsp \in Rsp
  <2>1. Len(log) \in Nat /\ pkt.ref \in Nat
    BY <1>1, <1>3, LenProperties
  <2> HIDE DEF pkt
  <2> QED
    BY <1>4, <2>1
<1>6. responses' \in [Conn -> Seq(Rsp)]
  <2>1. Append(responses[c], rsp) \in Seq(Rsp)
    <3>1. responses[c] \in Seq(Rsp)
      BY <1>1
    <3> HIDE DEF Rsp, rsp
    <3> QED
      BY <1>5, <3>1, AppendProperties
  <2> HIDE DEF Rsp, rsp
  <2> QED
    BY <1>1, <1>2, <2>1
<1>7. log' \in Seq(Req)
  <2>1. pkt.reqs \in Seq(Req)
    BY <1>3
  <2> HIDE DEF pkt
  <2>2. log \o pkt.reqs \in Seq(Req)
    BY <1>1, <2>1, ConcatProperties
  <2> QED
    BY <1>1, <1>2, <2>2
<1>8. net' \in [Conn -> Seq(Pkt)]
  <2> HIDE DEF Pkt
  <2> QED
    BY <1>1, <1>2, <1>3
<1>9. NetworkTypeOK' /\ MailboxTypeOK'
  BY <1>1, <1>2, <1>6, <1>7, <1>8 DEF IInv, TypeOK, NetworkTypeOK, MailboxTypeOK
<1>10. faults' \in Nat
  BY <1>2 DEF IInv, TypeOK
<1>11. TypeOK'
  BY <1>2, <1>9, <1>10, TypesKept DEF IInv, TypeOK
<1>12. Accounted' /\ WellKept(buf)' /\ Sendable'
  BY <1>2, Untouched DEF producerVars, historyVars
<1> QED
  BY <1>11, <1>12 DEF IInv

-----------------------------------------------------------------------------
(* Steps of the callers and of the handlers.                               *)

LEMMA SubmitStep ==
  ASSUME IInv, NEW p \in Callers, Submit(p)
  PROVE  IInv'
<1> DEFINE c == Content(buf)
<1>1. /\ buf \in Buffers /\ inbox \in Seq(Req) /\ c \in Seq(Req)
      /\ last \in Nat /\ done \in Nat /\ done <= last
  BY Numbers, WaitingType DEF IInv, TypeOK, ProducerTypeOK, MailboxTypeOK, Accounted
<1>2. last + 1 \in Nat /\ last + 1 <= MaxReqs /\ last + 1 \in Req
  BY <1>1, ConfigAssumption DEF Submit, Req
<1>3. /\ last' = last + 1 /\ inbox' = Append(inbox, last + 1)
      /\ caller' = [caller EXCEPT ![p] = last + 1]
      /\ UNCHANGED <<producerVars, responses, replies, networkVars, done, lostTo,
                     acks, next_ref, faults, restarts>>
  BY DEF Submit
<1>4. inbox' = inbox \o <<last + 1>> /\ inbox' \in Seq(Req)
  BY <1>1, <1>2, <1>3, AppendIsConcat, AppendProperties
<1>5. MailboxTypeOK'
  BY <1>3, <1>4 DEF IInv, TypeOK, MailboxTypeOK
<1>6. CallerTypeOK'
  BY <1>2, <1>3 DEF IInv, TypeOK, CallerTypeOK
<1>7. HistoryTypeOK'
  BY <1>2, <1>3 DEF IInv, TypeOK, HistoryTypeOK
<1>8. TypeOK'
  BY <1>3, <1>5, <1>6, <1>7, TypesKept DEF IInv, TypeOK
<1>9. Accounted'
  <2>1. c \o inbox = From(done, last)
    BY DEF IInv, Accounted
  <2>2. Content(buf') = c
    BY <1>3 DEF producerVars
  <2> HIDE DEF c
  <2>3. <<last + 1>> \in Seq(Req)
    BY <1>2
  <2>4. (c \o inbox) \o <<last + 1>> = c \o (inbox \o <<last + 1>>)
    BY <1>1, <2>3, Associative
  <2>5. From(done, last) \o <<last + 1>> = From(done, last + 1)
    BY <1>1, <1>2, FromAppend
  <2>6. c \o inbox' = From(done, last + 1)
    BY <1>4, <2>1, <2>4, <2>5
  <2>7. done <= last + 1
    BY <1>1
  <2> QED
    BY <1>3, <2>2, <2>6, <2>7 DEF Accounted
<1>10. WellKept(buf)' /\ Sendable'
  BY <1>3 DEF IInv, WellKept, Counted, Pressure, WireCounted, Refs, Sendable, CanTake,
    producerVars
<1> QED
  BY <1>8, <1>9, <1>10 DEF IInv

\* A step that ends the producer.
LEMMA EndsStep ==
  ASSUME IInv,
         NEW reason \in {"normal", "reached_max_retries", "not_retriable",
                         "function_clause"},
         Ends(reason), NetworkTypeOK', faults' \in Nat
  PROVE  IInv'
<1>1. /\ Exit(reason)
      /\ UNCHANGED <<matured, caller, replies, last, acks, next_ref, restarts>>
  BY DEF Ends
<1>2. matured' \in Req \cup {0}
  BY <1>1 DEF IInv, TypeOK, ProducerTypeOK
<1>3. /\ ProducerTypeOK' /\ MailboxTypeOK' /\ HistoryTypeOK'
      /\ Accounted' /\ WellKept(buf)' /\ Sendable'
  BY <1>1, <1>2, ExitLemma
<1>4. TypeOK'
  BY <1>1, <1>3, TypesKept DEF IInv, TypeOK
<1> QED
  BY <1>3, <1>4 DEF IInv

LEMMA StopStep ==
  ASSUME IInv, Stop
  PROVE  IInv'
<1>1. NetworkTypeOK' /\ faults' \in Nat
  BY TypesKept DEF Stop, IInv
<1> QED
  BY <1>1, EndsStep DEF Stop

LEMMA GetLeaderConnectionType ==
  ASSUME IInv, NEW c \in Conn \cup {0}, GetLeaderConnection(c), UNCHANGED <<net, log>>
  PROVE  NetworkTypeOK' /\ faults' \in Nat
<1>1. /\ conns' = conns \/ conns' = [conns EXCEPT ![c] = "up"]
      /\ known' = known \/ (c \in Conn /\ known' = known \cup {c})
      /\ faults' = faults \/ faults' = faults + 1
  BY DEF GetLeaderConnection
<1>2. /\ conns \in [Conn -> {"new", "up", "dead"}] /\ known \in SUBSET Conn
      /\ faults \in Nat
  BY DEF IInv, TypeOK, NetworkTypeOK
<1>3. conns' \in [Conn -> {"new", "up", "dead"}]
  BY <1>1, <1>2
<1>4. known' \in SUBSET Conn
  BY <1>1, <1>2
<1>5. faults' \in Nat
  BY <1>1, <1>2
<1> QED
  BY <1>3, <1>4, <1>5 DEF IInv, TypeOK, NetworkTypeOK

\* Putting back what is on wire, or not, keeps everything.
LEMMA ReinitBufferKeeps ==
  ASSUME IInv, NEW c
  PROVE  /\ ReinitBuffer(c) \in Buffers
         /\ Content(ReinitBuffer(c)) = Content(buf)
         /\ WellKept(ReinitBuffer(c))
         /\ WellKept(NackAll(buf))
<1>1. buf \in Buffers /\ WellKept(buf) /\ 0 <= OnWireLimit
  BY ConfigAssumption DEF IInv, TypeOK, ProducerTypeOK
<1>2. /\ NackAll(buf) \in Buffers /\ Content(NackAll(buf)) = Content(buf)
      /\ NackAll(buf).onwire_count = 0
      /\ WireCounted(NackAll(buf), next_ref)
      /\ Pressure(NackAll(buf)) /\ Counted(NackAll(buf))
  BY <1>1, NackAllLemma DEF WellKept
<1>3. WellKept(NackAll(buf))
  BY <1>1, <1>2 DEF WellKept
<1> QED
  BY <1>1, <1>2, <1>3 DEF ReinitBuffer

\* maybe_produce/1 enters the sending loop only when it may send.
LEMMA MaybeProduceSendable ==
  ASSUME NEW b, NEW retry \in BOOLEAN, NEW d,
         d \in [state : {"undef", "off", "armed", "fired"}, head : Req \cup {0}],
         MaybeProduce(b, retry, d)
  PROVE  /\ buf' = b /\ retry_tref' \in BOOLEAN /\ sending' \in BOOLEAN
         /\ delay' \in [state : {"undef", "off", "armed", "fired"}, head : Req \cup {0}]
         /\ Sendable'
<1>1. buf' = b /\ retry_tref' = retry /\ sending' = (~retry /\ CanTake(b))
  BY DEF MaybeProduce
<1>2. delay' = d \/ delay' = Cancelled(d)
  BY DEF MaybeProduce
<1>3. Cancelled(d) \in [state : {"undef", "off", "armed", "fired"}, head : Req \cup {0}]
  BY DEF Cancelled
<1>4. sending' \in BOOLEAN
  BY <1>1 DEF CanTake
<1>5. Sendable'
  BY <1>1 DEF Sendable, CanTake
<1> QED
  BY <1>1, <1>2, <1>3, <1>4, <1>5

LEMMA HandleDelayedSendStep ==
  ASSUME IInv, HandleDelayedSend
  PROVE  IInv'
<1>1. /\ MaybeProduce(buf, retry_tref, NoTimer)
      /\ UNCHANGED <<up, exit_reason, connection, matured, mailboxVars, caller,
                     replies, networkVars, historyVars, next_ref, faults, restarts>>
  BY DEF HandleDelayedSend
<1>2. /\ buf' = buf /\ retry_tref' \in BOOLEAN /\ sending' \in BOOLEAN
      /\ delay' \in [state : {"undef", "off", "armed", "fired"}, head : Req \cup {0}]
      /\ Sendable'
  <2>1. retry_tref \in BOOLEAN
    BY DEF IInv, TypeOK, ProducerTypeOK
  <2>2. NoTimer \in [state : {"undef", "off", "armed", "fired"}, head : Req \cup {0}]
    BY DEF NoTimer
  <2> QED
    BY <1>1, <2>1, <2>2, MaybeProduceSendable
<1>3. ProducerTypeOK'
  BY <1>1, <1>2 DEF IInv, TypeOK, ProducerTypeOK
<1>4. TypeOK'
  BY <1>1, <1>3, TypesKept DEF IInv, TypeOK
<1>5. Accounted' /\ WellKept(buf)'
  BY ZenonT(60), <1>1, <1>2 DEF IInv, Accounted, Content, OnWireReqs, Waiting, From, WellKept,
    Counted, Pressure, WireCounted, Refs, mailboxVars, historyVars
<1> QED
  BY <1>2, <1>4, <1>5 DEF IInv

\* A step that only rearranges what the producer holds.
LEMMA Rearranged ==
  ASSUME IInv, NEW b, buf' = b, WellKept(b), Content(b) = Content(buf),
         UNCHANGED <<inbox, done, last, next_ref>>
  PROVE  Accounted' /\ WellKept(buf)'
<1>1. Content(buf') = Content(buf)
  OBVIOUS
<1>2. Accounted'
  BY <1>1 DEF IInv, Accounted
<1>3. WellKept(buf)'
  BY DEF WellKept
<1> QED
  BY <1>2, <1>3

LEMMA HandleRetryStep ==
  ASSUME IInv, NEW c \in Conn \cup {0}, HandleRetry(c)
  PROVE  IInv'
<1>1. NetworkTypeOK' /\ faults' \in Nat
  BY GetLeaderConnectionType DEF HandleRetry
<1>2. CASE ReinitCrashes(c)
  <2>1. Ends("reached_max_retries")
    BY <1>2 DEF HandleRetry
  <2> QED
    BY <1>1, <2>1, EndsStep
<1>3. CASE ~ReinitCrashes(c)
  <2>1. /\ MaybeProduce(ReinitBuffer(c), FALSE, delay)
        /\ connection' = c
        /\ UNCHANGED <<up, exit_reason, matured, mailboxVars, caller, replies,
                       historyVars, next_ref, restarts>>
    BY <1>3 DEF HandleRetry
  <2>2. /\ ReinitBuffer(c) \in Buffers
        /\ Content(ReinitBuffer(c)) = Content(buf)
        /\ WellKept(ReinitBuffer(c))
    BY ReinitBufferKeeps
  <2>3. /\ buf' = ReinitBuffer(c) /\ retry_tref' \in BOOLEAN /\ sending' \in BOOLEAN
        /\ delay' \in [state : {"undef", "off", "armed", "fired"}, head : Req \cup {0}]
        /\ Sendable'
    BY <2>1, MaybeProduceSendable DEF IInv, TypeOK, ProducerTypeOK
  <2>4. ProducerTypeOK'
    BY <2>1, <2>2, <2>3 DEF IInv, TypeOK, ProducerTypeOK
  <2>5. TypeOK'
    BY <1>1, <2>1, <2>4, TypesKept DEF IInv, TypeOK
  <2>6. Accounted' /\ WellKept(buf)'
    BY <2>1, <2>2, <2>3, Rearranged DEF mailboxVars, historyVars
  <2> QED
    BY <2>3, <2>5, <2>6 DEF IInv
<1> QED
  BY <1>2, <1>3

LEMMA HandleDownStep ==
  ASSUME IInv, HandleDown
  PROVE  IInv'
<1>1. NetworkTypeOK' /\ faults' \in Nat
  BY TypesKept DEF HandleDown, IInv
<1>2. CASE ~IsEmpty(buf) /\ NackAllCrashes(buf)
  <2>1. Ends("reached_max_retries")
    BY <1>2 DEF HandleDown
  <2> QED
    BY <1>1, <2>1, EndsStep
<1>3. CASE ~(~IsEmpty(buf) /\ NackAllCrashes(buf))
  <2>1. /\ connection' = 0 /\ ~sending
        /\ buf' = IF IsEmpty(buf) THEN buf ELSE NackAll(buf)
        /\ retry_tref' = (retry_tref \/ ~IsEmpty(buf))
        /\ UNCHANGED <<up, exit_reason, delay, sending, matured, mailboxVars,
                       caller, replies, historyVars, next_ref, restarts>>
    BY <1>3 DEF HandleDown
  <2>2. PICK b \in {buf, NackAll(buf)} : buf' = b
    BY <2>1
  <2>3. b \in Buffers /\ Content(b) = Content(buf) /\ WellKept(b)
    BY NackAllLemma, ReinitBufferKeeps DEF IInv, TypeOK, ProducerTypeOK
  <2>4. retry_tref' \in BOOLEAN
    BY <2>1 DEF IsEmpty, IInv, TypeOK, ProducerTypeOK
  <2>5. ProducerTypeOK'
    BY <2>1, <2>2, <2>3, <2>4 DEF IInv, TypeOK, ProducerTypeOK
  <2>6. TypeOK'
    BY <1>1, <2>1, <2>5, TypesKept DEF IInv, TypeOK
  <2>7. Accounted' /\ WellKept(buf)'
    BY <2>1, <2>2, <2>3, Rearranged DEF mailboxVars, historyVars
  <2>8. Sendable'
    BY <2>1 DEF Sendable
  <2> QED
    BY <2>6, <2>7, <2>8 DEF IInv
<1> QED
  BY <1>2, <1>3

\* The responses of a connection without the first.
LEMMA ResponsesTail ==
  ASSUME IInv, NEW c \in Conn, responses[c] # <<>>
  PROVE  /\ [responses EXCEPT ![c] = Tail(@)] \in
              [Conn -> Seq([ref : Nat, code : {"ok", "retriable", "fatal"}, base : Nat])]
         /\ Head(responses[c]) \in
              [ref : Nat, code : {"ok", "retriable", "fatal"}, base : Nat]
<1> DEFINE Rsp == [ref : Nat, code : {"ok", "retriable", "fatal"}, base : Nat]
<1>1. responses \in [Conn -> Seq(Rsp)] /\ responses[c] \in Seq(Rsp)
  BY DEF IInv, TypeOK, MailboxTypeOK
<1>2. Tail(responses[c]) \in Seq(Rsp) /\ Head(responses[c]) \in Rsp
  <2> HIDE DEF Rsp
  <2> QED
    BY <1>1, HeadTailProperties
<1> QED
  BY <1>1, <1>2

LEMMA HandleResponseRetriableStep ==
  ASSUME IInv, NEW c \in Conn, HandleResponseRetriable(c)
  PROVE  IInv'
<1>1. NetworkTypeOK' /\ faults' \in Nat
  BY TypesKept DEF HandleResponseRetriable, IInv
<1>2. \/ Ends("function_clause") \/ Ends("reached_max_retries")
      \/ /\ buf' = NackAll(buf)
         /\ retry_tref' = TRUE
         /\ responses' = [responses EXCEPT ![c] = Tail(@)]
         /\ UNCHANGED <<up, exit_reason, connection, delay, sending, matured,
                        inbox, caller, replies, historyVars, next_ref, restarts>>
  BY DEF HandleResponseRetriable
<1>3. ~sending /\ responses[c] # <<>>
  BY DEF HandleResponseRetriable, Response
<1>4. CASE Ends("function_clause") \/ Ends("reached_max_retries")
  BY <1>1, <1>4, EndsStep
<1>5. CASE /\ buf' = NackAll(buf)
           /\ retry_tref' = TRUE
           /\ responses' = [responses EXCEPT ![c] = Tail(@)]
           /\ UNCHANGED <<up, exit_reason, connection, delay, sending, matured,
                          inbox, caller, replies, historyVars, next_ref, restarts>>
  <2>1. /\ NackAll(buf) \in Buffers /\ Content(NackAll(buf)) = Content(buf)
        /\ WellKept(NackAll(buf))
    BY NackAllLemma, ReinitBufferKeeps DEF IInv, TypeOK, ProducerTypeOK
  <2>2. ProducerTypeOK'
    BY <1>5, <2>1 DEF IInv, TypeOK, ProducerTypeOK
  <2>3. MailboxTypeOK'
    BY <1>3, <1>5, ResponsesTail DEF IInv, TypeOK, MailboxTypeOK
  <2>4. TypeOK'
    BY <1>1, <1>5, <2>2, <2>3, TypesKept DEF IInv, TypeOK
  <2>5. Accounted' /\ WellKept(buf)'
    BY <1>5, <2>1, Rearranged DEF historyVars
  <2>6. Sendable'
    BY <1>3, <1>5 DEF Sendable
  <2> QED
    BY <2>4, <2>5, <2>6 DEF IInv
<1> QED
  BY <1>2, <1>4, <1>5

LEMMA HandleResponseFatalStep ==
  ASSUME IInv, NEW c \in Conn, HandleResponseFatal(c)
  PROVE  IInv'
<1>1. NetworkTypeOK' /\ faults' \in Nat
  BY TypesKept DEF HandleResponseFatal, IInv
<1> QED
  BY <1>1, EndsStep DEF HandleResponseFatal

\* An acknowledgement settles the oldest requests, as many as it acks.
LEMMA AckAccounts ==
  ASSUME IInv, NEW k \in 1..Len(buf.onwire), IsHeadBatch(buf, k)
  PROVE  /\ Ack(buf, k) \in Buffers
         /\ done + k \in Nat /\ done + k <= last
         /\ Content(Ack(buf, k)) \o inbox = From(done + k, last)
         /\ WellKept(Ack(buf, k))
<1> DEFINE c == Ack(buf, k)
           r == OnWireReqs(buf)
           p == SubSeq(r, 1, k)
           v == OnWireReqs(c)
           w == Waiting(buf)
<1>1. /\ buf \in Buffers /\ inbox \in Seq(Req) /\ next_ref \in Nat
      /\ WireCounted(buf, next_ref) /\ Pressure(buf) /\ Counted(buf)
      /\ buf.onwire_count <= OnWireLimit
  BY DEF IInv, TypeOK, ProducerTypeOK, MailboxTypeOK, WellKept
<1>2. /\ c \in Buffers
      /\ p \o v = r /\ Len(p) = k /\ p \in Seq(Req)
      /\ Waiting(c) = w
      /\ c.onwire_count = buf.onwire_count - 1
      /\ WireCounted(c, next_ref)
      /\ Pressure(c) /\ Counted(c)
  BY <1>1, AckLemma
<1>3. /\ v \in Seq(Req) /\ w \in Seq(Req) /\ r \in Seq(Req)
      /\ Content(c) = v \o w /\ Content(c) \in Seq(Req)
      /\ Content(buf) = r \o w
  BY <1>1, <1>2, OnWireReqsType, WaitingType DEF Content
<1>4. Content(buf) \o inbox = From(done, last)
  BY DEF IInv, Accounted
<1>5. c.onwire_count <= OnWireLimit
  <2>1. buf.onwire_count \in Nat /\ OnWireLimit \in Nat
    BY <1>1, ConfigAssumption DEF Buffers
  <2> DEFINE x == buf.onwire_count
  <2>2. x \in Nat /\ x <= OnWireLimit
    BY <1>1, <2>1
  <2> HIDE DEF x
  <2>3. x - 1 <= OnWireLimit
    BY <2>1, <2>2
  <2> QED
    BY <1>2, <2>3 DEF x
<1> HIDE DEF c, r, p, v, w
<1>6. p \o (Content(c) \o inbox) = From(done, last)
  <2>1. (p \o v) \o w = p \o (v \o w)
    BY ZenonT(60), <1>2, <1>3, Associative
  <2>2. (p \o (v \o w)) \o inbox = p \o ((v \o w) \o inbox)
    <3>1. v \o w \in Seq(Req)
      BY <1>3
    <3> QED
      BY <1>1, <1>2, <3>1, Associative
  <2> QED
    BY <1>2, <1>3, <1>4, <2>1, <2>2
<1>7. Content(c) \o inbox \in Seq(Req)
  BY <1>1, <1>3, ConcatProperties
<1>8. done + Len(p) <= last /\ Content(c) \o inbox = From(done + Len(p), last)
  <2>1. done \in Nat /\ last \in Nat /\ done <= last /\ last <= MaxReqs
    BY Numbers DEF IInv, Accounted
  <2> DEFINE z == Content(c) \o inbox
  <2>2. z \in Seq(Req) /\ p \o z = From(done, last) /\ p \in Seq(Req)
    BY <1>2, <1>6, <1>7
  <2> HIDE DEF z
  <2>3. done + Len(p) <= last /\ z = From(done + Len(p), last)
    BY <2>1, <2>2, FromCut
  <2> QED
    BY <2>3 DEF z
<1>9. done + k \in Nat
  <2>1. k \in Nat
    <3>1. Len(buf.onwire) \in Nat
      BY <1>1, LenProperties DEF Buffers
    <3> QED
      BY <3>1
  <2> QED
    BY <2>1, Numbers DEF IInv
<1>10. WellKept(c)
  BY <1>2, <1>5 DEF WellKept
<1> QED
  BY <1>2, <1>8, <1>9, <1>10 DEF c

LEMMA AckedOffsetsType ==
  ASSUME NEW b \in Buffers, NEW k \in 1..Len(b.onwire), NEW base \in Nat
  PROVE  AckedOffsets(b, k, base) \in Seq([req : Req, offset : Nat])
<1>1. b.onwire \in Seq([ref : Nat, req : Req]) /\ Len(b.onwire) \in Nat
  BY LenProperties DEF Buffers
<1>2. k \in Nat /\ \A j \in 1..k : j \in 1..Len(b.onwire)
  BY <1>1
<1>3. \A j \in 1..k : b.onwire[j] \in [ref : Nat, req : Req]
  BY <1>1, <1>2, ElementOfSeq
<1>4. \A j \in 1..k : base + j - 1 \in Nat
  BY <1>2
<1>5. AckedOffsets(b, k, base) \in [1..k -> [req : Req, offset : Nat]]
  BY <1>3, <1>4 DEF AckedOffsets
<1> QED
  BY <1>2, <1>5, FunctionIsSeq

LEMMA HandleResponseOkStep ==
  ASSUME IInv, NEW c \in Conn, HandleResponseOk(c)
  PROVE  IInv'
<1> DEFINE rsp == Head(responses[c])
<1>1. NetworkTypeOK' /\ faults' \in Nat
  BY TypesKept DEF HandleResponseOk, IInv
<1>2. responses[c] # <<>>
  BY DEF HandleResponseOk, Response
<1>3. CASE Ends("function_clause")
  BY <1>1, <1>3, EndsStep
<1>4. ASSUME NEW k \in 1..Len(buf.onwire),
             IsHeadBatch(buf, k),
             acks' = acks \o AckedOffsets(buf, k, rsp.base),
             done' = done + k,
             MaybeProduce(Ack(buf, k), retry_tref, delay),
             responses' = [responses EXCEPT ![c] = Tail(@)],
             UNCHANGED <<up, exit_reason, connection, matured, inbox, caller,
                         replies, last, lostTo, next_ref, restarts>>
      PROVE  IInv'
  <2>1. /\ Ack(buf, k) \in Buffers
        /\ done + k \in Nat /\ done + k <= last
        /\ Content(Ack(buf, k)) \o inbox = From(done + k, last)
        /\ WellKept(Ack(buf, k))
    BY <1>4, AckAccounts
  <2>2. /\ buf' = Ack(buf, k) /\ retry_tref' \in BOOLEAN /\ sending' \in BOOLEAN
        /\ delay' \in [state : {"undef", "off", "armed", "fired"}, head : Req \cup {0}]
        /\ Sendable'
    BY <1>4, MaybeProduceSendable DEF IInv, TypeOK, ProducerTypeOK
  <2>3. ProducerTypeOK'
    BY <1>4, <2>1, <2>2 DEF IInv, TypeOK, ProducerTypeOK
  <2>4. MailboxTypeOK'
    BY <1>2, <1>4, ResponsesTail DEF IInv, TypeOK, MailboxTypeOK
  <2>5. acks' \in Seq([req : Req, offset : Nat])
    <3> DEFINE Acked == [req : Req, offset : Nat]
               more == AckedOffsets(buf, k, rsp.base)
    <3>1. rsp.base \in Nat /\ buf \in Buffers /\ acks \in Seq(Acked)
      BY <1>2, ResponsesTail DEF IInv, TypeOK, ProducerTypeOK, HistoryTypeOK
    <3>2. more \in Seq(Acked)
      BY <3>1, AckedOffsetsType
    <3>3. acks' = acks \o more
      BY <1>4
    <3> HIDE DEF Acked, more
    <3>4. acks' \in Seq(Acked)
      BY <3>1, <3>2, <3>3, ConcatProperties
    <3> QED
      BY <3>4 DEF Acked
  <2>6. HistoryTypeOK'
    <3>1. done' \in Req \cup {0}
      BY <1>4, <2>1, Numbers DEF IInv, Req
    <3> QED
      BY <1>4, <2>5, <3>1 DEF IInv, TypeOK, HistoryTypeOK
  <2>7. TypeOK'
    BY <1>1, <1>4, <2>3, <2>4, <2>6, TypesKept DEF IInv, TypeOK
  <2>8. Accounted'
    <3>1. Content(buf') = Content(Ack(buf, k))
      BY <2>2
    <3> QED
      BY <1>4, <2>1, <3>1 DEF Accounted
  <2>9. WellKept(buf)'
    BY <1>4, <2>1, <2>2 DEF WellKept
  <2> QED
    BY <2>2, <2>7, <2>8, <2>9 DEF IInv
<1> QED
  BY <1>3, <1>4 DEF HandleResponseOk

\* A request taken from the mailbox goes behind everything held.
LEMMA AddAccounts ==
  ASSUME IInv, inbox # <<>>, NEW b \in Buffers, Content(b) = Content(buf), WellKept(b)
  PROVE  /\ Head(inbox) \in Req /\ Tail(inbox) \in Seq(Req)
         /\ Add(b, Head(inbox)) \in Buffers
         /\ Content(Add(b, Head(inbox))) \o Tail(inbox) = Content(buf) \o inbox
         /\ WellKept(Add(b, Head(inbox)))
<1> DEFINE i == Head(inbox)
           c == Add(b, i)
           r == OnWireReqs(b)
           w == Waiting(b)
           e == <<i>>
           z == Tail(inbox)
<1>1. inbox \in Seq(Req)
  BY DEF IInv, TypeOK, MailboxTypeOK
<1>2. i \in Req /\ z \in Seq(Req)
  BY <1>1, HeadTailProperties
<1>3. inbox = e \o z
  <2>1. /\ Len(inbox) \in Nat \ {0}
        /\ SubSeq(inbox, 1, Len(inbox)) = inbox
    BY <1>1, EmptySeq, SubSeqFull
  <2>2. z = SubSeq(inbox, 2, Len(inbox))
    BY <1>1, TailIsSubSeq
  <2>3. 1 \in 1..Len(inbox) /\ Len(inbox) \in 1..Len(inbox)
    BY <2>1
  <2>4. SubSeq(inbox, 1, Len(inbox)) = <<inbox[1]>> \o SubSeq(inbox, 1 + 1, Len(inbox))
    BY <1>1, <2>3, SubSeqRecursiveFirst
  <2>5. i = inbox[1]
    OBVIOUS
  <2>6. 1 + 1 = 2
    OBVIOUS
  <2> QED
    BY <2>1, <2>2, <2>4, <2>5, <2>6
<1>4. /\ c \in Buffers /\ Waiting(c) = w \o e /\ c.onwire = b.onwire
      /\ c.onwire_count = b.onwire_count
      /\ Pressure(c) /\ Counted(c)
  BY <1>2, AddLemma DEF WellKept
<1>5. OnWireReqs(c) = r
  BY <1>4 DEF OnWireReqs
<1>6. WellKept(c)
  BY <1>4 DEF WellKept, WireCounted, Refs
<1>7. /\ r \in Seq(Req) /\ w \in Seq(Req) /\ e \in Seq(Req)
      /\ Content(c) = r \o (w \o e) /\ Content(b) = r \o w
      /\ r \o w \in Seq(Req)
  <2>1. r \in Seq(Req) /\ w \in Seq(Req) /\ Content(b) \in Seq(Req)
    BY OnWireReqsType, WaitingType
  <2>2. e \in Seq(Req)
    BY <1>2
  <2>3. Content(b) = r \o w
    BY DEF Content
  <2>4. Content(c) = OnWireReqs(c) \o Waiting(c)
    BY DEF Content
  <2> HIDE DEF c, r, w, e
  <2>5. Content(c) = r \o (w \o e)
    BY <1>4, <1>5, <2>4
  <2> QED
    BY <2>1, <2>2, <2>3, <2>5
<1> HIDE DEF i, c, r, w, e, z
<1>8. Content(c) \o z = Content(b) \o inbox
  <2>1. r \o (w \o e) = (r \o w) \o e
    BY <1>7, Associative
  <2>2. ((r \o w) \o e) \o z = (r \o w) \o (e \o z)
    BY <1>2, <1>7, Associative DEF z
  <2> QED
    BY <1>3, <1>7, <2>1, <2>2
<1> QED
  BY <1>2, <1>4, <1>6, <1>8 DEF i, c, z

LEMMA ReplyType ==
  ASSUME IInv, NEW reqs
  PROVE  Reply(reqs) \in [Req -> Nat]
  BY DEF Reply, IInv, TypeOK, CallerTypeOK

LEMMA HandleProduceStep ==
  ASSUME IInv, NEW c \in Conn \cup {0}, HandleProduce(c)
  PROVE  IInv'
<1> DEFINE b == IF retry_tref \/ connection # 0 THEN buf ELSE ReinitBuffer(c)
           i == Head(inbox)
<1>1. NetworkTypeOK' /\ faults' \in Nat
  <2>1. CASE retry_tref \/ connection # 0
    <3>1. UNCHANGED networkVars /\ UNCHANGED faults
      BY <2>1 DEF HandleProduce, networkVars
    <3> QED
      BY <3>1, TypesKept DEF IInv
  <2>2. CASE ~(retry_tref \/ connection # 0)
    BY <2>2, GetLeaderConnectionType DEF HandleProduce
  <2> QED
    BY <2>1, <2>2
<1>2. CASE ReinitCrashes(c)
  <2>1. Ends("reached_max_retries")
    BY <1>2 DEF HandleProduce
  <2> QED
    BY <1>1, <2>1, EndsStep
<1>3. CASE ~ReinitCrashes(c)
  <2>1. /\ inbox # <<>>
        /\ MaybeProduce(Add(b, i), retry_tref, delay)
        /\ replies' = Reply(BufferedByAdd(b, i))
        /\ connection' = c
        /\ inbox' = Tail(inbox)
        /\ UNCHANGED <<up, exit_reason, matured, responses, caller, historyVars,
                       next_ref, restarts>>
    BY <1>3 DEF HandleProduce
  <2>2. b \in Buffers /\ Content(b) = Content(buf) /\ WellKept(b)
    BY ReinitBufferKeeps DEF IInv, TypeOK, ProducerTypeOK
  <2> HIDE DEF b
  <2>3. /\ Tail(inbox) \in Seq(Req)
        /\ Add(b, i) \in Buffers
        /\ Content(Add(b, i)) \o Tail(inbox) = Content(buf) \o inbox
        /\ WellKept(Add(b, i))
    BY <2>1, <2>2, AddAccounts
  <2>4. /\ buf' = Add(b, i) /\ retry_tref' \in BOOLEAN /\ sending' \in BOOLEAN
        /\ delay' \in [state : {"undef", "off", "armed", "fired"}, head : Req \cup {0}]
        /\ Sendable'
    BY <2>1, MaybeProduceSendable DEF IInv, TypeOK, ProducerTypeOK
  <2>5. ProducerTypeOK'
    BY <2>1, <2>3, <2>4 DEF IInv, TypeOK, ProducerTypeOK
  <2>6. MailboxTypeOK' /\ CallerTypeOK'
    BY <2>1, <2>3, ReplyType DEF IInv, TypeOK, MailboxTypeOK, CallerTypeOK
  <2>7. TypeOK'
    BY <1>1, <2>1, <2>5, <2>6, TypesKept DEF IInv, TypeOK
  <2>8. Accounted'
    <3>1. Content(buf') \o inbox' = Content(buf) \o inbox
      BY <2>1, <2>3, <2>4
    <3> QED
      BY <2>1, <3>1 DEF IInv, Accounted, historyVars
  <2>9. WellKept(buf)'
    BY <2>1, <2>3, <2>4 DEF WellKept
  <2> QED
    BY <2>4, <2>7, <2>8, <2>9 DEF IInv
<1> QED
  BY <1>2, <1>3

-----------------------------------------------------------------------------
(* The sending loop.                                                       *)

LEMMA LingerStep ==
  ASSUME IInv, Linger
  PROVE  IInv'
<1>1. /\ sending /\ Young /\ sending' = FALSE
      /\ delay' = [state |-> "armed", head |-> Head(Waiting(buf))]
      /\ replies' = Reply(BufferedBy(buf))
      /\ UNCHANGED <<up, exit_reason, buf, connection, retry_tref, matured,
                     mailboxVars, caller, networkVars, historyVars, next_ref,
                     faults, restarts>>
  BY DEF Linger
<1>2. Head(Waiting(buf)) \in Req
  <2>1. buf \in Buffers /\ CanTake(buf)
    BY <1>1 DEF IInv, TypeOK, ProducerTypeOK, Sendable
  <2>2. Waiting(buf) \in Seq(Req) /\ Waiting(buf) # <<>>
    <3>1. buf.buffer \in Seq(Req) /\ buf.pending \in Seq(Req)
      BY <2>1 DEF Buffers
    <3> DEFINE x == buf.buffer  y == buf.pending
    <3>2. x \in Seq(Req) /\ y \in Seq(Req) /\ (x # <<>> \/ y # <<>>)
      BY <2>1, <3>1 DEF CanTake
    <3>3. Waiting(buf) = x \o y
      BY DEF Waiting
    <3> HIDE DEF x, y
    <3>4. x \o y \in Seq(Req) /\ x \o y # <<>>
      BY <3>2, ConcatProperties, ConcatEqualIffEmpty
    <3> QED
      BY <3>3, <3>4
  <2> QED
    BY <2>2, HeadTailProperties
<1>3. ProducerTypeOK'
  <2>1. delay' \in [state : {"undef", "off", "armed", "fired"}, head : Req \cup {0}]
    BY <1>1, <1>2
  <2> QED
    BY <1>1, <2>1 DEF IInv, TypeOK, ProducerTypeOK
<1>4. CallerTypeOK'
  BY <1>1, ReplyType DEF IInv, TypeOK, CallerTypeOK
<1>5. TypeOK'
  BY <1>1, <1>3, <1>4, TypesKept DEF IInv, TypeOK
<1>6. Accounted' /\ WellKept(buf)'
  BY <1>1, Rearranged DEF IInv, mailboxVars, historyVars
<1>7. Sendable'
  BY <1>1 DEF Sendable
<1> QED
  BY <1>5, <1>6, <1>7 DEF IInv

LEMMA TakeBatchFacts ==
  ASSUME IInv, NEW n \in Req, TakeBatch(n)
  PROVE  /\ n \in 1..Len(Waiting(buf))
         /\ buf \in Buffers /\ WellKept(buf) /\ CanTake(buf)
         /\ matured' \in Req \cup {0}
         /\ (UNCHANGED caller => CallerTypeOK')
<1>1. buf \in Buffers /\ WellKept(buf) /\ CanTake(buf)
  BY DEF IInv, TypeOK, ProducerTypeOK, TakeBatch, Sendable
<1>2. n \in 1..Len(Waiting(buf))
  BY DEF TakeBatch, IsBatch
<1>3. matured' \in Req \cup {0}
  <2>1. Waiting(buf) \in Seq(Req) /\ Len(Waiting(buf)) \in Nat
    BY <1>1, WaitingType, LenProperties
  <2>2. Waiting(buf) # <<>>
    BY <1>2, <2>1, EmptySeq
  <2>3. Head(Waiting(buf)) \in Req
    BY <2>1, <2>2, HeadTailProperties
  <2>4. matured' = Greater(matured, Head(Waiting(buf))) \/ matured' = matured
    BY DEF TakeBatch
  <2> QED
    BY <2>3, <2>4 DEF Greater, IInv, TypeOK, ProducerTypeOK
<1>4. (UNCHANGED caller => CallerTypeOK')
  BY ReplyType DEF TakeBatch, IInv, TypeOK, CallerTypeOK
<1> QED
  BY <1>1, <1>2, <1>3, <1>4

\* References stay below the next one when more are handed out.
LEMMA LaterReference ==
  ASSUME NEW b \in Buffers, NEW next \in Nat, WireCounted(b, next)
  PROVE  WireCounted(b, next + 1)
<1>1. ASSUME NEW k \in 1..Len(b.onwire)
      PROVE  b.onwire[k].ref < next + 1
  <2>1. b.onwire \in Seq([ref : Nat, req : Req])
    BY DEF Buffers
  <2>2. b.onwire[k] \in [ref : Nat, req : Req]
    BY <2>1, ElementOfSeq
  <2> DEFINE r == b.onwire[k].ref
  <2>3. r \in Nat /\ r < next
    BY <2>2 DEF WireCounted
  <2> HIDE DEF r
  <2>4. r < next + 1
    BY <2>3
  <2> QED
    BY <2>4 DEF r
<1> QED
  BY <1>1 DEF WireCounted

\* One more packet handed to a connection.
LEMMA PacketGiven ==
  ASSUME IInv, NEW n \in 1..Len(Waiting(buf)), connection # 0
  PROVE  [net EXCEPT ![connection] = Append(@, Packet(n))] \in
           [Conn -> Seq([ref : Nat, reqs : Seq(Req)])]
<1> DEFINE Pkt == [ref : Nat, reqs : Seq(Req)]
<1>1. /\ buf \in Buffers /\ Counted(buf) /\ connection \in Conn /\ next_ref \in Nat
      /\ net \in [Conn -> Seq(Pkt)]
  BY DEF IInv, TypeOK, ProducerTypeOK, NetworkTypeOK, WellKept
<1>2. Batch(buf, n) \in Seq(Req)
  BY <1>1, TakeReqsLemma
<1>3. Packet(n) \in Pkt
  BY <1>1, <1>2 DEF Packet
<1>4. Append(net[connection], Packet(n)) \in Seq(Pkt)
  <2>1. net[connection] \in Seq(Pkt)
    BY <1>1
  <2> HIDE DEF Pkt
  <2> QED
    BY <1>3, <2>1, AppendProperties
<1> HIDE DEF Pkt
<1>5. [net EXCEPT ![connection] = Append(@, Packet(n))] \in [Conn -> Seq(Pkt)]
  BY <1>1, <1>4
<1> QED
  BY <1>5 DEF Pkt

\* A batch that went out is on wire behind what was there.
LEMMA SentKeeps ==
  ASSUME IInv, NEW n \in 1..Len(Waiting(buf)), CanTake(buf),
         NEW b, b = PutOnWire(TakeReqs(buf, n), Batch(buf, n), next_ref)
  PROVE  /\ b \in Buffers /\ Content(b) = Content(buf)
         /\ Counted(b) /\ Pressure(b) /\ WireCounted(b, next_ref + 1)
         /\ b.onwire_count <= OnWireLimit
<1> DEFINE t == TakeReqs(buf, n)
           e == Batch(buf, n)
           r == OnWireReqs(buf)
           w == Waiting(t)
           x == buf.onwire_count
<1>1. /\ buf \in Buffers /\ Counted(buf) /\ next_ref \in Nat
      /\ WireCounted(buf, next_ref)
  BY DEF IInv, TypeOK, ProducerTypeOK, WellKept
<1>2. /\ t \in Buffers /\ e \in Seq(Req) /\ Len(e) = n
      /\ e \o w = Waiting(buf)
      /\ t.onwire = buf.onwire /\ t.onwire_count = x
      /\ Pressure(t) /\ Counted(t)
  BY <1>1, TakeReqsLemma
<1>3. e # <<>>
  <2>1. n # 0
    BY LenProperties, WaitingType, <1>1
  <2> QED
    BY <1>2, <2>1, EmptySeq
<1>4. WireCounted(t, next_ref) /\ OnWireReqs(t) = r
  BY <1>1, <1>2 DEF WireCounted, Refs, OnWireReqs
<1>5. /\ b \in Buffers
      /\ OnWireReqs(b) = r \o e /\ Waiting(b) = w
      /\ b.onwire_count = x + 1
      /\ WireCounted(b, next_ref + 1) /\ Pressure(b) /\ Counted(b)
  <2> HIDE DEF t, e, w
  <2> QED
    BY <1>1, <1>2, <1>3, <1>4, PutOnWireLemma DEF t, e, w
<1>6. Content(b) = Content(buf)
  <2>1. r \in Seq(Req) /\ w \in Seq(Req)
    BY <1>1, <1>2, OnWireReqsType, WaitingType
  <2>2. Content(b) = OnWireReqs(b) \o Waiting(b) /\ Content(buf) = r \o Waiting(buf)
    BY DEF Content
  <2> HIDE DEF r, w, e
  <2>3. (r \o e) \o w = r \o (e \o w)
    BY <1>2, <2>1, Associative
  <2> QED
    BY <1>2, <1>5, <2>2, <2>3
<1>7. b.onwire_count <= OnWireLimit
  <2>1. x \in Nat /\ x < OnWireLimit /\ OnWireLimit \in Nat
    BY <1>1, ConfigAssumption DEF Buffers, CanTake
  <2> HIDE DEF x
  <2>2. x + 1 <= OnWireLimit
    BY <2>1
  <2> QED
    BY <1>5, <2>2
<1> QED
  BY <1>5, <1>6, <1>7

LEMMA SendOkStep ==
  ASSUME IInv, NEW n \in Req, SendOk(n)
  PROVE  IInv'
<1> DEFINE b == PutOnWire(TakeReqs(buf, n), Batch(buf, n), next_ref)
<1>1. /\ TakeBatch(n) /\ connection # 0
      /\ net' = [net EXCEPT ![connection] = Append(@, Packet(n))]
      /\ buf' = b /\ sending' = CanTake(b) /\ next_ref' = next_ref + 1
      /\ UNCHANGED <<up, exit_reason, connection, retry_tref, delay, mailboxVars,
                     caller, conns, known, log, historyVars, faults, restarts>>
  BY DEF SendOk
<1>2. /\ n \in 1..Len(Waiting(buf)) /\ CanTake(buf)
      /\ matured' \in Req \cup {0} /\ CallerTypeOK'
  BY <1>1, TakeBatchFacts
<1>3. /\ b \in Buffers /\ Content(b) = Content(buf)
      /\ Counted(b) /\ Pressure(b) /\ WireCounted(b, next_ref + 1)
      /\ b.onwire_count <= OnWireLimit
  BY <1>2, SentKeeps
<1> HIDE DEF b
<1>4. ProducerTypeOK'
  <2>1. sending' \in BOOLEAN
    BY <1>1 DEF CanTake
  <2> QED
    BY <1>1, <1>2, <1>3, <2>1 DEF IInv, TypeOK, ProducerTypeOK
<1>5. NetworkTypeOK'
  <2>1. net' \in [Conn -> Seq([ref : Nat, reqs : Seq(Req)])]
    BY <1>1, <1>2, PacketGiven
  <2> QED
    BY <1>1, <2>1 DEF IInv, TypeOK, NetworkTypeOK
<1>6. next_ref' \in Nat
  BY <1>1 DEF IInv, TypeOK
<1>7. TypeOK'
  BY <1>1, <1>2, <1>4, <1>5, <1>6, TypesKept DEF IInv, TypeOK
<1>8. Accounted'
  <2>1. Content(buf') = Content(buf)
    BY <1>1, <1>3
  <2> QED
    BY <1>1, <2>1 DEF IInv, Accounted, mailboxVars, historyVars
<1>9. WellKept(buf)'
  BY <1>1, <1>3 DEF WellKept
<1>10. Sendable'
  BY <1>1 DEF Sendable, CanTake
<1> QED
  BY <1>7, <1>8, <1>9, <1>10 DEF IInv

\* A batch that could not be sent goes back where it was taken from, or the
\* producer ends.
LEMMA SendFailedKeeps ==
  ASSUME IInv, NEW n \in Req, TakeBatch(n), SendFailed(n),
         next_ref' = next_ref \/ next_ref' = next_ref + 1
  PROVE  /\ ProducerTypeOK' /\ MailboxTypeOK' /\ CallerTypeOK' /\ HistoryTypeOK'
         /\ restarts' \in Nat
         /\ Accounted' /\ WellKept(buf)' /\ Sendable'
<1> DEFINE t == TakeReqs(buf, n)
           e == Batch(buf, n)
           b == Rebuffer(t, e)
           r == OnWireReqs(buf)
<1>1. /\ n \in 1..Len(Waiting(buf)) /\ buf \in Buffers /\ WellKept(buf)
      /\ matured' \in Req \cup {0}
      /\ (UNCHANGED caller => CallerTypeOK')
  BY TakeBatchFacts
<1>2. UNCHANGED <<caller, last, acks, restarts>>
  BY DEF SendFailed
<1>3. CallerTypeOK' /\ restarts' \in Nat
  BY <1>1, <1>2 DEF IInv, TypeOK
<1>4. CASE Exit("reached_max_retries")
  <2>1. /\ ProducerTypeOK' /\ MailboxTypeOK' /\ HistoryTypeOK'
        /\ Accounted' /\ WellKept(buf)' /\ Sendable'
    BY <1>1, <1>2, <1>4, ExitLemma
  <2> QED
    BY <1>3, <2>1
<1>5. CASE /\ buf' = b
           /\ retry_tref' = TRUE
           /\ sending' = FALSE
           /\ UNCHANGED <<up, exit_reason, connection, delay, mailboxVars, done, lostTo>>
  <2>1. /\ t \in Buffers /\ e \in Seq(Req)
        /\ e \o Waiting(t) = Waiting(buf)
        /\ t.onwire = buf.onwire /\ t.onwire_count = buf.onwire_count
        /\ Pressure(t) /\ Counted(t)
    BY <1>1, TakeReqsLemma DEF WellKept
  <2>2. /\ b \in Buffers
        /\ Waiting(b) = e \o Waiting(t)
        /\ b.onwire = t.onwire /\ b.onwire_count = t.onwire_count
        /\ Pressure(b) /\ Counted(b)
    <3> HIDE DEF t, e
    <3> QED
      BY <2>1, RebufferLemma
  <2> HIDE DEF t, e, b
  <2>3. b.onwire = buf.onwire /\ b.onwire_count = buf.onwire_count
    BY <2>1, <2>2
  <2>4. Content(b) = Content(buf)
    <3>1. OnWireReqs(b) = OnWireReqs(buf)
      BY <2>3 DEF OnWireReqs
    <3>2. Waiting(b) = Waiting(buf)
      BY <2>1, <2>2
    <3> QED
      BY <3>1, <3>2 DEF Content
  <2>5. WellKept(b)
    BY <1>1, <2>2, <2>3 DEF WellKept, WireCounted, Refs
  <2>6. WireCounted(b, next_ref')
    <3>1. next_ref \in Nat /\ WireCounted(b, next_ref)
      BY <2>5 DEF IInv, TypeOK, WellKept
    <3> QED
      BY <2>2, <3>1, LaterReference
  <2>7. ProducerTypeOK'
    BY <1>1, <1>5, <2>2 DEF IInv, TypeOK, ProducerTypeOK
  <2>8. MailboxTypeOK' /\ HistoryTypeOK'
    BY <1>2, <1>5, TypesKept DEF IInv, mailboxVars, historyVars
  <2>9. Accounted'
    <3>1. Content(buf') = Content(buf)
      BY <1>5, <2>4
    <3> QED
      BY <1>2, <1>5, <3>1 DEF IInv, Accounted, mailboxVars
  <2>10. WellKept(buf)'
    BY <1>5, <2>5, <2>6 DEF WellKept
  <2>11. Sendable'
    BY <1>5 DEF Sendable
  <2> QED
    BY <1>3, <2>7, <2>8, <2>9, <2>10, <2>11
<1> QED
  BY <1>4, <1>5 DEF SendFailed

LEMMA SendErrorStep ==
  ASSUME IInv, NEW n \in Req, SendError(n)
  PROVE  IInv'
<1>1. TakeBatch(n) /\ SendFailed(n) /\ UNCHANGED <<networkVars, next_ref, faults>>
  BY DEF SendError
<1>2. /\ ProducerTypeOK' /\ MailboxTypeOK' /\ CallerTypeOK' /\ HistoryTypeOK'
      /\ restarts' \in Nat
      /\ Accounted' /\ WellKept(buf)' /\ Sendable'
  BY <1>1, SendFailedKeeps
<1>3. TypeOK'
  BY <1>1, <1>2, TypesKept DEF IInv, TypeOK
<1> QED
  BY <1>2, <1>3 DEF IInv

LEMMA SendLostStep ==
  ASSUME IInv, NEW n \in Req, SendLost(n)
  PROVE  IInv'
<1>1. /\ TakeBatch(n) /\ SendFailed(n) /\ connection # 0
      /\ next_ref' = next_ref + 1 /\ faults' = faults + 1
      /\ conns' = [conns EXCEPT ![connection] = "dead"]
      /\ net' = [net EXCEPT ![connection] = Append(@, Packet(n))]
      /\ UNCHANGED <<known, log>>
  BY DEF SendLost
<1>2. /\ ProducerTypeOK' /\ MailboxTypeOK' /\ CallerTypeOK' /\ HistoryTypeOK'
      /\ restarts' \in Nat
      /\ Accounted' /\ WellKept(buf)' /\ Sendable'
  BY <1>1, SendFailedKeeps
<1>3. NetworkTypeOK'
  <2>1. net' \in [Conn -> Seq([ref : Nat, reqs : Seq(Req)])]
    BY <1>1, PacketGiven, TakeBatchFacts
  <2>2. conns' \in [Conn -> {"new", "up", "dead"}]
    BY <1>1 DEF IInv, TypeOK, NetworkTypeOK
  <2> QED
    BY <1>1, <2>1, <2>2 DEF IInv, TypeOK, NetworkTypeOK
<1>4. next_ref' \in Nat /\ faults' \in Nat
  BY <1>1 DEF IInv, TypeOK
<1>5. TypeOK'
  BY <1>2, <1>3, <1>4 DEF TypeOK
<1> QED
  BY <1>2, <1>5 DEF IInv

-----------------------------------------------------------------------------
(* The theorems.                                                           *)

\* The invariant holds when the producer starts.
LEMMA Initially == Init => IInv
<1> SUFFICES ASSUME Init PROVE IInv
  OBVIOUS
<1>1. MaxReqs \in Nat /\ OnWireLimit \in Nat \ {0}
  BY ConfigAssumption
<1>2. NewBuffer \in Buffers /\ Content(NewBuffer) = <<>>
  BY NewBufferLemma
<1>3. WellKept(NewBuffer)
  BY <1>1, NewBufferLemma DEF WellKept
<1>4. ProducerTypeOK
  BY <1>2 DEF Init, ProducerTypeOK, NoTimer
<1>5. MailboxTypeOK
  <2> DEFINE Rsp == [ref : Nat, code : {"ok", "retriable", "fatal"}, base : Nat]
  <2>1. <<>> \in Seq(Req) /\ <<>> \in Seq(Rsp)
    BY EmptySeq
  <2>2. NoResponses \in [Conn -> Seq(Rsp)]
    BY <2>1 DEF NoResponses
  <2> QED
    BY <2>1, <2>2 DEF Init, MailboxTypeOK
<1>6. CallerTypeOK
  BY DEF Init, CallerTypeOK
<1>7. NetworkTypeOK
  <2> DEFINE Pkt == [ref : Nat, reqs : Seq(Req)]
  <2>1. <<>> \in Seq(Req) /\ <<>> \in Seq(Pkt)
    BY EmptySeq
  <2>2. [c \in Conn |-> <<>>] \in [Conn -> Seq(Pkt)]
    BY <2>1
  <2> QED
    BY <2>1, <2>2 DEF Init, NetworkTypeOK
<1>8. HistoryTypeOK
  BY EmptySeq DEF Init, HistoryTypeOK
<1>9. TypeOK
  BY <1>4, <1>5, <1>6, <1>7, <1>8 DEF Init, TypeOK
<1>10. Accounted
  <2>1. From(0, 0) = <<>>
    BY FromEmpty
  <2>2. <<>> \in Seq(Req)
    BY EmptySeq
  <2>3. <<>> \o <<>> = <<>>
    BY <2>2, ConcatEmptySeq
  <2> QED
    BY <1>2, <2>1, <2>3 DEF Init, Accounted
<1>11. Sendable
  BY DEF Init, Sendable
<1> QED
  BY <1>3, <1>9, <1>10, <1>11 DEF Init, IInv

\* Every step keeps it.
LEMMA Inductive == IInv /\ [Next]_vars => IInv'
<1> SUFFICES ASSUME IInv, [Next]_vars PROVE IInv'
  OBVIOUS
<1>1. CASE UNCHANGED vars
  BY <1>1, StutterStep
<1>2. CASE CallerNext
  BY <1>2, SubmitStep, CallerSteps DEF CallerNext
<1>3. CASE HandlerNext
  <2>1. ASSUME NEW c \in Conn \cup {0}, HandleProduce(c)
        PROVE  IInv'
    BY <2>1, HandleProduceStep
  <2>2. ASSUME NEW c \in Conn \cup {0}, HandleRetry(c)
        PROVE  IInv'
    BY <2>2, HandleRetryStep
  <2>3. ASSUME NEW c \in Conn, HandleResponseOk(c)
        PROVE  IInv'
    BY <2>3, HandleResponseOkStep
  <2>4. ASSUME NEW c \in Conn, HandleResponseRetriable(c)
        PROVE  IInv'
    BY <2>4, HandleResponseRetriableStep
  <2>5. ASSUME NEW c \in Conn, HandleResponseFatal(c)
        PROVE  IInv'
    BY <2>5, HandleResponseFatalStep
  <2>6. ASSUME NEW c \in Conn, DiscardResponse(c)
        PROVE  IInv'
    BY <2>6, DiscardResponseStep
  <2>7. CASE HandleDown
    BY <2>7, HandleDownStep
  <2>8. CASE HandleDelayedSend
    BY <2>8, HandleDelayedSendStep
  <2> QED
    BY <1>3, <2>1, <2>2, <2>3, <2>4, <2>5, <2>6, <2>7, <2>8 DEF HandlerNext
<1>4. CASE SendNext
  BY <1>4, SendOkStep, SendErrorStep, SendLostStep, LingerStep DEF SendNext
<1>5. CASE EnvironmentNext
  <2>1. CASE DelayTimerFires
    BY <2>1, DelayTimerFiresStep
  <2>2. CASE Stop
    BY <2>2, StopStep
  <2>3. CASE Restart
    BY <2>3, RestartStep
  <2>4. ASSUME NEW c \in Conn, ConnectionDies(c) \/ ClientSeesExit(c)
        PROVE  IInv'
    BY <2>4, ConnectionSteps
  <2>5. ASSUME NEW c \in Conn, InFlightLost(c)
        PROVE  IInv'
    BY <2>5, InFlightLostStep
  <2>6. ASSUME NEW c \in Conn, NEW out \in Outcomes, BrokerHandles(c, out)
        PROVE  IInv'
    BY <2>6, BrokerHandlesStep
  <2> QED
    BY <1>5, <2>1, <2>2, <2>3, <2>4, <2>5, <2>6 DEF EnvironmentNext
<1> QED
  BY <1>1, <1>2, <1>3, <1>4, <1>5 DEF Next

\* What the invariant says, in terms of the properties the runs check.
LEMMA InvariantImplies ==
  IInv => /\ TypeOK /\ NothingLostOrReordered
          /\ BlockedOnlyWhenFull /\ CountersAgree
<1> SUFFICES ASSUME IInv
             PROVE  /\ TypeOK /\ NothingLostOrReordered
                    /\ BlockedOnlyWhenFull /\ CountersAgree
  OBVIOUS
<1>1. TypeOK /\ WellKept(buf)
  BY DEF IInv
<1>2. NothingLostOrReordered
  <2> DEFINE r == OnWireReqs(buf)
             s == buf.buffer
             p == buf.pending
  <2>1. buf \in Buffers /\ inbox \in Seq(Req)
    BY DEF IInv, TypeOK, ProducerTypeOK, MailboxTypeOK
  <2>2. r \in Seq(Req) /\ s \in Seq(Req) /\ p \in Seq(Req)
    BY <2>1, OnWireReqsType DEF Buffers
  <2>3. Content(buf) = r \o (s \o p)
    BY DEF Content, Waiting
  <2>4. Unsettled = ((r \o s) \o p) \o inbox
    BY DEF Unsettled
  <2>5. From(done, last) = [k \in 1..(last - done) |-> done + k]
    BY DEF From
  <2> HIDE DEF r, s, p
  <2>6. (r \o s) \o p = r \o (s \o p)
    BY <2>2, Associative
  <2> QED
    BY <2>3, <2>4, <2>5, <2>6 DEF NothingLostOrReordered, IInv, Accounted
<1>3. BlockedOnlyWhenFull
  BY <1>1 DEF WellKept, Pressure, BlockedOnlyWhenFull
<1>4. CountersAgree
  BY <1>1 DEF WellKept, Counted, WireCounted, Refs, CountersAgree
<1> QED
  BY <1>1, <1>2, <1>3, <1>4

\* The invariant, from Initially and Inductive.
THEOREM Invariance == Spec => []IInv
  BY Initially, Inductive, PTL DEF Spec

(***************************************************************************)
(* The producer's state is well formed in every state it reaches: in       *)
(* particular onwire_count and buffer_count, which ack/3, take_reqs_loop/3 *)
(* and nack_all/2 decrement without a check, never become negative.        *)
(***************************************************************************)
THEOREM TypeCorrect == Spec => []TypeOK
  BY Invariance, InvariantImplies, PTL

(***************************************************************************)
(* Between the mailbox and the acknowledgement a producer neither loses,   *)
(* nor duplicates, nor reorders a request, whatever fails: retries,        *)
(* lost connections, changes of leader and back-pressure only move the     *)
(* borders between wire, buffer and pending.                               *)
(***************************************************************************)
THEOREM QueueIntact == Spec => []NothingLostOrReordered
  BY Invariance, InvariantImplies, PTL

(***************************************************************************)
(* produce_cb/4 leaves a caller blocked only while the buffer counts its   *)
(* limit: maybe_buffer/1 is called wherever the code makes room.           *)
(***************************************************************************)
THEOREM BackPressureOnlyWhenFull == Spec => []BlockedOnlyWhenFull
  BY Invariance, InvariantImplies, PTL

(***************************************************************************)
(* The counters of the buffer agree with the queues they count, and there  *)
(* are never more Kafka requests on wire than partition_onwire_limit.      *)
(***************************************************************************)
THEOREM CountersRight == Spec => []CountersAgree
  BY Invariance, InvariantImplies, PTL
=============================================================================
