---------------------------- MODULE BrodProducer ----------------------------
(***************************************************************************)
(* One partition producer of brod (brod_producer.erl), the processes that  *)
(* call brod_producer:produce_cb/4, the connections it sends through and   *)
(* the log of the partition.                                               *)
(*                                                                         *)
(* Every handle_info clause is one action, except that the loop of         *)
(* brod_producer_buffer:maybe_send/3 stops at each call to a connection    *)
(* process: 'sending' is TRUE while a handler is in that loop, connections *)
(* may die there and messages pile up, but no other handler runs.          *)
(*                                                                         *)
(* The producer's mailbox is split by sender: inbox has the produce        *)
(* messages, responses[c] what connection c forwarded.  Erlang orders      *)
(* messages of one sender only, and timers and DOWN signals are due at any *)
(* moment, so handling them in any order between senders loses nothing.    *)
(* The DOWN of a connection comes after everything it had forwarded.       *)
(*                                                                         *)
(* Each request has one message, as the plugin's calls have, so requests   *)
(* and log entries are the same numbers.                                   *)
(***************************************************************************)
EXTENDS ProducerBuffer

CONSTANTS
  Callers,      \* processes that call produce_cb/4
  MaxConns,     \* bound: connections opened
  MaxFaults,    \* bound: connection deaths, failed lookups, broker errors
  MaxRestarts,  \* bound: restarts of the producer by its supervisor
  BrokerErrors, \* the outcomes other than "ok" a broker may choose
  MayStop       \* whether brod_producer:stop/1 may be called

Conn == 1..MaxConns

ASSUME EnvironmentAssumption ==
  /\ MaxConns \in Nat
  /\ MaxFaults \in Nat
  /\ MaxRestarts \in Nat
  /\ BrokerErrors \subseteq {"retriable", "retriable_appended", "fatal"}
  /\ MayStop \in BOOLEAN

VARIABLES
  up,           \* the producer process is alive
  exit_reason,  \* why its last incarnation ended
  buf,          \* #state.buffer
  connection,   \* #state.connection, 0 for undefined; monitored when not 0
  retry_tref,   \* the retry timer is running (or its message is queued)
  delay,        \* #state.delay_send_ref and what became of its timer
  sending,      \* a handler is inside maybe_send/3
  matured,      \* requests up to this one are known older than max_linger_ms
  inbox,        \* produce messages not yet handled
  responses,    \* produce responses not yet handled, per connection
  caller,       \* request each caller is blocked in, 0 for none
  replies,      \* 'buffered' replies sent, per request
  conns,        \* connection processes
  known,        \* connections brod_client still hands out
  net,          \* requests a connection was given, before the broker
  log,          \* the partition's log
  last,         \* requests made so far
  done,         \* requests up to this one are acknowledged or lost
  lostTo,       \* requests up to this one belong to ended incarnations
  acks,         \* acknowledgements evaluated, in order
  next_ref,     \* references handed out by make_ref
  faults, restarts

producerVars == <<up, exit_reason, buf, connection, retry_tref, delay,
                  sending, matured>>
mailboxVars == <<inbox, responses>>
networkVars == <<conns, known, net, log>>
historyVars == <<last, done, lostTo, acks>>
vars == <<producerVars, mailboxVars, caller, replies, networkVars,
          historyVars, next_ref, faults, restarts>>

NoTimer == [state |-> "undef", head |-> 0]
NoResponses == [c \in Conn |-> <<>>]

Init ==
  /\ up = TRUE
  /\ exit_reason = "none"
  /\ buf = NewBuffer
  /\ connection = 0
  /\ retry_tref = FALSE
  /\ delay = NoTimer
  /\ sending = FALSE
  /\ matured = 0
  /\ inbox = <<>>
  /\ responses = NoResponses
  /\ caller = [p \in Callers |-> 0]
  /\ replies = [i \in Req |-> 0]
  /\ conns = [c \in Conn |-> "new"]
  /\ known = {}
  /\ net = [c \in Conn |-> <<>>]
  /\ log = <<>>
  /\ last = 0
  /\ done = 0
  /\ lostTo = 0
  /\ acks = <<>>
  /\ next_ref = 1
  /\ faults = 0
  /\ restarts = 0

(***************************************************************************)
(* Callers                                                                 *)
(***************************************************************************)

\* produce_cb/4: monitor the producer, send the request, wait.
Submit(p) ==
  /\ up
  /\ caller[p] = 0
  /\ last < MaxReqs
  /\ last' = last + 1
  /\ caller' = [caller EXCEPT ![p] = last + 1]
  /\ inbox' = Append(inbox, last + 1)
  /\ UNCHANGED <<producerVars, responses, replies, networkVars, done, lostTo,
                 acks, next_ref, faults, restarts>>

\* The receive of produce_cb/4: the 'buffered' reply ...
CallerBuffered(p) ==
  /\ caller[p] # 0
  /\ replies[caller[p]] > 0
  /\ caller' = [caller EXCEPT ![p] = 0]
  /\ UNCHANGED <<producerVars, mailboxVars, replies, networkVars, historyVars,
                 next_ref, faults, restarts>>

\* Mutant of CallerDown: the caller does not monitor the producer.
CallerNotMonitoring(p) == FALSE

\* ... or the DOWN of the producer, {error, {producer_down, Reason}}.  A
\* reply sent before the producer ended is earlier in the mailbox.
CallerDown(p) ==
  /\ caller[p] # 0
  /\ caller[p] <= lostTo
  /\ replies[caller[p]] = 0
  /\ caller' = [caller EXCEPT ![p] = 0]
  /\ UNCHANGED <<producerVars, mailboxVars, replies, networkVars, historyVars,
                 next_ref, faults, restarts>>

\* do_bufcb/2 with 'buffered', for a set of requests.
Reply(reqs) == [i \in Req |-> IF i \in reqs THEN replies[i] + 1 ELSE replies[i]]

(***************************************************************************)
(* The end of the producer process.  Its state and its mailbox go with it, *)
(* and with them every request not yet acknowledged.                       *)
(***************************************************************************)
Exit(reason) ==
  /\ up' = FALSE
  /\ exit_reason' = reason
  /\ buf' = NewBuffer
  /\ connection' = 0
  /\ retry_tref' = FALSE
  /\ delay' = NoTimer
  /\ sending' = FALSE
  /\ inbox' = <<>>
  /\ responses' = NoResponses
  /\ done' = last
  /\ lostTo' = last

Ends(reason) ==
  /\ Exit(reason)
  /\ UNCHANGED <<matured, caller, replies, last, acks, next_ref, restarts>>

\* brod_producer:stop/1
Stop ==
  /\ MayStop /\ up /\ ~sending
  /\ Ends("normal")
  /\ UNCHANGED <<networkVars, faults>>

\* brod_producers_sup restarts partition producers, whatever the reason.
Restart ==
  /\ ~up
  /\ restarts < MaxRestarts
  /\ restarts' = restarts + 1
  /\ up' = TRUE
  /\ UNCHANGED <<exit_reason, buf, connection, retry_tref, delay, sending,
                 matured, mailboxVars, caller, replies, networkVars,
                 historyVars, next_ref, faults>>

(***************************************************************************)
(* brod_client:get_leader_connection/3 as the producer sees it: 0 for an   *)
(* error, a connection the client has cached (dead or alive: the client    *)
(* does not look before it handles the EXIT), or a new one.                *)
(***************************************************************************)
GetLeaderConnection(c) ==
  \/ /\ c = 0
     /\ faults < MaxFaults
     /\ faults' = faults + 1
     /\ UNCHANGED <<conns, known>>
  \/ /\ c \in known
     /\ UNCHANGED <<conns, known, faults>>
  \/ /\ c \in Conn
     /\ conns[c] = "new"
     /\ \A d \in Conn : d < c => conns[d] # "new"
     /\ conns' = [conns EXCEPT ![c] = "up"]
     /\ known' = known \cup {c}
     /\ UNCHANGED faults

\* maybe_reinit_connection/1 keeps everything when the connection is still
\* the same, else puts what is on wire back to the buffer.
SameConnection(c) == c # 0 /\ c = connection
ReinitBuffer(c) == IF SameConnection(c) THEN buf ELSE NackAll(buf)
ReinitCrashes(c) == ~SameConnection(c) /\ NackAllCrashes(buf)

Cancelled(d) == IF d.state = "armed" THEN [d EXCEPT !.state = "off"] ELSE d

\* Mutant of MaybeProduce: without a connection wait for the next event.
MaybeProduceIfConnected(b, retry, d) ==
  /\ buf' = b
  /\ retry_tref' = retry
  /\ sending' = (~retry /\ CanTake(b) /\ connection # 0)
  /\ delay' = IF retry THEN d ELSE Cancelled(d)

\* maybe_produce/1 on buffer b, up to the first call to a connection:
\* nothing while a retry is due, else into the sending loop.
MaybeProduce(b, retry, d) ==
  /\ buf' = b
  /\ retry_tref' = retry
  /\ sending' = (~retry /\ CanTake(b))
  /\ delay' = IF retry THEN d ELSE Cancelled(d)

(***************************************************************************)
(* handle_info({produce, ...}): the connection is looked up only when      *)
(* there is none and no retry is due.                                      *)
(***************************************************************************)
HandleProduce(c) ==
  /\ up /\ ~sending
  /\ inbox # <<>>
  /\ IF retry_tref \/ connection # 0
     THEN c = connection /\ UNCHANGED <<conns, known, faults>>
     ELSE GetLeaderConnection(c)
  /\ IF ReinitCrashes(c)
     THEN Ends("reached_max_retries")
     ELSE LET b == IF retry_tref \/ connection # 0
                   THEN buf
                   ELSE ReinitBuffer(c)
              i == Head(inbox)
          IN  /\ MaybeProduce(Add(b, i), retry_tref, delay)
              /\ replies' = Reply(BufferedByAdd(b, i))
              /\ connection' = c
              /\ inbox' = Tail(inbox)
              /\ UNCHANGED <<up, exit_reason, matured, responses, caller,
                             historyVars, next_ref, restarts>>
  /\ UNCHANGED <<net, log>>

(***************************************************************************)
(* handle_info({msg, Pid, #kpro_rsp{api = produce}}) from the current      *)
(* connection.  A reference that is not at the head of the wire matches no *)
(* clause of ack/3 or nack/3 and the process ends with function_clause.    *)
(***************************************************************************)
Response(c, code) ==
  /\ up /\ ~sending
  /\ connection = c
  /\ responses[c] # <<>>
  /\ Head(responses[c]).code = code

HandleResponseOk(c) ==
  /\ Response(c, "ok")
  /\ LET rsp == Head(responses[c])
     IN  \/ /\ HeadRefIs(buf, rsp.ref)
            /\ \E k \in 1..Len(buf.onwire) :
                 /\ IsHeadBatch(buf, k)
                 /\ acks' = acks \o AckedOffsets(buf, k, rsp.base)
                 /\ done' = done + k
                 /\ MaybeProduce(Ack(buf, k), retry_tref, delay)
            /\ responses' = [responses EXCEPT ![c] = Tail(@)]
            /\ UNCHANGED <<up, exit_reason, connection, matured, inbox, caller,
                           replies, last, lostTo, next_ref, restarts>>
         \/ /\ ~HeadRefIs(buf, rsp.ref)
            /\ Ends("function_clause")
  /\ UNCHANGED <<networkVars, faults>>

\* is_retriable/1: put the requests back and schedule a retry.
HandleResponseRetriable(c) ==
  /\ Response(c, "retriable")
  /\ IF ~HeadRefIs(buf, Head(responses[c]).ref)
     THEN Ends("function_clause")
     ELSE IF NackAllCrashes(buf)
     THEN Ends("reached_max_retries")
     ELSE /\ buf' = NackAll(buf)
          /\ retry_tref' = TRUE
          /\ responses' = [responses EXCEPT ![c] = Tail(@)]
          /\ UNCHANGED <<up, exit_reason, connection, delay, sending, matured,
                         inbox, caller, replies, historyVars, next_ref,
                         restarts>>
  /\ UNCHANGED <<networkVars, faults>>

HandleResponseFatal(c) ==
  /\ Response(c, "fatal")
  /\ Ends("not_retriable")
  /\ UNCHANGED <<networkVars, faults>>

\* The catch-all clause: a response of a connection no longer in use.
DiscardResponse(c) ==
  /\ up /\ ~sending
  /\ connection # c
  /\ responses[c] # <<>>
  /\ responses' = [responses EXCEPT ![c] = Tail(@)]
  /\ UNCHANGED <<producerVars, inbox, caller, replies, networkVars, historyVars,
                 next_ref, faults, restarts>>

(***************************************************************************)
(* handle_info({'DOWN', ...}) of the connection in use: with an empty      *)
(* buffer only forget it, else put everything back and schedule a retry.   *)
(***************************************************************************)
HandleDown ==
  /\ up /\ ~sending
  /\ connection # 0
  /\ conns[connection] = "dead"
  /\ responses[connection] = <<>>
  /\ IF ~IsEmpty(buf) /\ NackAllCrashes(buf)
     THEN Ends("reached_max_retries")
     ELSE /\ connection' = 0
          /\ buf' = IF IsEmpty(buf) THEN buf ELSE NackAll(buf)
          /\ retry_tref' = (retry_tref \/ ~IsEmpty(buf))
          /\ UNCHANGED <<up, exit_reason, delay, sending, matured, mailboxVars,
                         caller, replies, historyVars, next_ref, restarts>>
  /\ UNCHANGED <<networkVars, faults>>

\* handle_info(retry): look the connection up, then produce regardless of it.
HandleRetry(c) ==
  /\ up /\ ~sending
  /\ retry_tref
  /\ GetLeaderConnection(c)
  /\ IF ReinitCrashes(c)
     THEN Ends("reached_max_retries")
     ELSE /\ MaybeProduce(ReinitBuffer(c), FALSE, delay)
          /\ connection' = c
          /\ UNCHANGED <<up, exit_reason, matured, mailboxVars, caller, replies,
                         historyVars, next_ref, restarts>>
  /\ UNCHANGED <<net, log>>

\* The delayed-send timer expires once its request is max_linger_ms old.
DelayTimerFires ==
  /\ up
  /\ delay.state = "armed"
  /\ delay' = [delay EXCEPT !.state = "fired"]
  /\ matured' = Greater(matured, delay.head)
  /\ UNCHANGED <<up, exit_reason, buf, connection, retry_tref, sending,
                 mailboxVars, caller, replies, networkVars, historyVars,
                 next_ref, faults, restarts>>

\* handle_info({delayed_send, Ref}) with the current reference.
HandleDelayedSend ==
  /\ up /\ ~sending
  /\ delay.state = "fired"
  /\ MaybeProduce(buf, retry_tref, NoTimer)
  /\ UNCHANGED <<up, exit_reason, connection, matured, mailboxVars, caller,
                 replies, networkVars, historyVars, next_ref, faults, restarts>>

(***************************************************************************)
(* One round of maybe_send/3.                                              *)
(***************************************************************************)
Young == MayLinger(buf) /\ Head(Waiting(buf)) > matured

\* Mutant of Linger: no new timer when delay_send_ref is still set.
LingerUnlessTimer ==
  /\ up /\ sending
  /\ Young
  /\ delay' = IF delay.state = "undef"
              THEN [state |-> "armed", head |-> Head(Waiting(buf))]
              ELSE delay
  /\ sending' = FALSE
  /\ replies' = Reply(BufferedBy(buf))
  /\ UNCHANGED <<up, exit_reason, buf, connection, retry_tref, matured,
                 mailboxVars, caller, networkVars, historyVars, next_ref,
                 faults, restarts>>

\* do_take_reqs/1 answers {delay, T}: arm the timer, keep the OLD buffer.
Linger ==
  /\ up /\ sending
  /\ Young
  /\ delay' = [state |-> "armed", head |-> Head(Waiting(buf))]
  /\ sending' = FALSE
  /\ replies' = Reply(BufferedBy(buf))
  /\ UNCHANGED <<up, exit_reason, buf, connection, retry_tref, matured,
                 mailboxVars, caller, networkVars, historyVars, next_ref,
                 faults, restarts>>

\* A batch is taken: it was old enough, or need not linger.
TakeBatch(n) ==
  /\ up /\ sending
  /\ IsBatch(buf, n)
  /\ matured' = IF MayLinger(buf)
                THEN Greater(matured, Head(Waiting(buf)))
                ELSE matured
  /\ replies' = Reply(BufferedByTake(buf, n))

Packet(n) == [ref |-> next_ref, reqs |-> Batch(buf, n)]

\* kpro:request_async/2 answers ok.
SendOk(n) ==
  /\ TakeBatch(n)
  /\ connection # 0
  /\ conns[connection] = "up"
  /\ net' = [net EXCEPT ![connection] = Append(@, Packet(n))]
  /\ LET b == PutOnWire(TakeReqs(buf, n), Batch(buf, n), next_ref)
     IN  /\ buf' = b
         /\ sending' = CanTake(b)
  /\ next_ref' = next_ref + 1
  /\ UNCHANGED <<up, exit_reason, connection, retry_tref, delay, mailboxVars,
                 caller, conns, known, log, historyVars, faults, restarts>>

\* It answers {error, _}: put the batch back (not what is on wire) and
\* schedule a retry, or exit.
SendFailed(n) ==
  /\ LET b == TakeReqs(buf, n)
     IN  IF ReachedMaxRetries(b, Batch(buf, n))
         THEN Exit("reached_max_retries")
         ELSE /\ buf' = Rebuffer(b, Batch(buf, n))
              /\ retry_tref' = TRUE
              /\ sending' = FALSE
              /\ UNCHANGED <<up, exit_reason, connection, delay, mailboxVars,
                             done, lostTo>>
  /\ UNCHANGED <<caller, last, acks, restarts>>

\* No connection, or one that is dead.
SendError(n) ==
  /\ TakeBatch(n)
  /\ connection # 0 => conns[connection] = "dead"
  /\ SendFailed(n)
  /\ UNCHANGED <<networkVars, next_ref, faults>>

\* The connection dies between writing to the socket and answering.
SendLost(n) ==
  /\ TakeBatch(n)
  /\ connection # 0
  /\ conns[connection] = "up"
  /\ faults < MaxFaults
  /\ faults' = faults + 1
  /\ conns' = [conns EXCEPT ![connection] = "dead"]
  /\ net' = [net EXCEPT ![connection] = Append(@, Packet(n))]
  /\ next_ref' = next_ref + 1
  /\ SendFailed(n)
  /\ UNCHANGED <<known, log>>

(***************************************************************************)
(* Connections and the partition leader                                    *)
(***************************************************************************)

\* kpro_connection exits: socket closed or in error, request timeout.
ConnectionDies(c) ==
  /\ conns[c] = "up"
  /\ faults < MaxFaults
  /\ faults' = faults + 1
  /\ conns' = [conns EXCEPT ![c] = "dead"]
  /\ UNCHANGED <<producerVars, mailboxVars, caller, replies, known, net, log,
                 historyVars, next_ref, restarts>>

\* brod_client handles the EXIT: it no longer hands the connection out.
ClientSeesExit(c) ==
  /\ c \in known
  /\ conns[c] = "dead"
  /\ known' = known \ {c}
  /\ UNCHANGED <<producerVars, mailboxVars, caller, replies, conns, net, log,
                 historyVars, next_ref, faults, restarts>>

Appends(out) == out \in {"ok", "retriable_appended"}
Code(out) == IF out = "retriable_appended" THEN "retriable" ELSE out

\* The broker handles the next request of connection c.  On a dead
\* connection it may still do so, late and without an answer; an answer to
\* an earlier incarnation of the producer reaches nobody.
BrokerHandles(c, out) ==
  /\ net[c] # <<>>
  /\ out = "ok" \/ (out \in BrokerErrors /\ faults < MaxFaults /\ conns[c] = "up")
  /\ faults' = IF out = "ok" THEN faults ELSE faults + 1
  /\ LET pkt == Head(net[c])
     IN  /\ net' = [net EXCEPT ![c] = Tail(@)]
         /\ log' = IF Appends(out) THEN log \o pkt.reqs ELSE log
         /\ responses' =
              IF conns[c] = "up" /\ pkt.reqs[1] > lostTo
              THEN [responses EXCEPT ![c] = Append(@,
                     [ref |-> pkt.ref, code |-> Code(out), base |-> Len(log)])]
              ELSE responses
  /\ UNCHANGED <<producerVars, inbox, caller, replies, conns, known,
                 historyVars, next_ref, restarts>>

\* What a dead connection had in flight may never arrive.
InFlightLost(c) ==
  /\ conns[c] = "dead"
  /\ net[c] # <<>>
  /\ net' = [net EXCEPT ![c] = <<>>]
  /\ UNCHANGED <<producerVars, mailboxVars, caller, replies, conns, known, log,
                 historyVars, next_ref, faults, restarts>>

-----------------------------------------------------------------------------
Outcomes == {"ok"} \cup BrokerErrors

CallerNext == \E p \in Callers : Submit(p) \/ CallerBuffered(p) \/ CallerDown(p)

HandlerNext ==
  \/ \E c \in Conn \cup {0} : HandleProduce(c) \/ HandleRetry(c)
  \/ \E c \in Conn : \/ HandleResponseOk(c)
                     \/ HandleResponseRetriable(c)
                     \/ HandleResponseFatal(c)
                     \/ DiscardResponse(c)
  \/ HandleDown
  \/ HandleDelayedSend

SendNext ==
  \/ \E n \in Req : SendOk(n) \/ SendError(n) \/ SendLost(n)
  \/ Linger

EnvironmentNext ==
  \/ DelayTimerFires
  \/ Stop
  \/ Restart
  \/ \E c \in Conn :
       \/ ConnectionDies(c)
       \/ ClientSeesExit(c)
       \/ InFlightLost(c)
       \/ \E out \in Outcomes : BrokerHandles(c, out)

Next == CallerNext \/ HandlerNext \/ SendNext \/ EnvironmentNext

Spec == Init /\ [][Next]_vars
-----------------------------------------------------------------------------
(***************************************************************************)
(* Fairness.  The producer handles every message of its mailbox, its       *)
(* calls return, its timers fire, its callers and the client run, its      *)
(* supervisor restarts it; a live connection's request is answered, or the *)
(* connection ends it (kpro_connection's request timeout).  Nothing is     *)
(* assumed of faults.                                                      *)
(***************************************************************************)
Fairness ==
  /\ \A p \in Callers : WF_vars(CallerBuffered(p) \/ CallerDown(p))
  /\ WF_vars(\E c \in Conn \cup {0} : HandleProduce(c))
  /\ WF_vars(\E c \in Conn \cup {0} : HandleRetry(c))
  /\ \A c \in Conn : WF_vars(\/ HandleResponseOk(c)
                             \/ HandleResponseRetriable(c)
                             \/ HandleResponseFatal(c)
                             \/ DiscardResponse(c))
  /\ WF_vars(HandleDown)
  /\ WF_vars(HandleDelayedSend)
  /\ WF_vars(DelayTimerFires)
  /\ WF_vars(SendNext)
  /\ \A c \in Conn : WF_vars(ClientSeesExit(c))
  /\ \A c \in Conn : WF_vars(conns[c] = "up" /\ BrokerHandles(c, "ok"))

FairSpec == Spec /\ Fairness

-----------------------------------------------------------------------------
(***************************************************************************)
(* Properties                                                              *)
(***************************************************************************)
ProducerTypeOK ==
  /\ up \in BOOLEAN
  /\ exit_reason \in {"none", "normal", "reached_max_retries",
                      "not_retriable", "function_clause"}
  /\ buf \in Buffers
  /\ connection \in Conn \cup {0}
  /\ retry_tref \in BOOLEAN
  /\ delay \in [state : {"undef", "off", "armed", "fired"}, head : Req \cup {0}]
  /\ sending \in BOOLEAN
  /\ matured \in Req \cup {0}

MailboxTypeOK ==
  /\ inbox \in Seq(Req)
  /\ responses \in [Conn -> Seq([ref : Nat, code : {"ok", "retriable", "fatal"},
                                 base : Nat])]

CallerTypeOK ==
  /\ caller \in [Callers -> Req \cup {0}]
  /\ replies \in [Req -> Nat]

NetworkTypeOK ==
  /\ conns \in [Conn -> {"new", "up", "dead"}]
  /\ known \in SUBSET Conn
  /\ net \in [Conn -> Seq([ref : Nat, reqs : Seq(Req)])]
  /\ log \in Seq(Req)

HistoryTypeOK ==
  /\ last \in Req \cup {0}
  /\ done \in Req \cup {0}
  /\ lostTo \in Req \cup {0}
  /\ acks \in Seq([req : Req, offset : Nat])

TypeOK ==
  /\ ProducerTypeOK
  /\ MailboxTypeOK
  /\ CallerTypeOK
  /\ NetworkTypeOK
  /\ HistoryTypeOK
  /\ next_ref \in Nat
  /\ faults \in Nat
  /\ restarts \in Nat

\* Everything a live producer still has to settle, oldest first.
Unsettled == OnWireReqs(buf) \o buf.buffer \o buf.pending \o inbox

(***************************************************************************)
(* No request is lost, duplicated or overtaken inside the producer: on     *)
(* wire, buffered, pending and still in the mailbox are, in this order,    *)
(* exactly the requests made and neither acknowledged nor lost with an     *)
(* earlier incarnation - through every rebuffering of nack_all/2,          *)
(* take_reqs_loop/3 and maybe_buffer/1.                                    *)
(***************************************************************************)
NothingLostOrReordered == Unsettled = [k \in 1..(last - done) |-> done + k]

(***************************************************************************)
(* A caller gets at most one 'buffered' reply for a request, and got it    *)
(* exactly when the request is not waiting in the mailbox or in pending.   *)
(* The delay branch of take_reqs/1, which answers callers and then drops   *)
(* the buffer in which they moved, must never have anything to move.       *)
(***************************************************************************)
AnsweredOnce ==
  /\ \A i \in Req : replies[i] <= 1
  /\ \A k \in 1..Len(buf.pending) : replies[buf.pending[k]] = 0
  /\ \A k \in 1..Len(inbox) : replies[inbox[k]] = 0
  /\ \A k \in 1..Len(buf.buffer) : replies[buf.buffer[k]] = 1
  /\ \A k \in 1..Len(buf.onwire) : replies[buf.onwire[k].req] = 1
  /\ \A k \in 1..Len(acks) : replies[acks[k].req] = 1

\* Back-pressure only at the limit: a caller whose request was handled is
\* left blocked only while the buffer is full (partition_buffer_limit).
BlockedOnlyWhenFull == buf.pending # <<>> => buf.buffer_count >= BufferLimit

\* buffer_count and onwire_count, which drive every decision of the buffer,
\* agree with the queues they count.
CountersAgree ==
  /\ buf.buffer_count = Len(buf.buffer)
  /\ buf.onwire_count = Cardinality({buf.onwire[k].ref : k \in 1..Len(buf.onwire)})
  /\ buf.onwire_count <= OnWireLimit

(***************************************************************************)
(* rebuffer_or_crash/3 compares only the first request's failures with     *)
(* max_retries.  With one Kafka request on wire at a time this bounds      *)
(* every request: an older request never has fewer failures.               *)
(***************************************************************************)
RetriesBounded ==
  OnWireLimit = 1 =>
    LET q == OnWireReqs(buf) \o buf.buffer
    IN  /\ \A k \in 1..(Len(q) - 1) : buf.failures[q[k]] >= buf.failures[q[k + 1]]
        /\ MaxRetries >= 0 => \A k \in 1..Len(q) : buf.failures[q[k]] <= MaxRetries

InFlightOn(c, ref) ==
  \/ \E k \in 1..Len(net[c]) : net[c][k].ref = ref
  \/ \E k \in 1..Len(responses[c]) : responses[c][k].ref = ref

(***************************************************************************)
(* No lost wakeup: an idle producer with requests in hand has something    *)
(* coming that makes it go on - the retry timer, the delayed-send timer,   *)
(* the DOWN of its connection, or the answer to the head of the wire on    *)
(* the connection it listens to.                                           *)
(***************************************************************************)
NoLostWakeup ==
  up /\ ~sending /\ ~IsEmpty(buf) =>
    \/ retry_tref
    \/ delay.state \in {"armed", "fired"}
    \/ connection # 0 /\ conns[connection] = "dead"
    \/ /\ connection # 0
       /\ buf.onwire # <<>>
       /\ InFlightOn(connection, buf.onwire[1].ref)

(***************************************************************************)
(* With one Kafka request on wire at a time, whatever a live connection    *)
(* still carries for this producer is what the producer has on wire, and   *)
(* it is on the connection the producer listens to: no answer can meet a   *)
(* head of the wire that it is not for, through retries, changes of        *)
(* leader, and a dead connection handed out again.                         *)
(***************************************************************************)
AnswersMatchTheWire ==
  OnWireLimit = 1 /\ up =>
    \A c \in Conn : conns[c] = "up" =>
      /\ \A k \in 1..Len(net[c]) : net[c][k].reqs[1] > lostTo =>
           c = connection /\ HeadRefIs(buf, net[c][k].ref)
      /\ \A k \in 1..Len(responses[c]) :
           c = connection /\ HeadRefIs(buf, responses[c][k].ref)

\* "The special value N = -1 means retry indefinitely": with it the producer
\* never ends by itself, unless for an error that is not retriable.
RetriesIndefinitely ==
  MaxRetries < 0 /\ "fatal" \notin BrokerErrors => exit_reason \in {"none", "normal"}

\* The offset an acknowledgement carries is where the log has that request,
\* for every position in a batch (eval_acked/2, next_base_offset/2).
AcksPointIntoLog ==
  \A k \in 1..Len(acks) :
    /\ acks[k].offset < Len(log)
    /\ log[acks[k].offset + 1] = acks[k].req

\* Only faults duplicate: as long as none happened the log has every
\* request at most once.
NoDuplicateWithoutFault ==
  faults = 0 => \A j, k \in 1..Len(log) : log[j] = log[k] => j = k

(***************************************************************************)
(* With one Kafka request on wire at a time the producer implements the    *)
(* bounded pipe of ProducePipe: requests enter the log in the order they   *)
(* were made, retries may repeat them; acknowledgements come in that order *)
(* and only for what is in the log; and what is accepted and not           *)
(* acknowledged stays bounded, though nack_all pushes the buffer over its  *)
(* limit.                                                                  *)
(***************************************************************************)
LargestBatch == IF \A i \in Req : Size[i] > 0 THEN MaxBatchSize ELSE MaxReqs

Pipe == INSTANCE ProducePipe WITH
          Capacity <- BufferLimit + LargestBatch,
          made <- last,
          accepted <- done + Len(buf.onwire) + Len(buf.buffer),
          settled <- done,
          givenUp <- lostTo,
          logged <- {log[k] : k \in 1..Len(log)}

ImplementsPipe == Pipe!Spec

\* Every blocked caller of produce_cb/4 is released.
CallersReleased == \A p \in Callers : caller[p] # 0 ~> caller[p] = 0

\* Every request made is acknowledged, or lost with the producer.
EveryRequestSettled == \A i \in Req : last >= i ~> done >= i

InLog(i) == \E k \in 1..Len(log) : log[k] = i

\* With retries for ever and no error that ends the producer, every request
\* made reaches the log.
EveryRequestLogged == \A i \in Req : last >= i ~> InLog(i)
=============================================================================
