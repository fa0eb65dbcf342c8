--------------------------- MODULE KproConnection ---------------------------
(***************************************************************************)
(* One connection to a Kafka broker, kpro_connection.erl with              *)
(* kpro_sent_reqs.erl, the processes that call it and the socket.          *)
(*                                                                         *)
(* The connection process handles its mailbox one message at a time:       *)
(* requests to send, packets from the socket, which come one by one        *)
(* ({active, once}), and the message of a timer that makes it look for     *)
(* requests without an answer.  The look is taken by a process of its own, *)
(* linked to the connection, on the requests as they were when it was      *)
(* started.  A write to the socket may block.                              *)
(*                                                                         *)
(* Time is a clock that ticks.  A process with something to do gets to do  *)
(* it before more than Lag ticks have passed; how old a request looks is   *)
(* the difference of two readings of os:system_time, which may be set      *)
(* forward or back in between (Jump).                                      *)
(***************************************************************************)
EXTENDS Integers, Sequences, FiniteSetsExt, SequencesExt

CONSTANTS
  Callers,
  MaxReqs,    \* bound: requests made
  Modes,      \* of each caller: how it makes them, some of ModeNames
  CorrIds,    \* the 1 bsl 31 of next_corr_id
  FirstIds,   \* of the first request: 0, or another if many were made before
  Timeout,    \* request_timeout, in ticks
  Minute,     \* timer:minutes(1), in ticks
  Lag,        \* ticks a process may have to wait for its turn
  MaxJumps,   \* bound: changes of the system clock
  JumpBy      \* by how many ticks

\* send_assert_max_req_age: half of the timeout, but not more than a minute.
Interval == IF Timeout \div 2 < Minute THEN Timeout \div 2 ELSE Minute
Requests == 1..MaxReqs
ModeNames == {"async", "sync", "no_ack", "cast", "stop"}

ASSUME ConnectionAssumption ==
  /\ MaxReqs \in Nat
  /\ CorrIds \in Nat \ {0}
  /\ FirstIds \subseteq 0..(CorrIds - 1)
  /\ Timeout \in Nat /\ Minute \in Nat /\ Interval > 0
  /\ Lag \in 0..Timeout
  /\ MaxJumps \in Nat /\ JumpBy \in Nat
  /\ Modes \in [Callers -> SUBSET ModeNames]

None == 0
Off == -1
NotRunning == {None}

VARIABLES
  state,      \* "up", or why the connection process ended
  corr_id,    \* of the next request
  sent,       \* requests by correlation id
  mailbox,
  sending,    \* the request whose write has not returned, or None
  timer,      \* ticks until assert_max_req_age is sent, or Off
  checker,    \* the requests given to the process that looks at ages, or NotRunning
  active,     \* will the socket deliver a packet?
  inbound,    \* packets that the socket holds, then perhaps its end
  wire,       \* requests that the broker has not answered
  request,    \* of every request made: caller and mode
  looks,      \* how old each request looks
  pc,         \* of a caller: "idle", "calling" in call/2, "waiting" in wait_for_rsp/3
  current,    \* the request it is about
  box,        \* a caller's mailbox
  given,      \* history: the requests the broker answered, in its order
  answers,    \* history: what was forwarded, to whom, and what it answered
  outcome,    \* history: what request_sync/3 returned
  behind,     \* ticks since somebody has had something to do
  punctual,   \* history: no write took longer than a tick, no jump
  overdue,    \* history: has a request been without answer too long?
  jumps

proc == <<state, corr_id, sent, mailbox, sending, timer, checker>>
net == <<active, inbound, wire>>
client == <<pc, current, request>>
history == <<given, answers, outcome>>
clock == <<looks, behind, punctual, overdue, jumps>>
seen == <<punctual, overdue, jumps>>
vars == <<proc, net, client, box, history, clock>>

Made == DOMAIN request
Up == state = "up"
Busy == sending # None
\* The peer has ended the connection; the process does not know it yet.
PeerGone ==
  \E m \in ToSet(inbound) \cup ToSet(mailbox) : m.kind \in {"tcp_closed", "tcp_error"}
Sent == {sent[id] : id \in DOMAIN sent}

-----------------------------------------------------------------------------
Init ==
  /\ state = "up" /\ corr_id \in FirstIds /\ sent = <<>> /\ mailbox = <<>>
  /\ sending = None /\ timer = Interval /\ checker = NotRunning
  /\ active = TRUE /\ inbound = <<>> /\ wire = <<>>
  /\ request = <<>>
  /\ looks = [r \in Requests |-> 0]
  /\ pc = [c \in Callers |-> "idle"]
  /\ current = [c \in Callers |-> None]
  /\ box = [c \in Callers |-> <<>>]
  /\ given = <<>>
  /\ answers = <<>>
  /\ outcome = [r \in Requests |-> "none"]
  /\ behind = 0 /\ punctual = TRUE /\ overdue = FALSE /\ jumps = 0

-----------------------------------------------------------------------------
(* The process ends: what it kept goes, its mailbox and the socket with it, *)
(* and the monitors fire, those of call/2 and those of wait_for_rsp/3.      *)
Down(r) == [kind |-> "down", req |-> r]

Exit(reason, boxes) ==
  /\ state' = reason
  /\ mailbox' = <<>> /\ sending' = None /\ timer' = Off /\ checker' = NotRunning
  /\ box' = [c \in Callers |-> IF pc[c] = "idle" THEN boxes[c]
                               ELSE Append(boxes[c], Down(current[c]))]
  /\ corr_id' = 0 /\ sent' = <<>>
  /\ active' = FALSE /\ inbound' = <<>> /\ wire' = <<>>
  /\ looks' = [r \in Requests |-> 0] /\ behind' = 0
  /\ UNCHANGED <<client, seen>>

Take == mailbox' = Tail(mailbox)
Receives(kind) == Up /\ ~Busy /\ mailbox # <<>> /\ Head(mailbox).kind = kind
Reply(c, r) == [box EXCEPT ![c] = Append(@, [kind |-> "reply", req |-> r])]

\* Mutants of NextCorrId: the id does not wrap; it is not counted on.
NextCorrIdNoWrap(n) == n + 1
NextCorrIdStuck(n) == n

\* next_corr_id
NextCorrId(n) == (n + 1) % CorrIds

Without(f, id) == [i \in DOMAIN f \ {id} |-> f[i]]

\* Mutant of With: there is room for one request only.
WithLast(f, id, r) == [i \in DOMAIN f \cup {id} |-> r]

With(f, id, r) == [i \in DOMAIN f \cup {id} |-> IF i = id THEN r ELSE f[i]]

\* The write of a request returned ok.  Without an answer to come the
\* correlation id is only counted on; a peer that has closed gets nothing.
SendOk(r) ==
  LET mode == request[r].mode
  IN  /\ sent' = IF mode = "no_ack" THEN sent ELSE With(sent, corr_id, r)
      /\ wire' = IF mode = "no_ack" \/ PeerGone THEN wire
                 ELSE Append(wire, [id |-> corr_id, of |-> r])
      /\ box' = IF mode = "cast" THEN box ELSE Reply(request[r].caller, r)
      /\ corr_id' = NextCorrId(corr_id)
      /\ sending' = None
      /\ UNCHANGED <<state, timer, checker, active, inbound, client, history, clock>>

\* handle_msg of {send, Request}: the write returns ok, fails, or does not
\* return for a while.
HandleSend ==
  /\ Receives("send")
  /\ LET r == Head(mailbox).req
     IN  \/ SendOk(r) /\ Take
         \/ Exit("send_error", box) /\ UNCHANGED history
         \/ /\ sending' = r
            /\ Take
            /\ UNCHANGED <<state, corr_id, sent, timer, checker, net, client, box,
                           history, clock>>

WriteReturns ==
  /\ Up /\ Busy
  /\ \/ SendOk(sending) /\ UNCHANGED mailbox
     \/ Exit("send_error", box) /\ UNCHANGED history

Message(c, r) ==
  IF pc[c] = "idle" THEN box
  ELSE [box EXCEPT ![c] = Append(@, [kind |-> "msg", req |-> r])]

\* Mutant of Cast: an answer for a caller that is not in a call is dropped.
CastIfCalling(c, r, of) ==
  /\ box' = Message(c, r)
  /\ answers' = IF pc[c] = "idle" THEN answers
                ELSE Append(answers, [to |-> c, req |-> r, of |-> of])

\* cast/2; a caller in its own loop handles the answer at once.
Cast(c, r, of) ==
  /\ box' = Message(c, r)
  /\ answers' = Append(answers, [to |-> c, req |-> r, of |-> of])

\* {active, once}: a packet goes to the mailbox and the next ones wait.
FirstOf(packets) == IF packets = <<>> THEN <<>> ELSE <<Head(packets)>>

Arrives(packet) ==
  /\ active' = FALSE
  /\ mailbox' = IF active THEN Append(mailbox, packet) ELSE mailbox
  /\ inbound' = IF active THEN inbound ELSE Append(inbound, packet)

\* handle_msg of a packet: the next one may come; the request is looked up by
\* its correlation id and forgotten, the answer goes to its caller.  An id
\* that is not there ends the process.
HandleResponse ==
  /\ Receives("data")
  /\ LET id == Head(mailbox).id
         c == request[sent[id]].caller
     IN  IF id \in DOMAIN sent
         THEN /\ Cast(c, sent[id], Head(mailbox).of)
              /\ sent' = Without(sent, id)
              /\ mailbox' = Tail(mailbox) \o FirstOf(inbound)
              /\ active' = (inbound = <<>>)
              /\ inbound' = SubSeq(inbound, 2, Len(inbound))
              /\ UNCHANGED <<state, corr_id, sending, timer, checker, wire, client, clock>>
         ELSE Exit("badkey", box) /\ UNCHANGED answers
  /\ UNCHANGED <<given, outcome>>

HandleSocketEnd ==
  /\ \E kind \in {"tcp_closed", "tcp_error"} : Receives(kind) /\ Exit(kind, box)
  /\ UNCHANGED history

\* handle_msg of assert_max_req_age: a linked process gets the requests.
HandleAssertMaxReqAge ==
  /\ Receives("assert_max_req_age")
  /\ checker' = Sent
  /\ Take
  /\ UNCHANGED <<state, corr_id, sent, sending, timer, net, client, box, history, clock>>

HandleStop ==
  /\ Receives("stop")
  /\ LET c == Head(mailbox).from IN Exit("stopped", Reply(c, current[c]))
  /\ UNCHANGED history

\* The parent, brod_client, ends: the link takes the connection along.
ParentExits ==
  /\ Up
  /\ Exit("parent", box)
  /\ UNCHANGED history

-----------------------------------------------------------------------------
\* Mutant of MaxAge: the youngest request instead of the oldest.
MinAge(rs) == IF rs = {} THEN 0 ELSE Max({0, Min({looks[r] : r \in rs})})

\* scan_for_max_age: a timestamp later than now counts as now.
MaxAge(rs) == Max({0} \cup {looks[r] : r \in rs})

TooOld(age) == age > Timeout

\* Mutant of SendAssertMaxReqAge: there is no next look.
SendNothing == timer' = Off

SendAssertMaxReqAge == timer' = Interval

\* assert_max_req_age in its own process; its exit is the connection's.
CheckAges ==
  /\ Up /\ checker # NotRunning
  /\ IF TooOld(MaxAge(checker))
     THEN Exit("request_timeout", box)
     ELSE /\ checker' = NotRunning
          /\ SendAssertMaxReqAge
          /\ UNCHANGED <<state, corr_id, sent, mailbox, sending, net, client, box, clock>>
  /\ UNCHANGED history

Urgent == checker # NotRunning \/ (mailbox # <<>> /\ ~Busy)

\* Bound: no request looks older than this; it is more than any comparison asks.
Oldest == Timeout + Interval + Lag + 1 + MaxJumps * JumpBy

Watched == (Sent \cup {sending} \cup (IF checker = NotRunning THEN {} ELSE checker)) \ {None}

Tick ==
  /\ Up
  /\ Urgent => behind < Lag
  /\ behind' = IF Urgent THEN behind + 1 ELSE 0
  /\ looks' = [r \in Requests |->
                IF r \in Watched THEN Min({looks[r] + 1, Oldest}) ELSE 0]
  /\ timer' = IF timer \in {Off, 1} THEN Off ELSE timer - 1
  /\ mailbox' = IF timer = 1 THEN Append(mailbox, [kind |-> "assert_max_req_age"])
                ELSE mailbox
  /\ punctual' = (punctual /\ ~Busy)
  /\ overdue' = (overdue \/ \E r \in (Sent \cup {sending}) \ {None} :
                            looks[r] + 1 > Timeout - Lag)
  /\ UNCHANGED <<state, corr_id, sent, sending, checker, net, client, box, history, jumps>>

\* The system clock is set while it matters.
Jump ==
  /\ Up /\ jumps < MaxJumps /\ Watched # {}
  /\ jumps' = jumps + 1
  /\ punctual' = FALSE
  /\ \E by \in {JumpBy, -JumpBy} :
       looks' = [r \in Requests |-> IF r \in Watched THEN looks[r] + by ELSE looks[r]]
  /\ UNCHANGED <<proc, net, client, box, history, behind, overdue>>

-----------------------------------------------------------------------------
(* The socket and the broker (external).                                   *)

\* The broker answers a request, not always the oldest.
BrokerAnswers ==
  /\ Up
  /\ \E i \in DOMAIN wire :
       /\ Arrives([kind |-> "data", id |-> wire[i].id, of |-> wire[i].of])
       /\ wire' = RemoveAt(wire, i)
       /\ given' = Append(given, wire[i].of)
  /\ UNCHANGED <<state, corr_id, sent, sending, timer, checker, client, box, answers,
                 outcome, clock>>

PeerEnds ==
  /\ Up
  /\ ~PeerGone
  /\ \E kind \in {"tcp_closed", "tcp_error"} : Arrives([kind |-> kind])
  /\ wire' = <<>>
  /\ UNCHANGED <<state, corr_id, sent, sending, timer, checker, client, box, history, clock>>

-----------------------------------------------------------------------------
(* The callers.                                                            *)

\* The requests that the process has still to write.
Unsent == {m.req : m \in {n \in ToSet(mailbox) : n.kind = "send"}} \cup ({sending} \ {None})

\* Bound: no 2^31 requests are made while one is without an answer, which
\* would give their last the same correlation id.
RoomForId == \A r \in Sent \cup Unsent : Cardinality(Made) + 1 - r < CorrIds

\* call/2 monitors and sends (and 'send/2' only sends); a connection that has
\* ended gives DOWN at once.
Request(c, mode) ==
  LET r == Cardinality(Made) + 1
      m == IF mode = "stop" THEN [kind |-> "stop", from |-> c]
           ELSE [kind |-> "send", req |-> r]
      waits == mode # "cast"
  IN  /\ pc[c] = "idle" /\ r <= MaxReqs
      /\ RoomForId
      /\ request' = Append(request, [caller |-> c, mode |-> mode])
      /\ pc' = IF waits THEN [pc EXCEPT ![c] = "calling"] ELSE pc
      /\ current' = IF waits THEN [current EXCEPT ![c] = r] ELSE current
      /\ mailbox' = IF Up THEN Append(mailbox, m) ELSE mailbox
      /\ box' = IF waits /\ ~Up THEN [box EXCEPT ![c] = Append(@, Down(r))] ELSE box
      /\ UNCHANGED <<state, corr_id, sent, sending, timer, checker, net, history, clock>>

\* The first message in a caller's mailbox that its receive asks for.
Awaited(c, kinds) ==
  {i \in DOMAIN box[c] : box[c][i].kind \in kinds /\ box[c][i].req = current[c]}

First(c, kinds) == Min(Awaited(c, kinds))
Downs(messages) == {i \in DOMAIN messages : messages[i].kind = "down"}

\* demonitor with flush takes the DOWN of the call along, if it is there.
Flushed(c, i) ==
  LET rest == RemoveAt(box[c], i)
  IN  IF Downs(rest) = {} THEN rest ELSE RemoveAt(rest, Min(Downs(rest)))

\* Back in its own loop, a caller handles the answers that came meanwhile.
Idle(c) ==
  /\ box' = [box EXCEPT ![c] = <<>>]
  /\ pc' = [pc EXCEPT ![c] = "idle"]
  /\ current' = [current EXCEPT ![c] = None]

\* call/2 returns.  After ok request_sync/3 goes on to wait_for_rsp/3, which
\* monitors anew.
CallReturns(c) ==
  /\ pc[c] = "calling" /\ Awaited(c, {"reply", "down"}) # {}
  /\ LET i == First(c, {"reply", "down"})
         ok == box[c][i].kind = "reply"
         r == current[c]
         sync == request[r].mode = "sync"
     IN  /\ IF ok /\ sync
            THEN /\ pc' = [pc EXCEPT ![c] = "waiting"]
                 /\ box' = [box EXCEPT ![c] = IF Up THEN Flushed(c, i)
                                              ELSE Append(Flushed(c, i), Down(r))]
                 /\ UNCHANGED current
            ELSE Idle(c)
         /\ outcome' = IF ok \/ ~sync THEN outcome ELSE [outcome EXCEPT ![r] = "down"]
  /\ UNCHANGED <<proc, net, request, given, answers, clock>>

\* wait_for_rsp/3: the answer, DOWN, or the caller's own timeout.
WaitReturns(c) ==
  /\ pc[c] = "waiting" /\ Awaited(c, {"msg", "down"}) # {}
  /\ LET i == First(c, {"msg", "down"})
     IN  outcome' = [outcome EXCEPT ![current[c]] = box[c][i].kind]
  /\ Idle(c)
  /\ UNCHANGED <<proc, net, request, given, answers, clock>>

WaitTimesOut(c) ==
  /\ pc[c] = "waiting" /\ Awaited(c, {"msg", "down"}) = {}
  /\ outcome' = [outcome EXCEPT ![current[c]] = "timeout"]
  /\ Idle(c)
  /\ UNCHANGED <<proc, net, request, given, answers, clock>>

-----------------------------------------------------------------------------
Handle ==
  HandleSend \/ HandleResponse \/ HandleSocketEnd \/ HandleAssertMaxReqAge \/ HandleStop

Receive(c) == CallReturns(c) \/ WaitReturns(c)

Next ==
  \/ Handle \/ WriteReturns \/ CheckAges \/ ParentExits
  \/ Tick \/ Jump
  \/ BrokerAnswers \/ PeerEnds
  \/ \E c \in Callers :
       Receive(c) \/ WaitTimesOut(c) \/ \E mode \in Modes[c] : Request(c, mode)

Spec == Init /\ [][Next]_vars

\* The processes of the node run and time passes.  Nothing is assumed of the
\* broker, and of the network only that a write returns in the end, well or
\* not: gen_tcp:send is called without send_timeout, and neither the requests
\* in the mailbox nor the message of the timer are handled before it does.
FairSpec ==
  /\ Spec
  /\ WF_vars(Handle \/ WriteReturns) /\ WF_vars(CheckAges) /\ WF_vars(Tick)
  /\ \A c \in Callers : WF_vars(Receive(c))

-----------------------------------------------------------------------------
TypeOK ==
  /\ state \in {"up", "send_error", "badkey", "tcp_closed", "tcp_error", "stopped",
                "parent", "request_timeout"}
  /\ corr_id \in 0..(CorrIds - 1)
  /\ DOMAIN sent \subseteq 0..(CorrIds - 1)
  /\ sending \in Requests \cup {None}
  /\ timer \in {Off} \cup 1..Interval
  /\ pc \in [Callers -> {"idle", "calling", "waiting"}]
  /\ behind \in 0..Lag

\* Whatever the order of the broker's answers, after the correlation ids have
\* wrapped and with requests that expect no answer in between: an answer goes
\* to the process that made the request, under that request's reference, and
\* every id that comes back is known (kpro_sent_reqs.erl).  A process that
\* request_sync/3 told that the connection is down never gets one: an answer
\* is in its mailbox before the DOWN.
AnswersMeetTheirRequests ==
  /\ state # "badkey"
  /\ \A i \in DOMAIN answers :
       /\ answers[i].req = answers[i].of
       /\ answers[i].to = request[answers[i].of].caller
       /\ outcome[answers[i].of] # "down"

\* Answers are forwarded in the order of the broker's answers, without a gap;
\* brod_producer_buffer:ack/3 relies on it.  A connection that the broker
\* closes has forwarded them all; any other end may lose some.
ForwardedInOrder ==
  LET forwarded == [i \in DOMAIN answers |-> answers[i].of]
  IN  /\ IsPrefix(forwarded, given)
      /\ state = "tcp_closed" => forwarded = given

\* There is always exactly one next look at the ages: a timer, its message or
\* the process that looks.  With none a silent broker would never be noticed.
AlwaysWatched ==
  LET messages == {i \in DOMAIN mailbox : mailbox[i].kind = "assert_max_req_age"}
  IN  Up => Cardinality(messages) + (IF timer = Off THEN 0 ELSE 1)
              + (IF checker = NotRunning THEN 0 ELSE 1) = 1

\* A request waits for its answer at most request_timeout and one interval
\* between looks (and the delays of the processes), unless a write blocks,
\* which keeps the message of the timer waiting, or the clock is set.
OverdueIsNoticed ==
  Up /\ punctual => \A r \in Sent : looks[r] <= Timeout + Interval + Lag

\* A connection is ended for age only if some request has waited for
\* request_timeout; the process that looks may be Lag behind the answers.
\* Setting the system clock forward is enough, too.
TimeoutMeansOverdue ==
  state = "request_timeout" /\ jumps = 0 => overdue

\* Somebody watches, a broker that does not answer is noticed in time, and a
\* connection is not ended before.
AgesAreWatched == AlwaysWatched /\ OverdueIsNoticed /\ TimeoutMeansOverdue

\* The connection as a channel of requests.
AnswersTo(r) == Cardinality({i \in DOMAIN answers : answers[i].req = r})

Status ==
  [r \in Requests |-> CASE r \notin DOMAIN request -> "new"
                        [] AnswersTo(r) > 1 -> "answered again"
                        [] AnswersTo(r) = 1 -> "answered"
                        [] OTHER -> IF Up THEN "pending" ELSE "lost"]

Channel == INSTANCE RequestChannel WITH open <- Up, status <- Status

\* Each request is answered at most once, while the connection is up; its end
\* is the end of all others.
ImplementsChannel == Channel!Spec

\* Whatever the broker does, calls return and requests that were sent are
\* answered, or the connection ends: what the liveness of BrodProducer takes
\* from the connection.  (MaxReqs requests are made; then all is settled.)
EverythingSettles == <>[](Sent = {} /\ \A c \in Callers : pc[c] # "calling")
=============================================================================
