------------------------ MODULE KproConnectionProofs ------------------------
(***************************************************************************)
(* What KproConnection promises, proved: types and correlation ids,        *)
(* answers in order and to the processes that made the requests, that it   *)
(* implements RequestChannel, and that a silent broker is noticed in time, *)
(* and not before.                                                         *)
(*                                                                         *)
(* TypeOK is not inductive: that a request written is one that was made,   *)
(* that ids stay in range and that the process holds nothing once it has   *)
(* ended are invariants on which it rests, and they rest on each other:    *)
(*                                                                         *)
(*   Typed     TypeOK and the types of all that it leaves out              *)
(*   Ended     after the end of the process nothing is left of it          *)
(*   Numbered  the id that the next request gets is free                   *)
(*                                                                         *)
(* Numbered is the argument for kpro_sent_reqs:add/3: ids come from a      *)
(* counter modulo CorrIds, only requests that are written move it, and     *)
(* requests are written in the order they are made, so two requests with   *)
(* the same id are at least CorrIds apart, which RoomForId rules out.      *)
(*                                                                         *)
(* On top of these:                                                        *)
(*                                                                         *)
(*   InOrder  given, the broker's answers, is what was forwarded followed  *)
(*            by what is in the mailbox and in the socket (Queued,         *)
(*            Forwarded); a request is in one place only (Apart)           *)
(*   Called   the mailboxes of the callers: who is in a call has the       *)
(*            answers that were forwarded (Calling), and DOWN comes after  *)
(*            all else (DownIsLast)                                        *)
(*                                                                         *)
(* An answer says which request it is for, but the code looks the request  *)
(* up by the id alone: Known, that the two agree, is carried from the wire *)
(* through the socket and the mailbox to the look-up.                      *)
(***************************************************************************)
EXTENDS KproConnection, SequenceTheorems, FiniteSetTheorems, TLAPS

-----------------------------------------------------------------------------
(***************************************************************************)
(* Operators                                                               *)
(***************************************************************************)
\* A set of naturals has a least element, and Min finds it.
LEMMA MinOfNats ==
  ASSUME NEW S \in SUBSET Nat, S # {}
  PROVE  Min(S) \in S /\ \A y \in S : Min(S) <= y
<1> DEFINE R == StrictSubsetOrdering(Nat)
           T == {0..n : n \in S}
<1>1. T \subseteq FiniteSubsetsOf(Nat) /\ T # {}
  <2>1. \A n \in S : 0..n \subseteq Nat /\ IsFiniteSet(0..n)
    BY FS_Interval
  <2> QED
    BY <2>1 DEF FiniteSubsetsOf
<1>2. IsWellFoundedOn(R, FiniteSubsetsOf(Nat))
  BY FS_StrictSubsetOrderingWellFounded
<1> HIDE DEF R
<1>3. \E x \in T : \A y \in T : ~(<<y, x>> \in R)
  BY <1>1, <1>2, WFMin
<1>4. PICK n \in S : \A m \in S : ~(<<0..m, 0..n>> \in R)
  BY <1>3
<1>5. ASSUME NEW m \in S, m < n
      PROVE  <<0..m, 0..n>> \in R
  <2>1. 0..m \subseteq 0..n /\ 0..m # 0..n /\ 0..n \subseteq Nat
    <3>1. n \in 0..n /\ n \notin 0..m
      BY <1>5
    <3> QED
      BY <1>5, <3>1
  <2> QED
    BY <2>1 DEF R, StrictSubsetOrdering
<1>6. \A m \in S : n <= m
  <2> SUFFICES ASSUME NEW m \in S, ~(n <= m) PROVE FALSE
    OBVIOUS
  <2>1. m < n
    OBVIOUS
  <2> QED
    BY <1>4, <1>5, <2>1
<1> QED
  BY <1>6 DEF Min

\* A set of integers that is bounded above has a greatest element.
LEMMA MaxOfInts ==
  ASSUME NEW S \in SUBSET Int, S # {}, NEW b \in Int, \A x \in S : x <= b
  PROVE  Max(S) \in S /\ \A y \in S : y <= Max(S)
<1> DEFINE T == {n \in Nat : b - n \in S}
<1>1. PICK x \in S : TRUE
  OBVIOUS
<1>2. b - x \in T
  BY <1>1
<1>3. T \in SUBSET Nat /\ T # {}
  BY <1>2
<1>4. Min(T) \in T /\ \A n \in T : Min(T) <= n
  BY <1>3, MinOfNats
<1>5. \A y \in S : b - y \in T
  OBVIOUS
<1> DEFINE m == b - Min(T)
<1>6. m \in S
  BY <1>4
<1>7. \A y \in S : m >= y
  BY <1>4, <1>5
<1>8. Max(S) \in S /\ \A y \in S : Max(S) >= y
  BY <1>6, <1>7 DEF Max
<1> QED
  BY <1>8

LEMMA MinOfTwo ==
  ASSUME NEW a \in Int, NEW b \in Int
  PROVE  Min({a, b}) = IF a <= b THEN a ELSE b
<1> DEFINE m == IF a <= b THEN a ELSE b
<1>1. m \in {a, b} /\ \A y \in {a, b} : m <= y
  OBVIOUS
<1>2. \A x \in {a, b} : (\A y \in {a, b} : x <= y) => x = m
  OBVIOUS
<1> QED
  BY <1>1, <1>2 DEF Min

\* A sequence without its i-th element: what is where, and what was where.
LEMMA RemoveAtProperties ==
  ASSUME NEW S, NEW s \in Seq(S), NEW i \in 1..Len(s)
  PROVE  /\ RemoveAt(s, i) \in Seq(S)
         /\ Len(RemoveAt(s, i)) = Len(s) - 1
         /\ \A k \in 1..(Len(s) - 1) :
              RemoveAt(s, i)[k] = IF k < i THEN s[k] ELSE s[k + 1]
<1> DEFINE left == SubSeq(s, 1, i - 1)
           right == SubSeq(s, i + 1, Len(s))
<1>1. Len(s) \in Nat /\ \A k \in 1..Len(s) : s[k] \in S
  BY LenProperties, ElementOfSeq
<1>0. i - 1 \in Nat /\ Len(s) - i \in Nat
  BY <1>1
<1>2. left \in Seq(S) /\ Len(left) = i - 1
      /\ \A k \in 1..(i - 1) : left[k] = s[k]
  BY <1>1, SubSeqProperties
<1>3. right \in Seq(S) /\ Len(right) = Len(s) - i
      /\ \A k \in 1..(Len(s) - i) : right[k] = s[i + k]
  BY <1>1, SubSeqProperties
<1> HIDE DEF left, right
<1>4. /\ left \o right \in Seq(S)
      /\ Len(left \o right) = Len(s) - 1
      /\ \A k \in 1..(Len(s) - 1) :
           (left \o right)[k] = IF k <= i - 1 THEN left[k] ELSE right[k - (i - 1)]
  <2>1. Len(left) + Len(right) = Len(s) - 1
    BY <1>0, <1>1, <1>2, <1>3
  <2>2. /\ left \o right \in Seq(S)
        /\ Len(left \o right) = Len(left) + Len(right)
        /\ \A k \in 1..(Len(left) + Len(right)) :
             (left \o right)[k] = IF k <= Len(left) THEN left[k] ELSE right[k - Len(left)]
    BY <1>2, <1>3, ConcatProperties, Zenon
  <2> QED
    BY <1>2, <2>1, <2>2
<1>5. \A k \in 1..(Len(s) - 1) :
        (left \o right)[k] = IF k < i THEN s[k] ELSE s[k + 1]
  <2> TAKE k \in 1..(Len(s) - 1)
  <2>1. CASE k < i
    BY <1>1, <1>2, <1>4, <2>1
  <2>2. CASE ~(k < i)
    <3>1. k - (i - 1) \in 1..(Len(s) - i) /\ i + (k - (i - 1)) = k + 1
      BY <1>1, <2>2
    <3> QED
      BY <1>1, <1>3, <1>4, <2>2, <3>1
  <2> QED
    BY <2>1, <2>2
<1> QED
  BY <1>4, <1>5 DEF RemoveAt, left, right

-----------------------------------------------------------------------------
(***************************************************************************)
(* Types                                                                   *)
(***************************************************************************)
Ids == 0..(CorrIds - 1)
SendMsgs == [kind : {"send"}, req : Requests]
DataMsgs == [kind : {"data"}, id : Ids, of : Requests]
EndMsgs == [kind : {"tcp_closed", "tcp_error"}]
AgeMsgs == [kind : {"assert_max_req_age"}]
StopMsgs == [kind : {"stop"}, from : Callers]
Packets == DataMsgs \cup EndMsgs
Messages == SendMsgs \cup Packets \cup AgeMsgs \cup StopMsgs
Boxed == [kind : {"reply", "msg", "down"}, req : Requests \cup {None}]
States == {"up", "send_error", "badkey", "tcp_closed", "tcp_error", "stopped", "parent",
           "request_timeout"}

TypedProc ==
  /\ TypeOK
  /\ sent \in [DOMAIN sent -> Requests]
  /\ mailbox \in Seq(Messages)
  /\ checker \subseteq Requests \cup {None}
  /\ active \in BOOLEAN
  /\ inbound \in Seq(Packets)
  /\ wire \in Seq([id : Ids, of : Requests])

TypedCallers ==
  /\ request \in Seq([caller : Callers, mode : ModeNames])
  /\ Len(request) <= MaxReqs
  /\ current \in [Callers -> Requests \cup {None}]
  /\ box \in [Callers -> Seq(Boxed)]
  /\ given \in Seq(Requests)
  /\ answers \in Seq([to : Callers, req : Requests, of : Requests])
  /\ outcome \in [Requests -> {"none", "msg", "down", "timeout"}]

TypedClock ==
  /\ looks \in [Requests -> Int]
  /\ punctual \in BOOLEAN /\ overdue \in BOOLEAN
  /\ jumps \in Nat

Typed == TypedProc /\ TypedCallers /\ TypedClock

\* The kind of a message tells what it carries.
LEMMA Kinds ==
  ASSUME NEW m \in Messages
  PROVE  /\ m.kind = "send" => m \in SendMsgs
         /\ m.kind = "data" => m \in DataMsgs
         /\ m.kind \in {"tcp_closed", "tcp_error"} => m \in EndMsgs
         /\ m.kind = "stop" => m \in StopMsgs
  BY DEF Messages, Packets, SendMsgs, DataMsgs, EndMsgs, AgeMsgs, StopMsgs

LEMMA EmptyTyped ==
  /\ \A S : <<>> \in Seq(S) /\ Len(<<>>) = 0
  /\ <<>> \in [DOMAIN <<>> -> Requests]
  /\ DOMAIN <<>> = {}
<1>1. \A S : <<>> \in Seq(S) /\ Len(<<>>) = 0
  BY EmptySeq
<1>2. DOMAIN <<>> = 1..0 /\ <<>> \in [1..0 -> Requests]
  BY <1>1, LenProperties
<1> QED
  BY <1>1, <1>2

LEMMA TypedInit == Init => Typed
<1> SUFFICES ASSUME Init PROVE Typed
  OBVIOUS
<1> USE ConnectionAssumption
<1>1. Interval \in Nat /\ Interval > 0
  BY DEF Interval
<1>2. TypedProc
  BY <1>1, EmptyTyped DEF Init, TypedProc, TypeOK, NotRunning, None
<1>3. TypedCallers
  BY EmptyTyped DEF Init, TypedCallers
<1>4. TypedClock
  <2>1. looks \in [Requests -> Int]
    BY DEF Init
  <2> QED
    BY <2>1 DEF Init, TypedClock
<1> QED
  BY <1>2, <1>3, <1>4 DEF Typed

LEMMA NextIdRange ==
  ASSUME NEW n \in Nat
  PROVE  (n + 1) % CorrIds \in 0..(CorrIds - 1)
  BY ConnectionAssumption

\* The process ends.
LEMMA ExitTyped ==
  ASSUME Typed, NEW reason \in States, NEW boxes \in [Callers -> Seq(Boxed)],
         Exit(reason, boxes), UNCHANGED history
  PROVE  Typed'
<1> USE ConnectionAssumption
<1>1. \A c \in Callers : Append(boxes[c], Down(current[c])) \in Seq(Boxed)
  <2> TAKE c \in Callers
  <2>1. Down(current[c]) \in Boxed
    BY DEF Typed, TypedCallers, Down, Boxed
  <2> QED
    BY <2>1, AppendProperties
<1>2. box' \in [Callers -> Seq(Boxed)]
  BY <1>1 DEF Exit
<1>3. TypeOK'
  BY EmptyTyped DEF Exit, Typed, TypedProc, TypeOK, States, client
<1>6. TypedProc'
  BY <1>3, EmptyTyped DEF Exit, TypedProc, NotRunning
<1>4. TypedCallers'
  BY <1>2 DEF Exit, Typed, TypedCallers, client, history
<1>5. TypedClock'
  BY DEF Exit, Typed, TypedClock, seen
<1> QED
  BY <1>4, <1>5, <1>6 DEF Typed

\* A request is written.
LEMMA SendOkTyped ==
  ASSUME Typed, NEW r \in Requests, r <= Len(request), SendOk(r), mailbox' \in Seq(Messages)
  PROVE  Typed'
<1> USE ConnectionAssumption
<1>1. request[r] \in [caller : Callers, mode : ModeNames]
  <2>1. r \in 1..Len(request)
    BY LenProperties DEF Typed, TypedCallers, Requests
  <2> QED
    BY <2>1, ElementOfSeq DEF Typed, TypedCallers
<1>2. corr_id' \in Ids
  <2>1. corr_id \in Nat /\ corr_id' = (corr_id + 1) % CorrIds
    BY DEF SendOk, NextCorrId, Typed, TypedProc, TypeOK
  <2> QED
    BY <2>1, NextIdRange DEF Ids
<1>3. sent' \in [DOMAIN sent' -> Requests] /\ DOMAIN sent' \subseteq Ids
  BY DEF SendOk, With, Ids, Typed, TypedProc, TypeOK
<1>4. [id |-> corr_id, of |-> r] \in [id : Ids, of : Requests]
  BY DEF Typed, TypedProc, TypeOK, Ids
<1>5. wire' \in Seq([id : Ids, of : Requests])
  BY <1>4, AppendProperties DEF SendOk, Typed, TypedProc
<1>6. [kind |-> "reply", req |-> r] \in Boxed
  BY DEF Boxed
<1>7. \A c \in Callers : Append(box[c], [kind |-> "reply", req |-> r]) \in Seq(Boxed)
  BY <1>6, AppendProperties DEF Typed, TypedCallers
<1>8. box' \in [Callers -> Seq(Boxed)]
  BY <1>1, <1>7 DEF SendOk, Reply, Typed, TypedCallers
<1>9. TypedProc'
  BY <1>2, <1>3, <1>5 DEF SendOk, Typed, TypedProc, TypeOK, Ids, None, client, clock
<1>10. TypedCallers'
  BY <1>8 DEF SendOk, Typed, TypedCallers, client, history
<1>11. TypedClock'
  BY DEF SendOk, Typed, TypedClock, clock
<1> QED
  BY <1>9, <1>10, <1>11 DEF Typed

\* What is written or waits to be was made.
OnlyMade == Sent \cup Unsent \subseteq 1..Len(request)

LEMMA TakeTyped ==
  ASSUME Typed, mailbox # <<>>
  PROVE  Head(mailbox) \in Messages /\ Tail(mailbox) \in Seq(Messages)
  BY HeadTailProperties DEF Typed, TypedProc

LEMMA ReplyTyped ==
  ASSUME Typed, NEW c \in Callers, NEW r \in Requests \cup {None}
  PROVE  Reply(c, r) \in [Callers -> Seq(Boxed)]
<1>1. [kind |-> "reply", req |-> r] \in Boxed
  BY DEF Boxed
<1>2. Append(box[c], [kind |-> "reply", req |-> r]) \in Seq(Boxed)
  BY <1>1, AppendProperties DEF Typed, TypedCallers
<1> QED
  BY <1>2 DEF Reply, Typed, TypedCallers

\* The request at the head of the mailbox, and the one being written.
LEMMA HeadUnsent ==
  ASSUME Typed, mailbox # <<>>, Head(mailbox).kind = "send"
  PROVE  Head(mailbox).req \in Unsent
<1>1. Head(mailbox) = mailbox[1] /\ 1 \in DOMAIN mailbox
  BY LenProperties, EmptySeq DEF Typed, TypedProc
<1> QED
  BY <1>1 DEF Unsent, ToSet

LEMMA HandleSendTyped ==
  ASSUME Typed, OnlyMade, HandleSend
  PROVE  Typed'
<1> DEFINE r == Head(mailbox).req
<1>1. mailbox # <<>> /\ Head(mailbox).kind = "send"
  BY DEF HandleSend, Receives
<1>2. Tail(mailbox) \in Seq(Messages)
  BY <1>1, TakeTyped
<1>3. r \in Requests /\ r <= Len(request)
  BY <1>1, HeadUnsent, ConnectionAssumption, LenProperties
    DEF OnlyMade, Requests, Typed, TypedCallers
<1> HIDE DEF r
<1>4. CASE SendOk(r) /\ Take
  BY <1>2, <1>3, <1>4, SendOkTyped DEF Take
<1>5. CASE Exit("send_error", box) /\ UNCHANGED history
  BY <1>5, ExitTyped DEF Typed, TypedCallers, States
<1>6. CASE /\ sending' = r /\ Take
           /\ UNCHANGED <<state, corr_id, sent, timer, checker, net, client, box, history, clock>>
  <2>1. TypedProc'
    BY <1>2, <1>3, <1>6 DEF Take, Typed, TypedProc, TypeOK, net, client, clock
  <2> QED
    BY <1>6, <2>1 DEF Typed, TypedCallers, TypedClock, client, history, clock
<1> QED
  BY <1>4, <1>5, <1>6 DEF HandleSend, r

LEMMA WriteReturnsTyped ==
  ASSUME Typed, OnlyMade, WriteReturns
  PROVE  Typed'
<1>1. sending \in Unsent
  BY DEF WriteReturns, Busy, Unsent
<1>2. sending \in Requests /\ sending <= Len(request)
  BY <1>1, ConnectionAssumption, LenProperties DEF OnlyMade, Requests, Typed, TypedCallers
<1>3. CASE SendOk(sending) /\ UNCHANGED mailbox
  BY <1>2, <1>3, SendOkTyped DEF Typed, TypedProc
<1>4. CASE Exit("send_error", box) /\ UNCHANGED history
  BY <1>4, ExitTyped DEF Typed, TypedCallers, States
<1> QED
  BY <1>3, <1>4 DEF WriteReturns

LEMMA MessageTyped ==
  ASSUME Typed, NEW c \in Callers, NEW r \in Requests
  PROVE  Message(c, r) \in [Callers -> Seq(Boxed)]
<1>1. [kind |-> "msg", req |-> r] \in Boxed
  BY DEF Boxed
<1>2. Append(box[c], [kind |-> "msg", req |-> r]) \in Seq(Boxed)
  BY <1>1, AppendProperties DEF Typed, TypedCallers
<1> QED
  BY <1>2 DEF Message, Typed, TypedCallers

\* Packets wait in the socket; the first one moves to the mailbox.
LEMMA NextPacketTyped ==
  ASSUME Typed, mailbox # <<>>
  PROVE  /\ Tail(mailbox) \o FirstOf(inbound) \in Seq(Messages)
         /\ SubSeq(inbound, 2, Len(inbound)) \in Seq(Packets)
<1>1. FirstOf(inbound) \in Seq(Messages)
  <2>1. CASE inbound = <<>>
    BY <2>1, EmptySeq DEF FirstOf
  <2>2. CASE inbound # <<>>
    <3>1. Head(inbound) \in Messages
      BY <2>2, HeadTailProperties DEF Typed, TypedProc, Messages
    <3>2. <<Head(inbound)>> \in Seq(Messages)
      BY <3>1
    <3> QED
      BY <2>2, <3>2 DEF FirstOf
  <2> QED
    BY <2>1, <2>2
<1>2. Tail(mailbox) \in Seq(Messages)
  BY TakeTyped
<1>3. \A k \in 2..Len(inbound) : inbound[k] \in Packets
  <2> TAKE k \in 2..Len(inbound)
  <2>1. k \in 1..Len(inbound)
    OBVIOUS
  <2> QED
    BY <2>1, ElementOfSeq DEF Typed, TypedProc
<1>4. 2 \in Int /\ Len(inbound) \in Int
  BY LenProperties DEF Typed, TypedProc
<1>5. SubSeq(inbound, 2, Len(inbound)) \in Seq(Packets)
  BY <1>3, <1>4, SubSeqProperties
<1> QED
  BY <1>1, <1>2, <1>5, ConcatProperties

LEMMA HandleResponseTyped ==
  ASSUME Typed, OnlyMade, HandleResponse
  PROVE  Typed'
<1> DEFINE m == Head(mailbox)
           id == m.id
           c == request[sent[id]].caller
<1>1. mailbox # <<>> /\ m.kind = "data"
  BY DEF HandleResponse, Receives
<1>2. m \in DataMsgs
  BY <1>1, TakeTyped, Kinds
<1>3. CASE id \in DOMAIN sent
  <2>1. sent[id] \in 1..Len(request) /\ sent[id] \in Requests
    BY <1>3 DEF OnlyMade, Sent, Typed, TypedProc
  <2>2. c \in Callers
    <3>1. request[sent[id]] \in [caller : Callers, mode : ModeNames]
      BY <2>1, ElementOfSeq DEF Typed, TypedCallers
    <3> QED
      BY <3>1
  <2>3. /\ Cast(c, sent[id], m.of)
        /\ sent' = Without(sent, id)
        /\ mailbox' = Tail(mailbox) \o FirstOf(inbound)
        /\ active' = (inbound = <<>>)
        /\ inbound' = SubSeq(inbound, 2, Len(inbound))
        /\ UNCHANGED <<state, corr_id, sending, timer, checker, wire, client, clock>>
        /\ UNCHANGED <<given, outcome>>
    BY <1>3 DEF HandleResponse
  <2>4. m.of \in Requests
    BY <1>2 DEF DataMsgs
  <2> HIDE DEF c, id, m
  <2>5. box' \in [Callers -> Seq(Boxed)]
    BY <2>1, <2>2, <2>3, MessageTyped DEF Cast
  <2>6. answers' \in Seq([to : Callers, req : Requests, of : Requests])
    <3>1. [to |-> c, req |-> sent[id], of |-> m.of]
            \in [to : Callers, req : Requests, of : Requests]
      BY <2>1, <2>2, <2>4
    <3> QED
      BY <2>3, <3>1, AppendProperties DEF Cast, Typed, TypedCallers
  <2>7. /\ sent' \in [DOMAIN sent' -> Requests]
        /\ DOMAIN sent' \subseteq 0..(CorrIds - 1)
    BY <2>3 DEF Without, Typed, TypedProc, TypeOK
  <2>8. TypedProc'
    BY <1>1, <2>3, <2>7, NextPacketTyped DEF Typed, TypedProc, TypeOK, client, clock
  <2> QED
    BY <2>3, <2>5, <2>6, <2>8 DEF Typed, TypedCallers, TypedClock, client, clock
<1>4. CASE id \notin DOMAIN sent
  BY <1>4, ExitTyped DEF HandleResponse, Typed, TypedCallers, States, history
<1> QED
  BY <1>3, <1>4

LEMMA HandleTyped ==
  ASSUME Typed, OnlyMade,
         HandleSocketEnd \/ HandleAssertMaxReqAge \/ HandleStop \/ ParentExits
  PROVE  Typed'
<1>1. CASE HandleSocketEnd
  BY <1>1, ExitTyped DEF HandleSocketEnd, Typed, TypedCallers, States
<1>2. CASE HandleAssertMaxReqAge
  <2>1. Tail(mailbox) \in Seq(Messages)
    BY <1>2, TakeTyped DEF HandleAssertMaxReqAge, Receives
  <2>2. Sent \subseteq Requests
    BY DEF Sent, Typed, TypedProc
  <2>3. TypedProc'
    BY <1>2, <2>1, <2>2 DEF HandleAssertMaxReqAge, Take, Typed, TypedProc, TypeOK, net,
      client, clock
  <2> QED
    BY <1>2, <2>3 DEF HandleAssertMaxReqAge, Typed, TypedCallers, TypedClock, client,
      history, clock
<1>3. CASE HandleStop
  <2>1. Head(mailbox) \in StopMsgs
    BY <1>3, TakeTyped, Kinds DEF HandleStop, Receives
  <2>2. Reply(Head(mailbox).from, current[Head(mailbox).from]) \in [Callers -> Seq(Boxed)]
    BY <2>1, ReplyTyped DEF StopMsgs, Typed, TypedCallers
  <2> QED
    BY <1>3, <2>2, ExitTyped DEF HandleStop, States
<1>4. CASE ParentExits
  BY <1>4, ExitTyped DEF ParentExits, Typed, TypedCallers, States
<1> QED
  BY <1>1, <1>2, <1>3, <1>4

LEMMA Durations ==
  /\ Interval \in Nat /\ Interval > 0 /\ Interval <= Timeout
  /\ Oldest \in Int
<1>1. Interval \in Nat /\ Interval > 0 /\ Interval <= Timeout
  BY ConnectionAssumption DEF Interval
<1>2. MaxJumps * JumpBy \in Int
  BY ConnectionAssumption
<1> QED
  BY <1>1, <1>2, ConnectionAssumption DEF Oldest

LEMMA CheckAgesTyped ==
  ASSUME Typed, CheckAges
  PROVE  Typed'
<1>1. CASE TooOld(MaxAge(checker))
  BY <1>1, ExitTyped DEF CheckAges, Typed, TypedCallers, States
<1>2. CASE ~TooOld(MaxAge(checker))
  <2>1. TypedProc'
    BY <1>2, Durations DEF CheckAges, SendAssertMaxReqAge, NotRunning, None, Typed, TypedProc,
      TypeOK, net, client, clock
  <2> QED
    BY <1>2, <2>1 DEF CheckAges, Typed, TypedCallers, TypedClock, client, history, clock
<1> QED
  BY <1>1, <1>2

LEMMA TickTyped ==
  ASSUME Typed, Tick
  PROVE  Typed'
<1> USE ConnectionAssumption
<1>1. looks' \in [Requests -> Int]
  <2>1. \A r \in Requests : Min({looks[r] + 1, Oldest}) \in Int
    <3> TAKE r \in Requests
    <3>1. looks[r] + 1 \in Int
      BY DEF Typed, TypedClock
    <3> QED
      BY <3>1, Durations, MinOfTwo
  <2> QED
    BY <2>1 DEF Tick
<1>2. [kind |-> "assert_max_req_age"] \in Messages
  BY DEF Messages, AgeMsgs
<1>3. mailbox' \in Seq(Messages)
  BY <1>2, AppendProperties DEF Tick, Typed, TypedProc
<1>4. timer' \in {Off} \cup 1..Interval
  BY SMTT(30), Durations DEF Tick, Off, Typed, TypedProc, TypeOK
<1>5. behind' \in 0..Lag
  BY DEF Tick, Typed, TypedProc, TypeOK
<1>6. TypedProc'
  BY <1>3, <1>4, <1>5 DEF Tick, Typed, TypedProc, TypeOK, net, client
<1>7. punctual' \in BOOLEAN /\ overdue' \in BOOLEAN
  BY DEF Tick, Typed, TypedClock
<1> QED
  BY <1>1, <1>6, <1>7 DEF Tick, Typed, TypedCallers, TypedClock, client, history

LEMMA JumpTyped ==
  ASSUME Typed, Jump
  PROVE  Typed'
<1>1. PICK by \in {JumpBy, -JumpBy} :
        looks' = [r \in Requests |-> IF r \in Watched THEN looks[r] + by ELSE looks[r]]
  BY DEF Jump
<1>2. looks' \in [Requests -> Int]
  BY <1>1, ConnectionAssumption DEF Typed, TypedClock
<1>3. jumps' \in Nat /\ punctual' \in BOOLEAN
  <2>1. jumps' = jumps + 1 /\ jumps \in Nat
    BY DEF Jump, Typed, TypedClock
  <2>2. punctual' = FALSE
    BY DEF Jump
  <2>3. jumps' \in Nat
    BY <2>1
  <2> QED
    BY <2>2, <2>3
<1> QED
  BY <1>2, <1>3 DEF Jump, Typed, TypedProc, TypeOK, TypedCallers, TypedClock, proc, net, client,
    history

LEMMA ArrivesTyped ==
  ASSUME Typed, NEW packet \in Packets, Arrives(packet)
  PROVE  /\ active' \in BOOLEAN
         /\ mailbox' \in Seq(Messages)
         /\ inbound' \in Seq(Packets)
  BY AppendProperties DEF Arrives, Typed, TypedProc, Messages

LEMMA BrokerAnswersTyped ==
  ASSUME Typed, BrokerAnswers
  PROVE  Typed'
<1>1. PICK i \in DOMAIN wire :
         /\ Arrives([kind |-> "data", id |-> wire[i].id, of |-> wire[i].of])
         /\ wire' = RemoveAt(wire, i)
         /\ given' = Append(given, wire[i].of)
  BY DEF BrokerAnswers
<1>2. i \in 1..Len(wire)
  BY LenProperties DEF Typed, TypedProc
<1>3. wire[i] \in [id : Ids, of : Requests]
  BY <1>2, ElementOfSeq DEF Typed, TypedProc
<1>4. [kind |-> "data", id |-> wire[i].id, of |-> wire[i].of] \in Packets
  BY <1>3 DEF Packets, DataMsgs
<1>5. wire' \in Seq([id : Ids, of : Requests])
  BY <1>1, <1>2, RemoveAtProperties DEF Typed, TypedProc
<1>6. given' \in Seq(Requests)
  BY <1>1, <1>3, AppendProperties DEF Typed, TypedCallers
<1>7. TypedProc'
  BY <1>1, <1>4, <1>5, ArrivesTyped DEF BrokerAnswers, Typed, TypedProc, TypeOK, client, clock
<1> QED
  BY <1>6, <1>7 DEF BrokerAnswers, Typed, TypedCallers, TypedClock, client, clock

LEMMA PeerEndsTyped ==
  ASSUME Typed, PeerEnds
  PROVE  Typed'
<1>1. PICK kind \in {"tcp_closed", "tcp_error"} : Arrives([kind |-> kind])
  BY DEF PeerEnds
<1>2. [kind |-> kind] \in Packets
  BY DEF Packets, EndMsgs
<1>3. wire' \in Seq([id : Ids, of : Requests])
  BY EmptySeq DEF PeerEnds
<1>4. TypedProc'
  BY <1>1, <1>2, <1>3, ArrivesTyped DEF PeerEnds, Typed, TypedProc, TypeOK, client, clock
<1> QED
  BY <1>4 DEF PeerEnds, Typed, TypedCallers, TypedClock, client, history, clock

LEMMA MadeCount ==
  ASSUME Typed
  PROVE  /\ Made = 1..Len(request) /\ Cardinality(Made) = Len(request) /\ Len(request) \in Nat
         /\ 1..Len(request) \subseteq Requests
<1>1. Made = 1..Len(request) /\ Len(request) \in Nat
  BY LenProperties DEF Made, Typed, TypedCallers
<1>2. Cardinality(1..Len(request)) = Len(request)
  <2>1. 1 \in Int /\ Len(request) \in Int /\ (1 > Len(request) => Len(request) = 0)
    BY <1>1
  <2>2. Cardinality(1..Len(request)) =
          IF 1 > Len(request) THEN 0 ELSE Len(request) - 1 + 1
    BY <2>1, FS_Interval
  <2> QED
    BY <2>1, <2>2
<1> QED
  BY <1>1, <1>2, ConnectionAssumption DEF Typed, TypedCallers, Requests

LEMMA RequestTyped ==
  ASSUME Typed, NEW c \in Callers, NEW mode \in Modes[c], Request(c, mode)
  PROVE  Typed'
<1> DEFINE r == Cardinality(Made) + 1
           m == IF mode = "stop" THEN [kind |-> "stop", from |-> c]
                ELSE [kind |-> "send", req |-> r]
<1>1. r = Len(request) + 1 /\ r \in Requests
  BY MadeCount, ConnectionAssumption DEF Request, Requests
<1>2. mode \in ModeNames
  BY ConnectionAssumption
<1>3. m \in Messages
  BY <1>1 DEF Messages, SendMsgs, StopMsgs
<1>4. request' \in Seq([caller : Callers, mode : ModeNames]) /\ Len(request') <= MaxReqs
  BY <1>1, <1>2, AppendProperties DEF Request, Typed, TypedCallers
<1>5. Down(r) \in Boxed
  BY <1>1 DEF Down, Boxed
<1> HIDE DEF r, m
<1>6. box' \in [Callers -> Seq(Boxed)]
  <2>1. Append(box[c], Down(r)) \in Seq(Boxed)
    BY <1>5, AppendProperties DEF Typed, TypedCallers
  <2> QED
    BY <2>1 DEF Request, Typed, TypedCallers, r
<1>7. mailbox' \in Seq(Messages)
  <2>1. mailbox' = IF Up THEN Append(mailbox, m) ELSE mailbox
    BY DEF Request, r, m
  <2> QED
    BY <1>3, <2>1, AppendProperties DEF Typed, TypedProc
<1>8. pc' \in [Callers -> {"idle", "calling", "waiting"}]
  BY DEF Request, Typed, TypedProc, TypeOK
<1>9. current' \in [Callers -> Requests \cup {None}]
  BY <1>1 DEF Request, Typed, TypedCallers, r
<1>10. TypedProc'
  BY <1>7, <1>8 DEF Request, Typed, TypedProc, TypeOK, net, clock
<1>11. TypedCallers'
  BY <1>4, <1>6, <1>9 DEF Request, Typed, TypedCallers, history
<1>12. TypedClock'
  BY DEF Request, Typed, TypedClock, clock
<1> QED
  BY <1>10, <1>11, <1>12 DEF Typed

-----------------------------------------------------------------------------
(* A caller's receive.                                                     *)

LEMMA FirstAwaited ==
  ASSUME Typed, NEW c \in Callers, NEW kinds, Awaited(c, kinds) # {}
  PROVE  /\ First(c, kinds) \in 1..Len(box[c])
         /\ box[c][First(c, kinds)] \in Boxed
         /\ box[c][First(c, kinds)].kind \in kinds
         /\ box[c][First(c, kinds)].req = current[c]
         /\ \A k \in 1..(First(c, kinds) - 1) :
              ~(box[c][k].kind \in kinds /\ box[c][k].req = current[c])
<1>1. DOMAIN box[c] = 1..Len(box[c]) /\ Len(box[c]) \in Nat /\ box[c] \in Seq(Boxed)
  BY LenProperties DEF Typed, TypedCallers
<1>2. Awaited(c, kinds) \in SUBSET Nat
  BY <1>1 DEF Awaited
<1>3. First(c, kinds) \in Awaited(c, kinds)
      /\ \A k \in Awaited(c, kinds) : First(c, kinds) <= k
  BY <1>2, MinOfNats DEF First
<1>4. box[c][First(c, kinds)] \in Boxed
  BY <1>1, <1>3, ElementOfSeq DEF Awaited
<1> QED
  BY <1>1, <1>3, <1>4 DEF Awaited

\* What the flush leaves: the messages from before in their order, but for
\* the reply that was taken and a DOWN.
LEMMA FlushedTyped ==
  ASSUME Typed, NEW c \in Callers, NEW i \in 1..Len(box[c])
  PROVE  Flushed(c, i) \in Seq(Boxed)
<1>1. box[c] \in Seq(Boxed)
  BY DEF Typed, TypedCallers
<1> DEFINE rest == RemoveAt(box[c], i)
<1>2. rest \in Seq(Boxed)
  BY <1>1, RemoveAtProperties
<1>3. CASE Downs(rest) = {}
  BY <1>2, <1>3 DEF Flushed
<1>4. CASE Downs(rest) # {}
  <2>1. Downs(rest) \in SUBSET Nat /\ Downs(rest) \subseteq 1..Len(rest)
    BY <1>2, LenProperties DEF Downs
  <2>2. Min(Downs(rest)) \in 1..Len(rest)
    BY <1>4, <2>1, MinOfNats
  <2>3. RemoveAt(rest, Min(Downs(rest))) \in Seq(Boxed)
    BY <1>2, <2>2, RemoveAtProperties
  <2> QED
    BY <1>4, <2>3 DEF Flushed
<1> QED
  BY <1>3, <1>4

LEMMA IdleTyped ==
  ASSUME Typed, NEW c \in Callers, Idle(c)
  PROVE  /\ box' \in [Callers -> Seq(Boxed)]
         /\ pc' \in [Callers -> {"idle", "calling", "waiting"}]
         /\ current' \in [Callers -> Requests \cup {None}]
  BY EmptySeq DEF Idle, Typed, TypedProc, TypeOK, TypedCallers

LEMMA CallerTyped ==
  ASSUME Typed, NEW c \in Callers, CallReturns(c) \/ WaitReturns(c) \/ WaitTimesOut(c)
  PROVE  Typed'
<1>1. UNCHANGED <<proc, net, request, given, answers, clock>>
  BY DEF CallReturns, WaitReturns, WaitTimesOut
<1> SUFFICES /\ box' \in [Callers -> Seq(Boxed)]
             /\ pc' \in [Callers -> {"idle", "calling", "waiting"}]
             /\ current' \in [Callers -> Requests \cup {None}]
             /\ outcome' \in [Requests -> {"none", "msg", "down", "timeout"}]
  BY <1>1 DEF Typed, TypedProc, TypeOK, TypedCallers, TypedClock, proc, net, clock
<1>2. CASE CallReturns(c)
  <2> DEFINE i == First(c, {"reply", "down"})
             ok == box[c][i].kind = "reply"
             sync == request[current[c]].mode = "sync"
  <2>1. Awaited(c, {"reply", "down"}) # {}
    BY <1>2 DEF CallReturns
  <2>2. i \in 1..Len(box[c]) /\ box[c][i] \in Boxed /\ box[c][i].req = current[c]
    BY <2>1, FirstAwaited
  <2>3. outcome' \in [Requests -> {"none", "msg", "down", "timeout"}]
    BY <1>2 DEF CallReturns, Typed, TypedCallers
  <2>4. CASE ok /\ sync
    <3>1. /\ pc' = [pc EXCEPT ![c] = "waiting"]
          /\ box' = [box EXCEPT ![c] = IF Up THEN Flushed(c, i)
                                       ELSE Append(Flushed(c, i), Down(current[c]))]
          /\ UNCHANGED current
      BY <1>2, <2>4 DEF CallReturns
    <3> HIDE DEF i
    <3>2. Flushed(c, i) \in Seq(Boxed) /\ Down(current[c]) \in Boxed
      BY <2>2, FlushedTyped DEF Down, Boxed, Typed, TypedCallers
    <3>3. Append(Flushed(c, i), Down(current[c])) \in Seq(Boxed)
      BY <3>2, AppendProperties
    <3> QED
      BY <2>3, <3>1, <3>2, <3>3 DEF Typed, TypedProc, TypeOK, TypedCallers
  <2>5. CASE ~(ok /\ sync)
    <3>1. Idle(c)
      BY <1>2, <2>5 DEF CallReturns
    <3> QED
      BY <2>3, <3>1, IdleTyped
  <2> QED
    BY <2>4, <2>5
<1>3. CASE WaitReturns(c)
  <2>1. Awaited(c, {"msg", "down"}) # {} /\ Idle(c)
        /\ outcome' = [outcome EXCEPT ![current[c]] = box[c][First(c, {"msg", "down"})].kind]
    BY <1>3 DEF WaitReturns
  <2>2. box[c][First(c, {"msg", "down"})].kind \in {"msg", "down"}
    BY <2>1, FirstAwaited
  <2>3. outcome' \in [Requests -> {"none", "msg", "down", "timeout"}]
    BY <2>1, <2>2 DEF Typed, TypedCallers
  <2> QED
    BY <2>1, <2>3, IdleTyped
<1>4. CASE WaitTimesOut(c)
  BY <1>4, IdleTyped DEF WaitTimesOut, Typed, TypedCallers
<1> QED
  BY <1>2, <1>3, <1>4

LEMMA TypedStep ==
  ASSUME Typed, OnlyMade, [Next]_vars
  PROVE  Typed'
<1>1. CASE UNCHANGED vars
  BY <1>1 DEF vars, proc, net, client, history, clock, Typed, TypedProc, TypeOK, TypedCallers,
    TypedClock
<1> QED
  BY <1>1, HandleSendTyped, WriteReturnsTyped, HandleResponseTyped, HandleTyped,
    CheckAgesTyped, TickTyped, JumpTyped, BrokerAnswersTyped, PeerEndsTyped, RequestTyped,
    CallerTyped DEF Next, Handle, Receive

-----------------------------------------------------------------------------
(***************************************************************************)
(* Correlation ids                                                         *)
(***************************************************************************)
\* An id and the next one, modulo their number.
LEMMA ModSmall ==
  ASSUME NEW x \in 0..(2 * CorrIds - 1)
  PROVE  x % CorrIds = IF x < CorrIds THEN x ELSE x - CorrIds
  BY ConnectionAssumption

LEMMA ModNext ==
  ASSUME NEW a \in Nat
  PROVE  (a + 1) % CorrIds = ((a % CorrIds) + 1) % CorrIds
<1> USE ConnectionAssumption
<1> DEFINE q == a \div CorrIds
           m == a % CorrIds
<1>1. a = CorrIds * q + m /\ m \in 0..(CorrIds - 1) /\ q \in Nat
  OBVIOUS
<1>2. \A n \in Nat, p \in Nat, k \in 0..(CorrIds - 1) :
        n = CorrIds * p + k => n % CorrIds = k
  OBVIOUS
<1> HIDE DEF q, m
<1>3. CASE m + 1 < CorrIds
  <2>1. a + 1 = CorrIds * q + (m + 1) /\ m + 1 \in 0..(CorrIds - 1)
    BY <1>1, <1>3
  <2>2. (a + 1) % CorrIds = m + 1
    BY <1>1, <1>2, <2>1
  <2>3. (m + 1) % CorrIds = m + 1
    BY <1>1, <1>3, ModSmall
  <2>4. (a + 1) % CorrIds = (m + 1) % CorrIds
    BY <2>2, <2>3
  <2> QED
    BY <2>4 DEF m
<1>4. CASE m + 1 = CorrIds
  <2>1. a + 1 = CorrIds * (q + 1) + 0 /\ 0 \in 0..(CorrIds - 1)
    BY <1>1, <1>4
  <2>2. (a + 1) % CorrIds = 0
    BY <1>1, <1>2, <2>1
  <2>3. (m + 1) % CorrIds = 0
    BY <1>1, <1>4, ModSmall
  <2>4. (a + 1) % CorrIds = (m + 1) % CorrIds
    BY <2>2, <2>3
  <2> QED
    BY <2>4 DEF m
<1> QED
  BY <1>1, <1>3, <1>4

\* The requests in a mailbox, and that they lie there in the order they were made.
Sends(mb) == {mb[k].req : k \in {j \in 1..Len(mb) : mb[j].kind = "send"}}
Ordered(mb) ==
  \A i, j \in 1..Len(mb) :
    i < j /\ mb[i].kind = "send" /\ mb[j].kind = "send" => mb[i].req < mb[j].req

UnsentOf(mb, s) == Sends(mb) \cup ({s} \ {None})

LEMMA UnsentIs ==
  /\ mailbox \in Seq(Messages) => Unsent = UnsentOf(mailbox, sending)
  /\ mailbox' \in Seq(Messages) => Unsent' = UnsentOf(mailbox', sending')
<1>1. ASSUME NEW mb \in Seq(Messages)
      PROVE  {m.req : m \in {n \in ToSet(mb) : n.kind = "send"}} = Sends(mb)
  <2>1. DOMAIN mb = 1..Len(mb)
    BY LenProperties
  <2> QED
    BY <2>1 DEF ToSet, Sends
<1> QED
  BY <1>1 DEF Unsent, UnsentOf

LEMMA TailSends ==
  ASSUME NEW mb \in Seq(Messages), mb # <<>>, Ordered(mb)
  PROVE  /\ Ordered(Tail(mb))
         /\ Head(mb).kind # "send" => Sends(Tail(mb)) = Sends(mb)
         /\ Head(mb).kind = "send" =>
              /\ Sends(mb) = Sends(Tail(mb)) \cup {Head(mb).req}
              /\ \A n \in Sends(Tail(mb)) : Head(mb).req < n
<1>1. Len(mb) \in Nat \ {0} /\ Head(mb) = mb[1]
  BY EmptySeq
<1>2. /\ Tail(mb) \in Seq(Messages)
      /\ Len(Tail(mb)) = Len(mb) - 1
      /\ \A i \in 1..(Len(mb) - 1) : Tail(mb)[i] = mb[i + 1]
  BY HeadTailProperties
<1>3. Ordered(Tail(mb))
  BY <1>1, <1>2 DEF Ordered
<1>4. \A n : n \in Sends(mb) <=> \E k \in 1..Len(mb) : mb[k].kind = "send" /\ mb[k].req = n
  BY DEF Sends
<1>5. \A n : n \in Sends(Tail(mb)) <=>
        \E k \in 2..Len(mb) : mb[k].kind = "send" /\ mb[k].req = n
  <2> TAKE n
  <2>1. ASSUME n \in Sends(Tail(mb))
        PROVE  \E k \in 2..Len(mb) : mb[k].kind = "send" /\ mb[k].req = n
    <3>1. PICK i \in 1..(Len(mb) - 1) : Tail(mb)[i].kind = "send" /\ Tail(mb)[i].req = n
      BY <1>2, <2>1 DEF Sends
    <3>2. i + 1 \in 2..Len(mb) /\ Tail(mb)[i] = mb[i + 1]
      BY <1>1, <1>2, <3>1
    <3> QED
      BY <3>1, <3>2
  <2>2. ASSUME NEW k \in 2..Len(mb), mb[k].kind = "send", mb[k].req = n
        PROVE  n \in Sends(Tail(mb))
    <3>1. k - 1 \in 1..(Len(mb) - 1) /\ Tail(mb)[k - 1] = mb[k]
      BY <1>1, <1>2
    <3> QED
      BY <1>2, <2>2, <3>1 DEF Sends
  <2> QED
    BY <2>1, <2>2
<1>6. 1..Len(mb) = {1} \cup 2..Len(mb)
  BY <1>1
<1>7. \A n : n \in Sends(mb) <=> \/ n \in Sends(Tail(mb))
                                 \/ mb[1].kind = "send" /\ mb[1].req = n
  BY <1>4, <1>5, <1>6
<1>8. mb[1].kind = "send" => \A n \in Sends(Tail(mb)) : mb[1].req < n
  BY <1>1, <1>5 DEF Ordered
<1> QED
  BY <1>1, <1>3, <1>7, <1>8

LEMMA AppendSends ==
  ASSUME NEW mb \in Seq(Messages), NEW m \in Messages, Ordered(mb),
         m.kind = "send" => \A n \in Sends(mb) : n < m.req
  PROVE  /\ Ordered(Append(mb, m))
         /\ m.kind # "send" => Sends(Append(mb, m)) = Sends(mb)
         /\ m.kind = "send" => Sends(Append(mb, m)) = Sends(mb) \cup {m.req}
<1>1. /\ Len(mb) \in Nat
      /\ Len(Append(mb, m)) = Len(mb) + 1
      /\ \A i \in 1..Len(mb) : Append(mb, m)[i] = mb[i]
      /\ Append(mb, m)[Len(mb) + 1] = m
  BY AppendProperties, LenProperties
<1>2. 1..(Len(mb) + 1) = 1..Len(mb) \cup {Len(mb) + 1}
  BY <1>1
<1>3. \A n : n \in Sends(Append(mb, m)) <=> n \in Sends(mb) \/ (m.kind = "send" /\ m.req = n)
  BY <1>1, <1>2 DEF Sends
<1>4. \A i \in 1..Len(mb) : mb[i].kind = "send" => mb[i].req \in Sends(mb)
  BY DEF Sends
<1>5. Ordered(Append(mb, m))
  <2> SUFFICES ASSUME NEW i \in 1..(Len(mb) + 1), NEW j \in 1..(Len(mb) + 1), i < j,
                      Append(mb, m)[i].kind = "send", Append(mb, m)[j].kind = "send"
               PROVE  Append(mb, m)[i].req < Append(mb, m)[j].req
    BY <1>1 DEF Ordered
  <2>1. i \in 1..Len(mb)
    BY <1>1
  <2>2. CASE j \in 1..Len(mb)
    BY <1>1, <2>1, <2>2 DEF Ordered
  <2>3. CASE j = Len(mb) + 1
    BY <1>1, <1>4, <2>1, <2>3
  <2> QED
    BY <1>2, <2>2, <2>3
<1> QED
  BY <1>3, <1>5

LEMMA NextPacketSends ==
  ASSUME Typed, mailbox # <<>>, Head(mailbox).kind # "send", Ordered(mailbox)
  PROVE  /\ Ordered(Tail(mailbox) \o FirstOf(inbound))
         /\ Sends(Tail(mailbox) \o FirstOf(inbound)) = Sends(mailbox)
<1>1. Tail(mailbox) \in Seq(Messages)
  BY TakeTyped
<1>2. Ordered(Tail(mailbox)) /\ Sends(Tail(mailbox)) = Sends(mailbox)
  BY TailSends DEF Typed, TypedProc
<1>3. CASE inbound = <<>>
  BY <1>1, <1>2, <1>3, ConcatEmptySeq DEF FirstOf
<1>4. CASE inbound # <<>>
  <2>1. Head(inbound) \in Packets
    BY <1>4, HeadTailProperties DEF Typed, TypedProc
  <2>2. Head(inbound) \in Messages /\ Head(inbound).kind # "send"
    BY <2>1 DEF Messages, Packets, DataMsgs, EndMsgs
  <2>3. Tail(mailbox) \o FirstOf(inbound) = Append(Tail(mailbox), Head(inbound))
    BY <1>1, <1>4, <2>2, AppendIsConcat DEF FirstOf
  <2> QED
    BY <1>1, <1>2, <2>2, <2>3, AppendSends
<1> QED
  BY <1>3, <1>4

\* A process that has ended holds nothing, and the socket is gone.
Ended ==
  ~Up => /\ mailbox = <<>> /\ sending = None /\ sent = <<>>
         /\ wire = <<>> /\ inbound = <<>> /\ ~active

\* Some d of the requests made before request n, and after the one with this
\* id, have counted the id on to corr_id.
Behind(id, n) == \E d \in 1..(n - sent[id]) : (id + d) % CorrIds = corr_id

\* The requests are written in the order they were made, and each gets an id
\* that no request without an answer has: they are less than CorrIds apart.
Numbered ==
  /\ OnlyMade
  /\ \A id \in DOMAIN sent : \A n \in Unsent \cup {Len(request) + 1} : Behind(id, n)
  /\ \A n \in Unsent : \A r \in Sent \cup Unsent : n - r < CorrIds
  /\ Ordered(mailbox)
  /\ Busy => \A n \in Sends(mailbox) : sending < n
  /\ \A a, b \in DOMAIN sent : sent[a] = sent[b] => a = b

LEMMA UnsentNotSent ==
  ASSUME Numbered
  PROVE  Unsent \cap Sent = {}
<1> SUFFICES ASSUME NEW r \in Unsent, NEW id \in DOMAIN sent, sent[id] = r PROVE FALSE
  BY DEF Sent
<1>1. PICK d \in 1..(r - r) : TRUE
  BY DEF Numbered, Behind
<1>2. r \in Int
  BY DEF Numbered, OnlyMade
<1> QED
  BY <1>1, <1>2

LEMMA NumberedInit == Init => Numbered /\ Ended
<1> SUFFICES ASSUME Init PROVE Numbered /\ Ended
  OBVIOUS
<1>1. mailbox = <<>> /\ sent = <<>> /\ sending = None /\ Up
  BY DEF Init, Up
<1>2. Len(mailbox) = 0 /\ mailbox \in Seq(Messages) /\ DOMAIN sent = {}
  BY <1>1, EmptyTyped
<1>3. Unsent = {} /\ Sent = {} /\ Ordered(mailbox) /\ Sends(mailbox) = {}
  BY <1>1, <1>2, UnsentIs DEF UnsentOf, Sends, Ordered, Sent
<1> QED
  BY <1>1, <1>2, <1>3 DEF Numbered, Ended, OnlyMade, Busy

LEMMA EndedStep ==
  ASSUME Ended, [Next]_vars
  PROVE  Ended'
<1>1. ASSUME NEW reason, NEW boxes, Exit(reason, boxes)
      PROVE  Ended'
  BY <1>1 DEF Exit, Ended
<1>2. CASE UNCHANGED <<proc, net>>
  BY <1>2 DEF proc, net, Ended, Up
<1>3. CASE UNCHANGED state /\ Up
  BY <1>3 DEF Ended, Up
<1>4. ASSUME NEW c \in Callers, NEW mode \in Modes[c], Request(c, mode)
      PROVE  Ended'
  BY <1>4 DEF Request, Ended, Up, net
<1>5. CASE HandleSend \/ WriteReturns
  BY <1>1, <1>3, <1>5 DEF HandleSend, WriteReturns, Receives, SendOk
<1>6. CASE HandleResponse \/ HandleSocketEnd \/ HandleAssertMaxReqAge \/ HandleStop
           \/ ParentExits \/ CheckAges
  BY <1>1, <1>3, <1>6 DEF HandleResponse, HandleSocketEnd, HandleAssertMaxReqAge, HandleStop,
    ParentExits, CheckAges, Receives
<1>7. CASE Tick \/ Jump \/ BrokerAnswers \/ PeerEnds
  BY <1>3, <1>7 DEF Tick, Jump, BrokerAnswers, PeerEnds, proc
<1>8. ASSUME NEW c \in Callers, Receive(c) \/ WaitTimesOut(c)
      PROVE  Ended'
  BY <1>2, <1>8 DEF Receive, CallReturns, WaitReturns, WaitTimesOut
<1>9. CASE UNCHANGED vars
  BY <1>2, <1>9 DEF vars
<1> QED
  BY <1>4, <1>5, <1>6, <1>7, <1>8, <1>9 DEF Next, Handle

\* The end of the process leaves nothing to number.
LEMMA ExitNumbered ==
  ASSUME Typed, Numbered, NEW reason, NEW boxes, Exit(reason, boxes)
  PROVE  Numbered'
<1>1. mailbox' = <<>> /\ sent' = <<>> /\ sending' = None
  BY DEF Exit
<1>2. Len(mailbox') = 0 /\ mailbox' \in Seq(Messages) /\ DOMAIN sent' = {}
  BY <1>1, EmptyTyped
<1>3. Unsent' = {} /\ Sent' = {} /\ Ordered(mailbox') /\ Sends(mailbox') = {}
  BY <1>1, <1>2, UnsentIs DEF UnsentOf, Sends, Ordered, Sent
<1> QED
  BY <1>1, <1>2, <1>3 DEF Numbered, OnlyMade, Busy

\* Steps that write nothing and take no request.
LEMMA NumberedStays ==
  ASSUME Typed, Typed', Numbered, UNCHANGED <<corr_id, sending, request>>,
         Sends(mailbox') = Sends(mailbox), Ordered(mailbox'),
         DOMAIN sent' \subseteq DOMAIN sent, \A id \in DOMAIN sent' : sent'[id] = sent[id]
  PROVE  Numbered'
<1>1. Unsent' = Unsent
  BY UnsentIs DEF UnsentOf, Typed, TypedProc
<1>2. Sent' \subseteq Sent
  BY DEF Sent
<1>3. \A id \in DOMAIN sent' : \A n : Behind(id, n) => Behind(id, n)'
  BY DEF Behind
<1> QED
  BY <1>1, <1>2, <1>3 DEF Numbered, OnlyMade, Busy

\* The id of the next request is free.
LEMMA NextIdFree ==
  ASSUME Typed, Numbered, NEW r \in Unsent
  PROVE  corr_id \notin DOMAIN sent
<1> USE ConnectionAssumption
<1> SUFFICES ASSUME corr_id \in DOMAIN sent PROVE FALSE
  OBVIOUS
<1>1. PICK d \in 1..(r - sent[corr_id]) : (corr_id + d) % CorrIds = corr_id
  BY DEF Numbered, Behind
<1>2. sent[corr_id] \in Sent /\ r - sent[corr_id] < CorrIds
  BY DEF Sent, Numbered
<1>3. sent[corr_id] \in Int /\ r \in Int
  BY <1>2 DEF Numbered, OnlyMade
<1>4. d \in 1..(CorrIds - 1)
  BY <1>1, <1>2, <1>3
<1>5. corr_id \in 0..(CorrIds - 1)
  BY DEF Typed, TypedProc, TypeOK
<1>6. corr_id + d \in 0..(2 * CorrIds - 1)
  BY <1>4, <1>5
<1> DEFINE x == corr_id + d
<1>9. x \in 0..(2 * CorrIds - 1) /\ x # corr_id /\ x - CorrIds # corr_id
  BY <1>4, <1>5, <1>6
<1> HIDE DEF x
<1>7. (x % CorrIds) = IF x < CorrIds THEN x ELSE x - CorrIds
  BY <1>9, ModSmall, Zenon
<1>8. (x % CorrIds) # corr_id
  BY <1>7, <1>9
<1> QED
  BY <1>1, <1>8 DEF x

\* The first request that waits is written.
LEMMA SendOkNumbered ==
  ASSUME Typed, Typed', Numbered, NEW r \in Unsent, SendOk(r),
         Ordered(mailbox'), Unsent' \subseteq Unsent, \A n \in Unsent' : r < n
  PROVE  Numbered'
<1> USE ConnectionAssumption
<1>1. corr_id \notin DOMAIN sent
  BY NextIdFree
<1>2. \/ sent' = sent
      \/ /\ DOMAIN sent' = DOMAIN sent \cup {corr_id}
         /\ sent'[corr_id] = r
         /\ \A id \in DOMAIN sent : sent'[id] = sent[id]
  BY <1>1 DEF SendOk, With
<1>3. corr_id' = (corr_id + 1) % CorrIds /\ corr_id \in Nat /\ corr_id < CorrIds
      /\ sending' = None /\ UNCHANGED request
  BY DEF SendOk, NextCorrId, client, Typed, TypedProc, TypeOK
<1>4. Sent' \subseteq Sent \cup {r}
  BY <1>2 DEF Sent
<1>5. r \in 1..Len(request) /\ Len(request) \in Nat
  BY MadeCount DEF Numbered, OnlyMade
<1>6. OnlyMade'
  BY <1>3, <1>4, <1>5 DEF Numbered, OnlyMade
<1>7. ASSUME NEW id \in DOMAIN sent', NEW n \in Unsent' \cup {Len(request) + 1}
      PROVE  Behind(id, n)'
  <2>1. n \in Int /\ r < n
    BY <1>5 DEF Numbered, OnlyMade
  <2>2. CASE id \in DOMAIN sent
    <3>1. PICK d \in 1..(r - sent[id]) : (id + d) % CorrIds = corr_id
      BY <2>2 DEF Numbered, Behind
    <3>5. id \in 0..(CorrIds - 1)
      BY <2>2 DEF Typed, TypedProc, TypeOK
    <3>6. sent[id] \in 1..Len(request)
      BY <2>2 DEF Numbered, OnlyMade, Sent
    <3>2. id \in Nat /\ sent[id] \in Int
      BY <3>5, <3>6
    <3>3. d + 1 \in 1..(n - sent[id]) /\ d \in Nat
      BY <1>5, <2>1, <3>1, <3>2
    <3>4. (id + (d + 1)) % CorrIds = corr_id'
      <4>1. id + d \in Nat /\ id + (d + 1) = (id + d) + 1
        BY <3>2, <3>3
      <4> QED
        BY <1>3, <3>1, <4>1, ModNext
    <3>7. sent'[id] = sent[id]
      BY <1>2, <2>2
    <3> QED
      BY <3>3, <3>4, <3>7 DEF Behind
  <2>3. CASE id \notin DOMAIN sent
    <3>1. id = corr_id /\ sent'[id] = r
      BY <1>2, <2>3
    <3>2. 1 \in 1..(n - r) /\ (id + 1) % CorrIds = corr_id'
      BY <1>3, <1>5, <2>1, <3>1
    <3> QED
      BY <3>1, <3>2 DEF Behind
  <2> QED
    BY <2>2, <2>3
<1>8. \A n \in Unsent' : \A q \in Sent' \cup Unsent' : n - q < CorrIds
  BY <1>4 DEF Numbered
<1>9. \A a, b \in DOMAIN sent' : sent'[a] = sent'[b] => a = b
  <2>1. \A id \in DOMAIN sent : sent[id] # r
    <3> TAKE id \in DOMAIN sent
    <3>1. PICK d \in 1..(r - sent[id]) : TRUE
      BY DEF Numbered, Behind
    <3>2. sent[id] \in Int
      BY DEF Numbered, OnlyMade, Sent
    <3> QED
      BY <1>5, <3>1, <3>2
  <2> QED
    BY <1>2, <2>1 DEF Numbered
<1>10. ~Busy'
  BY <1>3 DEF Busy
<1> QED
  BY <1>3, <1>6, <1>7, <1>8, <1>9, <1>10 DEF Numbered

LEMMA HandleSendNumbered ==
  ASSUME Typed, Typed', Numbered, HandleSend
  PROVE  Numbered'
<1> DEFINE r == Head(mailbox).req
<1>1. mailbox # <<>> /\ Head(mailbox).kind = "send" /\ sending = None
  BY DEF HandleSend, Receives, Busy
<1>2. /\ Ordered(Tail(mailbox))
      /\ Sends(mailbox) = Sends(Tail(mailbox)) \cup {r}
      /\ \A n \in Sends(Tail(mailbox)) : r < n
  BY <1>1, TailSends DEF Typed, TypedProc, Numbered
<1>3. Unsent = Sends(mailbox)
  BY <1>1, UnsentIs DEF UnsentOf, Typed, TypedProc
<1>4. r \in Unsent
  BY <1>2, <1>3
<1> HIDE DEF r
<1>5. CASE SendOk(r) /\ Take
  <2>1. Unsent' = Sends(Tail(mailbox))
    BY <1>5, UnsentIs DEF UnsentOf, SendOk, Take, Typed, TypedProc
  <2> QED
    BY <1>2, <1>3, <1>4, <1>5, <2>1, SendOkNumbered DEF Take
<1>6. CASE Exit("send_error", box)
  BY <1>6, ExitNumbered
<1>7. CASE /\ sending' = r /\ Take
           /\ UNCHANGED <<state, corr_id, sent, timer, checker, net, client, box, history, clock>>
  <2>1. mailbox' = Tail(mailbox) /\ sending' = r /\ r # None
        /\ UNCHANGED <<corr_id, sent, request>>
    BY <1>4, <1>7 DEF Take, client, Numbered, OnlyMade, None
  <2>2. Unsent' = Unsent
    BY <1>2, <1>3, <2>1, UnsentIs DEF UnsentOf, Typed, TypedProc
  <2>3. Sent' = Sent
    BY <2>1 DEF Sent
  <2>4. \A id, n : Behind(id, n) => Behind(id, n)'
    BY <2>1 DEF Behind
  <2> QED
    BY <1>2, <2>1, <2>2, <2>3, <2>4 DEF Numbered, OnlyMade
<1> QED
  BY <1>5, <1>6, <1>7 DEF HandleSend, r

LEMMA WriteReturnsNumbered ==
  ASSUME Typed, Typed', Numbered, WriteReturns
  PROVE  Numbered'
<1>1. sending # None
  BY DEF WriteReturns, Busy
<1>2. Unsent = Sends(mailbox) \cup {sending}
  BY <1>1, UnsentIs DEF UnsentOf, Typed, TypedProc
<1>3. CASE SendOk(sending) /\ UNCHANGED mailbox
  <2>1. Unsent' = Sends(mailbox)
    BY <1>3, UnsentIs DEF UnsentOf, SendOk, Typed, TypedProc
  <2>2. \A n \in Unsent' : sending < n
    BY <1>1, <2>1 DEF Numbered, Busy
  <2>3. Ordered(mailbox') /\ Unsent' \subseteq Unsent /\ sending \in Unsent
    BY <1>2, <1>3, <2>1 DEF Numbered
  <2> QED
    BY <1>3, <2>2, <2>3, SendOkNumbered
<1>4. CASE Exit("send_error", box)
  BY <1>4, ExitNumbered
<1> QED
  BY <1>3, <1>4 DEF WriteReturns

\* Steps that give the mailbox a message that is no request, or take one.
LEMMA OtherNumbered ==
  ASSUME Typed, Typed', Numbered,
         \/ HandleResponse \/ HandleSocketEnd \/ HandleAssertMaxReqAge \/ HandleStop
         \/ CheckAges \/ ParentExits \/ Tick \/ Jump \/ BrokerAnswers \/ PeerEnds
  PROVE  Numbered'
<1>0. mailbox \in Seq(Messages) /\ Ordered(mailbox)
  BY DEF Typed, TypedProc, Numbered
<1>1. ASSUME NEW packet, packet \in Packets, Arrives(packet)
      PROVE  Sends(mailbox') = Sends(mailbox) /\ Ordered(mailbox')
  <2>1. packet \in Messages /\ packet.kind # "send"
    BY <1>1 DEF Messages, Packets, DataMsgs, EndMsgs
  <2> QED
    BY <1>0, <1>1, <2>1, AppendSends DEF Arrives
<1>2. CASE HandleResponse
  <2>1. mailbox # <<>> /\ Head(mailbox).kind # "send"
    BY <1>2 DEF HandleResponse, Receives
  <2>2. CASE Exit("badkey", box)
    BY <2>2, ExitNumbered
  <2>3. CASE ~Exit("badkey", box)
    <3>1. /\ mailbox' = Tail(mailbox) \o FirstOf(inbound)
          /\ sent' = Without(sent, Head(mailbox).id)
          /\ UNCHANGED <<corr_id, sending, request>>
      BY <1>2, <2>3 DEF HandleResponse, client
    <3>2. Ordered(mailbox') /\ Sends(mailbox') = Sends(mailbox)
      BY <1>0, <2>1, <3>1, NextPacketSends
    <3>3. DOMAIN sent' \subseteq DOMAIN sent /\ \A id \in DOMAIN sent' : sent'[id] = sent[id]
      BY <3>1 DEF Without
    <3> QED
      BY <3>1, <3>2, <3>3, NumberedStays
  <2> QED
    BY <2>2, <2>3
<1>3. CASE HandleAssertMaxReqAge
  <2>1. mailbox # <<>> /\ Head(mailbox).kind # "send" /\ mailbox' = Tail(mailbox)
        /\ UNCHANGED <<corr_id, sent, sending, request>>
    BY <1>3 DEF HandleAssertMaxReqAge, Receives, Take, client
  <2> QED
    BY <1>0, <2>1, TailSends, NumberedStays
<1>4. CASE HandleSocketEnd \/ HandleStop \/ ParentExits
  BY <1>4, ExitNumbered DEF HandleSocketEnd, HandleStop, ParentExits
<1>5. CASE CheckAges
  <2>1. CASE Exit("request_timeout", box)
    BY <2>1, ExitNumbered
  <2>2. CASE ~Exit("request_timeout", box)
    <3>1. UNCHANGED <<corr_id, sent, sending, request, mailbox>>
      BY <1>5, <2>2 DEF CheckAges, client
    <3> QED
      BY <1>0, <3>1, NumberedStays
  <2> QED
    BY <2>1, <2>2
<1>6. CASE Tick
  <2>1. UNCHANGED <<corr_id, sent, sending, request>>
    BY <1>6 DEF Tick, client
  <2>2. [kind |-> "assert_max_req_age"] \in Messages
    BY DEF Messages, AgeMsgs
  <2>3. Sends(mailbox') = Sends(mailbox) /\ Ordered(mailbox')
    BY <1>0, <1>6, <2>2, AppendSends DEF Tick
  <2> QED
    BY <2>1, <2>3, NumberedStays
<1>7. CASE Jump
  BY <1>0, <1>7, NumberedStays DEF Jump, proc, client
<1>8. CASE BrokerAnswers
  <2>1. PICK i \in DOMAIN wire : Arrives([kind |-> "data", id |-> wire[i].id, of |-> wire[i].of])
    BY <1>8 DEF BrokerAnswers
  <2>2. wire[i] \in [id : Ids, of : Requests]
    BY LenProperties, ElementOfSeq DEF Typed, TypedProc
  <2>3. [kind |-> "data", id |-> wire[i].id, of |-> wire[i].of] \in Packets
    BY <2>2 DEF Packets, DataMsgs
  <2>4. Sends(mailbox') = Sends(mailbox) /\ Ordered(mailbox')
    BY <1>1, <2>1, <2>3
  <2> QED
    BY <1>8, <2>4, NumberedStays DEF BrokerAnswers, client
<1>9. CASE PeerEnds
  <2>1. PICK kind \in {"tcp_closed", "tcp_error"} : Arrives([kind |-> kind])
    BY <1>9 DEF PeerEnds
  <2>2. [kind |-> kind] \in Packets
    BY DEF Packets, EndMsgs
  <2>3. Sends(mailbox') = Sends(mailbox) /\ Ordered(mailbox')
    BY <1>1, <2>1, <2>2
  <2> QED
    BY <1>9, <2>3, NumberedStays DEF PeerEnds, client
<1> QED
  BY <1>2, <1>3, <1>4, <1>5, <1>6, <1>7, <1>8, <1>9

\* Where RoomForId is needed: no request gets so far ahead of another that
\* the ids have come round.
LEMMA RequestNumbered ==
  ASSUME Typed, Typed', Numbered, Ended, NEW c \in Callers, NEW mode \in Modes[c], Request(c, mode)
  PROVE  Numbered'
<1> USE ConnectionAssumption
<1> DEFINE r == Len(request) + 1
           m == IF mode = "stop" THEN [kind |-> "stop", from |-> c]
                ELSE [kind |-> "send", req |-> r]
<1>1. /\ Len(request) \in Nat /\ Cardinality(Made) = Len(request)
      /\ Len(request') = Len(request) + 1
  BY MadeCount, AppendProperties DEF Request, Typed, TypedCallers
<1>2. mailbox' = (IF Up THEN Append(mailbox, m) ELSE mailbox)
      /\ UNCHANGED <<corr_id, sent, sending>>
  BY <1>1 DEF Request
<1>3. \A q \in Sent \cup Unsent : r - q < CorrIds
  <2>1. RoomForId
    BY DEF Request
  <2>2. \A q \in Sent \cup Unsent : q \in Int
    BY DEF Numbered, OnlyMade
  <2> QED
    BY <1>1, <2>1, <2>2 DEF RoomForId
<1>4. r \in Requests
  BY <1>1 DEF Request, Requests
<1>5. m \in Messages
  BY <1>4 DEF Messages, SendMsgs, StopMsgs
<1>6. m.kind = "send" => m.req = r
  OBVIOUS
<1>7. Sends(mailbox) \subseteq Unsent /\ mailbox \in Seq(Messages)
      /\ \A n \in Unsent : n \in Int /\ n < r
  BY <1>1, UnsentIs DEF UnsentOf, Typed, TypedProc, Numbered, OnlyMade
<1>8. m.kind = "send" => \A n \in Sends(mailbox) : n < m.req
  BY <1>6, <1>7
<1> HIDE DEF m
<1>9. Ordered(mailbox') /\ Sends(mailbox') \subseteq Sends(mailbox) \cup {r}
  BY <1>2, <1>5, <1>6, <1>7, <1>8, AppendSends DEF Numbered
<1>10. Unsent' \subseteq Unsent \cup {r}
  BY <1>2, <1>9, UnsentIs DEF UnsentOf, Typed, TypedProc
<1>11. Sent' = Sent
  BY <1>2 DEF Sent
<1>12. \A id \in DOMAIN sent : sent[id] \in Int
  BY DEF Numbered, OnlyMade, Sent
<1>13. \A id \in DOMAIN sent : Behind(id, r)
  BY DEF Numbered
<1>14. ASSUME NEW id \in DOMAIN sent, NEW n, n = Len(request') + 1
       PROVE  Behind(id, n)
  <2>1. PICK k \in 1..(r - sent[id]) : (id + k) % CorrIds = corr_id
    BY <1>13 DEF Behind
  <2>2. k \in 1..(n - sent[id])
    BY <1>1, <1>12, <1>14
  <2> QED
    BY <2>1, <2>2, Zenon DEF Behind
<1>15. \A id, n : Behind(id, n) => Behind(id, n)'
  BY <1>2 DEF Behind
<1>16. \A id \in DOMAIN sent' : \A n \in Unsent' \cup {Len(request') + 1} : Behind(id, n)'
  BY <1>1, <1>2, <1>10, <1>13, <1>14, <1>15 DEF Numbered
<1>17. OnlyMade'
  BY <1>1, <1>10, <1>11 DEF Numbered, OnlyMade
<1>18. \A n \in Unsent' : \A q \in Sent' \cup Unsent' : n - q < CorrIds
  <2> SUFFICES ASSUME NEW n \in Unsent \cup {r}, NEW q \in Sent \cup Unsent \cup {r}
               PROVE  n - q < CorrIds
    BY <1>10, <1>11
  <2>1. q \in Int /\ n \in Int /\ n <= r
    BY <1>1 DEF Numbered, OnlyMade
  <2>2. CASE q = r
    BY <1>1, <2>1, <2>2
  <2>3. CASE q # r /\ n = r
    BY <1>3, <2>3
  <2>4. CASE q # r /\ n # r
    BY <2>4 DEF Numbered
  <2> QED
    BY <2>2, <2>3, <2>4
<1>19. Busy' => \A n \in Sends(mailbox') : sending' < n
  <2> SUFFICES ASSUME Busy, NEW n \in Sends(mailbox) \cup {r} PROVE sending < n
    BY <1>2, <1>9 DEF Busy
  <2>1. sending \in Unsent
    BY DEF Unsent, Busy
  <2> QED
    BY <1>7, <2>1 DEF Numbered
<1> QED
  BY <1>2, <1>9, <1>16, <1>17, <1>18, <1>19 DEF Numbered

LEMMA NumberedStep ==
  ASSUME Typed, Numbered, Ended, [Next]_vars
  PROVE  Numbered'
<1>1. Typed'
  BY TypedStep DEF Numbered
<1>2. CASE UNCHANGED vars
  BY <1>1, <1>2, NumberedStays DEF vars, proc, client, Numbered
<1>3. ASSUME NEW c \in Callers, Receive(c) \/ WaitTimesOut(c)
      PROVE  Numbered'
  BY <1>1, <1>3, NumberedStays DEF Receive, CallReturns, WaitReturns, WaitTimesOut, proc, Numbered
<1> QED
  BY <1>1, <1>2, <1>3, HandleSendNumbered, WriteReturnsNumbered, OtherNumbered, RequestNumbered
    DEF Next, Handle

-----------------------------------------------------------------------------
(***************************************************************************)
(* The theorem                                                             *)
(***************************************************************************)
Numbering == Typed /\ Numbered /\ Ended

LEMMA NumberingInvariant == Spec => []Numbering
<1>1. Init => Numbering
  BY TypedInit, NumberedInit DEF Numbering
<1>2. Numbering /\ [Next]_vars => Numbering'
  BY TypedStep, NumberedStep, EndedStep DEF Numbering, Numbered
<1> QED
  BY <1>1, <1>2, PTL DEF Spec

\* The connection's state has its type, correlation ids their range, and a
\* process that waits for its turn waits no longer than Lag.
THEOREM ConnectionTypeCorrect == Spec => []TypeOK
<1>1. Numbering => TypeOK
  BY DEF Numbering, Typed, TypedProc
<1> QED
  BY <1>1, NumberingInvariant, PTL

-----------------------------------------------------------------------------
(***************************************************************************)
(* The packets in a mailbox                                                *)
(***************************************************************************)
IsEnd(m) == m.kind \in {"tcp_closed", "tcp_error"}
IsPacket(m) == m.kind = "data" \/ IsEnd(m)

Delivered(mb) == {mb[k] : k \in {j \in 1..Len(mb) : IsPacket(mb[j])}}
OnePacket(mb) == \A i, j \in 1..Len(mb) : IsPacket(mb[i]) /\ IsPacket(mb[j]) => i = j

LEMMA PacketKinds ==
  /\ \A p \in Packets : IsPacket(p) /\ p \in Messages
  /\ \A m \in Messages : IsPacket(m) => m \in Packets
  BY DEF Packets, Messages, DataMsgs, EndMsgs, SendMsgs, AgeMsgs, StopMsgs, IsPacket, IsEnd

LEMMA NothingDelivered ==
  /\ mailbox = <<>> => Delivered(mailbox) = {} /\ OnePacket(mailbox)
  /\ mailbox' = <<>> => Delivered(mailbox') = {} /\ OnePacket(mailbox')
<1>1. ASSUME NEW mb, mb = <<>>
      PROVE  Delivered(mb) = {} /\ OnePacket(mb)
  <2>1. 1..Len(mb) = {}
    BY <1>1, EmptySeq
  <2> QED
    BY <2>1 DEF Delivered, OnePacket
<1> QED
  BY <1>1

LEMMA TailDelivered ==
  ASSUME NEW mb \in Seq(Messages), mb # <<>>, OnePacket(mb)
  PROVE  /\ OnePacket(Tail(mb))
         /\ ~IsPacket(Head(mb)) => Delivered(Tail(mb)) = Delivered(mb)
         /\ IsPacket(Head(mb)) => Delivered(mb) = {Head(mb)} /\ Delivered(Tail(mb)) = {}
<1>1. Len(mb) \in Nat \ {0} /\ Head(mb) = mb[1]
  BY EmptySeq
<1>2. /\ Len(Tail(mb)) = Len(mb) - 1
      /\ \A i \in 1..(Len(mb) - 1) : Tail(mb)[i] = mb[i + 1]
  BY HeadTailProperties
<1>3. OnePacket(Tail(mb))
  BY <1>1, <1>2 DEF OnePacket
<1>4. ASSUME NEW m
      PROVE  m \in Delivered(Tail(mb)) <=> \E k \in 2..Len(mb) : IsPacket(mb[k]) /\ mb[k] = m
  <2>1. ASSUME m \in Delivered(Tail(mb))
        PROVE  \E k \in 2..Len(mb) : IsPacket(mb[k]) /\ mb[k] = m
    <3>1. PICK i \in 1..(Len(mb) - 1) : IsPacket(Tail(mb)[i]) /\ Tail(mb)[i] = m
      BY <1>2, <2>1 DEF Delivered
    <3>2. i + 1 \in 2..Len(mb) /\ Tail(mb)[i] = mb[i + 1]
      BY <1>1, <1>2, <3>1
    <3> QED
      BY <3>1, <3>2
  <2>2. ASSUME NEW k \in 2..Len(mb), IsPacket(mb[k]), mb[k] = m
        PROVE  m \in Delivered(Tail(mb))
    <3>1. k - 1 \in 1..(Len(mb) - 1) /\ Tail(mb)[k - 1] = mb[k]
      BY <1>1, <1>2
    <3> QED
      BY <1>2, <2>2, <3>1 DEF Delivered
  <2> QED
    BY <2>1, <2>2
<1>5. 1..Len(mb) = {1} \cup 2..Len(mb)
  BY <1>1
<1>6. \A m : m \in Delivered(mb) <=> \E k \in 1..Len(mb) : IsPacket(mb[k]) /\ mb[k] = m
  BY DEF Delivered
<1>7. CASE ~IsPacket(Head(mb))
  BY <1>1, <1>3, <1>4, <1>5, <1>6, <1>7
<1>8. CASE IsPacket(Head(mb))
  <2>1. \A k \in 2..Len(mb) : ~IsPacket(mb[k])
    BY <1>1, <1>8 DEF OnePacket
  <2> QED
    BY <1>1, <1>3, <1>4, <1>5, <1>6, <1>8, <2>1
<1> QED
  BY <1>7, <1>8

LEMMA AppendDelivered ==
  ASSUME NEW mb \in Seq(Messages), NEW m \in Messages, OnePacket(mb),
         IsPacket(m) => Delivered(mb) = {}
  PROVE  /\ OnePacket(Append(mb, m))
         /\ ~IsPacket(m) => Delivered(Append(mb, m)) = Delivered(mb)
         /\ IsPacket(m) => Delivered(Append(mb, m)) = {m}
<1>1. /\ Len(mb) \in Nat
      /\ Len(Append(mb, m)) = Len(mb) + 1
      /\ \A i \in 1..Len(mb) : Append(mb, m)[i] = mb[i]
      /\ Append(mb, m)[Len(mb) + 1] = m
  BY AppendProperties, LenProperties
<1>2. 1..(Len(mb) + 1) = 1..Len(mb) \cup {Len(mb) + 1}
  BY <1>1
<1>3. \A n : n \in Delivered(Append(mb, m)) <=> n \in Delivered(mb) \/ (IsPacket(m) /\ m = n)
  BY <1>1, <1>2 DEF Delivered
<1>4. \A i \in 1..Len(mb) : IsPacket(mb[i]) => mb[i] \in Delivered(mb)
  BY DEF Delivered
<1>5. OnePacket(Append(mb, m))
  BY <1>1, <1>2, <1>4 DEF OnePacket
<1> QED
  BY <1>3, <1>5

LEMMA NextPacketDelivered ==
  ASSUME Typed, mailbox # <<>>, OnePacket(mailbox), IsPacket(Head(mailbox))
  PROVE  /\ OnePacket(Tail(mailbox) \o FirstOf(inbound))
         /\ inbound = <<>> => Delivered(Tail(mailbox) \o FirstOf(inbound)) = {}
         /\ inbound # <<>> => Delivered(Tail(mailbox) \o FirstOf(inbound)) = {inbound[1]}
<1>1. Tail(mailbox) \in Seq(Messages)
  BY TakeTyped
<1>2. OnePacket(Tail(mailbox)) /\ Delivered(Tail(mailbox)) = {}
  BY TailDelivered DEF Typed, TypedProc
<1>3. CASE inbound = <<>>
  BY <1>1, <1>2, <1>3, ConcatEmptySeq DEF FirstOf
<1>4. CASE inbound # <<>>
  <2>1. Head(inbound) \in Packets /\ Head(inbound) = inbound[1]
    BY <1>4, HeadTailProperties DEF Typed, TypedProc
  <2>2. Head(inbound) \in Messages /\ IsPacket(Head(inbound))
    BY <2>1, PacketKinds
  <2>3. Tail(mailbox) \o FirstOf(inbound) = Append(Tail(mailbox), Head(inbound))
    BY <1>1, <1>4, <2>2, AppendIsConcat DEF FirstOf
  <2> QED
    BY <1>1, <1>2, <1>4, <2>1, <2>2, <2>3, AppendDelivered
<1> QED
  BY <1>3, <1>4

LEMMA PeerGoneIs ==
  /\ mailbox \in Seq(Messages) /\ inbound \in Seq(Packets) =>
       (PeerGone <=> \/ \E m \in Delivered(mailbox) : IsEnd(m)
                     \/ \E k \in 1..Len(inbound) : IsEnd(inbound[k]))
  /\ mailbox' \in Seq(Messages) /\ inbound' \in Seq(Packets) =>
       (PeerGone' <=> \/ \E m \in Delivered(mailbox') : IsEnd(m)
                      \/ \E k \in 1..Len(inbound') : IsEnd(inbound'[k]))
<1>1. ASSUME NEW mb \in Seq(Messages), NEW in \in Seq(Packets)
      PROVE  (\E m \in ToSet(in) \cup ToSet(mb) : m.kind \in {"tcp_closed", "tcp_error"})
                <=> \/ \E m \in Delivered(mb) : IsEnd(m)
                    \/ \E k \in 1..Len(in) : IsEnd(in[k])
  <2>1. DOMAIN mb = 1..Len(mb) /\ DOMAIN in = 1..Len(in)
    BY LenProperties
  <2> QED
    BY <2>1 DEF ToSet, Delivered, IsPacket, IsEnd
<1> QED
  BY <1>1 DEF PeerGone

-----------------------------------------------------------------------------
(***************************************************************************)
(* The order of the answers                                                *)
(***************************************************************************)
\* The broker answered this request, or is to.
Known(p) == p.id \in DOMAIN sent /\ sent[p.id] = p.of

\* If this packet is an answer, it is the broker's n-th.
IsAnswer(p, n) == p.kind = "data" => n <= Len(given) /\ given[n] = p.of /\ Known(p)

\* One packet at a time is in the mailbox, the others follow in the order in
\* which they came, and the end of the connection is the last.
Queued ==
  /\ OnePacket(mailbox)
  /\ active => inbound = <<>> /\ Delivered(mailbox) = {}
  /\ Up /\ ~active => Delivered(mailbox) # {}
  /\ \A m \in Delivered(mailbox) : IsAnswer(m, Len(answers) + 1)
  /\ \A k \in 1..Len(inbound) : IsAnswer(inbound[k], Len(answers) + 1 + k)
  /\ \A m \in Delivered(mailbox) : IsEnd(m) => inbound = <<>> /\ wire = <<>>
  /\ \A k \in 1..Len(inbound) : IsEnd(inbound[k]) => k = Len(inbound) /\ wire = <<>>
  /\ Up => Len(given) = Len(answers) + (IF active THEN 0 ELSE 1 + Len(inbound))
                          - (IF PeerGone THEN 1 ELSE 0)

\* What was forwarded is what the broker answered first.
Forwarded ==
  /\ Len(answers) <= Len(given)
  /\ \A i \in 1..Len(answers) :
       /\ answers[i].of = given[i]
       /\ answers[i].req = answers[i].of
       /\ answers[i].to = request[answers[i].of].caller
  /\ state # "badkey"
  /\ state = "tcp_closed" => Len(given) = Len(answers)

\* A request is in one place: to be written, on the wire, answered.
Answered == {given[i] : i \in 1..Len(given)}
Apart ==
  /\ \A i, j \in 1..Len(given) : given[i] = given[j] => i = j
  /\ \A i, j \in 1..Len(wire) : wire[i].of = wire[j].of => i = j
  /\ \A i \in 1..Len(wire) : Known(wire[i]) /\ wire[i].of \notin Answered
  /\ \A i \in 1..Len(answers) : given[i] \notin Sent
  /\ Unsent \cap Answered = {}
  /\ Answered \subseteq 1..Len(request)

InOrder == Queued /\ Forwarded /\ Apart

LEMMA AnsweredFirst ==
  ASSUME Typed, Forwarded
  PROVE  \A i \in 1..Len(answers) : i \in 1..Len(given) /\ given[i] \in Answered
<1>1. Len(answers) \in Nat /\ Len(given) \in Nat /\ Len(answers) <= Len(given)
  BY LenProperties DEF Typed, TypedCallers, Forwarded
<1>2. 1..Len(answers) \subseteq 1..Len(given)
  BY <1>1
<1> QED
  BY <1>2 DEF Answered

LEMMA InOrderInit == Init => InOrder
<1> SUFFICES ASSUME Init PROVE InOrder
  OBVIOUS
<1>1. /\ mailbox = <<>> /\ sent = <<>> /\ inbound = <<>> /\ wire = <<>> /\ given = <<>>
      /\ answers = <<>> /\ active = TRUE /\ state = "up"
  BY DEF Init
<1>2. Delivered(mailbox) = {} /\ OnePacket(mailbox)
  BY <1>1, NothingDelivered
<1>3. Len(inbound) = 0 /\ Len(wire) = 0 /\ Len(given) = 0 /\ Len(answers) = 0
  BY <1>1, EmptySeq
<1>4. ~PeerGone
  BY <1>1, <1>2, <1>3, PeerGoneIs, TypedInit DEF Typed, TypedProc
<1>5. Queued
  BY <1>1, <1>2, <1>3, <1>4 DEF Queued
<1>6. Answered = {}
  BY <1>3 DEF Answered
<1> QED
  BY <1>1, <1>3, <1>5, <1>6 DEF InOrder, Forwarded, Apart

\* The end of the process: nothing is left of the queue.
LEMMA ExitInOrder ==
  ASSUME Typed, InOrder, NEW reason, NEW boxes, Exit(reason, boxes), UNCHANGED history,
         reason # "badkey", reason # "up", reason = "tcp_closed" => Len(given) = Len(answers)
  PROVE  InOrder'
<1>1. /\ mailbox' = <<>> /\ sent' = <<>> /\ sending' = None /\ inbound' = <<>> /\ wire' = <<>>
      /\ active' = FALSE /\ state' = reason
      /\ UNCHANGED <<given, answers, request>>
  BY DEF Exit, history, client
<1>2. Delivered(mailbox') = {} /\ OnePacket(mailbox')
  BY <1>1, NothingDelivered
<1>3. Len(inbound') = 0 /\ Len(wire') = 0 /\ Len(mailbox') = 0 /\ DOMAIN sent' = {}
      /\ mailbox' \in Seq(Messages)
  BY <1>1, EmptySeq, EmptyTyped
<1>4. Sent' = {} /\ Unsent' = {}
  BY <1>1, <1>3, UnsentIs DEF Sent, UnsentOf, Sends
<1>5. Queued'
  BY <1>1, <1>2, <1>3 DEF Queued, Up
<1>6. Forwarded'
  BY <1>1 DEF InOrder, Forwarded
<1>7. Answered' = Answered
  BY <1>1 DEF Answered
<1> QED
  BY <1>1, <1>3, <1>4, <1>5, <1>6, <1>7 DEF InOrder, Apart

\* A request without an answer stays known.
LEMMA KnownStays ==
  ASSUME NEW p, Known(p), DOMAIN sent \subseteq DOMAIN sent',
         \A id \in DOMAIN sent : sent'[id] = sent[id]
  PROVE  Known(p)'
  BY DEF Known

\* Steps that neither receive nor hand on a packet.
LEMMA QueuedStays ==
  ASSUME Typed, Typed', Queued, UNCHANGED <<state, active, inbound, given, answers>>,
         DOMAIN sent \subseteq DOMAIN sent', \A id \in DOMAIN sent : sent'[id] = sent[id],
         OnePacket(mailbox'), Delivered(mailbox') = Delivered(mailbox),
         PeerGone => wire' = wire
  PROVE  Queued'
<1>1. \A p, n : IsAnswer(p, n) => IsAnswer(p, n)'
  BY KnownStays DEF IsAnswer
<1>2. PeerGone' <=> PeerGone
  BY PeerGoneIs DEF Typed, TypedProc
<1>3. \A m \in Delivered(mailbox) : IsEnd(m) => inbound = <<>> /\ wire' = <<>>
  BY PeerGoneIs DEF Queued, Typed, TypedProc
<1>4. \A k \in 1..Len(inbound) : IsEnd(inbound[k]) => k = Len(inbound) /\ wire' = <<>>
  BY PeerGoneIs DEF Queued, Typed, TypedProc
<1>5. Up' <=> Up
  BY DEF Up
<1>6. /\ \A m \in Delivered(mailbox') : IsAnswer(m, Len(answers) + 1)'
      /\ \A k \in 1..Len(inbound') : IsAnswer(inbound[k], Len(answers) + 1 + k)'
  BY <1>1 DEF Queued
<1> QED
  BY <1>2, <1>3, <1>4, <1>5, <1>6 DEF Queued

LEMMA InOrderStays ==
  ASSUME Typed, Typed', Numbered, InOrder,
         UNCHANGED <<state, sent, active, inbound, wire, given, answers, request>>,
         OnePacket(mailbox'), Delivered(mailbox') = Delivered(mailbox), Unsent' \subseteq Unsent
  PROVE  InOrder'
<1>1. Queued'
  BY QueuedStays DEF InOrder
<1>2. Forwarded'
  BY DEF InOrder, Forwarded
<1>3. Answered' = Answered /\ Sent' = Sent
  BY DEF Answered, Sent
<1>4. \A p : Known(p) => Known(p)'
  BY KnownStays
<1>5. Apart'
  BY <1>3, <1>4 DEF InOrder, Apart
<1> QED
  BY <1>1, <1>2, <1>5 DEF InOrder

\* The first request that waits is written: it is known, and on the wire.
LEMMA SendOkInOrder ==
  ASSUME Typed, Typed', Numbered, InOrder, NEW r \in Unsent, SendOk(r),
         OnePacket(mailbox'), Delivered(mailbox') = Delivered(mailbox), Unsent' \subseteq Unsent,
         r \notin Unsent'
  PROVE  InOrder'
<1>1. corr_id \notin DOMAIN sent
  BY NextIdFree
<1>2. /\ DOMAIN sent \subseteq DOMAIN sent'
      /\ \A id \in DOMAIN sent : sent'[id] = sent[id]
      /\ Sent' \subseteq Sent \cup {r}
  BY <1>1 DEF SendOk, With, Sent
<1>3. UNCHANGED <<state, active, inbound, given, answers, request>>
  BY DEF SendOk, client, history
<1>4. PeerGone => wire' = wire
  BY DEF SendOk
<1>5. Queued'
  BY <1>2, <1>3, <1>4, QueuedStays DEF InOrder
<1>6. Forwarded'
  BY <1>3 DEF InOrder, Forwarded
<1>7. Answered' = Answered /\ r \notin Answered
  BY <1>3 DEF Answered, InOrder, Apart
<1>8. r \notin Sent
  BY UnsentNotSent
<1>9. \A p : Known(p) => Known(p)'
  BY <1>2, KnownStays
<1>10. \A i \in 1..Len(answers) : given[i] \notin Sent'
  BY <1>2, <1>7 DEF InOrder, Apart, Forwarded, Answered, Typed, TypedCallers
<1>11. \A i \in 1..Len(wire) : wire[i].of # r
  BY <1>8 DEF InOrder, Apart, Known, Sent
<1>12. /\ \A i, j \in 1..Len(wire') : wire'[i].of = wire'[j].of => i = j
       /\ \A i \in 1..Len(wire') : /\ wire'[i].id \in DOMAIN sent'
                                   /\ sent'[wire'[i].id] = wire'[i].of
                                   /\ wire'[i].of \notin Answered
  <2>1. CASE wire' = wire
    BY <1>2, <2>1 DEF InOrder, Apart, Known
  <2>2. CASE wire' # wire
    <3> DEFINE p == [id |-> corr_id, of |-> r]
    <3>1. wire' = Append(wire, p) /\ sent' = With(sent, corr_id, r)
      BY <2>2 DEF SendOk
    <3>2. p.id \in DOMAIN sent' /\ sent'[p.id] = r /\ p.of = r
      BY <3>1 DEF With
    <3>6. corr_id \in Ids /\ r \in Requests
      BY MadeCount DEF Typed, TypedProc, TypeOK, Ids, Numbered, OnlyMade
    <3>3. p \in [id : Ids, of : Requests]
      BY <3>6
    <3> HIDE DEF p
    <3>4. /\ Len(wire) \in Nat /\ Len(wire') = Len(wire) + 1
          /\ \A i \in 1..Len(wire) : wire'[i] = wire[i]
          /\ wire'[Len(wire) + 1] = p
      BY <3>1, <3>3, AppendProperties, LenProperties DEF Typed, TypedProc
    <3>5. 1..Len(wire') = 1..Len(wire) \cup {Len(wire) + 1}
      BY <3>4
    <3>7. \A i, j \in 1..Len(wire') : wire'[i].of = wire'[j].of => i = j
      BY <1>11, <3>2, <3>4, <3>5 DEF InOrder, Apart
    <3>8. \A i \in 1..Len(wire) : /\ wire[i].id \in DOMAIN sent'
                                  /\ sent'[wire[i].id] = wire[i].of
                                  /\ wire[i].of \notin Answered
      BY <1>2 DEF InOrder, Apart, Known
    <3> QED
      BY <1>7, <3>2, <3>4, <3>5, <3>7, <3>8
  <2> QED
    BY <2>1, <2>2
<1>13. Apart'
  BY <1>3, <1>7, <1>10, <1>12 DEF InOrder, Apart, Known
<1> QED
  BY <1>5, <1>6, <1>13 DEF InOrder

\* An answer is handed on, and the next packet comes.
LEMMA ResponseInOrder ==
  ASSUME Typed, Typed', Numbered, Numbered', Ended, InOrder, HandleResponse
  PROVE  InOrder'
<1> DEFINE m == Head(mailbox)
           A == Len(answers)
<1>1. mailbox # <<>> /\ m.kind = "data" /\ Up
  BY DEF HandleResponse, Receives
<1>2. IsPacket(m) /\ ~IsEnd(m) /\ m \in Messages
  BY <1>1, TakeTyped DEF IsPacket, IsEnd
<1>3. Delivered(mailbox) = {m} /\ ~active
  BY <1>1, <1>2, TailDelivered DEF InOrder, Queued, Typed, TypedProc
<1>4. A + 1 <= Len(given) /\ given[A + 1] = m.of /\ m.id \in DOMAIN sent /\ sent[m.id] = m.of
  BY <1>1, <1>3 DEF InOrder, Queued, IsAnswer, Known
<1>5. /\ answers' = Append(answers, [to |-> request[sent[m.id]].caller, req |-> sent[m.id],
                                     of |-> m.of])
      /\ sent' = Without(sent, m.id)
      /\ mailbox' = Tail(mailbox) \o FirstOf(inbound)
      /\ active' = (inbound = <<>>)
      /\ inbound' = SubSeq(inbound, 2, Len(inbound))
      /\ UNCHANGED <<state, sending, wire, request, given>>
  BY <1>4 DEF HandleResponse, Cast, client
<1> HIDE DEF m
<1>6. A \in Nat /\ Len(given) \in Nat /\ Len(inbound) \in Nat
  BY LenProperties DEF Typed, TypedProc, TypedCallers
<1>7. /\ Len(answers') = A + 1
      /\ \A i \in 1..A : answers'[i] = answers[i]
      /\ answers'[A + 1].of = m.of /\ answers'[A + 1].req = m.of
      /\ answers'[A + 1].to = request[m.of].caller
  <2> DEFINE x == [to |-> request[sent[m.id]].caller, req |-> sent[m.id], of |-> m.of]
  <2>1. x.of = m.of /\ x.req = m.of /\ x.to = request[m.of].caller
    BY <1>4
  <2> HIDE DEF x
  <2>2. /\ Len(Append(answers, x)) = A + 1
        /\ \A i \in 1..A : Append(answers, x)[i] = answers[i]
        /\ Append(answers, x)[A + 1] = x
    BY <1>6 DEF Typed, TypedCallers
  <2>3. answers' = Append(answers, x)
    BY <1>5 DEF x
  <2> QED
    BY <2>1, <2>2, <2>3
<1>8. /\ \A id \in DOMAIN sent : id # m.id => id \in DOMAIN sent' /\ sent'[id] = sent[id]
      /\ DOMAIN sent' = DOMAIN sent \ {m.id} /\ \A id \in DOMAIN sent' : sent'[id] = sent[id]
  BY <1>5 DEF Without
<1> DEFINE Still(p, n) == p.kind = "data" => /\ n <= Len(given') /\ given'[n] = p.of
                                              /\ p.id \in DOMAIN sent' /\ sent'[p.id] = p.of
<1>9. ASSUME NEW p, NEW n \in Nat, n > A + 1, IsAnswer(p, n)
      PROVE  Still(p, n)
  <2> SUFFICES ASSUME p.kind = "data" PROVE Still(p, n)
    OBVIOUS
  <2>1. n <= Len(given) /\ given[n] = p.of /\ Known(p)
    BY <1>9 DEF IsAnswer
  <2>2. p.of # m.of
    BY <1>4, <1>6, <1>9, <2>1 DEF InOrder, Apart
  <2>3. p.id \in DOMAIN sent' /\ sent'[p.id] = p.of
    BY <1>4, <1>8, <2>1, <2>2 DEF Known
  <2> QED
    BY <1>5, <2>1, <2>3
<1> HIDE DEF Still
<1>10. /\ OnePacket(mailbox')
       /\ inbound = <<>> => Delivered(mailbox') = {}
       /\ inbound # <<>> => Delivered(mailbox') = {inbound[1]}
  BY <1>1, <1>2, <1>5, NextPacketDelivered DEF InOrder, Queued, m
<1>11. /\ inbound = <<>> => Len(inbound') = 0 /\ inbound' = <<>>
       /\ inbound # <<>> => Len(inbound') = Len(inbound) - 1 /\ Len(inbound) > 0
       /\ \A k \in 1..Len(inbound') : k + 1 \in 1..Len(inbound) /\ inbound'[k] = inbound[k + 1]
  <2>0. inbound \in Seq(Packets) /\ inbound' \in Seq(Packets)
    BY DEF Typed, TypedProc
  <2>1. \A k \in 2..Len(inbound) : inbound[k] \in Packets
    BY <1>6, <2>0, ElementOfSeq
  <2>2. /\ Len(inbound') = IF 2 <= Len(inbound) THEN Len(inbound) - 2 + 1 ELSE 0
        /\ \A k \in 1..(Len(inbound) - 2 + 1) : inbound'[k] = inbound[2 + k - 1]
    BY <1>5, <1>6, <2>1, SubSeqProperties
  <2>3. (inbound = <<>> <=> Len(inbound) = 0) /\ (inbound' = <<>> <=> Len(inbound') = 0)
    BY <2>0, EmptySeq
  <2>4. \A k \in 1..Len(inbound') : k + 1 \in 1..Len(inbound) /\ inbound'[k] = inbound[k + 1]
    <3> TAKE k \in 1..Len(inbound')
    <3>1. k \in 1..(Len(inbound) - 2 + 1) /\ 2 + k - 1 = k + 1 /\ k + 1 \in 1..Len(inbound)
      BY <1>6, <2>2
    <3> QED
      BY <2>2, <3>1
  <2>5. Len(inbound) = 0 => Len(inbound') = 0
    BY <2>2
  <2>6. Len(inbound) # 0 => Len(inbound') = Len(inbound) - 1 /\ Len(inbound) > 0
    <3>1. Len(inbound') = IF 2 <= Len(inbound) THEN Len(inbound) - 2 + 1 ELSE 0
      BY <2>2
    <3> QED
      BY <1>6, <3>1
  <2> QED
    BY <2>3, <2>4, <2>5, <2>6
<1>12. Up'
  BY <1>1, <1>5 DEF Up
<1>13. \A p \in Delivered(mailbox') : Still(p, Len(answers') + 1)
  <2> SUFFICES ASSUME inbound # <<>> PROVE Still(inbound[1], A + 1 + 1)
    BY <1>7, <1>10
  <2>1. IsAnswer(inbound[1], A + 1 + 1)
    BY <1>6, <1>11 DEF InOrder, Queued
  <2>2. A + 1 + 1 \in Nat /\ A + 1 + 1 > A + 1
    BY <1>6
  <2> QED
    BY <1>9, <2>1, <2>2
<1>14. ASSUME NEW k \in 1..Len(inbound'), NEW p, p = inbound'[k]
       PROVE  Still(p, Len(answers') + 1 + k)
  <2>1. IsAnswer(p, A + 1 + (k + 1))
    BY <1>11, <1>14 DEF InOrder, Queued
  <2>2. A + 1 + (k + 1) \in Nat /\ A + 1 + (k + 1) > A + 1
        /\ A + 1 + (k + 1) = Len(answers') + 1 + k
    BY <1>6, <1>7
  <2> QED
    BY <1>9, <2>1, <2>2
<1>15. \A p \in Delivered(mailbox') : IsEnd(p) => inbound' = <<>> /\ wire' = <<>>
  <2> SUFFICES ASSUME inbound # <<>>, IsEnd(inbound[1]) PROVE inbound' = <<>> /\ wire' = <<>>
    BY <1>10
  <2>1. 1 = Len(inbound) /\ wire = <<>>
    BY <1>6, <1>11 DEF InOrder, Queued
  <2> QED
    BY <1>5, <1>11, <2>1, EmptySeq DEF Typed, TypedProc
<1>16. \A k \in 1..Len(inbound') : IsEnd(inbound'[k]) => k = Len(inbound') /\ wire' = <<>>
  BY <1>5, <1>6, <1>11 DEF InOrder, Queued
<1>17. Len(given') = Len(answers') + (IF active' THEN 0 ELSE 1 + Len(inbound'))
                       - (IF PeerGone' THEN 1 ELSE 0)
  <2>1. Len(given) = A + 1 + Len(inbound) - (IF PeerGone THEN 1 ELSE 0)
    BY <1>1, <1>3, <1>6 DEF InOrder, Queued
  <2>2. PeerGone <=> \E k \in 1..Len(inbound) : IsEnd(inbound[k])
    BY <1>2, <1>3, PeerGoneIs DEF Typed, TypedProc
  <2>3. CASE inbound = <<>>
    <3>1. ~PeerGone /\ ~PeerGone'
      BY <1>10, <1>11, <2>2, <2>3, PeerGoneIs, EmptySeq DEF Typed, TypedProc
    <3>2. Len(inbound) = 0 /\ active'
      BY <1>5, <2>3, EmptySeq
    <3> QED
      BY <1>5, <1>6, <1>7, <2>1, <3>1, <3>2
  <2>4. CASE inbound # <<>>
    <3>1. ~active' /\ Len(inbound') = Len(inbound) - 1
      BY <1>5, <1>11, <2>4
    <3>2. PeerGone' <=> IsEnd(inbound[1]) \/ \E k \in 1..Len(inbound') : IsEnd(inbound'[k])
      BY <1>10, <2>4, PeerGoneIs DEF Typed, TypedProc
    <3>3. \A k \in 2..Len(inbound) : k - 1 \in 1..Len(inbound') /\ inbound'[k - 1] = inbound[k]
      <4> TAKE k \in 2..Len(inbound)
      <4>1. k - 1 \in 1..Len(inbound') /\ (k - 1) + 1 = k
        BY <1>6, <3>1
      <4> QED
        BY <1>11, <4>1
    <3>4. 1..Len(inbound) = {1} \cup 2..Len(inbound)
      BY <1>6, <1>11, <2>4
    <3>5. PeerGone' <=> PeerGone
      BY <1>11, <2>2, <3>2, <3>3, <3>4
    <3>6. Len(inbound') \in Nat /\ Len(inbound) = 1 + Len(inbound')
      BY <1>6, <1>11, <2>4
    <3> QED
      BY <1>5, <1>6, <1>7, <2>1, <3>1, <3>5, <3>6
  <2> QED
    BY <2>3, <2>4
<1>18. Queued'
  <2>1. (\A p \in Delivered(mailbox) : IsAnswer(p, Len(answers) + 1))'
    BY <1>13 DEF Still, IsAnswer, Known
  <2>2. (\A k \in 1..Len(inbound) : IsAnswer(inbound[k], Len(answers) + 1 + k))'
    BY <1>14 DEF Still, IsAnswer, Known
  <2> QED
    BY <1>5, <1>10, <1>11, <1>15, <1>16, <1>17, <2>1, <2>2 DEF Queued
<1>19. Forwarded'
  <2>1. \A i \in 1..Len(answers') : /\ answers'[i].of = given[i]
                                    /\ answers'[i].req = answers'[i].of
                                    /\ answers'[i].to = request[answers'[i].of].caller
    <3>1. 1..(A + 1) = 1..A \cup {A + 1}
      BY <1>6
    <3> QED
      BY <1>4, <1>7, <3>1 DEF InOrder, Forwarded
  <2>2. Len(answers') <= Len(given) /\ state = "up"
    BY <1>1, <1>4, <1>7 DEF Up
  <2> QED
    BY <1>5, <2>1, <2>2 DEF Forwarded
<1>20. Apart'
  <2>1. m.of \in Answered /\ Answered' = Answered
    BY <1>4, <1>5, <1>6 DEF Answered
  <2>2. Sent' \subseteq Sent /\ m.of \notin Sent'
    BY <1>4, <1>8 DEF Sent, Numbered
  <2>3. \A i \in 1..Len(answers') : given[i] \notin Sent'
    <3>1. 1..(A + 1) = 1..A \cup {A + 1}
      BY <1>6
    <3> QED
      BY <1>4, <1>7, <2>2, <3>1 DEF InOrder, Apart
  <2>4. \A i \in 1..Len(wire) : /\ wire[i].id \in DOMAIN sent' /\ sent'[wire[i].id] = wire[i].of
                                /\ wire[i].of \notin Answered
    BY <1>4, <1>8, <2>1 DEF InOrder, Apart, Known
  <2>5. Unsent' = Unsent
    <3>1. Sends(mailbox') = Sends(mailbox)
      BY <1>1, <1>5, NextPacketSends DEF Numbered, m
    <3> QED
      BY <1>5, <3>1, UnsentIs DEF UnsentOf, Typed, TypedProc
  <2> QED
    BY <1>5, <2>1, <2>3, <2>4, <2>5 DEF InOrder, Apart, Known
<1> QED
  BY <1>18, <1>19, <1>20 DEF InOrder

\* The broker answers a request of the wire.
LEMMA AnswerInOrder ==
  ASSUME Typed, Typed', Numbered, Ended, InOrder, BrokerAnswers
  PROVE  InOrder'
<1> DEFINE A == Len(answers)
           G == Len(given)
<1>1. PICK i \in DOMAIN wire :
        /\ Arrives([kind |-> "data", id |-> wire[i].id, of |-> wire[i].of])
        /\ wire' = RemoveAt(wire, i)
        /\ given' = Append(given, wire[i].of)
  BY DEF BrokerAnswers
<1>2. Up /\ UNCHANGED <<state, sent, sending, answers, request>>
  BY DEF BrokerAnswers, client
<1> DEFINE of == wire[i].of
           p == [kind |-> "data", id |-> wire[i].id, of |-> of]
<1>3. i \in 1..Len(wire) /\ Len(wire) \in Nat
  BY LenProperties DEF Typed, TypedProc
<1>4. wire[i] \in [id : Ids, of : Requests]
  BY <1>3, ElementOfSeq DEF Typed, TypedProc
<1>5. p \in Packets /\ p.kind = "data" /\ p.of = of /\ p.id \in DOMAIN sent /\ sent[p.id] = of
      /\ of \in Requests
  BY <1>3, <1>4 DEF Packets, DataMsgs, InOrder, Apart, Known
<1>6. Arrives(p) /\ given' = Append(given, of)
  BY <1>1
<1> HIDE DEF p, of
<1>7. IsPacket(p) /\ ~IsEnd(p) /\ p \in Messages
  BY <1>5, PacketKinds DEF IsEnd
<1>8. /\ Len(given') = G + 1 /\ G \in Nat /\ A \in Nat /\ Len(inbound) \in Nat
      /\ \A k \in 1..G : given'[k] = given[k]
      /\ given'[G + 1] = of
  BY <1>5, <1>6, LenProperties DEF Typed, TypedProc, TypedCallers
<1>9. wire # <<>>
  BY <1>3, EmptySeq
<1>10. ~PeerGone
  BY <1>9, PeerGoneIs DEF InOrder, Queued, Typed, TypedProc
<1>11. G = A + (IF active THEN 0 ELSE 1 + Len(inbound))
  BY <1>2, <1>8, <1>10 DEF InOrder, Queued
<1>12. /\ OnePacket(mailbox')
       /\ active => Delivered(mailbox') = {p} /\ inbound' = <<>> /\ Len(inbound') = 0
                    /\ inbound = <<>>
       /\ ~active => Delivered(mailbox') = Delivered(mailbox) /\ inbound' = Append(inbound, p)
       /\ ~active'
  <2>1. CASE active
    BY <1>6, <1>7, <2>1, AppendDelivered, EmptySeq DEF Arrives, InOrder, Queued, Typed, TypedProc
  <2>2. CASE ~active
    BY <1>6, <2>2 DEF Arrives, InOrder, Queued
  <2> QED
    BY <2>1, <2>2
<1>13. ~active => /\ Len(inbound') = Len(inbound) + 1
                  /\ \A k \in 1..Len(inbound) : inbound'[k] = inbound[k]
                  /\ inbound'[Len(inbound) + 1] = p
                  /\ 1..Len(inbound') = 1..Len(inbound) \cup {Len(inbound) + 1}
  <2>1. inbound \in Seq(Packets)
    BY DEF Typed, TypedProc
  <2> QED
    BY <1>5, <1>8, <1>12, <2>1, AppendProperties
<1> DEFINE Still(q, n) == q.kind = "data" => /\ n <= Len(given') /\ given'[n] = q.of
                                              /\ q.id \in DOMAIN sent /\ sent[q.id] = q.of
<1>14. ASSUME NEW q, NEW n \in Nat \ {0}, IsAnswer(q, n)
       PROVE  Still(q, n)
  BY <1>8, <1>14 DEF IsAnswer, Known
<1>15. Still(p, G + 1)
  BY <1>5, <1>8
<1> HIDE DEF Still
<1>16. (\A m \in Delivered(mailbox) : IsAnswer(m, Len(answers) + 1))'
  <2>1. \A m \in Delivered(mailbox') : Still(m, A + 1)
    <3>1. CASE active
      BY <1>8, <1>11, <1>12, <1>15, <3>1
    <3>2. CASE ~active
      <4>1. A + 1 \in Nat \ {0}
        BY <1>8
      <4> QED
        BY <1>12, <1>14, <3>2, <4>1 DEF InOrder, Queued
    <3> QED
      BY <3>1, <3>2
  <2> QED
    BY <1>2, <2>1 DEF Still, IsAnswer, Known
<1>17. (\A k \in 1..Len(inbound) : IsAnswer(inbound[k], Len(answers) + 1 + k))'
  <2>1. \A k \in 1..Len(inbound') : Still(inbound'[k], A + 1 + k)
    <3>1. CASE active
      BY <1>12, <3>1
    <3>2. CASE ~active
      <4>1. \A k \in 1..Len(inbound) : Still(inbound[k], A + 1 + k)
        <5> TAKE k \in 1..Len(inbound)
        <5>1. A + 1 + k \in Nat \ {0} /\ IsAnswer(inbound[k], A + 1 + k)
          BY <1>8 DEF InOrder, Queued
        <5> QED
          BY <1>14, <5>1
      <4>2. A + 1 + (Len(inbound) + 1) = G + 1
        BY <1>8, <1>11, <3>2
      <4> QED
        BY <1>13, <1>15, <3>2, <4>1, <4>2
    <3> QED
      BY <3>1, <3>2
  <2> QED
    BY <1>2, <2>1 DEF Still, IsAnswer, Known
<1>18. /\ \A m \in Delivered(mailbox') : ~IsEnd(m)
       /\ \A k \in 1..Len(inbound') : ~IsEnd(inbound'[k])
  <2>1. /\ \A m \in Delivered(mailbox) : ~IsEnd(m)
        /\ \A k \in 1..Len(inbound) : ~IsEnd(inbound[k])
    BY <1>10, PeerGoneIs DEF Typed, TypedProc
  <2> QED
    BY <1>7, <1>12, <1>13, <2>1
<1>19. ~PeerGone'
  BY <1>18, PeerGoneIs DEF Typed, TypedProc
<1>20. Len(given') = Len(answers') + (1 + Len(inbound'))
  <2>1. Len(answers') = A
    BY <1>2
  <2>2. CASE active
    BY <1>8, <1>11, <1>12, <2>1, <2>2
  <2>3. CASE ~active
    <3>1. Len(inbound') = Len(inbound) + 1 /\ G = A + (1 + Len(inbound))
      BY <1>11, <1>13, <2>3, Zenon
    <3> QED
      BY <1>8, <2>1, <3>1
  <2> QED
    BY <2>2, <2>3
<1>21. Delivered(mailbox') # {}
  BY <1>2, <1>12 DEF InOrder, Queued
<1>22. Queued'
  BY <1>12, <1>16, <1>17, <1>18, <1>19, <1>20, <1>21 DEF Queued
<1>23. Forwarded'
  BY <1>2, <1>8 DEF InOrder, Forwarded, Up
<1>24. Answered' = Answered \cup {of}
  <2>1. 1..(G + 1) = 1..G \cup {G + 1}
    BY <1>8
  <2> QED
    BY <1>8, <2>1 DEF Answered
<1>25. \A k, l \in 1..Len(given') : given'[k] = given'[l] => k = l
  <2>1. 1..(G + 1) = 1..G \cup {G + 1}
    BY <1>8
  <2>2. \A k \in 1..G : given[k] # of
    BY <1>3 DEF InOrder, Apart, Answered, of
  <2> QED
    BY <1>8, <2>1, <2>2 DEF InOrder, Apart
<1>26. /\ Len(wire') = Len(wire) - 1
       /\ \A k \in 1..(Len(wire) - 1) : wire'[k] = IF k < i THEN wire[k] ELSE wire[k + 1]
  BY <1>1, <1>3, RemoveAtProperties DEF Typed, TypedProc
<1>27. \A k \in 1..Len(wire') : \E l \in 1..Len(wire) :
         l = (IF k < i THEN k ELSE k + 1) /\ l # i /\ wire'[k] = wire[l]
  BY <1>3, <1>26
<1>28. \A k, l \in 1..Len(wire') : wire'[k].of = wire'[l].of => k = l
  <2> TAKE k, l \in 1..Len(wire')
  <2> HAVE wire'[k].of = wire'[l].of
  <2>1. PICK a \in 1..Len(wire) : a = (IF k < i THEN k ELSE k + 1) /\ wire'[k] = wire[a]
    BY <1>27
  <2>2. PICK b \in 1..Len(wire) : b = (IF l < i THEN l ELSE l + 1) /\ wire'[l] = wire[b]
    BY <1>27
  <2>3. a = b
    BY <2>1, <2>2 DEF InOrder, Apart
  <2> QED
    BY <1>3, <1>26, <2>1, <2>2, <2>3
<1>29. \A k \in 1..Len(wire') : /\ wire'[k].id \in DOMAIN sent /\ sent[wire'[k].id] = wire'[k].of
                                /\ wire'[k].of \notin Answered'
  <2> TAKE k \in 1..Len(wire')
  <2>1. PICK l \in 1..Len(wire) : l # i /\ wire'[k] = wire[l]
    BY <1>27
  <2>2. wire[l].of # of /\ wire[l].of \notin Answered
    BY <1>3, <2>1 DEF InOrder, Apart, of
  <2> QED
    BY <1>24, <2>1, <2>2 DEF InOrder, Apart, Known
<1>30. Unsent' = Unsent /\ of \in Sent
  <2>1. p \in Messages /\ p.kind # "send"
    BY <1>5, <1>7
  <2>2. Sends(mailbox') = Sends(mailbox)
    BY <1>6, <2>1, AppendSends DEF Arrives, Numbered, Typed, TypedProc
  <2> QED
    BY <1>2, <1>5, <2>2, UnsentIs DEF UnsentOf, Sent, Typed, TypedProc
<1>31. of \notin Unsent /\ of \in 1..Len(request)
  BY <1>30, UnsentNotSent DEF Numbered, OnlyMade
<1>32. \A k \in 1..A : given'[k] \notin Sent
  BY <1>8, <1>11 DEF InOrder, Apart, Forwarded
<1>33. Sent' = Sent
  BY <1>2 DEF Sent
<1>34. Apart'
  BY <1>2, <1>24, <1>25, <1>28, <1>29, <1>30, <1>31, <1>32, <1>33 DEF InOrder, Apart, Known
<1> QED
  BY <1>22, <1>23, <1>34 DEF InOrder

\* The peer closes: its last packet says so.
LEMMA PeerEndsInOrder ==
  ASSUME Typed, Typed', Numbered, Ended, InOrder, PeerEnds
  PROVE  InOrder'
<1>1. PICK kind \in {"tcp_closed", "tcp_error"} : Arrives([kind |-> kind])
  BY DEF PeerEnds
<1> DEFINE p == [kind |-> kind]
<1>2. Arrives(p) /\ p \in Packets /\ p.kind # "data" /\ IsEnd(p)
  BY <1>1 DEF Packets, EndMsgs, IsEnd
<1> HIDE DEF p
<1>3. Up /\ ~PeerGone /\ wire' = <<>>
      /\ UNCHANGED <<state, sent, sending, given, answers, request>>
  BY DEF PeerEnds, client, history
<1>4. IsPacket(p) /\ p \in Messages
  BY <1>2, PacketKinds
<1>5. Len(given) \in Nat /\ Len(answers) \in Nat /\ Len(inbound) \in Nat /\ Len(wire') = 0
  BY <1>3, LenProperties, EmptySeq DEF Typed, TypedProc, TypedCallers
<1>6. Len(given) = Len(answers) + (IF active THEN 0 ELSE 1 + Len(inbound))
  BY <1>3, <1>5 DEF InOrder, Queued
<1>7. /\ OnePacket(mailbox')
      /\ active => Delivered(mailbox') = {p} /\ inbound' = <<>> /\ Len(inbound') = 0
      /\ ~active => Delivered(mailbox') = Delivered(mailbox) /\ inbound' = Append(inbound, p)
      /\ ~active'
  <2>1. CASE active
    BY <1>2, <1>4, <2>1, AppendDelivered, EmptySeq DEF Arrives, InOrder, Queued, Typed, TypedProc
  <2>2. CASE ~active
    BY <1>2, <2>2 DEF Arrives, InOrder, Queued
  <2> QED
    BY <2>1, <2>2
<1>8. ~active => /\ Len(inbound') = Len(inbound) + 1
                 /\ \A k \in 1..Len(inbound) : inbound'[k] = inbound[k]
                 /\ inbound'[Len(inbound) + 1] = p
                 /\ 1..Len(inbound') = 1..Len(inbound) \cup {Len(inbound) + 1}
  <2>1. inbound \in Seq(Packets)
    BY DEF Typed, TypedProc
  <2> QED
    BY <1>2, <1>5, <1>7, <2>1, AppendProperties
<1>9. /\ \A m \in Delivered(mailbox) : ~IsEnd(m)
      /\ \A k \in 1..Len(inbound) : ~IsEnd(inbound[k])
  BY <1>3, PeerGoneIs DEF Typed, TypedProc
<1>10. PeerGone'
  <2>1. CASE active
    BY <1>2, <1>7, <2>1, PeerGoneIs DEF Typed, TypedProc
  <2>2. CASE ~active
    <3>1. Len(inbound) + 1 \in 1..Len(inbound')
      BY <1>8, <2>2
    <3> QED
      BY <1>2, <1>8, <2>2, <3>1, PeerGoneIs DEF Typed, TypedProc
  <2> QED
    BY <2>1, <2>2
<1>11. Len(given') = Len(answers') + (1 + Len(inbound')) - 1
  <2>1. Len(answers') = Len(answers) /\ Len(given') = Len(given)
    BY <1>3
  <2>2. CASE active
    BY <1>5, <1>6, <1>7, <2>1, <2>2
  <2>3. CASE ~active
    <3>1. Len(inbound') = Len(inbound) + 1 /\ Len(given) = Len(answers) + (1 + Len(inbound))
      BY <1>6, <1>8, <2>3, Zenon
    <3> QED
      BY <1>5, <2>1, <3>1
  <2> QED
    BY <2>2, <2>3
<1>12. (\A m \in Delivered(mailbox) : IsAnswer(m, Len(answers) + 1))'
  BY <1>2, <1>3, <1>7 DEF InOrder, Queued, IsAnswer, Known
<1>13. (\A k \in 1..Len(inbound) : IsAnswer(inbound[k], Len(answers) + 1 + k))'
  BY <1>2, <1>3, <1>7, <1>8 DEF InOrder, Queued, IsAnswer, Known
<1>14. \A m \in Delivered(mailbox') : IsEnd(m) => inbound' = <<>>
  BY <1>7, <1>9
<1>15. \A k \in 1..Len(inbound') : IsEnd(inbound'[k]) => k = Len(inbound')
  BY <1>7, <1>8, <1>9
<1>16. Delivered(mailbox') # {}
  BY <1>3, <1>7 DEF InOrder, Queued
<1>17. Queued'
  BY <1>3, <1>7, <1>10, <1>11, <1>12, <1>13, <1>14, <1>15, <1>16 DEF Queued
<1>18. Forwarded'
  BY <1>3 DEF InOrder, Forwarded
<1>19. Unsent' = Unsent
  <2>1. p.kind # "send"
    BY <1>2 DEF IsEnd
  <2>2. Sends(mailbox') = Sends(mailbox)
    BY <1>2, <1>4, <2>1, AppendSends DEF Arrives, Numbered, Typed, TypedProc
  <2> QED
    BY <1>3, <2>2, UnsentIs DEF UnsentOf, Typed, TypedProc
<1>20. Sent' = Sent /\ Answered' = Answered
  BY <1>3 DEF Sent, Answered
<1>21. Apart'
  BY <1>3, <1>5, <1>19, <1>20 DEF InOrder, Apart
<1> QED
  BY <1>17, <1>18, <1>21 DEF InOrder

LEMMA SendInOrder ==
  ASSUME Typed, Typed', Numbered, InOrder, HandleSend \/ WriteReturns
  PROVE  InOrder'
<1>1. CASE HandleSend
  <2> DEFINE r == Head(mailbox).req
  <2>1. mailbox # <<>> /\ Head(mailbox).kind = "send" /\ sending = None
    BY <1>1 DEF HandleSend, Receives, Busy
  <2>2. OnePacket(Tail(mailbox)) /\ Delivered(Tail(mailbox)) = Delivered(mailbox)
    BY <2>1, TailDelivered DEF IsPacket, IsEnd, InOrder, Queued, Typed, TypedProc
  <2>3. /\ Sends(mailbox) = Sends(Tail(mailbox)) \cup {r}
        /\ \A n \in Sends(Tail(mailbox)) : r < n
    BY <2>1, TailSends DEF Typed, TypedProc, Numbered
  <2>4. Unsent = Sends(mailbox) /\ r \in Unsent /\ r \in Int
    BY <2>1, <2>3, UnsentIs DEF UnsentOf, Typed, TypedProc, Numbered, OnlyMade
  <2> HIDE DEF r
  <2>5. CASE SendOk(r) /\ Take
    <3>1. Unsent' = Sends(Tail(mailbox))
      BY <2>5, UnsentIs DEF UnsentOf, SendOk, Take, Typed, TypedProc
    <3>2. r \notin Unsent' /\ Unsent' \subseteq Unsent
      BY <2>3, <2>4, <3>1
    <3> QED
      BY <2>2, <2>4, <2>5, <3>2, SendOkInOrder DEF Take
  <2>6. CASE Exit("send_error", box) /\ UNCHANGED history
    BY <2>6, ExitInOrder
  <2>7. CASE /\ sending' = r /\ Take
             /\ UNCHANGED <<state, corr_id, sent, timer, checker, net, client, box, history, clock>>
    <3>1. mailbox' = Tail(mailbox) /\ sending' = r
          /\ UNCHANGED <<state, sent, active, inbound, wire, given, answers, request>>
      BY <2>7 DEF Take, net, client, history
    <3>2. Unsent' \subseteq Unsent
      BY <2>3, <2>4, <3>1, UnsentIs DEF UnsentOf, Typed, TypedProc
    <3> QED
      BY <2>2, <3>1, <3>2, InOrderStays
  <2> QED
    BY <1>1, <2>5, <2>6, <2>7 DEF HandleSend, r
<1>2. CASE WriteReturns
  <2>1. Busy /\ sending # None
    BY <1>2 DEF WriteReturns, Busy
  <2>2. Unsent = Sends(mailbox) \cup {sending}
    BY <2>1, UnsentIs DEF UnsentOf, Typed, TypedProc
  <2>3. CASE SendOk(sending) /\ UNCHANGED mailbox
    <3>1. Unsent' = Sends(mailbox)
      BY <2>3, UnsentIs DEF UnsentOf, SendOk, Typed, TypedProc
    <3>2. sending \notin Sends(mailbox)
      BY <2>1, <2>2 DEF Numbered, OnlyMade
    <3> QED
      BY <2>2, <2>3, <3>1, <3>2, SendOkInOrder DEF InOrder, Queued
  <2>4. CASE Exit("send_error", box) /\ UNCHANGED history
    BY <2>4, ExitInOrder
  <2> QED
    BY <1>2, <2>3, <2>4 DEF WriteReturns
<1> QED
  BY <1>1, <1>2

LEMMA SocketEndInOrder ==
  ASSUME Typed, Ended, InOrder, HandleSocketEnd
  PROVE  InOrder'
<1>1. PICK kind \in {"tcp_closed", "tcp_error"} : Receives(kind) /\ Exit(kind, box)
  BY DEF HandleSocketEnd
<1>2. UNCHANGED history
  BY DEF HandleSocketEnd
<1>3. mailbox # <<>> /\ IsEnd(Head(mailbox)) /\ IsPacket(Head(mailbox)) /\ Up
  BY <1>1 DEF Receives, IsEnd, IsPacket
<1>4. Delivered(mailbox) = {Head(mailbox)} /\ ~active
  BY <1>3, TailDelivered DEF InOrder, Queued, Typed, TypedProc
<1>5. PeerGone /\ Len(inbound) = 0
  BY <1>3, <1>4, PeerGoneIs, EmptySeq DEF InOrder, Queued, Typed, TypedProc
<1>6. Len(given) = Len(answers) + (1 + 0) - 1
  BY <1>3, <1>4, <1>5 DEF InOrder, Queued
<1>7. Len(given) = Len(answers)
  BY <1>6, LenProperties DEF Typed, TypedCallers
<1> QED
  BY <1>1, <1>2, <1>7, ExitInOrder

\* The steps that leave the queue of packets alone.
LEMMA OtherInOrder ==
  ASSUME Typed, Typed', Numbered, InOrder,
         HandleAssertMaxReqAge \/ HandleStop \/ CheckAges \/ ParentExits \/ Tick \/ Jump
  PROVE  InOrder'
<1>1. CASE HandleAssertMaxReqAge
  <2>1. mailbox # <<>> /\ Head(mailbox).kind = "assert_max_req_age" /\ mailbox' = Tail(mailbox)
        /\ UNCHANGED <<state, sent, sending, active, inbound, wire, given, answers, request>>
    BY <1>1 DEF HandleAssertMaxReqAge, Receives, Take, net, client, history
  <2>2. OnePacket(Tail(mailbox)) /\ Delivered(Tail(mailbox)) = Delivered(mailbox)
    BY <2>1, TailDelivered DEF IsPacket, IsEnd, InOrder, Queued, Typed, TypedProc
  <2>3. Sends(Tail(mailbox)) = Sends(mailbox)
    BY <2>1, TailSends DEF Typed, TypedProc, Numbered
  <2>4. Unsent' = Unsent
    BY <2>1, <2>3, UnsentIs DEF UnsentOf, Typed, TypedProc
  <2> QED
    BY <2>1, <2>2, <2>4, InOrderStays
<1>2. CASE HandleStop \/ ParentExits
  BY <1>2, ExitInOrder DEF HandleStop, ParentExits
<1>3. CASE CheckAges
  <2>1. CASE Exit("request_timeout", box)
    BY <1>3, <2>1, ExitInOrder DEF CheckAges
  <2>2. CASE ~Exit("request_timeout", box)
    <3>1. UNCHANGED <<state, sent, sending, mailbox, active, inbound, wire, given, answers, request>>
      BY <1>3, <2>2 DEF CheckAges, net, client, history
    <3> QED
      BY <3>1, InOrderStays, UnsentIs DEF InOrder, Queued, Typed, TypedProc
  <2> QED
    BY <2>1, <2>2
<1>4. CASE Tick
  <2>1. UNCHANGED <<state, sent, sending, active, inbound, wire, given, answers, request>>
    BY <1>4 DEF Tick, net, client, history
  <2> DEFINE m == [kind |-> "assert_max_req_age"]
  <2>2. m \in Messages /\ ~IsPacket(m) /\ m.kind # "send"
    BY DEF Messages, AgeMsgs, IsPacket, IsEnd
  <2>3. mailbox' = mailbox \/ mailbox' = Append(mailbox, m)
    BY <1>4 DEF Tick
  <2> HIDE DEF m
  <2>4. Sends(mailbox') = Sends(mailbox)
    BY <2>2, <2>3, AppendSends DEF Typed, TypedProc, Numbered
  <2>5. OnePacket(mailbox') /\ Delivered(mailbox') = Delivered(mailbox)
    BY <2>2, <2>3, AppendDelivered DEF Typed, TypedProc, InOrder, Queued
  <2>6. Unsent' = Unsent
    BY <2>1, <2>4, UnsentIs DEF UnsentOf, Typed, TypedProc
  <2> QED
    BY <2>1, <2>5, <2>6, InOrderStays
<1>5. CASE Jump
  <2>1. UNCHANGED <<state, sent, sending, mailbox, active, inbound, wire, given, answers, request>>
    BY <1>5 DEF Jump, proc, net, client, history
  <2> QED
    BY <2>1, InOrderStays, UnsentIs DEF InOrder, Queued, Typed, TypedProc
<1> QED
  BY <1>1, <1>2, <1>3, <1>4, <1>5

LEMMA RequestInOrder ==
  ASSUME Typed, Typed', Numbered, Ended, InOrder, NEW c \in Callers, NEW mode \in Modes[c],
         Request(c, mode)
  PROVE  InOrder'
<1> DEFINE r == Len(request) + 1
           m == IF mode = "stop" THEN [kind |-> "stop", from |-> c]
                ELSE [kind |-> "send", req |-> r]
<1>1. Cardinality(Made) = Len(request) /\ Len(request) \in Nat
  BY MadeCount
<1>2. /\ mailbox' = (IF Up THEN Append(mailbox, m) ELSE mailbox)
      /\ UNCHANGED <<state, sent, sending, active, inbound, wire, given, answers>>
      /\ request' = Append(request, [caller |-> c, mode |-> mode])
  BY <1>1 DEF Request, net, history
<1>3. m \in Messages /\ ~IsPacket(m) /\ (m.kind = "send" => m.req = r)
  <2>1. r \in Requests
    BY <1>1 DEF Request, Requests
  <2> QED
    BY <2>1 DEF Messages, SendMsgs, StopMsgs, IsPacket, IsEnd
<1>4. \A n \in Sends(mailbox) : n < r
  <2>1. Sends(mailbox) \subseteq 1..Len(request)
    BY UnsentIs DEF UnsentOf, Numbered, OnlyMade, Typed, TypedProc
  <2> QED
    BY <1>1, <2>1
<1> HIDE DEF m
<1>5. OnePacket(mailbox') /\ Delivered(mailbox') = Delivered(mailbox)
  BY <1>2, <1>3, AppendDelivered DEF InOrder, Queued, Typed, TypedProc
<1>6. Unsent' \subseteq Unsent \cup {r}
  <2>1. Sends(mailbox') \subseteq Sends(mailbox) \cup {r}
    BY <1>2, <1>3, <1>4, AppendSends DEF Numbered, Typed, TypedProc
  <2> QED
    BY <1>2, <2>1, UnsentIs DEF UnsentOf, Typed, TypedProc
<1>7. Queued'
  BY <1>2, <1>5, QueuedStays DEF InOrder
<1>8. Len(request') = Len(request) + 1 /\ \A k \in 1..Len(request) : request'[k] = request[k]
  BY <1>2, AppendProperties, ConnectionAssumption DEF Typed, TypedCallers
<1>9. Forwarded'
  <2>1. \A i \in 1..Len(answers) : answers[i].of \in 1..Len(request)
    BY AnsweredFirst DEF InOrder, Forwarded, Apart
  <2> QED
    BY <1>2, <1>8, <2>1 DEF InOrder, Forwarded
<1>10. Answered' = Answered /\ Sent' = Sent /\ r \notin Answered
  BY <1>1, <1>2 DEF Answered, Sent, InOrder, Apart
<1>11. Apart'
  <2>1. 1..Len(request) \subseteq 1..Len(request')
    BY <1>1, <1>8
  <2> QED
    BY <1>2, <1>6, <1>10, <2>1 DEF InOrder, Apart, Known
<1> QED
  BY <1>7, <1>9, <1>11 DEF InOrder

LEMMA InOrderStep ==
  ASSUME Numbering, Numbering', InOrder, [Next]_vars
  PROVE  InOrder'
<1> USE DEF Numbering
<1>1. CASE UNCHANGED vars
  <2>1. UNCHANGED <<state, sent, sending, mailbox, active, inbound, wire, given, answers, request>>
    BY <1>1 DEF vars, proc, net, client, history
  <2> QED
    BY <2>1, InOrderStays, UnsentIs DEF InOrder, Queued, Typed, TypedProc
<1>2. ASSUME NEW c \in Callers, Receive(c) \/ WaitTimesOut(c)
      PROVE  InOrder'
  <2>1. UNCHANGED <<state, sent, sending, mailbox, active, inbound, wire, given, answers, request>>
    BY <1>2 DEF Receive, CallReturns, WaitReturns, WaitTimesOut, proc, net
  <2> QED
    BY <2>1, InOrderStays, UnsentIs DEF InOrder, Queued, Typed, TypedProc
<1> QED
  BY <1>1, <1>2, SendInOrder, ResponseInOrder, SocketEndInOrder, OtherInOrder, AnswerInOrder,
    PeerEndsInOrder, RequestInOrder DEF Next, Handle

\* Answers leave in the order in which they came.
InOrderInv == Numbering /\ InOrder

LEMMA InOrderInvariant == Spec => []InOrderInv
<1>1. Init => InOrderInv
  BY TypedInit, NumberedInit, InOrderInit DEF InOrderInv, Numbering
<1>2. InOrderInv /\ [Next]_vars => InOrderInv'
  <2> SUFFICES ASSUME InOrderInv, [Next]_vars PROVE InOrderInv'
    OBVIOUS
  <2>1. Numbering'
    BY TypedStep, NumberedStep, EndedStep DEF InOrderInv, Numbering, Numbered
  <2> QED
    BY <2>1, InOrderStep DEF InOrderInv
<1> QED
  BY <1>1, <1>2, PTL DEF Spec

\* Answers are forwarded in the order in which the broker gave them, none is
\* left out, and when the broker closes the connection none is lost.
THEOREM AnswersKeepTheirOrder == Spec => []ForwardedInOrder
<1>1. InOrderInv => ForwardedInOrder
  <2> SUFFICES ASSUME InOrderInv PROVE ForwardedInOrder
    OBVIOUS
  <2> DEFINE forwarded == [i \in DOMAIN answers |-> answers[i].of]
             A == Len(answers)
  <2>1. A \in Nat /\ Len(given) \in Nat /\ DOMAIN answers = 1..A /\ A <= Len(given)
        /\ given \in Seq(Requests)
    BY LenProperties DEF InOrderInv, Numbering, Typed, TypedCallers, InOrder, Forwarded
  <2>2. \A i \in 1..A : answers[i].of = given[i] /\ given[i] \in Requests
    BY <2>1, ElementOfSeq DEF InOrderInv, InOrder, Forwarded
  <2>3. forwarded \in Seq(Requests) /\ Len(forwarded) = A
    <3>1. forwarded = [i \in 1..A |-> given[i]]
      BY <2>1, <2>2
    <3> HIDE DEF forwarded
    <3>2. forwarded \in [1..A -> Requests]
      BY <2>2, <3>1
    <3>3. forwarded \in Seq(Requests)
      BY <2>1, <3>2, SeqDef
    <3> QED
      BY <2>1, <3>2, <3>3, LenProperties
  <2>4. \A i \in 1..A : forwarded[i] = given[i]
    BY <2>1, <2>2
  <2> HIDE DEF forwarded
  <2>5. SubSeq(forwarded, 1, A) = SubSeq(given, 1, A)
    <3>1. /\ SubSeq(forwarded, 1, A) = [i \in 1..A |-> forwarded[i]]
          /\ SubSeq(given, 1, A) = [i \in 1..A |-> given[i]]
      BY <2>1, <2>3
    <3> QED
      BY <2>4, <3>1
  <2>6. IsPrefix(forwarded, given)
    BY <2>1, <2>3, <2>5 DEF IsPrefix
  <2>7. state = "tcp_closed" => forwarded = given
    <3> SUFFICES ASSUME state = "tcp_closed" PROVE forwarded = given
      OBVIOUS
    <3>1. Len(given) = A
      BY DEF InOrderInv, InOrder, Forwarded
    <3> QED
      BY <2>1, <2>3, <2>4, <3>1, SeqEqual
  <2> QED
    BY <2>6, <2>7 DEF ForwardedInOrder, forwarded
<1> QED
  BY <1>1, InOrderInvariant, PTL

-----------------------------------------------------------------------------
(***************************************************************************)
(* The callers                                                             *)
(***************************************************************************)
\* The requests whose answer was forwarded.
Handed == {answers[i].of : i \in 1..Len(answers)}

Has(messages, kind, r) ==
  \E i \in 1..Len(messages) : messages[i].kind = kind /\ messages[i].req = r
NoDown(messages) == \A i \in 1..Len(messages) : messages[i].kind # "down"
DownsLast(messages) ==
  \A i, j \in 1..Len(messages) : i < j /\ messages[i].kind = "down" => messages[j].kind = "down"

LEMMA AppendBox ==
  ASSUME NEW s \in Seq(Boxed), NEW m \in Boxed
  PROVE  /\ \A kind, r : Has(s, kind, r) => Has(Append(s, m), kind, r)
         /\ Has(Append(s, m), m.kind, m.req)
         /\ NoDown(s) /\ m.kind # "down" => NoDown(Append(s, m))
         /\ DownsLast(s) /\ (NoDown(s) \/ m.kind = "down") => DownsLast(Append(s, m))
<1>1. /\ Len(s) \in Nat
      /\ Len(Append(s, m)) = Len(s) + 1
      /\ \A i \in 1..Len(s) : Append(s, m)[i] = s[i]
      /\ Append(s, m)[Len(s) + 1] = m
  BY AppendProperties, LenProperties
<1>2. 1..(Len(s) + 1) = 1..Len(s) \cup {Len(s) + 1}
  BY <1>1
<1>3. \A kind, r : Has(s, kind, r) => Has(Append(s, m), kind, r)
  BY <1>1, <1>2 DEF Has
<1>4. Has(Append(s, m), m.kind, m.req)
  BY <1>1, <1>2 DEF Has
<1>5. NoDown(s) /\ m.kind # "down" => NoDown(Append(s, m))
  BY <1>1, <1>2 DEF NoDown
<1>6. DownsLast(s) /\ (NoDown(s) \/ m.kind = "down") => DownsLast(Append(s, m))
  BY <1>1, <1>2 DEF DownsLast, NoDown
<1> QED
  BY <1>3, <1>4, <1>5, <1>6

LEMMA RemoveBox ==
  ASSUME NEW s \in Seq(Boxed), NEW k \in 1..Len(s)
  PROVE  /\ RemoveAt(s, k) \in Seq(Boxed)
         /\ \A kind, r : Has(s, kind, r) /\ s[k].kind # kind => Has(RemoveAt(s, k), kind, r)
         /\ NoDown(s) => NoDown(RemoveAt(s, k))
         /\ DownsLast(s) => DownsLast(RemoveAt(s, k))
<1> DEFINE t == RemoveAt(s, k)
<1>1. /\ t \in Seq(Boxed) /\ Len(t) = Len(s) - 1 /\ Len(s) \in Nat
      /\ \A i \in 1..(Len(s) - 1) : t[i] = IF i < k THEN s[i] ELSE s[i + 1]
  BY RemoveAtProperties, LenProperties
<1> HIDE DEF t
<1>2. \A i \in 1..Len(t) : \E j \in 1..Len(s) : j = (IF i < k THEN i ELSE i + 1) /\ t[i] = s[j]
  BY <1>1
<1>3. ASSUME NEW kind, NEW r, Has(s, kind, r), s[k].kind # kind
      PROVE  Has(t, kind, r)
  <2>1. PICK i \in 1..Len(s) : s[i].kind = kind /\ s[i].req = r
    BY <1>3 DEF Has
  <2>2. i # k
    BY <1>3, <2>1
  <2>3. CASE i < k
    <3>1. i \in 1..Len(t) /\ t[i] = s[i]
      BY <1>1, <2>3
    <3> QED
      BY <2>1, <3>1 DEF Has
  <2>4. CASE i > k
    <3>1. i - 1 \in 1..Len(t) /\ t[i - 1] = s[i]
      BY <1>1, <2>4
    <3> QED
      BY <2>1, <3>1 DEF Has
  <2> QED
    BY <2>2, <2>3, <2>4
<1>4. NoDown(s) => NoDown(t)
  BY <1>2 DEF NoDown
<1>5. DownsLast(s) => DownsLast(t)
  <2> SUFFICES ASSUME DownsLast(s), NEW i \in 1..Len(t), NEW j \in 1..Len(t), i < j,
                      t[i].kind = "down"
               PROVE  t[j].kind = "down"
    BY DEF DownsLast
  <2>1. PICK a \in 1..Len(s) : a = (IF i < k THEN i ELSE i + 1) /\ t[i] = s[a]
    BY <1>2
  <2>2. PICK b \in 1..Len(s) : b = (IF j < k THEN j ELSE j + 1) /\ t[j] = s[b]
    BY <1>2
  <2>3. a < b
    BY <2>1, <2>2
  <2> QED
    BY <2>1, <2>2, <2>3 DEF DownsLast
<1> QED
  BY <1>1, <1>3, <1>4, <1>5 DEF t

\* The flush takes the reply and a DOWN, nothing else.
LEMMA FlushedBox ==
  ASSUME Typed, NEW c \in Callers, NEW k \in 1..Len(box[c])
  PROVE  /\ Flushed(c, k) \in Seq(Boxed)
         /\ \A r : Has(box[c], "msg", r) /\ box[c][k].kind # "msg" => Has(Flushed(c, k), "msg", r)
         /\ NoDown(box[c]) => NoDown(Flushed(c, k))
         /\ DownsLast(box[c]) => DownsLast(Flushed(c, k))
<1> DEFINE rest == RemoveAt(box[c], k)
<1>1. /\ rest \in Seq(Boxed)
      /\ \A r : Has(box[c], "msg", r) /\ box[c][k].kind # "msg" => Has(rest, "msg", r)
      /\ NoDown(box[c]) => NoDown(rest)
      /\ DownsLast(box[c]) => DownsLast(rest)
  BY RemoveBox DEF Typed, TypedCallers
<1>2. Flushed(c, k) = IF Downs(rest) = {} THEN rest ELSE RemoveAt(rest, Min(Downs(rest)))
  BY DEF Flushed
<1> HIDE DEF rest
<1>3. CASE Downs(rest) = {}
  BY <1>1, <1>2, <1>3
<1>4. CASE Downs(rest) # {}
  <2>1. Downs(rest) \in SUBSET Nat /\ Downs(rest) \subseteq 1..Len(rest)
    BY <1>1, LenProperties DEF Downs
  <2>2. Min(Downs(rest)) \in Downs(rest)
    BY <1>4, <2>1, MinOfNats
  <2>3. Min(Downs(rest)) \in 1..Len(rest) /\ rest[Min(Downs(rest))].kind = "down"
    BY <2>1, <2>2 DEF Downs
  <2> QED
    BY <1>1, <1>2, <1>4, <2>3, RemoveBox
<1> QED
  BY <1>3, <1>4

\* What a caller that is in a call can rely on.
Calling ==
  /\ \A c \in Callers : pc[c] # "idle" =>
       /\ current[c] \in 1..Len(request)
       /\ request[current[c]].caller = c
       /\ request[current[c]].mode # "cast"
  /\ \A c \in Callers : pc[c] = "calling" /\ current[c] \in Sent \cup Handed =>
       Has(box[c], "reply", current[c])
  /\ \A c \in Callers : pc[c] # "idle" /\ current[c] \in Handed => Has(box[c], "msg", current[c])

\* A caller hears of the end after all else; whom request_sync/3 told so gets
\* no answer any more.
DownIsLast ==
  /\ Up => \A c \in Callers : NoDown(box[c])
  /\ \A c \in Callers : DownsLast(box[c])
  /\ \A r \in Requests : outcome[r] = "down" => ~Up /\ r \notin Handed

Called == Calling /\ DownIsLast

LEMMA CalledInit == Init => Called
<1> SUFFICES ASSUME Init PROVE Called
  OBVIOUS
<1>1. \A c \in Callers : box[c] = <<>> /\ pc[c] = "idle"
  BY DEF Init
<1>2. \A c \in Callers : Len(box[c]) = 0
  BY <1>1, EmptySeq
<1>3. \A r \in Requests : outcome[r] # "down"
  BY DEF Init
<1> QED
  BY <1>1, <1>2, <1>3 DEF Called, Calling, DownIsLast, NoDown, DownsLast

\* Steps that tell the callers nothing.
LEMMA CalledStays ==
  ASSUME Typed, Called, UNCHANGED <<state, pc, current, request, box, answers, outcome>>,
         Sent' \subseteq Sent
  PROVE  Called'
<1>1. Handed' = Handed
  BY DEF Handed
<1>2. Up' <=> Up
  BY DEF Up
<1> QED
  BY <1>1, <1>2 DEF Called, Calling, DownIsLast

LEMMA ExitCalled ==
  ASSUME Typed, Typed', Called, Up, NEW reason, reason # "up",
         NEW boxes \in [Callers -> Seq(Boxed)], Exit(reason, boxes), UNCHANGED history,
         \A c \in Callers : \A kind, r : Has(box[c], kind, r) => Has(boxes[c], kind, r),
         \A c \in Callers : NoDown(boxes[c])
  PROVE  Called'
<1>1. /\ ~Up' /\ Sent' = {} /\ Handed' = Handed
      /\ UNCHANGED <<pc, current, request, outcome>>
  <2>1. state' = reason /\ sent' = <<>>
    BY DEF Exit
  <2>2. DOMAIN sent' = {}
    BY <2>1, EmptyTyped
  <2> QED
    BY <2>1, <2>2 DEF Exit, Up, Sent, Handed, client, history
<1>2. \A c \in Callers : DownsLast(boxes[c])
  BY DEF DownsLast, NoDown
<1>3. ASSUME NEW c \in Callers
      PROVE  /\ DownsLast(box'[c])
             /\ \A kind, r : Has(box[c], kind, r) => Has(box'[c], kind, r)
  <2>1. Down(current[c]) \in Boxed /\ Down(current[c]).kind = "down"
    BY DEF Down, Boxed, Typed, TypedCallers
  <2>2. box'[c] = boxes[c] \/ box'[c] = Append(boxes[c], Down(current[c]))
    BY DEF Exit
  <2> QED
    BY <1>2, <2>1, <2>2, AppendBox
<1>4. \A r \in Requests : outcome[r] # "down"
  BY DEF Called, DownIsLast
<1>5. Calling'
  BY <1>1, <1>3 DEF Called, Calling
<1>6. DownIsLast'
  BY <1>1, <1>3, <1>4 DEF DownIsLast
<1> QED
  BY <1>5, <1>6 DEF Called

\* The end of the process, but for {stop, From}, adds nothing else.
LEMMA ExitBoxCalled ==
  ASSUME Typed, Typed', Called, Up, NEW reason, reason # "up", Exit(reason, box), UNCHANGED history
  PROVE  Called'
  BY ExitCalled DEF Typed, TypedCallers, Called, DownIsLast

\* Something other than DOWN is sent to one caller.
LEMMA PostedCalled ==
  ASSUME Typed, Called, NEW c \in Callers, NEW m \in Boxed, m.kind # "down", Up,
         box' = [box EXCEPT ![c] = Append(@, m)]
  PROVE  /\ \A d \in Callers : /\ NoDown(box'[d]) /\ DownsLast(box'[d])
                               /\ \A kind, r : Has(box[d], kind, r) => Has(box'[d], kind, r)
         /\ Has(box'[c], m.kind, m.req)
<1>1. /\ \A d \in Callers : d # c => box'[d] = box[d]
      /\ box'[c] = Append(box[c], m)
      /\ box[c] \in Seq(Boxed)
  BY DEF Typed, TypedCallers
<1> QED
  BY <1>1, AppendBox DEF Called, DownIsLast

LEMMA CallerOf ==
  ASSUME Typed, NEW r \in 1..Len(request)
  PROVE  request[r].caller \in Callers
<1>1. request[r] \in [caller : Callers, mode : ModeNames]
  BY ElementOfSeq DEF Typed, TypedCallers
<1> QED
  BY <1>1

LEMMA SendOkCalled ==
  ASSUME Typed, Typed', Called, Up, NEW r \in 1..Len(request), SendOk(r), corr_id \notin DOMAIN sent
  PROVE  Called'
<1>1. UNCHANGED <<state, pc, current, request, answers, outcome>>
  BY DEF SendOk, client, history
<1>2. Sent' \subseteq Sent \cup {r}
  BY DEF SendOk, With, Sent
<1>3. Handed' = Handed /\ (Up' <=> Up)
  BY <1>1 DEF Handed, Up
<1>4. /\ \A c \in Callers : /\ NoDown(box'[c]) /\ DownsLast(box'[c])
                            /\ \A kind, q : Has(box[c], kind, q) => Has(box'[c], kind, q)
      /\ request[r].mode # "cast" => Has(box'[request[r].caller], "reply", r)
  <2> DEFINE m == [kind |-> "reply", req |-> r]
             c == request[r].caller
  <2>1. m \in Boxed /\ m.kind = "reply" /\ m.req = r
    BY MadeCount DEF Boxed
  <2>2. c \in Callers
    BY CallerOf
  <2>3. CASE request[r].mode = "cast"
    <3>1. box' = box
      BY <2>3 DEF SendOk
    <3> QED
      BY <2>3, <3>1 DEF Called, DownIsLast
  <2>4. CASE request[r].mode # "cast"
    <3>1. box' = [box EXCEPT ![c] = Append(@, m)]
      BY <2>4 DEF SendOk, Reply
    <3> HIDE DEF m, c
    <3>2. /\ \A d \in Callers : /\ NoDown(box'[d]) /\ DownsLast(box'[d])
                                /\ \A kind, q : Has(box[d], kind, q) => Has(box'[d], kind, q)
          /\ Has(box'[c], m.kind, m.req)
      BY <2>1, <2>2, <3>1, PostedCalled
    <3> QED
      BY <2>1, <3>2 DEF c
  <2> QED
    BY <2>3, <2>4
<1>5. \A c \in Callers : pc[c] = "calling" /\ current[c] \in Sent \cup {r} \cup Handed =>
        Has(box'[c], "reply", current[c])
  BY <1>4 DEF Called, Calling
<1>6. Calling'
  BY <1>1, <1>2, <1>3, <1>4, <1>5 DEF Called, Calling
<1>7. DownIsLast'
  BY <1>1, <1>3, <1>4 DEF Called, DownIsLast
<1> QED
  BY <1>6, <1>7 DEF Called

LEMMA SendCalled ==
  ASSUME Typed, Typed', Numbered, Called, HandleSend \/ WriteReturns
  PROVE  Called'
<1>1. CASE HandleSend
  <2> DEFINE r == Head(mailbox).req
  <2>1. r \in Unsent /\ Up
    BY <1>1, HeadUnsent DEF HandleSend, Receives
  <2>2. r \in 1..Len(request) /\ corr_id \notin DOMAIN sent
    BY <2>1, NextIdFree DEF Numbered, OnlyMade
  <2> HIDE DEF r
  <2>3. CASE SendOk(r)
    BY <2>1, <2>2, <2>3, SendOkCalled
  <2>4. CASE Exit("send_error", box) /\ UNCHANGED history
    BY <2>1, <2>4, ExitBoxCalled
  <2>5. CASE UNCHANGED <<state, corr_id, sent, timer, checker, net, client, box, history, clock>>
    BY <2>5, CalledStays DEF client, history, Sent
  <2> QED
    BY <1>1, <2>3, <2>4, <2>5 DEF HandleSend, r
<1>2. CASE WriteReturns
  <2>1. sending \in Unsent /\ Up
    BY <1>2 DEF WriteReturns, Busy, Unsent
  <2>2. sending \in 1..Len(request) /\ corr_id \notin DOMAIN sent
    BY <2>1, NextIdFree DEF Numbered, OnlyMade
  <2>3. CASE SendOk(sending)
    BY <2>1, <2>2, <2>3, SendOkCalled
  <2>4. CASE Exit("send_error", box) /\ UNCHANGED history
    BY <2>1, <2>4, ExitBoxCalled
  <2> QED
    BY <1>2, <2>3, <2>4 DEF WriteReturns
<1> QED
  BY <1>1, <1>2

\* The caller of the request gets the answer, if it is in a call.
LEMMA ResponseCalled ==
  ASSUME Typed, Typed', Numbered, Ended, InOrder, Called, HandleResponse
  PROVE  Called'
<1> DEFINE m == Head(mailbox)
           r == m.of
           c == request[r].caller
<1>1. mailbox # <<>> /\ m.kind = "data" /\ Up
  BY DEF HandleResponse, Receives
<1>2. IsPacket(m) /\ m \in Delivered(mailbox)
  BY <1>1, TailDelivered DEF IsPacket, InOrder, Queued, Typed, TypedProc
<1>3. m.id \in DOMAIN sent /\ sent[m.id] = r
  BY <1>1, <1>2 DEF InOrder, Queued, IsAnswer, Known
<1>4. /\ box' = Message(c, r)
      /\ answers' = Append(answers, [to |-> c, req |-> r, of |-> r])
      /\ sent' = Without(sent, m.id)
      /\ UNCHANGED <<state, pc, current, request, outcome>>
  BY <1>3 DEF HandleResponse, Cast, client
<1>5. r \in Sent /\ r \in 1..Len(request) /\ r \in Requests
  BY <1>3, MadeCount DEF Sent, Numbered, OnlyMade
<1>6. c \in Callers
  BY <1>5, CallerOf
<1> HIDE DEF m, r, c
<1>7. Handed' = Handed \cup {r}
  <2> DEFINE x == [to |-> c, req |-> r, of |-> r]
  <2>1. x \in [to : Callers, req : Requests, of : Requests] /\ x.of = r
    BY <1>5, <1>6
  <2> HIDE DEF x
  <2>2. /\ Len(answers) \in Nat
        /\ Len(Append(answers, x)) = Len(answers) + 1
        /\ \A i \in 1..Len(answers) : Append(answers, x)[i] = answers[i]
        /\ Append(answers, x)[Len(answers) + 1] = x
    BY <2>1, AppendProperties, LenProperties DEF Typed, TypedCallers
  <2>3. 1..(Len(answers) + 1) = 1..Len(answers) \cup {Len(answers) + 1}
    BY <2>2
  <2>4. answers' = Append(answers, x)
    BY <1>4 DEF x
  <2> QED
    BY <2>1, <2>2, <2>3, <2>4 DEF Handed
<1>8. Sent' \subseteq Sent /\ Up'
  BY <1>1, <1>4 DEF Sent, Without, Up
<1>9. /\ \A d \in Callers : /\ NoDown(box'[d]) /\ DownsLast(box'[d])
                            /\ \A kind, q : Has(box[d], kind, q) => Has(box'[d], kind, q)
      /\ pc[c] # "idle" => Has(box'[c], "msg", r)
  <2>1. CASE pc[c] = "idle"
    <3>1. box' = box
      BY <1>4, <2>1 DEF Message
    <3> QED
      BY <1>1, <2>1, <3>1 DEF Called, DownIsLast
  <2>2. CASE pc[c] # "idle"
    <3> DEFINE x == [kind |-> "msg", req |-> r]
    <3>1. box' = [box EXCEPT ![c] = Append(@, x)] /\ x \in Boxed /\ x.kind = "msg" /\ x.req = r
      BY <1>4, <1>5, <2>2 DEF Message, Boxed
    <3> HIDE DEF x
    <3>2. /\ \A d \in Callers : /\ NoDown(box'[d]) /\ DownsLast(box'[d])
                                /\ \A kind, q : Has(box[d], kind, q) => Has(box'[d], kind, q)
          /\ Has(box'[c], x.kind, x.req)
      BY <1>1, <1>6, <3>1, PostedCalled
    <3> QED
      BY <3>1, <3>2
  <2> QED
    BY <2>1, <2>2
<1>10. \A d \in Callers : pc[d] # "idle" /\ current[d] = r => d = c
  BY DEF Called, Calling, c
<1>11. Calling'
  BY <1>4, <1>5, <1>7, <1>8, <1>9, <1>10 DEF Called, Calling
<1>12. DownIsLast'
  BY <1>1, <1>4, <1>8, <1>9 DEF Called, DownIsLast
<1> QED
  BY <1>11, <1>12 DEF Called

LEMMA StopCalled ==
  ASSUME Typed, Typed', Called, HandleStop
  PROVE  Called'
<1> DEFINE c == Head(mailbox).from
           m == [kind |-> "reply", req |-> current[c]]
           boxes == [box EXCEPT ![c] = Append(@, m)]
<1>1. Up /\ mailbox # <<>> /\ Head(mailbox).kind = "stop" /\ UNCHANGED history
      /\ Exit("stopped", boxes)
  BY DEF HandleStop, Receives, Reply
<1>2. c \in Callers
  <2>1. Head(mailbox) \in StopMsgs
    BY <1>1, TakeTyped, Kinds
  <2> QED
    BY <2>1 DEF StopMsgs
<1>3. m \in Boxed /\ m.kind # "down"
  BY <1>2 DEF Boxed, Typed, TypedCallers
<1> HIDE DEF c, m
<1>4. boxes \in [Callers -> Seq(Boxed)]
  BY <1>2, <1>3, AppendProperties DEF Typed, TypedCallers
<1>5. \A d \in Callers : /\ NoDown(boxes[d])
                         /\ \A kind, r : Has(box[d], kind, r) => Has(boxes[d], kind, r)
  <2>1. /\ \A d \in Callers : d # c => boxes[d] = box[d]
        /\ boxes[c] = Append(box[c], m)
        /\ box[c] \in Seq(Boxed)
    BY <1>2 DEF Typed, TypedCallers
  <2> QED
    BY <1>1, <1>3, <2>1, AppendBox DEF Called, DownIsLast
<1> HIDE DEF boxes
<1> QED
  BY <1>1, <1>4, <1>5, ExitCalled

LEMMA OtherCalled ==
  ASSUME Typed, Typed', Called,
         \/ HandleSocketEnd \/ HandleAssertMaxReqAge \/ CheckAges \/ ParentExits
         \/ Tick \/ Jump \/ BrokerAnswers \/ PeerEnds
  PROVE  Called'
<1>1. CASE HandleSocketEnd \/ ParentExits
  BY <1>1, ExitBoxCalled DEF HandleSocketEnd, ParentExits, Receives
<1>2. CASE CheckAges
  <2>1. CASE Exit("request_timeout", box)
    BY <1>2, <2>1, ExitBoxCalled DEF CheckAges
  <2>2. CASE ~Exit("request_timeout", box)
    BY <1>2, <2>2, CalledStays DEF CheckAges, client, history, Sent
  <2> QED
    BY <2>1, <2>2
<1>3. CASE HandleAssertMaxReqAge \/ Tick \/ Jump \/ BrokerAnswers \/ PeerEnds
  <2>1. UNCHANGED <<state, sent, pc, current, request, box, answers, outcome>>
    BY <1>3 DEF HandleAssertMaxReqAge, Tick, Jump, BrokerAnswers, PeerEnds, proc, client, history
  <2> QED
    BY <2>1, CalledStays DEF Sent
<1> QED
  BY <1>1, <1>2, <1>3

LEMMA RequestCalled ==
  ASSUME Typed, Typed', Numbered, InOrder, Called, NEW c \in Callers, NEW mode \in Modes[c],
         Request(c, mode)
  PROVE  Called'
<1> DEFINE r == Len(request) + 1
           waits == mode # "cast"
<1>1. /\ Len(request) \in Nat /\ Cardinality(Made) = Len(request)
      /\ request' = Append(request, [caller |-> c, mode |-> mode])
      /\ Len(request') = Len(request) + 1
      /\ \A k \in 1..Len(request) : request'[k] = request[k]
      /\ request'[Len(request) + 1] = [caller |-> c, mode |-> mode]
  <2>1. /\ request' = Append(request, [caller |-> c, mode |-> mode])
        /\ [caller |-> c, mode |-> mode] \in [caller : Callers, mode : ModeNames]
    BY ConnectionAssumption DEF Request
  <2> QED
    BY <2>1, MadeCount, AppendProperties DEF Typed, TypedCallers
<1>2. /\ pc' = IF waits THEN [pc EXCEPT ![c] = "calling"] ELSE pc
      /\ current' = IF waits THEN [current EXCEPT ![c] = r] ELSE current
      /\ box' = IF waits /\ ~Up THEN [box EXCEPT ![c] = Append(@, Down(r))] ELSE box
      /\ UNCHANGED <<state, sent, answers, outcome>>
  BY <1>1 DEF Request, history
<1>3. Sent' = Sent /\ Handed' = Handed /\ (Up' <=> Up)
  BY <1>2 DEF Sent, Handed, Up
<1>4. r \notin Sent \cup Handed
  <2>1. Handed \subseteq 1..Len(request)
    BY AnsweredFirst DEF Handed, InOrder, Forwarded, Apart
  <2> QED
    BY <1>1, <2>1 DEF Numbered, OnlyMade
<1>5. \A d \in Callers : /\ DownsLast(box'[d]) /\ (Up => NoDown(box'[d]))
                         /\ \A kind, q : Has(box[d], kind, q) => Has(box'[d], kind, q)
  <2>1. CASE box' = box
    BY <2>1 DEF Called, DownIsLast
  <2>2. CASE box' # box
    <3>1. r \in Requests
      BY <1>1 DEF Request, Requests
    <3>2. Down(r) \in Boxed /\ Down(r).kind = "down"
      BY <3>1 DEF Down, Boxed
    <3>3. /\ ~Up /\ \A d \in Callers : d # c => box'[d] = box[d]
          /\ box'[c] = Append(box[c], Down(r)) /\ box[c] \in Seq(Boxed)
      BY <1>2, <2>2 DEF Typed, TypedCallers
    <3> QED
      BY <3>2, <3>3, AppendBox DEF Called, DownIsLast
  <2> QED
    BY <2>1, <2>2
<1>6. \A d \in Callers : \/ d # c /\ pc'[d] = pc[d] /\ current'[d] = current[d]
                         \/ d = c /\ waits /\ current'[d] = r
                         \/ d = c /\ ~waits /\ pc'[d] = pc[d] /\ current'[d] = current[d]
  BY <1>2 DEF Typed, TypedProc, TypeOK, TypedCallers
<1>7. 1..Len(request) \subseteq 1..Len(request') /\ r \in 1..Len(request')
  BY <1>1
<1>8. Calling'
  <2>1. \A d \in Callers : pc'[d] # "idle" => /\ current'[d] \in 1..Len(request')
                                              /\ request'[current'[d]].caller = d
                                              /\ request'[current'[d]].mode # "cast"
    BY <1>1, <1>6, <1>7 DEF Called, Calling
  <2>2. \A d \in Callers : pc'[d] = "calling" /\ current'[d] \in Sent \cup Handed =>
          Has(box'[d], "reply", current'[d])
    BY <1>4, <1>5, <1>6 DEF Called, Calling
  <2>3. \A d \in Callers : pc'[d] # "idle" /\ current'[d] \in Handed =>
          Has(box'[d], "msg", current'[d])
    BY <1>4, <1>5, <1>6 DEF Called, Calling
  <2> QED
    BY <1>3, <2>1, <2>2, <2>3 DEF Calling
<1>9. DownIsLast'
  BY <1>2, <1>3, <1>5 DEF Called, DownIsLast
<1> QED
  BY <1>8, <1>9 DEF Called

\* The first message a receive takes is DOWN: the other one did not come.
LEMMA DownFirst ==
  ASSUME Typed, Called, NEW c \in Callers, NEW kind \in {"reply", "msg"},
         Awaited(c, {kind, "down"}) # {},
         box[c][First(c, {kind, "down"})].kind = "down"
  PROVE  ~Up /\ ~Has(box[c], kind, current[c])
<1> DEFINE i == First(c, {kind, "down"})
<1>1. /\ i \in 1..Len(box[c])
      /\ \A k \in 1..(i - 1) : ~(box[c][k].kind \in {kind, "down"} /\ box[c][k].req = current[c])
  BY FirstAwaited
<1> HIDE DEF i
<1>2. ~Up
  BY <1>1 DEF Called, DownIsLast, NoDown, i
<1>3. ASSUME NEW k \in 1..Len(box[c]), box[c][k].kind = kind, box[c][k].req = current[c]
      PROVE  FALSE
  <2>1. ~(k \in 1..(i - 1)) /\ k # i
    BY <1>1, <1>3 DEF i
  <2>2. i < k
    BY <1>1, <2>1
  <2> QED
    BY <1>1, <1>3, <2>2 DEF Called, DownIsLast, DownsLast, i
<1> QED
  BY <1>2, <1>3 DEF Has

\* A caller goes back to its own loop.
LEMMA IdleCalled ==
  ASSUME Typed, Called, NEW c \in Callers, Idle(c),
         UNCHANGED <<state, sent, request, answers>>,
         \A r \in Requests : outcome'[r] = "down" => ~Up /\ r \notin Handed
  PROVE  Called'
<1>1. Sent' = Sent /\ Handed' = Handed /\ (Up' <=> Up)
  BY DEF Sent, Handed, Up
<1>2. \A d \in Callers : \/ d # c /\ pc'[d] = pc[d] /\ current'[d] = current[d]
                            /\ box'[d] = box[d]
                         \/ d = c /\ pc'[d] = "idle" /\ box'[d] = <<>>
  BY DEF Idle, Typed, TypedProc, TypeOK, TypedCallers
<1>3. NoDown(<<>>) /\ DownsLast(<<>>)
  BY EmptySeq DEF NoDown, DownsLast
<1>4. Calling'
  BY <1>1, <1>2 DEF Called, Calling
<1>5. DownIsLast'
  BY <1>1, <1>2, <1>3 DEF Called, DownIsLast
<1> QED
  BY <1>4, <1>5 DEF Called

LEMMA CallerCalled ==
  ASSUME Typed, Typed', InOrder, Called, NEW c \in Callers,
         CallReturns(c) \/ WaitReturns(c) \/ WaitTimesOut(c)
  PROVE  Called'
<1>1. UNCHANGED <<state, sent, request, answers>>
  BY DEF CallReturns, WaitReturns, WaitTimesOut, proc
<1>2. \A r \in Requests : outcome[r] = "down" => ~Up /\ r \notin Handed
  BY DEF Called, DownIsLast
<1>3. CASE CallReturns(c)
  <2> DEFINE i == First(c, {"reply", "down"})
             ok == box[c][i].kind = "reply"
             sync == request[current[c]].mode = "sync"
  <2>1. Awaited(c, {"reply", "down"}) # {} /\ pc[c] = "calling"
    BY <1>3 DEF CallReturns
  <2>2. i \in 1..Len(box[c]) /\ box[c][i].kind \in {"reply", "down"}
    BY <2>1, FirstAwaited
  <2>3. CASE ok /\ sync
    <3>1. /\ pc' = [pc EXCEPT ![c] = "waiting"]
          /\ box' = [box EXCEPT ![c] = IF Up THEN Flushed(c, i)
                                       ELSE Append(Flushed(c, i), Down(current[c]))]
          /\ UNCHANGED <<current, outcome>>
      BY <1>3, <2>3 DEF CallReturns
    <3> HIDE DEF i
    <3>2. /\ Flushed(c, i) \in Seq(Boxed)
          /\ \A r : Has(box[c], "msg", r) => Has(Flushed(c, i), "msg", r)
          /\ Up => NoDown(Flushed(c, i))
          /\ DownsLast(Flushed(c, i))
      BY <2>2, <2>3, FlushedBox DEF Called, DownIsLast
    <3>3. Down(current[c]) \in Boxed /\ Down(current[c]).kind = "down"
      BY DEF Down, Boxed, Typed, TypedCallers
    <3>4. \A d \in Callers : d # c => box'[d] = box[d] /\ pc'[d] = pc[d]
      BY <3>1
    <3>5. /\ box'[c] = IF Up THEN Flushed(c, i) ELSE Append(Flushed(c, i), Down(current[c]))
          /\ pc'[c] = "waiting"
      BY <3>1 DEF Typed, TypedProc, TypeOK, TypedCallers
    <3>6. /\ \A r : Has(box[c], "msg", r) => Has(box'[c], "msg", r)
          /\ Up => NoDown(box'[c])
          /\ DownsLast(box'[c])
      BY <3>2, <3>3, <3>5, AppendBox
    <3>7. Sent' = Sent /\ Handed' = Handed /\ (Up' <=> Up)
      BY <1>1 DEF Sent, Handed, Up
    <3>8. Calling'
      BY <1>1, <2>1, <3>1, <3>4, <3>5, <3>6, <3>7 DEF Called, Calling
    <3>9. DownIsLast'
      BY <3>1, <3>4, <3>6, <3>7 DEF Called, DownIsLast
    <3> QED
      BY <3>8, <3>9 DEF Called
  <2>4. CASE ~(ok /\ sync)
    <3>1. /\ Idle(c)
          /\ outcome' = IF ok \/ ~sync THEN outcome ELSE [outcome EXCEPT ![current[c]] = "down"]
      BY <1>3, <2>4 DEF CallReturns
    <3>2. ~ok => ~Up /\ current[c] \notin Handed
      <4> SUFFICES ASSUME ~ok PROVE ~Up /\ current[c] \notin Handed
        OBVIOUS
      <4>1. ~Up /\ ~Has(box[c], "reply", current[c])
        BY <2>1, <2>2, DownFirst
      <4> QED
        BY <2>1, <4>1 DEF Called, Calling
    <3> HIDE DEF i, ok, sync
    <3>3. \A r \in Requests : outcome'[r] = "down" => ~Up /\ r \notin Handed
      BY <1>2, <3>1, <3>2 DEF Typed, TypedCallers
    <3> QED
      BY <1>1, <3>1, <3>3, IdleCalled
  <2> QED
    BY <2>3, <2>4
<1>4. CASE WaitReturns(c)
  <2> DEFINE i == First(c, {"msg", "down"})
  <2>1. /\ Awaited(c, {"msg", "down"}) # {} /\ pc[c] = "waiting" /\ Idle(c)
        /\ outcome' = [outcome EXCEPT ![current[c]] = box[c][i].kind]
    BY <1>4 DEF WaitReturns
  <2>2. box[c][i].kind = "down" => ~Up /\ current[c] \notin Handed
    <3> SUFFICES ASSUME box[c][i].kind = "down" PROVE ~Up /\ current[c] \notin Handed
      OBVIOUS
    <3>1. ~Up /\ ~Has(box[c], "msg", current[c])
      BY <2>1, DownFirst
    <3> QED
      BY <2>1, <3>1 DEF Called, Calling
  <2> HIDE DEF i
  <2>3. \A r \in Requests : outcome'[r] = "down" => ~Up /\ r \notin Handed
    BY <1>2, <2>1, <2>2 DEF Typed, TypedCallers
  <2> QED
    BY <1>1, <2>1, <2>3, IdleCalled
<1>5. CASE WaitTimesOut(c)
  <2>1. Idle(c) /\ outcome' = [outcome EXCEPT ![current[c]] = "timeout"]
    BY <1>5 DEF WaitTimesOut
  <2>2. \A r \in Requests : outcome'[r] = "down" => ~Up /\ r \notin Handed
    BY <1>2, <2>1 DEF Typed, TypedCallers
  <2> QED
    BY <1>1, <2>1, <2>2, IdleCalled
<1> QED
  BY <1>3, <1>4, <1>5

LEMMA CalledStep ==
  ASSUME InOrderInv, InOrderInv', Called, [Next]_vars
  PROVE  Called'
<1> USE DEF InOrderInv, Numbering
<1>1. CASE UNCHANGED vars
  BY <1>1, CalledStays DEF vars, proc, client, history, Sent
<1> QED
  BY <1>1, SendCalled, ResponseCalled, StopCalled, OtherCalled, RequestCalled, CallerCalled
    DEF Next, Handle, Receive

-----------------------------------------------------------------------------
AnswersInv == InOrderInv /\ Called

LEMMA AnswersInvariant == Spec => []AnswersInv
<1>1. Init => AnswersInv
  BY TypedInit, NumberedInit, InOrderInit, CalledInit DEF AnswersInv, InOrderInv, Numbering
<1>2. AnswersInv /\ [Next]_vars => AnswersInv'
  <2> SUFFICES ASSUME AnswersInv, [Next]_vars PROVE AnswersInv'
    OBVIOUS
  <2>1. Numbering'
    BY TypedStep, NumberedStep, EndedStep DEF AnswersInv, InOrderInv, Numbering, Numbered
  <2>2. InOrderInv'
    BY <2>1, InOrderStep DEF AnswersInv, InOrderInv
  <2> QED
    BY <2>2, CalledStep DEF AnswersInv
<1> QED
  BY <1>1, <1>2, PTL DEF Spec

\* Every answer goes to the process that made the request, under its
\* reference, however often the correlation ids have wrapped; no id is
\* unknown; and who was told that the connection is down gets no answer.
THEOREM AnswersMeetRequests == Spec => []AnswersMeetTheirRequests
<1>1. AnswersInv => AnswersMeetTheirRequests
  <2> SUFFICES ASSUME AnswersInv PROVE AnswersMeetTheirRequests
    OBVIOUS
  <2> USE DEF AnswersInv, InOrderInv, Numbering
  <2>1. DOMAIN answers = 1..Len(answers)
    BY LenProperties DEF Typed, TypedCallers
  <2>2. state # "badkey"
    BY DEF InOrder, Forwarded
  <2>3. ASSUME NEW i \in 1..Len(answers)
        PROVE  /\ answers[i].req = answers[i].of
               /\ answers[i].to = request[answers[i].of].caller
               /\ outcome[answers[i].of] # "down"
    <3>1. answers[i].of = given[i] /\ given[i] \in Answered
      BY AnsweredFirst DEF InOrder, Forwarded
    <3>2. answers[i].of \in Requests /\ answers[i].of \in Handed
      BY <3>1, MadeCount DEF InOrder, Apart, Handed
    <3> QED
      BY <3>2 DEF InOrder, Forwarded, Called, DownIsLast
  <2> QED
    BY <2>1, <2>2, <2>3 DEF AnswersMeetTheirRequests
<1> QED
  BY <1>1, AnswersInvariant, PTL

-----------------------------------------------------------------------------
(***************************************************************************)
(* The channel                                                             *)
(***************************************************************************)
LEMMA AnswersToOne ==
  ASSUME NEW ans \in Seq([to : Callers, req : Requests, of : Requests]), NEW r,
         \A i, j \in 1..Len(ans) : ans[i].req = ans[j].req => i = j
  PROVE  Cardinality({i \in DOMAIN ans : ans[i].req = r}) =
           IF \E i \in 1..Len(ans) : ans[i].req = r THEN 1 ELSE 0
<1>1. DOMAIN ans = 1..Len(ans)
  BY LenProperties
<1>2. CASE \E i \in 1..Len(ans) : ans[i].req = r
  <2>1. PICK i \in 1..Len(ans) : ans[i].req = r
    BY <1>2
  <2>2. {j \in DOMAIN ans : ans[j].req = r} = {i}
    BY <1>1, <2>1
  <2> QED
    BY <1>2, <2>2, FS_Singleton
<1>3. CASE ~\E i \in 1..Len(ans) : ans[i].req = r
  <2>1. {j \in DOMAIN ans : ans[j].req = r} = {}
    BY <1>1, <1>3
  <2> QED
    BY <1>3, <2>1, FS_EmptySet
<1> QED
  BY <1>2, <1>3

\* The status of a request, without the count.
StatusNow ==
  [r \in Requests |-> IF r \notin 1..Len(request) THEN "new"
                      ELSE IF r \in Handed THEN "answered"
                      ELSE IF Up THEN "pending" ELSE "lost"]

LEMMA AnsweredOnce ==
  ASSUME AnswersInv
  PROVE  /\ answers \in Seq([to : Callers, req : Requests, of : Requests])
         /\ DOMAIN request = 1..Len(request)
         /\ \A i, j \in 1..Len(answers) : answers[i].req = answers[j].req => i = j
         /\ \A i \in 1..Len(answers) : answers[i].req = answers[i].of
<1> USE DEF AnswersInv, InOrderInv, Numbering
<1>1. \A i \in 1..Len(answers) : answers[i].req = given[i] /\ i \in 1..Len(given)
  BY AnsweredFirst DEF InOrder, Forwarded
<1>2. \A i, j \in 1..Len(answers) : answers[i].req = answers[j].req => i = j
  BY <1>1 DEF InOrder, Apart
<1>3. DOMAIN request = 1..Len(request)
  BY LenProperties DEF Typed, TypedCallers
<1> QED
  BY <1>2, <1>3 DEF Typed, TypedCallers, InOrder, Forwarded

LEMMA StatusIs == AnswersInv => Status = StatusNow
<1> SUFFICES ASSUME AnswersInv PROVE Status = StatusNow
  OBVIOUS
<1>1. ASSUME NEW r \in Requests
      PROVE  AnswersTo(r) = IF r \in Handed THEN 1 ELSE 0
  <2>1. r \in Handed <=> \E i \in 1..Len(answers) : answers[i].req = r
    BY AnsweredOnce DEF Handed
  <2>2. AnswersTo(r) = IF \E i \in 1..Len(answers) : answers[i].req = r THEN 1 ELSE 0
    BY ZenonT(60), AnsweredOnce, AnswersToOne DEF AnswersTo
  <2> QED
    BY <2>1, <2>2
<1>2. ASSUME NEW r \in Requests
      PROVE  (CASE r \notin DOMAIN request -> "new"
                [] AnswersTo(r) > 1 -> "answered again"
                [] AnswersTo(r) = 1 -> "answered"
                [] OTHER -> IF Up THEN "pending" ELSE "lost") = StatusNow[r]
  <2>1. DOMAIN request = 1..Len(request)
    BY AnsweredOnce
  <2>2. AnswersTo(r) \in {0, 1} /\ (AnswersTo(r) = 1 <=> r \in Handed)
    BY <1>1
  <2>3. ~(AnswersTo(r) > 1)
    BY <2>2
  <2>4. r \notin 1..Len(request) => r \notin Handed
    BY AnsweredFirst DEF Handed, AnswersInv, InOrderInv, Numbering, InOrder, Forwarded, Apart
  <2>5. CASE r \notin 1..Len(request)
    BY <2>1, <2>2, <2>3, <2>4, <2>5 DEF StatusNow
  <2>6. CASE r \in 1..Len(request)
    BY <2>1, <2>2, <2>3, <2>6 DEF StatusNow
  <2> QED
    BY <2>5, <2>6
<1>3. StatusNow = [r \in Requests |-> StatusNow[r]]
  BY DEF StatusNow
<1> QED
  BY <1>2, <1>3 DEF Status

LEMMA ChannelInit == Init => Channel!Init
<1> SUFFICES ASSUME Init PROVE Channel!Init
  OBVIOUS
<1>1. AnswersInv
  BY TypedInit, NumberedInit, InOrderInit, CalledInit DEF AnswersInv, InOrderInv, Numbering
<1>2. Len(request) = 0 /\ Up = TRUE
  BY EmptySeq DEF Init, Up
<1>3. StatusNow = [r \in Requests |-> "new"]
  BY <1>2 DEF StatusNow
<1> QED
  BY <1>1, <1>2, <1>3, StatusIs DEF Channel!Init

\* The end of the process closes the channel.
LEMMA ExitCloses ==
  ASSUME StatusNow = Status, StatusNow' = Status', Up, NEW reason, reason # "up", NEW boxes,
         Exit(reason, boxes), UNCHANGED answers
  PROVE  Channel!Close
<1>1. ~Up' /\ UNCHANGED <<request, answers>>
  BY DEF Exit, Up, client
<1>2. Handed' = Handed
  BY <1>1 DEF Handed
<1>3. StatusNow' = [r \in Requests |-> IF StatusNow[r] = "pending" THEN "lost" ELSE StatusNow[r]]
  BY <1>1, <1>2 DEF StatusNow
<1>4. Up = TRUE /\ Up' = FALSE
  BY <1>1 DEF Up
<1> QED
  BY <1>3, <1>4 DEF Channel!Close

LEMMA RequestAsks ==
  ASSUME AnswersInv, StatusNow = Status, StatusNow' = Status',
         NEW c \in Callers, NEW mode \in Modes[c], Request(c, mode)
  PROVE  Channel!Next
<1> USE DEF AnswersInv, InOrderInv, Numbering
<1> DEFINE r == Len(request) + 1
<1>1. /\ Len(request) \in Nat /\ Cardinality(Made) = Len(request)
      /\ Len(request') = r /\ r \in Requests
      /\ UNCHANGED <<state, answers>>
  <2>1. request' = Append(request, [caller |-> c, mode |-> mode])
        /\ UNCHANGED <<state, answers>>
    BY DEF Request, history
  <2>2. r <= MaxReqs /\ Len(request) \in Nat /\ Cardinality(Made) = Len(request)
    BY MadeCount DEF Request
  <2> QED
    BY <2>1, <2>2, ConnectionAssumption, AppendProperties DEF Requests, Typed, TypedCallers
<1>2. Handed' = Handed /\ (Up' <=> Up) /\ Handed \subseteq 1..Len(request)
  <2>1. Handed' = Handed
    BY <1>1 DEF Handed
  <2>2. Up' <=> Up
    BY <1>1 DEF Up
  <2>3. \A i \in 1..Len(answers) : answers[i].of \in 1..Len(request)
    BY AnsweredFirst DEF InOrder, Forwarded, Apart
  <2> QED
    BY <2>1, <2>2, <2>3 DEF Handed
<1>3. \A q : q \in 1..Len(request') <=> q \in 1..Len(request) \/ q = r
  BY <1>1
<1>4. r \notin 1..Len(request)
  BY <1>1
<1> HIDE DEF r
<1>5. StatusNow[r] = "new"
  BY <1>1, <1>4 DEF StatusNow
<1>6. StatusNow' = [StatusNow EXCEPT ![r] = IF Up THEN "pending" ELSE "lost"]
  BY <1>1, <1>2, <1>3, <1>4 DEF StatusNow
<1>7. Up' = Up
  BY <1>1 DEF Up
<1>8. Channel!Ask(r)
  BY <1>5, <1>6, <1>7 DEF Channel!Ask
<1> QED
  BY <1>1, <1>8 DEF Channel!Next

LEMMA ResponseAnswers ==
  ASSUME AnswersInv, AnswersInv', StatusNow = Status, StatusNow' = Status', HandleResponse
  PROVE  Channel!Next
<1> USE DEF AnswersInv, InOrderInv, Numbering
<1> DEFINE m == Head(mailbox)
           r == m.of
           x == [to |-> request[sent[m.id]].caller, req |-> sent[m.id], of |-> r]
<1>1. mailbox # <<>> /\ m.kind = "data" /\ Up
  BY DEF HandleResponse, Receives
<1>2. m \in Delivered(mailbox)
  BY <1>1, TailDelivered DEF IsPacket, InOrder, Queued, Typed, TypedProc
<1>3. m.id \in DOMAIN sent /\ sent[m.id] = r /\ r \in Sent
  BY <1>1, <1>2 DEF InOrder, Queued, IsAnswer, Known, Sent
<1>4. answers' = Append(answers, x) /\ UNCHANGED <<state, request>> /\ x.of = r
  BY <1>3 DEF HandleResponse, Cast, client
<1>5. r \in 1..Len(request) /\ r \in Requests
  BY <1>3, MadeCount DEF Numbered, OnlyMade
<1>6. r \notin Handed
  BY SMTT(30), <1>3, AnsweredFirst DEF Handed, InOrder, Forwarded, Apart
<1> HIDE DEF m, r, x
<1>7. Handed' = Handed \cup {r}
  <2>1. /\ Len(answers) \in Nat
        /\ Len(Append(answers, x)) = Len(answers) + 1
        /\ \A i \in 1..Len(answers) : Append(answers, x)[i] = answers[i]
        /\ Append(answers, x)[Len(answers) + 1] = x
    <3>1. answers \in Seq([to : Callers, req : Requests, of : Requests])
      BY DEF Typed, TypedCallers
    <3> QED
      BY <3>1
  <2>2. 1..(Len(answers) + 1) = 1..Len(answers) \cup {Len(answers) + 1}
    BY <2>1
  <2> QED
    BY <1>4, <2>1, <2>2 DEF Handed
<1>8. Up' = Up
  BY <1>4 DEF Up
<1>9. StatusNow[r] = "pending"
  BY <1>1, <1>5, <1>6 DEF StatusNow
<1>10. StatusNow' = [StatusNow EXCEPT ![r] = "answered"]
  BY <1>1, <1>4, <1>5, <1>7, <1>8 DEF StatusNow
<1>11. Channel!Answer(r)
  BY <1>1, <1>8, <1>9, <1>10 DEF Channel!Answer
<1> QED
  BY <1>5, <1>11 DEF Channel!Next

LEMMA ChannelStep ==
  ASSUME AnswersInv, AnswersInv', StatusNow = Status, StatusNow' = Status', [Next]_vars
  PROVE  [Channel!Next]_(Channel!vars)
<1>1. CASE UNCHANGED <<state, request, answers>>
  <2>1. StatusNow' = StatusNow /\ Up' = Up
    BY <1>1 DEF StatusNow, Handed, Up
  <2> QED
    BY <2>1 DEF Channel!vars
<1>2. ASSUME NEW reason, reason # "up", Up, NEW boxes, Exit(reason, boxes), UNCHANGED answers
      PROVE  [Channel!Next]_(Channel!vars)
  BY <1>2, ExitCloses DEF Channel!Next
<1>3. CASE HandleSend \/ WriteReturns
  BY <1>1, <1>2, <1>3 DEF HandleSend, WriteReturns, Receives, SendOk, client, history
<1>4. CASE HandleSocketEnd \/ HandleStop \/ ParentExits
  BY <1>2, <1>4 DEF HandleSocketEnd, HandleStop, ParentExits, Receives, history
<1>5. CASE CheckAges
  BY <1>1, <1>2, <1>5 DEF CheckAges, client, history
<1>6. CASE HandleAssertMaxReqAge \/ Tick \/ Jump \/ BrokerAnswers \/ PeerEnds
  BY <1>1, <1>6 DEF HandleAssertMaxReqAge, Tick, Jump, BrokerAnswers, PeerEnds, proc, client,
    history
<1>7. ASSUME NEW c \in Callers, Receive(c) \/ WaitTimesOut(c)
      PROVE  [Channel!Next]_(Channel!vars)
  BY <1>1, <1>7 DEF Receive, CallReturns, WaitReturns, WaitTimesOut, proc
<1>8. CASE UNCHANGED vars
  BY <1>1, <1>8 DEF vars, proc, client, history
<1> QED
  BY <1>3, <1>4, <1>5, <1>6, <1>7, <1>8, RequestAsks, ResponseAnswers DEF Next, Handle

\* The connection is a channel: each request made while it is up is answered
\* at most once, before its end, or is lost with it.
THEOREM ConnectionIsChannel == Spec => ImplementsChannel
<1>1. AnswersInv /\ AnswersInv' /\ [Next]_vars => [Channel!Next]_(Channel!vars)
  <2>1. (AnswersInv => Status = StatusNow)'
    BY StatusIs, PTL
  <2> QED
    BY <2>1, StatusIs, ChannelStep
<1> QED
  BY <1>1, ChannelInit, AnswersInvariant, PTL DEF Spec, ImplementsChannel, Channel!Spec

-----------------------------------------------------------------------------
(***************************************************************************)
(* How old requests get                                                    *)
(*                                                                         *)
(* The invariant follows the look at the ages round its loop, timer,       *)
(* message, process, timer:                                                *)
(*                                                                         *)
(*   Watching     exactly one of the three exists                          *)
(*   Fresh        a request that nobody has begun to write looks new       *)
(*   InTime       how old a request can look at each place of the loop     *)
(*   OnlyOverdue  who looks too old to the process that looks has waited   *)
(*                too long, though it may have been answered since         *)
(*                                                                         *)
(* That a clock which is set, or a write that blocks, undoes InTime and    *)
(* OnlyOverdue is in their hypotheses jumps = 0 and punctual.              *)
(***************************************************************************)
IsLook(m) == m.kind = "assert_max_req_age"
HasLook(mb) == \E i \in 1..Len(mb) : IsLook(mb[i])
OneLook(mb) == \A i, j \in 1..Len(mb) : IsLook(mb[i]) /\ IsLook(mb[j]) => i = j

LEMMA TailLook ==
  ASSUME NEW mb \in Seq(Messages), mb # <<>>, OneLook(mb)
  PROVE  /\ OneLook(Tail(mb))
         /\ ~IsLook(Head(mb)) => (HasLook(Tail(mb)) <=> HasLook(mb))
         /\ IsLook(Head(mb)) => HasLook(mb) /\ ~HasLook(Tail(mb))
<1>1. Len(mb) \in Nat \ {0} /\ Head(mb) = mb[1]
  BY EmptySeq
<1>2. /\ Len(Tail(mb)) = Len(mb) - 1
      /\ \A i \in 1..(Len(mb) - 1) : Tail(mb)[i] = mb[i + 1]
  BY HeadTailProperties
<1>3. OneLook(Tail(mb))
  BY <1>1, <1>2 DEF OneLook
<1>4. HasLook(Tail(mb)) <=> \E k \in 2..Len(mb) : IsLook(mb[k])
  <2>1. ASSUME HasLook(Tail(mb))
        PROVE  \E k \in 2..Len(mb) : IsLook(mb[k])
    <3>1. PICK i \in 1..(Len(mb) - 1) : IsLook(Tail(mb)[i])
      BY <1>2, <2>1 DEF HasLook
    <3>2. i + 1 \in 2..Len(mb) /\ Tail(mb)[i] = mb[i + 1]
      BY <1>1, <1>2, <3>1
    <3> QED
      BY <3>1, <3>2
  <2>2. ASSUME NEW k \in 2..Len(mb), IsLook(mb[k])
        PROVE  HasLook(Tail(mb))
    <3>1. k - 1 \in 1..(Len(mb) - 1) /\ Tail(mb)[k - 1] = mb[k]
      BY <1>1, <1>2
    <3> QED
      BY <1>2, <2>2, <3>1 DEF HasLook
  <2> QED
    BY <2>1, <2>2
<1>5. 1..Len(mb) = {1} \cup 2..Len(mb)
  BY <1>1
<1>6. HasLook(mb) <=> IsLook(mb[1]) \/ \E k \in 2..Len(mb) : IsLook(mb[k])
  BY <1>5 DEF HasLook
<1>7. IsLook(mb[1]) => \A k \in 2..Len(mb) : ~IsLook(mb[k])
  BY <1>1 DEF OneLook
<1> QED
  BY <1>1, <1>3, <1>4, <1>6, <1>7

LEMMA AppendLook ==
  ASSUME NEW mb \in Seq(Messages), NEW m \in Messages, OneLook(mb), IsLook(m) => ~HasLook(mb)
  PROVE  /\ OneLook(Append(mb, m))
         /\ ~IsLook(m) => (HasLook(Append(mb, m)) <=> HasLook(mb))
         /\ IsLook(m) => HasLook(Append(mb, m))
<1>1. /\ Len(mb) \in Nat
      /\ Len(Append(mb, m)) = Len(mb) + 1
      /\ \A i \in 1..Len(mb) : Append(mb, m)[i] = mb[i]
      /\ Append(mb, m)[Len(mb) + 1] = m
  BY AppendProperties, LenProperties
<1>2. 1..(Len(mb) + 1) = 1..Len(mb) \cup {Len(mb) + 1}
  BY <1>1
<1>3. HasLook(Append(mb, m)) <=> HasLook(mb) \/ IsLook(m)
  BY <1>1, <1>2 DEF HasLook
<1>4. OneLook(Append(mb, m))
  BY <1>1, <1>2 DEF OneLook, HasLook
<1> QED
  BY <1>3, <1>4

LEMMA NextPacketLook ==
  ASSUME Typed, mailbox # <<>>, ~IsLook(Head(mailbox)), OneLook(mailbox)
  PROVE  /\ OneLook(Tail(mailbox) \o FirstOf(inbound))
         /\ HasLook(Tail(mailbox) \o FirstOf(inbound)) <=> HasLook(mailbox)
<1>1. Tail(mailbox) \in Seq(Messages)
  BY TakeTyped
<1>2. OneLook(Tail(mailbox)) /\ (HasLook(Tail(mailbox)) <=> HasLook(mailbox))
  BY TailLook DEF Typed, TypedProc
<1>3. CASE inbound = <<>>
  BY <1>1, <1>2, <1>3, ConcatEmptySeq DEF FirstOf
<1>4. CASE inbound # <<>>
  <2>1. Head(inbound) \in Packets
    BY <1>4, HeadTailProperties DEF Typed, TypedProc
  <2>2. Head(inbound) \in Messages /\ ~IsLook(Head(inbound))
    BY <2>1 DEF Messages, Packets, DataMsgs, EndMsgs, IsLook
  <2>3. Tail(mailbox) \o FirstOf(inbound) = Append(Tail(mailbox), Head(inbound))
    BY <1>1, <1>4, <2>2, AppendIsConcat DEF FirstOf
  <2> QED
    BY <1>1, <1>2, <2>2, <2>3, AppendLook
<1> QED
  BY <1>3, <1>4

-----------------------------------------------------------------------------
Running == checker # NotRunning

Watching ==
  /\ OneLook(mailbox)
  /\ Up => \/ timer # Off /\ ~HasLook(mailbox) /\ ~Running
           \/ timer = Off /\ HasLook(mailbox) /\ ~Running
           \/ timer = Off /\ ~HasLook(mailbox) /\ Running

Fresh ==
  /\ \A r \in Unsent : r # sending \/ punctual => looks[r] = 0
  /\ \A r \in Requests : r \notin 1..Len(request) => looks[r] = 0
  /\ Running => checker \subseteq 1..Len(request) /\ checker \cap Unsent = {}
  /\ \E b \in Int : \A r \in Requests : looks[r] <= b

InTime ==
  Up /\ punctual =>
    /\ timer # Off => \A r \in Sent : looks[r] <= Timeout + Interval - timer
    /\ timer = Off => \A r \in Sent : looks[r] <= Timeout + Interval + behind
    /\ Running => \A r \in Sent \ checker : looks[r] <= behind

OnlyOverdue ==
  jumps = 0 =>
    /\ Up => \A r \in (Sent \cup {sending}) \ {None} : looks[r] > Timeout - Lag => overdue
    /\ Up /\ Running => \A r \in checker : looks[r] > Timeout - Lag + behind => overdue
    /\ state = "request_timeout" => overdue

Aged == Watching /\ Fresh /\ InTime /\ OnlyOverdue

LEMMA AgedInit == Init => Aged
<1> SUFFICES ASSUME Init PROVE Aged
  OBVIOUS
<1>1. /\ mailbox = <<>> /\ sent = <<>> /\ sending = None /\ checker = NotRunning
      /\ timer = Interval /\ state = "up" /\ looks = [r \in Requests |-> 0]
  BY DEF Init
<1>2. Len(mailbox) = 0 /\ DOMAIN sent = {} /\ mailbox \in Seq(Messages)
  BY <1>1, EmptyTyped
<1>3. Sent = {} /\ Unsent = {}
  BY <1>1, <1>2, UnsentIs DEF UnsentOf, Sends, Sent
<1>4. timer # Off
  BY <1>1, Durations DEF Off
<1>5. \A r \in Requests : looks[r] = 0
  BY <1>1
<1>6. \A r \in Requests : looks[r] <= 0
  BY <1>5
<1>7. Watching
  BY <1>1, <1>2, <1>4 DEF Watching, OneLook, HasLook, Running
<1>8. Fresh
  <2>1. \E b \in Int : \A r \in Requests : looks[r] <= b
    BY <1>6
  <2> QED
    BY <1>1, <1>3, <1>5, <2>1 DEF Fresh, Running
<1>9. InTime
  BY <1>1, <1>3 DEF InTime, Running
<1>10. OnlyOverdue
  BY <1>1, <1>3 DEF OnlyOverdue, Running
<1> QED
  BY <1>7, <1>8, <1>9, <1>10 DEF Aged

\* The types that the arithmetic below needs.
LEMMA Times ==
  ASSUME Typed, Numbered
  PROVE  /\ \A r \in Requests : looks[r] \in Int
         /\ behind \in Nat /\ behind <= Lag /\ Lag \in Nat /\ Timeout \in Nat /\ Lag <= Timeout
         /\ Interval \in Nat /\ Interval > 0
         /\ timer # Off => timer \in 1..Interval
         /\ Sent \cup Unsent \subseteq Requests /\ None \notin Requests
         /\ Sent \cup Unsent \subseteq 1..Len(request)
<1>1. behind \in Nat /\ behind <= Lag /\ Lag \in Nat /\ Timeout \in Nat /\ Lag <= Timeout
  BY ConnectionAssumption DEF Typed, TypedProc, TypeOK
<1>2. timer # Off => timer \in 1..Interval
  BY DEF Typed, TypedProc, TypeOK
<1>3. \A r \in Requests : looks[r] \in Int
  BY DEF Typed, TypedClock
<1>4. Sent \cup Unsent \subseteq Requests /\ None \notin Requests
      /\ Sent \cup Unsent \subseteq 1..Len(request)
  BY MadeCount DEF Numbered, OnlyMade, None, Requests
<1> QED
  BY <1>1, <1>2, <1>3, <1>4, Durations

\* Steps that leave the clock and the look alone: a request without an answer
\* had one before or nobody had begun to write it.
LEMMA AgedStays ==
  ASSUME Typed, Typed', Numbered, Numbered', Aged,
         UNCHANGED <<state, timer, checker, clock>>,
         OneLook(mailbox'), HasLook(mailbox') <=> HasLook(mailbox),
         1..Len(request) \subseteq 1..Len(request'),
         \A r \in Unsent' : r \in Unsent \/ r \in Requests \ 1..Len(request),
         Sent' \subseteq Sent \cup Unsent,
         sending' \in {sending, None} \cup Unsent,
         sending \in Unsent' => sending' = sending
  PROVE  Aged'
<1>1. UNCHANGED <<looks, behind, punctual, overdue, jumps, timer, checker, state>>
  BY DEF clock
<1>2. (Up' <=> Up) /\ (Running' <=> Running)
  BY <1>1 DEF Up, Running
<1>3. Watching'
  BY <1>1, <1>2 DEF Aged, Watching
<1>4. /\ \A r \in Unsent : r # sending \/ punctual => looks[r] = 0
      /\ \A r \in Requests : r \notin 1..Len(request) => looks[r] = 0
  BY DEF Aged, Fresh
<1>5. Fresh'
  <2>1. \A r \in Unsent' : r # sending' \/ punctual => looks[r] = 0
    BY <1>4
  <2>2. Running => checker \subseteq 1..Len(request') /\ checker \cap Unsent' = {}
    BY DEF Aged, Fresh
  <2>3. \E b \in Int : \A r \in Requests : looks[r] <= b
    BY DEF Aged, Fresh
  <2> QED
    BY <1>1, <1>2, <1>4, <2>1, <2>2, <2>3 DEF Fresh
<1>6. InTime'
  <2> SUFFICES ASSUME Up, punctual
               PROVE  /\ timer # Off => \A r \in Sent' : looks[r] <= Timeout + Interval - timer
                      /\ timer = Off => \A r \in Sent' : looks[r] <= Timeout + Interval + behind
                      /\ Running => \A r \in Sent' \ checker : looks[r] <= behind
    BY <1>1, <1>2 DEF InTime
  <2>1. \A r \in Unsent : looks[r] = 0
    BY <1>4
  <2>2. CASE timer # Off
    <3>1. Timeout + Interval - timer >= 0
      BY <2>2, Times
    <3>2. ~Running
      BY <2>2 DEF Aged, Watching
    <3> QED
      BY <2>1, <2>2, <3>1, <3>2 DEF Aged, InTime
  <2>3. CASE timer = Off
    <3>1. Timeout + Interval + behind >= 0 /\ behind >= 0
      BY Times
    <3> QED
      BY <2>1, <2>3, <3>1 DEF Aged, InTime
  <2> QED
    BY <2>2, <2>3
<1>7. OnlyOverdue'
  <2> SUFFICES ASSUME jumps = 0
               PROVE  /\ Up => \A r \in (Sent' \cup {sending'}) \ {None} :
                                 looks[r] > Timeout - Lag => overdue
                      /\ Up /\ Running => \A r \in checker :
                                 looks[r] > Timeout - Lag + behind => overdue
                      /\ state = "request_timeout" => overdue
    BY <1>1, <1>2 DEF OnlyOverdue
  <2>1. ~(0 > Timeout - Lag)
    BY Times
  <2>2. ASSUME Up, NEW r \in (Sent' \cup {sending'}) \ {None}, looks[r] > Timeout - Lag
        PROVE  overdue
    <3>1. CASE r \in (Sent \cup {sending}) \ {None}
      BY <2>2, <3>1 DEF Aged, OnlyOverdue
    <3>2. CASE r \notin (Sent \cup {sending}) \ {None}
      BY <1>4, <2>1, <2>2, <3>2
    <3> QED
      BY <3>1, <3>2
  <2> QED
    BY <2>2 DEF Aged, OnlyOverdue
<1> QED
  BY <1>3, <1>5, <1>6, <1>7 DEF Aged

LEMMA ExitAged ==
  ASSUME Typed, Aged, NEW reason, NEW boxes, Exit(reason, boxes), reason # "up",
         reason = "request_timeout" /\ jumps = 0 => overdue
  PROVE  Aged'
<1>1. /\ mailbox' = <<>> /\ sent' = <<>> /\ sending' = None /\ checker' = NotRunning
      /\ looks' = [r \in Requests |-> 0] /\ state' = reason /\ ~Up'
      /\ UNCHANGED <<overdue, jumps>>
  BY DEF Exit, seen, Up
<1>2. Len(mailbox') = 0 /\ mailbox' \in Seq(Messages)
  BY <1>1, EmptyTyped
<1>3. Unsent' = {}
  BY <1>1, <1>2, UnsentIs DEF UnsentOf, Sends
<1>4. \A r \in Requests : looks'[r] = 0 /\ looks'[r] <= 0
  BY <1>1
<1>5. Fresh'
  <2>1. \E b \in Int : \A r \in Requests : looks'[r] <= b
    BY <1>4
  <2> QED
    BY <1>1, <1>3, <1>4, <2>1 DEF Fresh, Running
<1>6. Watching' /\ InTime' /\ OnlyOverdue'
  BY <1>1, <1>2 DEF Watching, OneLook, InTime, OnlyOverdue
<1> QED
  BY <1>5, <1>6 DEF Aged

-----------------------------------------------------------------------------
\* The look: requests become those of the process that looks.
LEMMA AssertAged ==
  ASSUME Typed, Typed', Numbered, Aged, HandleAssertMaxReqAge
  PROVE  Aged'
<1>1. /\ Up /\ mailbox # <<>> /\ IsLook(Head(mailbox)) /\ mailbox' = Tail(mailbox)
      /\ checker' = Sent
      /\ UNCHANGED <<state, sent, sending, timer, request, looks, behind, punctual, overdue, jumps>>
  BY DEF HandleAssertMaxReqAge, Receives, Take, IsLook, client, clock
<1>2. HasLook(mailbox) /\ ~HasLook(mailbox') /\ OneLook(mailbox')
  BY <1>1, TailLook DEF Aged, Watching, Typed, TypedProc
<1>3. timer = Off /\ ~Running
  BY <1>1, <1>2 DEF Aged, Watching
<1>4. Running' /\ Up'
  <2>1. None \notin Sent
    BY Times
  <2> QED
    BY <1>1, <2>1 DEF Running, NotRunning, Up
<1>5. Watching'
  BY <1>1, <1>2, <1>3, <1>4 DEF Watching
<1>6. Unsent' = Unsent
  <2>1. Sends(Tail(mailbox)) = Sends(mailbox)
    BY <1>1, TailSends DEF IsLook, Typed, TypedProc, Numbered
  <2> QED
    BY <1>1, <2>1, UnsentIs DEF UnsentOf, Typed, TypedProc
<1>7. Fresh'
  <2>1. Sent \subseteq 1..Len(request) /\ Sent \cap Unsent = {}
    BY Times, UnsentNotSent
  <2> QED
    BY <1>1, <1>6, <2>1 DEF Aged, Fresh
<1>8. Sent' = Sent
  BY <1>1 DEF Sent
<1>9. InTime'
  BY <1>1, <1>3, <1>4, <1>8 DEF Aged, InTime
<1>10. OnlyOverdue'
  <2> SUFFICES ASSUME jumps = 0
               PROVE  /\ \A r \in (Sent \cup {sending}) \ {None} :
                           looks[r] > Timeout - Lag => overdue
                      /\ \A r \in Sent : looks[r] > Timeout - Lag + behind => overdue
    BY <1>1, <1>4, <1>8 DEF OnlyOverdue, Up
  <2>1. \A r \in (Sent \cup {sending}) \ {None} : looks[r] > Timeout - Lag => overdue
    BY <1>1 DEF Aged, OnlyOverdue
  <2>2. \A r \in Sent : looks[r] > Timeout - Lag + behind => looks[r] > Timeout - Lag
    BY Times
  <2>3. \A r \in Sent : r # None
    BY Times
  <2> QED
    BY <2>1, <2>2, <2>3
<1> QED
  BY <1>5, <1>7, <1>9, <1>10 DEF Aged

\* What scan_for_max_age returns.
LEMMA MaxAgeIs ==
  ASSUME Typed, Fresh, NEW rs \in SUBSET Requests
  PROVE  /\ MaxAge(rs) \in Int
         /\ \A r \in rs : looks[r] <= MaxAge(rs)
         /\ MaxAge(rs) = 0 \/ \E r \in rs : looks[r] = MaxAge(rs)
<1> DEFINE S == {0} \cup {looks[r] : r \in rs}
<1>1. \A r \in Requests : looks[r] \in Int
  BY DEF Typed, TypedClock
<1>2. PICK b \in Int : \A r \in Requests : looks[r] <= b
  BY DEF Fresh
<1> DEFINE c == IF b < 0 THEN 0 ELSE b
<1>3. S \in SUBSET Int /\ S # {} /\ c \in Int /\ \A x \in S : x <= c
  BY <1>1, <1>2
<1> HIDE DEF S, c
<1>4. Max(S) \in S /\ \A y \in S : y <= Max(S)
  BY <1>3, MaxOfInts
<1>5. MaxAge(rs) = Max(S)
  BY DEF MaxAge, S
<1> QED
  BY <1>3, <1>4, <1>5 DEF S

LEMMA CheckAged ==
  ASSUME Typed, Typed', Numbered, Aged, CheckAges
  PROVE  Aged'
<1>1. Up /\ Running
  BY DEF CheckAges, Running
<1>2. checker \subseteq 1..Len(request) /\ checker \in SUBSET Requests
  BY <1>1, MadeCount DEF Aged, Fresh
<1>3. /\ MaxAge(checker) \in Int
      /\ \A r \in checker : looks[r] <= MaxAge(checker)
      /\ MaxAge(checker) = 0 \/ \E r \in checker : looks[r] = MaxAge(checker)
  BY <1>2, MaxAgeIs DEF Aged
<1>4. CASE TooOld(MaxAge(checker))
  <2>1. Exit("request_timeout", box)
    BY <1>4 DEF CheckAges
  <2>2. PICK r \in checker : looks[r] > Timeout
    BY <1>3, <1>4, ConnectionAssumption DEF TooOld
  <2>3. looks[r] > Timeout - Lag + behind
    BY <1>2, <2>2, Times
  <2>4. jumps = 0 => overdue
    BY <1>1, <2>2, <2>3 DEF Aged, OnlyOverdue
  <2> QED
    BY <2>1, <2>4, ExitAged
<1>5. CASE ~TooOld(MaxAge(checker))
  <2>1. /\ checker' = NotRunning /\ timer' = Interval
        /\ UNCHANGED <<state, sent, sending, mailbox, request, looks, behind, punctual, overdue,
                       jumps>>
    BY <1>5 DEF CheckAges, SendAssertMaxReqAge, client, clock
  <2>2. timer' # Off /\ ~Running' /\ (Up' <=> Up)
    BY <2>1, Durations DEF Off, Running, Up
  <2>3. Watching'
    BY <1>1, <2>1, <2>2 DEF Aged, Watching
  <2>4. Unsent' = Unsent /\ Sent' = Sent
    BY <2>1, UnsentIs DEF UnsentOf, Sent, Typed, TypedProc
  <2>5. Fresh'
    BY <2>1, <2>2, <2>4 DEF Aged, Fresh
  <2>6. ASSUME punctual, NEW r \in Sent
        PROVE  looks[r] <= Timeout + Interval - Interval
    <3>1. CASE r \in checker
      BY <1>2, <1>3, <1>5, <3>1, Times DEF TooOld
    <3>2. CASE r \notin checker
      <4>1. looks[r] <= behind
        BY <1>1, <2>6, <3>2 DEF Aged, InTime
      <4> QED
        BY <4>1, Times
    <3> QED
      BY <3>1, <3>2
  <2>7. InTime'
    BY <2>1, <2>2, <2>4, <2>6 DEF InTime
  <2>8. OnlyOverdue'
    BY <1>1, <2>1, <2>2, <2>4 DEF Aged, OnlyOverdue
  <2> QED
    BY <2>3, <2>5, <2>7, <2>8 DEF Aged
<1> QED
  BY <1>4, <1>5

\* Time passes.
LEMMA TickAged ==
  ASSUME Typed, Typed', Numbered, Aged, Tick
  PROVE  Aged'
<1> DEFINE m == [kind |-> "assert_max_req_age"]
<1>1. /\ Up /\ (Urgent => behind < Lag)
      /\ behind' = (IF Urgent THEN behind + 1 ELSE 0)
      /\ timer' = (IF timer \in {Off, 1} THEN Off ELSE timer - 1)
      /\ mailbox' = (IF timer = 1 THEN Append(mailbox, m) ELSE mailbox)
      /\ punctual' = (punctual /\ ~Busy)
      /\ overdue' = (overdue \/ \E r \in (Sent \cup {sending}) \ {None} :
                                  looks[r] + 1 > Timeout - Lag)
      /\ UNCHANGED <<state, sent, sending, checker, request, jumps>>
  BY DEF Tick, client
<1>2. m \in Messages /\ IsLook(m) /\ m.kind # "send"
  BY DEF Messages, AgeMsgs, IsLook
<1> HIDE DEF m
<1>3. 1 # Off /\ \A n \in 1..Interval : n # Off /\ (n # 1 => n - 1 \in 1..Interval)
  BY Durations DEF Off
<1>4. Watching'
  <2>1. CASE timer = 1
    <3>1. ~HasLook(mailbox) /\ ~Running /\ OneLook(mailbox)
      BY <1>1, <1>3, <2>1 DEF Aged, Watching
    <3>2. OneLook(mailbox') /\ HasLook(mailbox')
      BY <1>1, <1>2, <2>1, <3>1, AppendLook DEF Typed, TypedProc
    <3> QED
      BY <1>1, <2>1, <3>1, <3>2 DEF Watching, Running
  <2>2. CASE timer # 1
    <3>1. timer' = Off <=> timer = Off
      BY <1>1, <1>3, <2>2, Times
    <3> QED
      BY <1>1, <2>2, <3>1 DEF Aged, Watching, Running, Up
  <2> QED
    BY <2>1, <2>2
<1>5. Sent' = Sent /\ Unsent' = Unsent /\ (Running' <=> Running)
  <2>1. Sends(mailbox') = Sends(mailbox)
    BY <1>1, <1>2, AppendSends DEF Typed, TypedProc, Numbered
  <2> QED
    BY <1>1, <2>1, UnsentIs DEF UnsentOf, Sent, Running, Typed, TypedProc
<1>6. \A r \in Requests : /\ r \in Watched => looks'[r] <= looks[r] + 1 /\ looks'[r] \in Int
                          /\ r \notin Watched => looks'[r] = 0
  <2> TAKE r \in Requests
  <2>1. looks'[r] = IF r \in Watched THEN Min({looks[r] + 1, Oldest}) ELSE 0
    BY DEF Tick
  <2>2. looks[r] + 1 \in Int /\ Oldest \in Int
    BY Times, Durations
  <2>3. Min({looks[r] + 1, Oldest}) = IF looks[r] + 1 <= Oldest THEN looks[r] + 1 ELSE Oldest
    BY <2>2, MinOfTwo
  <2> QED
    BY <2>1, <2>2, <2>3
<1>7. Fresh'
  <2>1. ASSUME NEW r \in Unsent, r # sending \/ punctual'
        PROVE  looks'[r] = 0
    <3>1. r # sending
      BY <1>1, <2>1, Times DEF Busy
    <3>2. r \notin Sent /\ r \in Requests
      BY Times, UnsentNotSent
    <3>3. r \notin Watched
      BY <3>1, <3>2 DEF Watched, Aged, Fresh, Running
    <3> QED
      BY <1>6, <3>2, <3>3
  <2>2. ASSUME NEW r \in Requests, r \notin 1..Len(request)
        PROVE  looks'[r] = 0
    <3>1. sending \in Unsent \cup {None}
      BY DEF Unsent
    <3>2. r \notin Watched
      BY <2>2, <3>1, Times DEF Watched, Aged, Fresh, Running
    <3> QED
      BY <1>6, <2>2, <3>2
  <2>3. \E b \in Int : \A r \in Requests : looks'[r] <= b
    <3>1. PICK b \in Int : \A r \in Requests : looks[r] <= b
      BY DEF Aged, Fresh
    <3> DEFINE d == IF b < 0 THEN 0 ELSE b + 1
    <3>2. d \in Int /\ \A r \in Requests : looks'[r] <= d
      <4>1. \A r \in Requests : looks[r] \in Int
        BY Times
      <4> QED
        BY <1>6, <3>1, <4>1
    <3> QED
      BY <3>2
  <2> QED
    BY <1>1, <1>5, <2>1, <2>2, <2>3 DEF Aged, Fresh
<1>8. \A r \in Sent : r \in Requests /\ r \in Watched /\ looks[r] \in Int /\ looks'[r] \in Int
                      /\ looks'[r] <= looks[r] + 1
  <2>1. Sent \subseteq Watched
    BY Times DEF Watched
  <2> QED
    BY <1>6, <2>1, Times
<1>9. InTime'
  <2> SUFFICES ASSUME punctual, ~Busy
               PROVE  /\ timer' # Off => \A r \in Sent : looks'[r] <= Timeout + Interval - timer'
                      /\ timer' = Off => \A r \in Sent : looks'[r] <= Timeout + Interval + behind'
                      /\ Running => \A r \in Sent \ checker : looks'[r] <= behind'
    BY <1>1, <1>5 DEF InTime
  <2>1. CASE timer # Off
    <3>1. \A r \in Sent : looks[r] <= Timeout + Interval - timer
      BY <1>1, <2>1 DEF Aged, InTime
    <3>2. timer \in 1..Interval /\ ~Running
      BY <1>1, <2>1, Times DEF Aged, Watching
    <3>3. CASE timer = 1
      <4>1. timer' = Off /\ behind' \in Nat
        BY <1>1, <3>3, Times
      <4>2. \A r \in Sent : looks'[r] <= Timeout + Interval + behind'
        BY SMTT(30), <1>8, <3>1, <3>3, <4>1, Times
      <4> QED
        BY <3>2, <4>1, <4>2
    <3>4. CASE timer # 1
      <4>1. timer' = timer - 1 /\ timer' # Off
        BY <1>1, <1>3, <2>1, <3>2, <3>4
      <4>2. ASSUME NEW r \in Sent
            PROVE  looks'[r] <= Timeout + Interval - timer'
        <5>1. looks[r] \in Int /\ looks'[r] \in Int /\ looks'[r] <= looks[r] + 1
          BY <1>8
        <5>2. looks[r] <= Timeout + Interval - timer
          BY <3>1
        <5>3. timer \in Int /\ Timeout \in Int /\ Interval \in Int /\ timer' = timer - 1
          BY <3>2, <4>1, Times
        <5> QED
          BY <5>1, <5>2, <5>3
      <4> QED
        BY <3>2, <4>1, <4>2
    <3> QED
      BY <3>3, <3>4
  <2>2. CASE timer = Off
    <3>1. timer' = Off
      BY <1>1, <2>2
    <3>2. Urgent
      <4>1. HasLook(mailbox) => mailbox # <<>>
        BY EmptySeq DEF HasLook
      <4> QED
        BY <1>1, <2>2, <4>1 DEF Aged, Watching, Running, Urgent
    <3>3. behind' = behind + 1
      BY <1>1, <3>2
    <3>4. \A r \in Sent : looks[r] <= Timeout + Interval + behind
      BY <1>1, <2>2 DEF Aged, InTime
    <3>5. \A r \in Sent : looks'[r] <= Timeout + Interval + behind'
      BY SMTT(30), <1>8, <3>3, <3>4, Times
    <3>6. ASSUME Running, NEW r \in Sent \ checker
          PROVE  looks'[r] <= behind'
      <4>1. looks[r] <= behind
        BY <1>1, <3>6 DEF Aged, InTime
      <4> QED
        BY <1>8, <3>3, <4>1, Times
    <3> QED
      BY <3>1, <3>5, <3>6
  <2> QED
    BY <2>1, <2>2
<1>10. OnlyOverdue'
  <2> SUFFICES ASSUME jumps = 0
               PROVE  /\ \A r \in (Sent \cup {sending}) \ {None} :
                           looks'[r] > Timeout - Lag => overdue'
                      /\ Running => \A r \in checker :
                           looks'[r] > Timeout - Lag + behind' => overdue'
    BY <1>1, <1>5 DEF OnlyOverdue, Up
  <2>1. ASSUME NEW r \in (Sent \cup {sending}) \ {None}, looks'[r] > Timeout - Lag
        PROVE  overdue'
    <3>1. sending \in Unsent \cup {None}
      BY DEF Unsent
    <3>2. r \in Requests /\ r \in Watched
      BY <3>1, Times DEF Watched
    <3>3. looks[r] + 1 > Timeout - Lag
      BY <1>6, <2>1, <3>2, Times
    <3> QED
      BY <1>1, <3>3
  <2>2. ASSUME Running, NEW r \in checker, looks'[r] > Timeout - Lag + behind'
        PROVE  overdue'
    <3>1. r \in Requests /\ r # None
      BY <2>2, MadeCount, Times DEF Aged, Fresh
    <3>2. r \in Watched
      BY <2>2, <3>1 DEF Watched, Running
    <3>3. behind' = behind + 1
      BY <1>1, <2>2 DEF Urgent, Running
    <3>4. looks[r] > Timeout - Lag + behind
      BY <1>6, <2>2, <3>1, <3>2, <3>3, Times
    <3>5. overdue
      BY <1>1, <2>2, <3>4 DEF Aged, OnlyOverdue
    <3> QED
      BY <1>1, <3>5
  <2> QED
    BY <2>1, <2>2
<1> QED
  BY <1>4, <1>7, <1>9, <1>10 DEF Aged

\* The clock is set: only what looks how old is left to say.
LEMMA JumpAged ==
  ASSUME Typed, Typed', Numbered, Aged, Jump
  PROVE  Aged'
<1>1. /\ Up /\ jumps' = jumps + 1 /\ punctual' = FALSE
      /\ UNCHANGED <<state, sent, sending, mailbox, timer, checker, request, behind, overdue>>
  BY DEF Jump, proc, client
<1>2. PICK by \in {JumpBy, -JumpBy} :
        looks' = [r \in Requests |-> IF r \in Watched THEN looks[r] + by ELSE looks[r]]
  BY DEF Jump
<1>3. by \in Int /\ by <= JumpBy /\ JumpBy \in Nat
  BY ConnectionAssumption
<1>4. Sent' = Sent /\ Unsent' = Unsent /\ (Running' <=> Running) /\ (Up' <=> Up)
  BY <1>1, UnsentIs DEF UnsentOf, Sent, Running, Up, Typed, TypedProc
<1>5. Watching'
  BY <1>1, <1>4 DEF Aged, Watching
<1>6. Fresh'
  <2>1. ASSUME NEW r \in Unsent, r # sending
        PROVE  looks'[r] = 0
    <3>1. r \notin Sent /\ r \in Requests
      BY Times, UnsentNotSent
    <3>2. r \notin Watched
      BY <2>1, <3>1 DEF Watched, Aged, Fresh, Running
    <3> QED
      BY <1>2, <2>1, <3>1, <3>2 DEF Aged, Fresh
  <2>2. ASSUME NEW r \in Requests, r \notin 1..Len(request)
        PROVE  looks'[r] = 0
    <3>1. sending \in Unsent \cup {None}
      BY DEF Unsent
    <3>2. r \notin Watched
      BY <2>2, <3>1, Times DEF Watched, Aged, Fresh, Running
    <3> QED
      BY <1>2, <2>2, <3>2 DEF Aged, Fresh
  <2>3. \E b \in Int : \A r \in Requests : looks'[r] <= b
    <3>1. PICK b \in Int : \A r \in Requests : looks[r] <= b
      BY DEF Aged, Fresh
    <3>2. b + JumpBy \in Int /\ \A r \in Requests : looks'[r] <= b + JumpBy
      <4>1. \A r \in Requests : looks[r] \in Int
        BY Times
      <4> QED
        BY <1>2, <1>3, <3>1, <4>1
    <3> QED
      BY <3>2
  <2> QED
    BY <1>1, <1>4, <2>1, <2>2, <2>3 DEF Aged, Fresh
<1>7. InTime'
  BY <1>1 DEF InTime
<1>8. OnlyOverdue'
  <2>1. jumps' # 0
    BY <1>1 DEF Typed, TypedClock
  <2> QED
    BY <2>1 DEF OnlyOverdue
<1> QED
  BY <1>5, <1>6, <1>7, <1>8 DEF Aged

-----------------------------------------------------------------------------
\* A request whose write has returned was not looked at before; one that
\* starts to be written, neither.
LEMMA SendAged ==
  ASSUME Typed, Typed', Numbered, Numbered', Aged, HandleSend \/ WriteReturns
  PROVE  Aged'
<1>1. ASSUME NEW r, SendOk(r)
      PROVE  /\ UNCHANGED <<state, timer, checker, clock, request>>
             /\ sending' = None
             /\ Sent' \subseteq Sent \cup {r}
  <2>1. sent' = sent \/ sent' = With(sent, corr_id, r)
    BY <1>1 DEF SendOk
  <2>2. Sent' \subseteq Sent \cup {r}
    BY <2>1 DEF Sent, With
  <2> QED
    BY <1>1, <2>2 DEF SendOk, client
<1>2. mailbox \in Seq(Messages) /\ mailbox' \in Seq(Messages) /\ OneLook(mailbox)
  BY DEF Typed, TypedProc, Aged, Watching
<1>3. None \notin Unsent'
  BY DEF Numbered, OnlyMade, None
<1>4. ASSUME NEW boxes, Exit("send_error", boxes)
      PROVE  Aged'
  BY <1>4, ExitAged
<1>5. CASE HandleSend
  <2> DEFINE r == Head(mailbox).req
  <2>1. mailbox # <<>> /\ Head(mailbox).kind = "send" /\ sending = None
    BY <1>5 DEF HandleSend, Receives, Busy
  <2>2. OneLook(Tail(mailbox)) /\ (HasLook(Tail(mailbox)) <=> HasLook(mailbox))
    BY <1>2, <2>1, TailLook DEF IsLook
  <2>3. Sends(mailbox) = Sends(Tail(mailbox)) \cup {r}
    BY <2>1, TailSends DEF Typed, TypedProc, Numbered
  <2>4. Unsent = Sends(mailbox) /\ r \in Unsent
    BY <2>1, <2>3, UnsentIs DEF UnsentOf, Typed, TypedProc
  <2> HIDE DEF r
  <2>5. CASE SendOk(r) /\ Take
    <3>1. Unsent' = Sends(Tail(mailbox))
      BY <1>1, <1>2, <2>5, UnsentIs DEF UnsentOf, Take
    <3> QED
      BY <1>1, <1>3, <2>1, <2>2, <2>3, <2>4, <2>5, <3>1, AgedStays DEF Take
  <2>6. CASE Exit("send_error", box) /\ UNCHANGED history
    BY <1>4, <2>6
  <2>7. CASE /\ sending' = r /\ Take
             /\ UNCHANGED <<state, corr_id, sent, timer, checker, net, client, box, history, clock>>
    <3>1. mailbox' = Tail(mailbox) /\ sending' = r
          /\ UNCHANGED <<state, timer, checker, clock, request, sent>>
      BY <2>7 DEF Take, client
    <3>2. Unsent' \subseteq Unsent /\ Sent' = Sent
      BY <1>2, <2>3, <2>4, <3>1, UnsentIs DEF UnsentOf, Sent
    <3> QED
      BY <1>3, <2>1, <2>2, <2>4, <3>1, <3>2, AgedStays
  <2> QED
    BY <1>5, <2>5, <2>6, <2>7 DEF HandleSend, r
<1>6. CASE WriteReturns
  <2>1. Busy /\ sending # None
    BY <1>6 DEF WriteReturns, Busy
  <2>2. Unsent = Sends(mailbox) \cup {sending}
    BY <1>2, <2>1, UnsentIs DEF UnsentOf
  <2>3. CASE SendOk(sending) /\ UNCHANGED mailbox
    <3>1. Unsent' = Sends(mailbox)
      BY <1>1, <1>2, <2>3, UnsentIs DEF UnsentOf
    <3>2. sending \notin Sends(mailbox)
      BY <2>1, <2>2 DEF Numbered, OnlyMade
    <3> QED
      BY <1>1, <1>2, <2>2, <2>3, <3>1, <3>2, AgedStays
  <2>4. CASE Exit("send_error", box)
    BY <1>4, <2>4
  <2> QED
    BY <1>6, <2>3, <2>4 DEF WriteReturns
<1> QED
  BY <1>5, <1>6

\* An answer takes a request away and a packet brings none.
LEMMA PacketAged ==
  ASSUME Typed, Typed', Numbered, Numbered', Aged,
         HandleResponse \/ BrokerAnswers \/ PeerEnds
  PROVE  Aged'
<1>1. mailbox \in Seq(Messages) /\ Ordered(mailbox) /\ OneLook(mailbox)
  BY DEF Typed, TypedProc, Numbered, Aged, Watching
<1>2. ASSUME UNCHANGED <<state, timer, checker, clock, request, sending>>,
             OneLook(mailbox'), HasLook(mailbox') <=> HasLook(mailbox),
             Sends(mailbox') = Sends(mailbox), Sent' \subseteq Sent
      PROVE  Aged'
  <2>1. Unsent' = Unsent
    BY <1>2, UnsentIs DEF UnsentOf, Typed, TypedProc
  <2> QED
    BY <1>2, <2>1, AgedStays
<1>3. ASSUME NEW packet, packet \in Packets, Arrives(packet)
      PROVE  /\ OneLook(mailbox') /\ (HasLook(mailbox') <=> HasLook(mailbox))
             /\ Sends(mailbox') = Sends(mailbox)
  <2>1. packet \in Messages /\ packet.kind # "send" /\ ~IsLook(packet)
    BY <1>3 DEF Messages, Packets, DataMsgs, EndMsgs, IsLook
  <2> QED
    BY <1>1, <1>3, <2>1, AppendSends, AppendLook DEF Arrives
<1>4. CASE HandleResponse
  <2>1. mailbox # <<>> /\ Head(mailbox).kind # "send" /\ ~IsLook(Head(mailbox))
    BY <1>4 DEF HandleResponse, Receives, IsLook
  <2>2. CASE Exit("badkey", box)
    BY <2>2, ExitAged
  <2>3. CASE ~Exit("badkey", box)
    <3>1. /\ mailbox' = Tail(mailbox) \o FirstOf(inbound)
          /\ sent' = Without(sent, Head(mailbox).id)
          /\ UNCHANGED <<state, timer, checker, clock, request, sending>>
      BY <1>4, <2>3 DEF HandleResponse, client
    <3>2. Sends(mailbox') = Sends(mailbox)
      BY <1>1, <2>1, <3>1, NextPacketSends
    <3>3. OneLook(mailbox') /\ (HasLook(mailbox') <=> HasLook(mailbox))
      BY <1>1, <2>1, <3>1, NextPacketLook
    <3>4. Sent' \subseteq Sent
      BY <3>1 DEF Sent, Without
    <3> QED
      BY <1>2, <3>1, <3>2, <3>3, <3>4
  <2> QED
    BY <2>2, <2>3
<1>5. CASE BrokerAnswers
  <2>1. PICK i \in DOMAIN wire : Arrives([kind |-> "data", id |-> wire[i].id, of |-> wire[i].of])
    BY <1>5 DEF BrokerAnswers
  <2>2. wire[i] \in [id : Ids, of : Requests]
    BY LenProperties, ElementOfSeq DEF Typed, TypedProc
  <2>3. [kind |-> "data", id |-> wire[i].id, of |-> wire[i].of] \in Packets
    BY <2>2 DEF Packets, DataMsgs
  <2>4. /\ UNCHANGED <<state, timer, checker, clock, request, sending>>
        /\ Sent' = Sent
    BY <1>5 DEF BrokerAnswers, client, Sent
  <2> QED
    BY <1>2, <1>3, <2>1, <2>3, <2>4
<1>6. CASE PeerEnds
  <2>1. PICK kind \in {"tcp_closed", "tcp_error"} : Arrives([kind |-> kind])
    BY <1>6 DEF PeerEnds
  <2>2. [kind |-> kind] \in Packets
    BY DEF Packets, EndMsgs
  <2>3. /\ UNCHANGED <<state, timer, checker, clock, request, sending>>
        /\ Sent' = Sent
    BY <1>6 DEF PeerEnds, client, Sent
  <2> QED
    BY <1>2, <1>3, <2>1, <2>2, <2>3
<1> QED
  BY <1>4, <1>5, <1>6

\* A new request has waited for nothing yet.
LEMMA RequestAged ==
  ASSUME Typed, Typed', Numbered, Numbered', Aged, NEW c \in Callers, NEW mode \in Modes[c],
         Request(c, mode)
  PROVE  Aged'
<1> DEFINE r == Len(request) + 1
           m == IF mode = "stop" THEN [kind |-> "stop", from |-> c]
                ELSE [kind |-> "send", req |-> r]
<1>1. Cardinality(Made) = Len(request) /\ Len(request) \in Nat
  BY MadeCount
<1>2. /\ mailbox' = (IF Up THEN Append(mailbox, m) ELSE mailbox)
      /\ UNCHANGED <<state, timer, checker, clock, sending, sent>>
      /\ request' = Append(request, [caller |-> c, mode |-> mode])
  BY <1>1 DEF Request, net
<1>3. r \in Requests /\ r \notin 1..Len(request)
  BY <1>1 DEF Request, Requests
<1>4. m \in Messages /\ ~IsLook(m) /\ (m.kind = "send" => m.req = r)
  BY <1>3 DEF Messages, SendMsgs, StopMsgs, IsLook
<1>5. \A n \in Sends(mailbox) : n < r
  <2>1. Sends(mailbox) \subseteq 1..Len(request)
    BY UnsentIs DEF UnsentOf, Numbered, OnlyMade, Typed, TypedProc
  <2> QED
    BY <1>1, <2>1
<1> HIDE DEF m
<1>6. OneLook(mailbox') /\ (HasLook(mailbox') <=> HasLook(mailbox))
  BY <1>2, <1>4, AppendLook DEF Aged, Watching, Typed, TypedProc
<1>7. Sends(mailbox') \subseteq Sends(mailbox) \cup {r}
  BY <1>2, <1>4, <1>5, AppendSends DEF Numbered, Typed, TypedProc
<1>8. Unsent' \subseteq Unsent \cup {r}
  BY <1>2, <1>7, UnsentIs DEF UnsentOf, Typed, TypedProc
<1>9. Len(request') = Len(request) + 1
  BY <1>2, AppendProperties, ConnectionAssumption DEF Typed, TypedCallers
<1>10. 1..Len(request) \subseteq 1..Len(request')
  BY <1>1, <1>9
<1>11. Sent' = Sent
  BY <1>2 DEF Sent
<1> HIDE DEF r
<1>12. \A n \in Unsent' : n \in Unsent \/ n \in Requests \ 1..Len(request)
  BY <1>3, <1>8
<1> QED
  BY <1>2, <1>6, <1>10, <1>11, <1>12, AgedStays

LEMMA AgedStep ==
  ASSUME Numbering, Numbering', Aged, [Next]_vars
  PROVE  Aged'
<1> USE DEF Numbering
<1>1. ASSUME UNCHANGED <<state, timer, checker, clock, request, sending, sent, mailbox>>
      PROVE  Aged'
  <2>1. Unsent' = Unsent /\ Sent' = Sent
    BY <1>1, UnsentIs DEF UnsentOf, Sent, Typed, TypedProc
  <2>2. OneLook(mailbox') /\ (HasLook(mailbox') <=> HasLook(mailbox))
    BY <1>1 DEF Aged, Watching
  <2> QED
    BY <1>1, <2>1, <2>2, AgedStays
<1>2. CASE UNCHANGED vars
  BY <1>1, <1>2 DEF vars, proc, client
<1>3. ASSUME NEW c \in Callers, Receive(c) \/ WaitTimesOut(c)
      PROVE  Aged'
  BY <1>1, <1>3 DEF Receive, CallReturns, WaitReturns, WaitTimesOut, proc
<1>4. CASE HandleSocketEnd \/ HandleStop \/ ParentExits
  BY <1>4, ExitAged DEF HandleSocketEnd, HandleStop, ParentExits
<1> QED
  BY <1>2, <1>3, <1>4, SendAged, PacketAged, AssertAged, CheckAged, TickAged, JumpAged,
    RequestAged DEF Next, Handle

-----------------------------------------------------------------------------
(***************************************************************************)
(* The theorem                                                             *)
(***************************************************************************)
AgesInv == Numbering /\ Aged

LEMMA AgesInvariant == Spec => []AgesInv
<1>1. Init => AgesInv
  BY TypedInit, NumberedInit, AgedInit DEF AgesInv, Numbering
<1>2. AgesInv /\ [Next]_vars => AgesInv'
  <2> SUFFICES ASSUME AgesInv, [Next]_vars PROVE AgesInv'
    OBVIOUS
  <2>1. Numbering'
    BY TypedStep, NumberedStep, EndedStep DEF AgesInv, Numbering, Numbered
  <2> QED
    BY <2>1, AgedStep DEF AgesInv
<1> QED
  BY <1>1, <1>2, PTL DEF Spec

LEMMA LooksCounted ==
  ASSUME Typed, Watching
  PROVE  AlwaysWatched
<1> DEFINE messages == {i \in DOMAIN mailbox : mailbox[i].kind = "assert_max_req_age"}
<1>1. messages = {i \in 1..Len(mailbox) : IsLook(mailbox[i])}
  BY LenProperties DEF Typed, TypedProc, IsLook
<1>2. HasLook(mailbox) => Cardinality(messages) = 1
  <2> SUFFICES ASSUME HasLook(mailbox) PROVE Cardinality(messages) = 1
    OBVIOUS
  <2>1. PICK i \in 1..Len(mailbox) : IsLook(mailbox[i])
    BY DEF HasLook
  <2>2. messages = {i}
    BY <1>1, <2>1 DEF Watching, OneLook
  <2> QED
    BY <2>2, FS_Singleton
<1>3. ~HasLook(mailbox) => Cardinality(messages) = 0
  <2> SUFFICES ASSUME ~HasLook(mailbox) PROVE Cardinality(messages) = 0
    OBVIOUS
  <2>1. messages = {}
    BY <1>1 DEF HasLook
  <2> QED
    BY <2>1, FS_EmptySet
<1> DEFINE card == Cardinality(messages)
           set == IF timer = Off THEN 0 ELSE 1
           looking == IF checker = NotRunning THEN 0 ELSE 1
<1> HIDE DEF messages
<1>4. Up => card + set + looking = 1
  BY <1>2, <1>3 DEF Watching, Running
<1> QED
  BY <1>4 DEF AlwaysWatched, messages

\* While a connection is up exactly one look at the ages of its requests is to
\* come, a request without an answer is noticed at most one interval and the
\* delay of a process after request_timeout, and no connection is ended for
\* age before a request has waited that long (but for a clock that is set).
THEOREM AgesWatched == Spec => []AgesAreWatched
<1>1. AgesInv => AgesAreWatched
  <2> SUFFICES ASSUME AgesInv PROVE AgesAreWatched
    OBVIOUS
  <2> USE DEF AgesInv, Numbering, Aged
  <2>1. AlwaysWatched
    BY LooksCounted
  <2>2. TimeoutMeansOverdue
    BY DEF TimeoutMeansOverdue, OnlyOverdue
  <2>3. OverdueIsNoticed
    <3> SUFFICES ASSUME Up, punctual, NEW r \in Sent
                 PROVE  looks[r] <= Timeout + Interval + Lag
      BY DEF OverdueIsNoticed
    <3>1. looks[r] \in Int
      BY Times
    <3>2. CASE timer # Off
      <4>1. looks[r] <= Timeout + Interval - timer
        BY <3>2 DEF InTime
      <4>2. timer \in 1..Interval /\ Timeout \in Int /\ Interval \in Int /\ Lag \in Nat
        BY <3>2, Times
      <4> QED
        BY <3>1, <4>1, <4>2
    <3>3. CASE timer = Off
      <4>1. looks[r] <= Timeout + Interval + behind
        BY <3>3 DEF InTime
      <4>2. behind \in Int /\ behind <= Lag /\ Timeout \in Int /\ Interval \in Int /\ Lag \in Nat
        BY Times
      <4> QED
        BY <3>1, <4>1, <4>2
    <3> QED
      BY <3>2, <3>3
  <2> QED
    BY <2>1, <2>2, <2>3 DEF AgesAreWatched
<1> QED
  BY <1>1, AgesInvariant, PTL
=============================================================================
