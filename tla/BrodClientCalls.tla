--------------------------- MODULE BrodClientCalls ---------------------------
(***************************************************************************)
(* What the callers of BrodClient are told, proved on top of               *)
(* BrodClientProofs.                                                       *)
(*                                                                         *)
(*   OneAnswer      a caller that waits has one message in one mailbox, or *)
(*                  is the one the client serves                           *)
(*   CallProgress   which calls lead to which                              *)
(*   LeftIsCleared  who has left and is in the table will be taken out     *)
(*                  when the client has handled its mailbox                *)
(*   EndsComeFirst  what is known of an end that was before a call is      *)
(*                  handled before the messages of that call               *)
(*   DeadIsNoticed  the EXIT of a child that has ended is in the mailbox   *)
(*   NotGone        no answer is a producer that had ended before          *)
(*   Served         a process whose start_producer has returned ok is      *)
(*                  served (last part)                                     *)
(*                                                                         *)
(* Each step of a caller is one of a few kinds (Rounds): it begins a call, *)
(* rests, goes on with the next step of the call, or is answered; what an  *)
(* answer says of the state in which it was given is in AnswersOk and      *)
(* AnswersNo.                                                              *)
(***************************************************************************)
EXTENDS BrodClientProofs

-----------------------------------------------------------------------------
CallerAts == {"idle", "lookup", "lookup_again", "is_process_alive", "topics_sup",
              "partitions_sup"} \cup ClientCalls

Answers == {"none", "ok", "exit", "client_down", "topic_not_found", "unknown_topic",
            "request_failed", "already_present", "producer_down"}
CallerType == [op : OpNames \cup {"none", "get_again"}, part : Partitions, at : CallerAts,
               waits : BOOLEAN, pid : Pids \cup {Nobody, Restarting}, answer : Answers,
               gone : SUBSET Pids, stopped : BOOLEAN, started : BOOLEAN]
CallersTyped == callers \in [Callers -> CallerType]

\* A caller waits for the answer to its only message.
Asked(f, box, at) ==
  /\ \A i \in 1..Len(box) : box[i].what = "which_children" =>
       box[i].from \in Callers /\ f[box[i].from].at = at /\ f[box[i].from].waits
  /\ \A i, j \in 1..Len(box) :
       box[i].what = "which_children" /\ box[j].what = "which_children"
       /\ box[j].from = box[i].from => i = j
AskedClient ==
  /\ \A i \in 1..Len(cbox) : cbox[i].from \in Callers =>
       /\ callers[cbox[i].from].at = cbox[i].what /\ callers[cbox[i].from].waits
       /\ serving # cbox[i].from
  /\ \A i, j \in 1..Len(cbox) : cbox[i].from \in Callers /\ cbox[j].from = cbox[i].from => i = j
Serves ==
  /\ serving = Nobody <=> client \in {"up", "down"}
  /\ serving \in Callers =>
       /\ callers[serving].waits
       /\ client = "start_child" =>
            callers[serving].at \in {"start_producer", "auto_start_producer"}
       /\ client # "start_child" => callers[serving].at = "stop_producer"
OneAnswer == /\ Asked(callers, tbox, "topics_sup") /\ Asked(callers, pbox, "partitions_sup")
             /\ AskedClient /\ Serves

\* Which calls may wait for a lookup, and what has been answered.
Looks == {"lookup", "lookup_again", "is_process_alive", "topics_sup", "partitions_sup",
          "get_workers_table", "get_producers_sup_pid"}
InOrder(a) ==
  /\ a.at # "idle" => a.answer = "none"
  /\ a.waits => a.at \in ClientCalls \cup {"topics_sup", "partitions_sup"}
  /\ a.at = "is_process_alive" => a.pid \in Pids
  /\ a.at \in Looks => a.op \in {"get", "get_again", "start_producer"}
  /\ a.at = "auto_start_producer" => a.op = "get"
  /\ a.at \in {"start_producer", "stop_producer", "stop", "get_metadata"} => a.op = a.at
CallProgress == \A c \in Callers : InOrder(callers[c])

\* A producer that has left is not in the table for longer than it takes the
\* client to handle its mailbox.
Deregisters(p, i) ==
  \E j \in 1..Len(cbox) : j > i /\ cbox[j].what = "deregister" /\ cbox[j].from = p
LeftIsCleared ==
  /\ client = "down" => table = EmptyTable
  /\ \A k \in Partitions : table[k] \in Pids =>
       /\ Born(table[k]) /\ prods[table[k]].part = k
       /\ prods[table[k]].st = "left" => Deregisters(table[k], 0)
  /\ \A i \in 1..Len(cbox) :
       cbox[i].what = "register" /\ prods[cbox[i].from].st = "left" =>
         Deregisters(cbox[i].from, i)

\* An end that was before a call is handled before the call's message.
EndOf(m, p) == m.what \in {"register", "deregister", "EXIT"} /\ m.from = p
EndsComeFirst ==
  \A c \in Callers : \A p \in callers[c].gone :
    /\ prods[p].st = "left"
    /\ callers[c].at = "lookup_again" => \A i \in 1..Len(cbox) : ~EndOf(cbox[i], p)
    /\ \A i, j \in 1..Len(cbox) :
         cbox[i] = Message("get_workers_table", c) /\ i < j => ~EndOf(cbox[j], p)
    /\ \A i, j \in 1..Len(pbox) :
         pbox[i] = Message("which_children", c) /\ i < j => ~EndOf(pbox[j], p)
DeadIsNoticed ==
  psup = "up" /\ kids # <<>> => \A k \in Partitions :
    kids[k] \in Pids /\ ~Alive(kids[k]) =>
      \E i \in 1..Len(pbox) : pbox[i] = Message("EXIT", kids[k])

NotGone == \A c \in Callers : callers[c].answer = "ok" => callers[c].pid \notin callers[c].gone

CallInv == CallersTyped /\ OneAnswer /\ CallProgress /\ LeftIsCleared /\ EndsComeFirst
           /\ DeadIsNoticed /\ NotGone
-----------------------------------------------------------------------------
(***************************************************************************)
(* What a step does to a caller: it goes on to the next call, waits for    *)
(* the answer of one, or is answered.                                      *)
(***************************************************************************)

Goes(a, b, at, op, pid) ==
  /\ b.at = at /\ ~b.waits /\ b.op = op /\ b.pid = pid /\ b.answer = a.answer
  /\ b.part = a.part /\ b.gone = a.gone /\ b.stopped = a.stopped /\ b.started = a.started
StartsToWait(a, b) ==
  /\ b.at = a.at /\ b.waits /\ b.op = a.op /\ b.pid = a.pid /\ b.answer = a.answer
  /\ b.part = a.part /\ b.gone = a.gone /\ b.stopped = a.stopped /\ b.started = a.started
IsAnswered(a, b, answer, pid) ==
  /\ b.at = "idle" /\ ~b.waits /\ b.op = a.op /\ b.pid = pid /\ b.answer = answer
  /\ b.part = a.part /\ b.gone = a.gone /\ ~b.stopped
  /\ b.started <=>
       a.started \/ (answer = "ok" /\ a.op = "start_producer" /\ ~a.stopped)

\* new is callers but for c.
OnlyMoves(c, new) ==
  /\ new \in [Callers -> CallerType]
  /\ \A d \in Callers : d # c => new[d] = callers[d]

LEMMA GoToGoes ==
  ASSUME CallersTyped, NEW c \in Callers, NEW at \in CallerAts
  PROVE  OnlyMoves(c, GoTo(c, at))
         /\ Goes(callers[c], GoTo(c, at)[c], at, callers[c].op, callers[c].pid)
<1> DEFINE r == [callers[c] EXCEPT !.at = at, !.waits = FALSE]
<1>1. GoTo(c, at) = [callers EXCEPT ![c] = r]
  BY DEF GoTo, CallersTyped
<1>2. callers[c] \in CallerType
  BY DEF CallersTyped
<1>3. /\ r \in CallerType /\ r.at = at /\ r.waits = FALSE /\ r.op = callers[c].op
      /\ r.pid = callers[c].pid /\ r.answer = callers[c].answer /\ r.part = callers[c].part
      /\ r.gone = callers[c].gone /\ r.stopped = callers[c].stopped
      /\ r.started = callers[c].started
  BY <1>2 DEF CallerType
<1> HIDE DEF r
<1>4. OnlyMoves(c, GoTo(c, at)) /\ GoTo(c, at)[c] = r
  BY <1>1, <1>3 DEF CallersTyped, OnlyMoves
<1> QED
  BY <1>3, <1>4 DEF Goes

LEMMA WaitsWaits ==
  ASSUME CallersTyped, NEW c \in Callers
  PROVE  OnlyMoves(c, Waits(c)) /\ StartsToWait(callers[c], Waits(c)[c])
<1> DEFINE r == [callers[c] EXCEPT !.waits = TRUE]
<1>1. Waits(c) = [callers EXCEPT ![c] = r]
  BY DEF Waits, CallersTyped
<1>2. callers[c] \in CallerType
  BY DEF CallersTyped
<1>3. /\ r \in CallerType /\ r.at = callers[c].at /\ r.waits = TRUE /\ r.op = callers[c].op
      /\ r.pid = callers[c].pid /\ r.answer = callers[c].answer /\ r.part = callers[c].part
      /\ r.gone = callers[c].gone /\ r.stopped = callers[c].stopped
      /\ r.started = callers[c].started
  BY <1>2 DEF CallerType
<1> HIDE DEF r
<1>4. OnlyMoves(c, Waits(c)) /\ Waits(c)[c] = r
  BY <1>1, <1>3 DEF CallersTyped, OnlyMoves
<1> QED
  BY <1>3, <1>4 DEF StartsToWait

LEMMA ReturnsAnswers ==
  ASSUME CallersTyped, NEW c \in Callers, NEW answer \in Answers,
         NEW pid \in Pids \cup {Nobody, Restarting}
  PROVE  OnlyMoves(c, Returns(c, answer, pid))
         /\ IsAnswered(callers[c], Returns(c, answer, pid)[c], answer, pid)
<1> DEFINE v == callers[c].started \/ /\ answer = "ok" /\ callers[c].op = "start_producer"
                                      /\ ~callers[c].stopped
           r == [callers[c] EXCEPT !.at = "idle", !.waits = FALSE, !.answer = answer, !.pid = pid,
                                   !.stopped = FALSE, !.started = v]
           new == Returns(c, answer, pid)
<1>1. new = [callers EXCEPT ![c] = r]
  BY DEF Returns, CallersTyped
<1>2. callers[c] \in CallerType
  BY DEF CallersTyped
<1>3. v \in BOOLEAN
  BY <1>2 DEF CallerType
<1>4. v <=> callers[c].started \/ /\ answer = "ok" /\ callers[c].op = "start_producer"
                                  /\ ~callers[c].stopped
  OBVIOUS
<1> HIDE DEF v
<1>5. /\ r \in CallerType /\ r.at = "idle" /\ r.waits = FALSE /\ r.op = callers[c].op
      /\ r.pid = pid /\ r.answer = answer /\ r.part = callers[c].part
      /\ r.gone = callers[c].gone /\ r.stopped = FALSE /\ r.started = v
  BY <1>2, <1>3 DEF CallerType, CallerAts
<1> HIDE DEF r, new
<1>6. OnlyMoves(c, new) /\ new[c] = r
  BY <1>1, <1>5 DEF CallersTyped, OnlyMoves
<1>7. IsAnswered(callers[c], new[c], answer, pid)
  BY <1>4, <1>5, <1>6 DEF IsAnswered
<1> QED
  BY <1>6, <1>7 DEF new

\* What a caller does with an answer of get_partition_worker.
WorkerAnswered(a, b, answer, pid) ==
  \/ answer = "topic_not_found" /\ a.op = "start_producer" /\ Goes(a, b, "start_producer", a.op, a.pid)
  \/ answer = "topic_not_found" /\ a.op = "get" /\ Goes(a, b, "auto_start_producer", a.op, a.pid)
  \/ /\ ~(answer = "topic_not_found" /\ a.op \in {"get", "start_producer"})
     /\ IsAnswered(a, b, answer, pid)

LEMMA WorkerIsAnswered ==
  ASSUME CallersTyped, NEW c \in Callers, NEW answer \in Answers,
         NEW pid \in Pids \cup {Nobody, Restarting}
  PROVE  OnlyMoves(c, WorkerIs(c, answer, pid))
         /\ WorkerAnswered(callers[c], WorkerIs(c, answer, pid)[c], answer, pid)
<1>1. {"start_producer", "auto_start_producer"} \subseteq CallerAts
  BY DEF CallerAts, ClientCalls
<1>2. CASE answer = "topic_not_found" /\ callers[c].op = "start_producer"
  <2>1. WorkerIs(c, answer, pid) = GoTo(c, "start_producer")
    BY <1>2 DEF WorkerIs
  <2> QED
    BY <1>1, <1>2, <2>1, GoToGoes DEF WorkerAnswered
<1>3. CASE answer = "topic_not_found" /\ callers[c].op = "get"
  <2>1. WorkerIs(c, answer, pid) = GoTo(c, "auto_start_producer")
    BY <1>3 DEF WorkerIs
  <2> QED
    BY <1>1, <1>3, <2>1, GoToGoes DEF WorkerAnswered
<1>4. CASE ~(answer = "topic_not_found" /\ callers[c].op \in {"get", "start_producer"})
  <2>1. WorkerIs(c, answer, pid) = Returns(c, answer, pid)
    BY <1>4 DEF WorkerIs
  <2> QED
    BY <1>4, <2>1, ReturnsAnswers DEF WorkerAnswered
<1> QED
  BY <1>2, <1>3, <1>4

\* What a caller does with an answer of the client.
ClientAnswered(a, b, reply) ==
  \/ reply = "client_down" /\ IsAnswered(a, b, reply, Nobody)
  \/ /\ reply # "client_down" /\ a.at = "get_workers_table"
     /\ Goes(a, b, "lookup_again", a.op, a.pid)
  \/ /\ reply # "client_down" /\ a.at = "get_producers_sup_pid"
     /\ Goes(a, b, "topics_sup", a.op, a.pid)
  \/ a.at = "auto_start_producer" /\ reply = "ok" /\ Goes(a, b, "lookup", "get_again", a.pid)
  \/ /\ a.at \notin {"get_workers_table", "get_producers_sup_pid"}
     /\ ~(a.at = "auto_start_producer" /\ reply = "ok")
     /\ IsAnswered(a, b, reply, Nobody)

LEMMA RepliedAnswered ==
  ASSUME CallersTyped, NEW c \in Callers, NEW reply \in Answers
  PROVE  OnlyMoves(c, Replied(c, reply)) /\ ClientAnswered(callers[c], Replied(c, reply)[c], reply)
<1> DEFINE new == Replied(c, reply)
<1>1. {"lookup_again", "topics_sup", "lookup"} \subseteq CallerAts
  BY DEF CallerAts
<1>2. Nobody \in Pids \cup {Nobody, Restarting}
  OBVIOUS
<1>3. CASE reply = "client_down"
  <2>1. new = Returns(c, reply, Nobody)
    BY <1>3 DEF Replied
  <2> QED
    BY <1>2, <1>3, <2>1, ReturnsAnswers DEF ClientAnswered
<1>4. CASE reply # "client_down" /\ callers[c].at = "get_workers_table"
  <2>1. new = GoTo(c, "lookup_again")
    BY <1>4 DEF Replied
  <2> QED
    BY <1>1, <1>4, <2>1, GoToGoes DEF ClientAnswered
<1>5. CASE reply # "client_down" /\ callers[c].at = "get_producers_sup_pid"
  <2>1. new = GoTo(c, "topics_sup")
    BY <1>5 DEF Replied
  <2> QED
    BY <1>1, <1>5, <2>1, GoToGoes DEF ClientAnswered
<1>6. CASE callers[c].at = "auto_start_producer" /\ reply = "ok"
  <2>1. new = [GoTo(c, "lookup") EXCEPT ![c].op = "get_again"]
    BY <1>6 DEF Replied
  <2> DEFINE g == GoTo(c, "lookup")
             r == [g[c] EXCEPT !.op = "get_again"]
  <2>2. OnlyMoves(c, g) /\ Goes(callers[c], g[c], "lookup", callers[c].op, callers[c].pid)
    BY <1>1, GoToGoes
  <2> HIDE DEF g
  <2>3. g \in [Callers -> CallerType] /\ g[c] \in CallerType
    BY <2>2 DEF OnlyMoves
  <2>4. new = [g EXCEPT ![c] = r]
    BY <2>1, <2>3 DEF g
  <2>5. /\ r \in CallerType /\ r.op = "get_again" /\ r.at = g[c].at /\ r.waits = g[c].waits
        /\ r.pid = g[c].pid /\ r.answer = g[c].answer /\ r.part = g[c].part
        /\ r.gone = g[c].gone /\ r.stopped = g[c].stopped /\ r.started = g[c].started
    BY <2>3 DEF CallerType
  <2> HIDE DEF r, new
  <2>6. OnlyMoves(c, new) /\ new[c] = r
    BY <2>2, <2>3, <2>4, <2>5 DEF OnlyMoves
  <2>7. Goes(callers[c], new[c], "lookup", "get_again", callers[c].pid)
    BY <2>2, <2>5, <2>6 DEF Goes
  <2> QED
    BY <1>6, <2>6, <2>7 DEF ClientAnswered, new
<1>7. CASE /\ reply # "client_down" /\ ~(callers[c].at = "auto_start_producer" /\ reply = "ok")
           /\ callers[c].at \notin {"get_workers_table", "get_producers_sup_pid"}
  <2>1. new = Returns(c, reply, Nobody)
    BY <1>7 DEF Replied
  <2> QED
    BY <1>2, <1>7, <2>1, ReturnsAnswers DEF ClientAnswered
<1> QED
  BY <1>3, <1>4, <1>5, <1>6, <1>7

LEMMA CallerNextEffects ==
  ASSUME TypeOK, CallersTyped, CallProgress, NEW c \in Callers
  PROVE
    LET a == callers[c]
        b == callers'[c]
        found == table[a.part]
    IN
    /\ Lookup(c) \/ CheckAlive(c) \/ CallClient(c) \/ CallTopicsSup(c) \/ CallPartitionsSup(c) =>
         OnlyMoves(c, callers') /\ a.at # "idle"
    /\ Lookup(c) =>
         \/ client = "down" /\ IsAnswered(a, b, "client_down", Nobody)
         \/ client # "down" /\ found = Nobody /\ Goes(a, b, "get_producers_sup_pid", a.op, a.pid)
         \/ /\ client # "down" /\ found \in Pids /\ a.at = "lookup"
            /\ Goes(a, b, "is_process_alive", a.op, found)
         \/ /\ client # "down" /\ found \in Pids /\ a.at = "lookup_again"
            /\ IsAnswered(a, b, "ok", found)
    /\ CheckAlive(c) =>
         \/ a.pid \in Pids /\ Alive(a.pid) /\ IsAnswered(a, b, "ok", a.pid)
         \/ a.pid \in Pids /\ ~Alive(a.pid) /\ Goes(a, b, "get_workers_table", a.op, a.pid)
    /\ CallClient(c) =>
         \/ client = "down" /\ IsAnswered(a, b, "client_down", Nobody)
         \/ client # "down" /\ StartsToWait(a, b)
    /\ CallTopicsSup(c) =>
         \/ tsup = "down" /\ IsAnswered(a, b, "exit", Nobody)
         \/ tsup # "down" /\ StartsToWait(a, b)
    /\ CallPartitionsSup(c) => StartsToWait(a, b)
<1> DEFINE a == callers[c]
           b == callers'[c]
           found == table[a.part]
<1>1. /\ a \in CallerType /\ callers \in [Callers -> CallerType]
      /\ a.part \in Partitions /\ a.pid \in Pids \cup {Nobody, Restarting}
  BY DEF CallersTyped, CallerType
<1>2. found \in Pids \cup {Nobody}
  BY <1>1 DEF TypeOK
<1>3. {"get_producers_sup_pid", "is_process_alive", "get_workers_table"} \subseteq CallerAts
  BY DEF CallerAts, ClientCalls
<1>4. {"client_down", "ok", "exit"} \subseteq Answers
  BY DEF Answers
<1>5. Nobody \in Pids \cup {Nobody, Restarting} /\ Nobody \notin Pids
  BY PidFacts
<1>6. ASSUME Lookup(c)
      PROVE  /\ OnlyMoves(c, callers') /\ a.at # "idle"
             /\ \/ client = "down" /\ IsAnswered(a, b, "client_down", Nobody)
                \/ /\ client # "down" /\ found = Nobody
                   /\ Goes(a, b, "get_producers_sup_pid", a.op, a.pid)
                \/ /\ client # "down" /\ found \in Pids /\ a.at = "lookup"
                   /\ Goes(a, b, "is_process_alive", a.op, found)
                \/ /\ client # "down" /\ found \in Pids /\ a.at = "lookup_again"
                   /\ IsAnswered(a, b, "ok", found)
  <2>1. a.at \in {"lookup", "lookup_again"}
    BY <1>6 DEF Lookup
  <2>2. CASE client = "down"
    <3>1. callers' = WorkerIs(c, "client_down", Nobody)
      BY <1>6, <2>2 DEF Lookup
    <3> QED
      BY <1>4, <1>5, <2>1, <2>2, <3>1, WorkerIsAnswered DEF WorkerAnswered
  <2>3. CASE client # "down" /\ found = Nobody
    <3>1. callers' = GoTo(c, "get_producers_sup_pid")
      BY <1>6, <2>3 DEF Lookup
    <3> QED
      BY <1>3, <2>1, <2>3, <3>1, GoToGoes
  <2>4. CASE client # "down" /\ found # Nobody /\ a.at = "lookup"
    <3> DEFINE g == GoTo(c, "is_process_alive")
               r == [g[c] EXCEPT !.pid = found]
    <3>1. callers' = [g EXCEPT ![c].pid = found]
      BY <1>6, <2>4 DEF Lookup
    <3>2. OnlyMoves(c, g) /\ Goes(a, g[c], "is_process_alive", a.op, a.pid)
      BY <1>3, GoToGoes
    <3> HIDE DEF g
    <3>3. g \in [Callers -> CallerType] /\ g[c] \in CallerType
      BY <3>2 DEF OnlyMoves
    <3>4. callers' = [g EXCEPT ![c] = r]
      BY <3>1, <3>3
    <3>5. /\ r \in CallerType /\ r.op = g[c].op /\ r.at = g[c].at /\ r.waits = g[c].waits
          /\ r.pid = found /\ r.answer = g[c].answer /\ r.part = g[c].part
          /\ r.gone = g[c].gone /\ r.stopped = g[c].stopped /\ r.started = g[c].started
      BY <1>2, <3>3 DEF CallerType
    <3> HIDE DEF r
    <3>6. OnlyMoves(c, callers') /\ b = r
      BY <3>2, <3>3, <3>4, <3>5 DEF OnlyMoves
    <3>7. Goes(a, b, "is_process_alive", a.op, found)
      BY <3>2, <3>5, <3>6 DEF Goes
    <3> QED
      BY <1>2, <2>1, <2>4, <3>6, <3>7
  <2>5. CASE client # "down" /\ found # Nobody /\ a.at = "lookup_again"
    <3>1. callers' = WorkerIs(c, "ok", found)
      BY <1>6, <2>5 DEF Lookup
    <3> QED
      BY <1>2, <1>4, <2>1, <2>5, <3>1, WorkerIsAnswered DEF WorkerAnswered
  <2> QED
    BY <2>1, <2>2, <2>3, <2>4, <2>5
<1>7. ASSUME CheckAlive(c)
      PROVE  /\ OnlyMoves(c, callers') /\ a.at # "idle"
             /\ \/ a.pid \in Pids /\ Alive(a.pid) /\ IsAnswered(a, b, "ok", a.pid)
                \/ a.pid \in Pids /\ ~Alive(a.pid) /\ Goes(a, b, "get_workers_table", a.op, a.pid)
  <2>1. a.at = "is_process_alive" /\ a.pid \in Pids
    BY <1>7 DEF CheckAlive, CallProgress, InOrder
  <2>2. CASE Alive(a.pid)
    <3>1. callers' = WorkerIs(c, "ok", a.pid)
      BY <1>7, <2>2 DEF CheckAlive
    <3> QED
      BY <1>1, <1>4, <2>1, <2>2, <3>1, WorkerIsAnswered DEF WorkerAnswered
  <2>3. CASE ~Alive(a.pid)
    <3>1. callers' = GoTo(c, "get_workers_table")
      BY <1>7, <2>3 DEF CheckAlive
    <3> QED
      BY <1>3, <2>1, <2>3, <3>1, GoToGoes
  <2> QED
    BY <2>2, <2>3
<1>8. ASSUME CallClient(c)
      PROVE  /\ OnlyMoves(c, callers') /\ a.at # "idle"
             /\ \/ client = "down" /\ IsAnswered(a, b, "client_down", Nobody)
                \/ client # "down" /\ StartsToWait(a, b)
  <2>1. a.at # "idle"
    BY <1>8 DEF CallClient, ClientCalls
  <2>2. CASE client = "down"
    <3>1. callers' = Replied(c, "client_down")
      BY <1>8, <2>2 DEF CallClient
    <3>2. OnlyMoves(c, callers') /\ ClientAnswered(a, b, "client_down")
      BY <1>4, <3>1, RepliedAnswered
    <3> QED
      BY <2>1, <2>2, <3>2 DEF ClientAnswered
  <2>3. CASE client # "down"
    <3>1. callers' = Waits(c)
      BY <1>8, <2>3 DEF CallClient
    <3> QED
      BY <2>1, <2>3, <3>1, WaitsWaits
  <2> QED
    BY <2>2, <2>3
<1>9. ASSUME CallTopicsSup(c)
      PROVE  /\ OnlyMoves(c, callers') /\ a.at # "idle"
             /\ \/ tsup = "down" /\ IsAnswered(a, b, "exit", Nobody)
                \/ tsup # "down" /\ StartsToWait(a, b)
  <2>1. a.at # "idle"
    BY <1>9 DEF CallTopicsSup
  <2>2. callers' = IF tsup = "down" THEN Returns(c, "exit", Nobody) ELSE Waits(c)
    BY <1>9 DEF CallTopicsSup
  <2> QED
    BY <1>4, <1>5, <2>1, <2>2, ReturnsAnswers, WaitsWaits
<1>10. ASSUME CallPartitionsSup(c)
       PROVE  OnlyMoves(c, callers') /\ a.at # "idle" /\ StartsToWait(a, b)
  BY <1>10, WaitsWaits DEF CallPartitionsSup
<1> HIDE DEF a, b, found
<1>11. /\ Lookup(c) \/ CheckAlive(c) \/ CallClient(c) \/ CallTopicsSup(c) \/ CallPartitionsSup(c) =>
            OnlyMoves(c, callers') /\ a.at # "idle"
       /\ Lookup(c) =>
            \/ client = "down" /\ IsAnswered(a, b, "client_down", Nobody)
            \/ client # "down" /\ found = Nobody /\ Goes(a, b, "get_producers_sup_pid", a.op, a.pid)
            \/ /\ client # "down" /\ found \in Pids /\ a.at = "lookup"
               /\ Goes(a, b, "is_process_alive", a.op, found)
            \/ /\ client # "down" /\ found \in Pids /\ a.at = "lookup_again"
               /\ IsAnswered(a, b, "ok", found)
  BY <1>6, <1>7, <1>8, <1>9, <1>10
<1> QED
  BY <1>7, <1>8, <1>9, <1>10, <1>11 DEF a, b, found

LEMMA MessagesAre ==
  ASSUME Mail
  PROVE
    /\ \A i \in 1..Len(cbox) : cbox[i].what \in ClientMessages
                               /\ cbox[i] = Message(cbox[i].what, cbox[i].from)
    /\ \A i \in 1..Len(tbox) : tbox[i].what \in TopicsSupMessages
                               /\ tbox[i] = Message(tbox[i].what, tbox[i].from)
    /\ \A i \in 1..Len(pbox) : pbox[i].what \in PartitionsSupMessages
                               /\ pbox[i] = Message(pbox[i].what, pbox[i].from)
<1> DEFINE C == [what : ClientMessages, from : Senders]
           T == [what : TopicsSupMessages, from : Senders]
           P == [what : PartitionsSupMessages, from : Senders]
<1>1. cbox \in Seq(C) /\ tbox \in Seq(T) /\ pbox \in Seq(P)
  BY DEF Mail, ClientMail, TopicsSupMail, PartitionsSupMail
<1>2. /\ \A m \in C : m.what \in ClientMessages /\ m = Message(m.what, m.from)
      /\ \A m \in T : m.what \in TopicsSupMessages /\ m = Message(m.what, m.from)
      /\ \A m \in P : m.what \in PartitionsSupMessages /\ m = Message(m.what, m.from)
  BY DEF Message
<1> HIDE DEF C, T, P
<1> QED
  BY <1>1, <1>2

\* What the first message in a mailbox says of its sender.
LEMMA HeadsOfCalls ==
  ASSUME TypeOK, Mail, OneAnswer
  PROVE
    /\ cbox # <<>> => /\ 1 \in 1..Len(cbox) /\ Head(cbox) = cbox[1]
                      /\ Head(cbox).what \in ClientCalls => Head(cbox).from \in Callers \cup {Sup}
                      /\ Head(cbox).what \in CallerCalls => Head(cbox).from \in Callers
                      /\ Head(cbox).from \in Callers =>
                           /\ callers[Head(cbox).from].at = Head(cbox).what
                           /\ callers[Head(cbox).from].waits
    /\ tbox # <<>> => /\ 1 \in 1..Len(tbox) /\ Head(tbox) = tbox[1]
                      /\ Head(tbox).what = "which_children" =>
                           /\ Head(tbox).from \in Callers /\ callers[Head(tbox).from].waits
                           /\ callers[Head(tbox).from].at = "topics_sup"
    /\ pbox # <<>> => /\ 1 \in 1..Len(pbox) /\ Head(pbox) = pbox[1]
                      /\ Head(pbox).what = "which_children" =>
                           /\ Head(pbox).from \in Callers /\ callers[Head(pbox).from].waits
                           /\ callers[Head(pbox).from].at = "partitions_sup"
<1>1. /\ cbox # <<>> => 1 \in 1..Len(cbox) /\ Head(cbox) = cbox[1]
      /\ tbox # <<>> => 1 \in 1..Len(tbox) /\ Head(tbox) = tbox[1]
      /\ pbox # <<>> => 1 \in 1..Len(pbox) /\ Head(pbox) = pbox[1]
  BY TookTail DEF Mail, ClientMail, TopicsSupMail, PartitionsSupMail, Took
<1> QED
  BY <1>1 DEF Mail, ClientMail, TopicsSupMail, PartitionsSupMail, OneAnswer, Asked, AskedClient

LEMMA ClientEffects ==
  ASSUME TypeOK, Mail, CallersTyped, OneAnswer
  PROVE
    LET c == Head(cbox).from
        a == callers[c]
        b == callers'[c]
    IN
    /\ HandleQuery =>
         \/ c = Sup /\ UNCHANGED callers
         \/ /\ c \in Callers /\ OnlyMoves(c, callers')
            /\ \/ a.at = "get_workers_table" /\ Goes(a, b, "lookup_again", a.op, a.pid)
               \/ a.at = "get_producers_sup_pid" /\ Goes(a, b, "topics_sup", a.op, a.pid)
    /\ HandleStartProducer =>
         /\ c \in Callers /\ a.at \in {"start_producer", "auto_start_producer"} /\ a.waits
         /\ \/ UNCHANGED callers /\ client' = "start_child" /\ serving' = c /\ count' = "counted"
            \/ /\ OnlyMoves(c, callers') /\ UNCHANGED <<client, serving>>
               /\ \/ IsAnswered(a, b, "topic_not_found", Nobody) /\ ~AutoStart
                     /\ a.at = "auto_start_producer"
                  \/ IsAnswered(a, b, "unknown_topic", Nobody) /\ count' = "unknown"
                  \/ IsAnswered(a, b, "request_failed", Nobody) /\ faults' = faults + 1
    /\ HandleGetMetadata =>
         \/ c = Sup /\ UNCHANGED callers
         \/ /\ c \in Callers /\ OnlyMoves(c, callers') /\ a.at = "get_metadata"
            /\ \E reply \in {"ok", "request_failed"} : IsAnswered(a, b, reply, Nobody)
<1> DEFINE c == Head(cbox).from
           a == callers[c]
           b == callers'[c]
<1>1. {"ok", "topic_not_found", "unknown_topic", "request_failed"} \subseteq Answers
  BY DEF Answers
<1>2. /\ {"get_workers_table", "get_producers_sup_pid", "get_metadata"} \subseteq ClientCalls
      /\ {"start_producer", "auto_start_producer"} \subseteq CallerCalls
  BY DEF ClientCalls, CallerCalls
<1>3. ASSUME HandleQuery
      PROVE  \/ c = Sup /\ UNCHANGED callers
             \/ /\ c \in Callers /\ OnlyMoves(c, callers')
                /\ \/ a.at = "get_workers_table" /\ Goes(a, b, "lookup_again", a.op, a.pid)
                   \/ a.at = "get_producers_sup_pid" /\ Goes(a, b, "topics_sup", a.op, a.pid)
  <2>1. cbox # <<>> /\ Head(cbox).what \in {"get_workers_table", "get_producers_sup_pid"}
    BY <1>3 DEF HandleQuery, Takes
  <2>2. CASE c = Sup
    BY <1>3, <2>2 DEF HandleQuery
  <2>3. CASE c # Sup
    <3>1. c \in Callers /\ a.at \in {"get_workers_table", "get_producers_sup_pid"}
      BY <1>2, <2>1, <2>3, HeadsOfCalls
    <3>2. callers' = Replied(c, "ok")
      BY <1>3, <2>3 DEF HandleQuery
    <3>3. OnlyMoves(c, callers') /\ ClientAnswered(a, b, "ok")
      BY <1>1, <3>1, <3>2, RepliedAnswered
    <3> QED
      BY <3>1, <3>3 DEF ClientAnswered
  <2> QED
    BY <2>2, <2>3
<1>4. ASSUME HandleStartProducer
      PROVE  /\ c \in Callers /\ a.at \in {"start_producer", "auto_start_producer"} /\ a.waits
             /\ \/ UNCHANGED callers /\ client' = "start_child" /\ serving' = c /\ count' = "counted"
                \/ /\ OnlyMoves(c, callers') /\ UNCHANGED <<client, serving>>
                   /\ \/ IsAnswered(a, b, "topic_not_found", Nobody) /\ ~AutoStart
                         /\ a.at = "auto_start_producer"
                      \/ IsAnswered(a, b, "unknown_topic", Nobody) /\ count' = "unknown"
                      \/ IsAnswered(a, b, "request_failed", Nobody) /\ faults' = faults + 1
  <2>1. cbox # <<>> /\ Head(cbox).what \in {"start_producer", "auto_start_producer"}
    BY <1>4 DEF HandleStartProducer, Takes
  <2>2. c \in Callers /\ a.at = Head(cbox).what /\ a.waits
    BY <1>2, <2>1, HeadsOfCalls
  <2>3. \/ UNCHANGED callers /\ client' = "start_child" /\ serving' = c /\ count' = "counted"
        \/ /\ UNCHANGED <<client, serving>>
           /\ \/ callers' = Replied(c, "topic_not_found") /\ ~AutoStart
                 /\ Head(cbox).what = "auto_start_producer"
              \/ callers' = Replied(c, "unknown_topic") /\ count' = "unknown"
              \/ callers' = Replied(c, "request_failed") /\ faults' = faults + 1
    BY <1>4 DEF HandleStartProducer, Takes, Fetched
  <2>4. ASSUME NEW reply \in {"topic_not_found", "unknown_topic", "request_failed"},
               callers' = Replied(c, reply)
        PROVE  OnlyMoves(c, callers') /\ IsAnswered(a, b, reply, Nobody)
    <3>1. OnlyMoves(c, callers') /\ ClientAnswered(a, b, reply)
      BY <1>1, <2>2, <2>4, RepliedAnswered
    <3> QED
      BY <2>1, <2>2, <2>4, <3>1 DEF ClientAnswered
  <2> HIDE DEF c, a, b
  <2> QED
    BY <2>1, <2>2, <2>3, <2>4
<1>5. ASSUME HandleGetMetadata
      PROVE  \/ c = Sup /\ UNCHANGED callers
             \/ /\ c \in Callers /\ OnlyMoves(c, callers') /\ a.at = "get_metadata"
                /\ \E reply \in {"ok", "request_failed"} : IsAnswered(a, b, reply, Nobody)
  <2>1. cbox # <<>> /\ Head(cbox).what = "get_metadata"
    BY <1>5 DEF HandleGetMetadata, Takes
  <2>2. CASE c = Sup
    BY <1>5, <2>2 DEF HandleGetMetadata
  <2>3. CASE c # Sup
    <3>1. c \in Callers /\ a.at = "get_metadata"
      BY <1>2, <2>1, <2>3, HeadsOfCalls
    <3>2. PICK reply \in {"ok", "request_failed"} : callers' = Replied(c, reply)
      BY <1>5, <2>3 DEF HandleGetMetadata
    <3>3. OnlyMoves(c, callers') /\ ClientAnswered(a, b, reply)
      BY <1>1, <3>1, <3>2, RepliedAnswered
    <3>4. IsAnswered(a, b, reply, Nobody)
      BY <3>1, <3>3 DEF ClientAnswered
    <3> QED
      BY <3>1, <3>3, <3>4
  <2> QED
    BY <2>2, <2>3
<1> QED
  BY <1>3, <1>4, <1>5

LEMMA TopicsSupEffects ==
  ASSUME TypeOK, Mail, OneCall, CallersTyped, OneAnswer
  PROVE
    /\ HandleStartChild \/ HandleDeleteChild => serving \in Callers
    /\ HandleStartChild =>
         LET a == callers[serving]
             b == callers'[serving]
         IN /\ OnlyMoves(serving, callers') /\ client = "start_child"
            /\ a.at \in {"start_producer", "auto_start_producer"}
            /\ \/ /\ child \in {"absent", "pid"} /\ a.at = "auto_start_producer"
                  /\ Goes(a, b, "lookup", "get_again", a.pid)
               \/ /\ child \in {"absent", "pid"} /\ a.at = "start_producer"
                  /\ IsAnswered(a, b, "ok", Nobody)
               \/ child \notin {"absent", "pid"} /\ IsAnswered(a, b, "already_present", Nobody)
    /\ HandleDeleteChild =>
         LET a == callers[serving]
             b == callers'[serving]
         IN /\ client = "delete_child" /\ a.at = "stop_producer"
            /\ \/ child # "undefined" /\ UNCHANGED callers
               \/ /\ child = "undefined" /\ OnlyMoves(serving, callers')
                  /\ IsAnswered(a, b, "ok", Nobody)
    /\ TopicsSupWhichChildren =>
         LET c == Head(tbox).from
             a == callers[c]
             b == callers'[c]
         IN /\ c \in Callers /\ OnlyMoves(c, callers') /\ a.at = "topics_sup"
            /\ \/ child = "absent" /\ WorkerAnswered(a, b, "topic_not_found", Nobody)
               \/ child = "pid" /\ psup # "down" /\ Goes(a, b, "partitions_sup", a.op, a.pid)
               \/ /\ child # "absent" /\ ~(child = "pid" /\ psup # "down")
                  /\ IsAnswered(a, b, "producer_down", Nobody)
    /\ TopicsSupEnds =>
         /\ CallersTyped'
         /\ \A c \in Callers :
              \/ ~(callers[c].at = "topics_sup" /\ callers[c].waits) /\ callers'[c] = callers[c]
              \/ /\ callers[c].at = "topics_sup" /\ callers[c].waits
                 /\ IsAnswered(callers[c], callers'[c], "exit", Nobody)
<1>1. {"ok", "topic_not_found", "already_present", "producer_down", "exit"} \subseteq Answers
  BY DEF Answers
<1>2. Nobody \in Pids \cup {Nobody, Restarting}
  OBVIOUS
<1>3. ASSUME HandleStartChild \/ HandleDeleteChild
      PROVE  /\ serving \in Callers /\ client = Head(tbox).what
             /\ client \in {"start_child", "delete_child"}
             /\ client = "start_child" =>
                  callers[serving].at \in {"start_producer", "auto_start_producer"}
             /\ client # "start_child" => callers[serving].at = "stop_producer"
  <2>1. tbox # <<>> /\ Head(tbox).what \in {"start_child", "delete_child"}
    BY <1>3 DEF HandleStartChild, HandleDeleteChild, TopicsSupTakes
  <2>2. client = Head(tbox).what
    BY <2>1, HeadsOfCalls DEF OneCall, CallOfClient, ClientWaits
  <2>3. serving \in Callers
    BY <2>1, <2>2 DEF OneAnswer, Serves, TypeOK
  <2> QED
    BY <2>1, <2>2, <2>3 DEF OneAnswer, Serves
<1>4. ASSUME HandleStartChild
      PROVE  LET a == callers[serving]
                 b == callers'[serving]
             IN /\ OnlyMoves(serving, callers') /\ client = "start_child"
                /\ a.at \in {"start_producer", "auto_start_producer"}
                /\ \/ /\ child \in {"absent", "pid"} /\ a.at = "auto_start_producer"
                      /\ Goes(a, b, "lookup", "get_again", a.pid)
                   \/ /\ child \in {"absent", "pid"} /\ a.at = "start_producer"
                      /\ IsAnswered(a, b, "ok", Nobody)
                   \/ child \notin {"absent", "pid"} /\ IsAnswered(a, b, "already_present", Nobody)
  <2> DEFINE reply == IF child \in {"absent", "pid"} THEN "ok" ELSE "already_present"
  <2>1. client = "start_child" /\ callers' = Replied(serving, reply)
    BY <1>3, <1>4 DEF HandleStartChild, TopicsSupTakes
  <2>2. OnlyMoves(serving, callers') /\ ClientAnswered(callers[serving], callers'[serving], reply)
    BY <1>1, <1>3, <1>4, <2>1, RepliedAnswered
  <2>3. callers[serving].at \in {"start_producer", "auto_start_producer"}
    BY <1>3, <1>4, <2>1
  <2>4. CASE child \in {"absent", "pid"}
    <3>1. reply = "ok"
      BY <2>4
    <3> HIDE DEF reply
    <3> QED
      BY <2>1, <2>2, <2>3, <2>4, <3>1 DEF ClientAnswered
  <2>5. CASE child \notin {"absent", "pid"}
    <3>1. reply = "already_present"
      BY <2>5
    <3> HIDE DEF reply
    <3> QED
      BY <2>1, <2>2, <2>3, <2>5, <3>1 DEF ClientAnswered
  <2> QED
    BY <2>4, <2>5
<1>5. ASSUME HandleDeleteChild
      PROVE  LET a == callers[serving]
                 b == callers'[serving]
             IN /\ client = "delete_child" /\ a.at = "stop_producer"
                /\ \/ child # "undefined" /\ UNCHANGED callers
                   \/ /\ child = "undefined" /\ OnlyMoves(serving, callers')
                      /\ IsAnswered(a, b, "ok", Nobody)
  <2>1. client = "delete_child"
    BY <1>3, <1>5 DEF HandleDeleteChild, TopicsSupTakes
  <2>2. callers[serving].at = "stop_producer"
    BY <1>3, <1>5, <2>1
  <2>3. CASE child # "undefined"
    BY <1>5, <2>1, <2>2, <2>3 DEF HandleDeleteChild
  <2>4. CASE child = "undefined"
    <3>1. callers' = Replied(serving, "ok")
      BY <1>5, <2>4 DEF HandleDeleteChild
    <3>2. OnlyMoves(serving, callers') /\ ClientAnswered(callers[serving], callers'[serving], "ok")
      BY <1>1, <1>3, <1>5, <3>1, RepliedAnswered
    <3> QED
      BY <2>1, <2>2, <2>4, <3>2 DEF ClientAnswered
  <2> QED
    BY <2>3, <2>4
<1>6. ASSUME TopicsSupWhichChildren
      PROVE  LET c == Head(tbox).from
                 a == callers[c]
                 b == callers'[c]
             IN /\ c \in Callers /\ OnlyMoves(c, callers') /\ a.at = "topics_sup"
                /\ \/ child = "absent" /\ WorkerAnswered(a, b, "topic_not_found", Nobody)
                   \/ child = "pid" /\ psup # "down" /\ Goes(a, b, "partitions_sup", a.op, a.pid)
                   \/ /\ child # "absent" /\ ~(child = "pid" /\ psup # "down")
                      /\ IsAnswered(a, b, "producer_down", Nobody)
  <2> DEFINE c == Head(tbox).from
  <2>1. tbox # <<>> /\ Head(tbox).what = "which_children"
    BY <1>6 DEF TopicsSupWhichChildren, TopicsSupTakes
  <2>2. c \in Callers /\ callers[c].at = "topics_sup"
    BY <2>1, HeadsOfCalls
  <2>3. /\ child = "absent" => callers' = WorkerIs(c, "topic_not_found", Nobody)
        /\ child = "pid" /\ psup # "down" => callers' = GoTo(c, "partitions_sup")
        /\ child # "absent" /\ ~(child = "pid" /\ psup # "down") =>
             callers' = WorkerIs(c, "producer_down", Nobody)
    BY <1>6 DEF TopicsSupWhichChildren
  <2>4. "partitions_sup" \in CallerAts
    BY DEF CallerAts
  <2> HIDE DEF c
  <2>5. CASE child = "absent"
    BY <1>1, <1>2, <2>2, <2>3, <2>5, WorkerIsAnswered DEF c
  <2>6. CASE child = "pid" /\ psup # "down"
    BY <2>2, <2>3, <2>4, <2>6, GoToGoes DEF c
  <2>7. CASE child # "absent" /\ ~(child = "pid" /\ psup # "down")
    <3>1. /\ OnlyMoves(c, callers')
          /\ WorkerAnswered(callers[c], callers'[c], "producer_down", Nobody)
      BY <1>1, <1>2, <2>2, <2>3, <2>7, WorkerIsAnswered
    <3> QED
      BY <2>2, <2>7, <3>1 DEF WorkerAnswered, c
  <2> QED
    BY <2>5, <2>6, <2>7
<1>7. ASSUME TopicsSupEnds
      PROVE  /\ CallersTyped'
             /\ \A c \in Callers :
                  \/ ~(callers[c].at = "topics_sup" /\ callers[c].waits) /\ callers'[c] = callers[c]
                  \/ /\ callers[c].at = "topics_sup" /\ callers[c].waits
                     /\ IsAnswered(callers[c], callers'[c], "exit", Nobody)
  <2>1. callers' = [c \in Callers |-> IF callers[c].at = "topics_sup" /\ callers[c].waits
                                      THEN Returns(c, "exit", Nobody)[c] ELSE callers[c]]
    BY <1>7 DEF TopicsSupEnds
  <2>2. ASSUME NEW c \in Callers
        PROVE  /\ Returns(c, "exit", Nobody)[c] \in CallerType /\ callers[c] \in CallerType
               /\ IsAnswered(callers[c], Returns(c, "exit", Nobody)[c], "exit", Nobody)
    BY <1>1, <1>2, ReturnsAnswers DEF OnlyMoves, CallersTyped
  <2> QED
    BY <2>1, <2>2 DEF CallersTyped
<1> QED
  BY <1>3, <1>4, <1>5, <1>6, <1>7

LEMMA PartitionsSupEffects ==
  ASSUME TypeOK, Mail, FirstPostInit, CallersTyped, CallProgress, OneAnswer
  PROVE
    /\ PartitionsSupWhichChildren =>
         LET c == Head(pbox).from
             a == callers[c]
             b == callers'[c]
         IN /\ c \in Callers /\ OnlyMoves(c, callers') /\ a.at = "partitions_sup"
            /\ a.part \in Partitions /\ kids # <<>> /\ psup = "up" /\ pbox[1] = Head(pbox)
            /\ 1 \in 1..Len(pbox) /\ pbox[1] = Message("which_children", c)
            /\ IsAnswered(a, b, "ok", kids[a.part])
    /\ PartitionsSupEnds =>
         /\ CallersTyped'
         /\ \A c \in Callers :
              \/ callers[c].at # "partitions_sup" /\ callers'[c] = callers[c]
              \/ /\ callers[c].at = "partitions_sup"
                 /\ IsAnswered(callers[c], callers'[c], "producer_down", Nobody)
<1>1. {"ok", "producer_down"} \subseteq Answers /\ Nobody \in Pids \cup {Nobody, Restarting}
  BY DEF Answers
<1>2. ASSUME PartitionsSupWhichChildren
      PROVE  LET c == Head(pbox).from
                 a == callers[c]
                 b == callers'[c]
             IN /\ c \in Callers /\ OnlyMoves(c, callers') /\ a.at = "partitions_sup"
                /\ a.part \in Partitions /\ kids # <<>> /\ psup = "up" /\ pbox[1] = Head(pbox)
                /\ 1 \in 1..Len(pbox) /\ pbox[1] = Message("which_children", c)
                /\ IsAnswered(a, b, "ok", kids[a.part])
  <2> DEFINE c == Head(pbox).from
  <2>1. /\ pbox # <<>> /\ Head(pbox).what = "which_children" /\ psup = "up"
        /\ callers' = WorkerIs(c, "ok", kids[callers[c].part])
    BY <1>2 DEF PartitionsSupWhichChildren, PartitionsSupTakes
  <2>2. c \in Callers /\ callers[c].at = "partitions_sup" /\ 1 \in 1..Len(pbox) /\ Head(pbox) = pbox[1]
    BY <2>1, HeadsOfCalls
  <2>3. kids # <<>>
    BY <2>1, <2>2 DEF FirstPostInit
  <2>4. callers[c].part \in Partitions
    BY <2>2 DEF CallersTyped, CallerType
  <2>5. kids[callers[c].part] \in Pids \cup {Nobody, Restarting}
    BY <2>3, <2>4 DEF TypeOK
  <2>6. pbox[1] = Message("which_children", c)
    BY <2>1, <2>2, MessagesAre
  <2> HIDE DEF c
  <2>7. /\ OnlyMoves(c, callers')
        /\ WorkerAnswered(callers[c], callers'[c], "ok", kids[callers[c].part])
    BY <1>1, <2>1, <2>2, <2>5, WorkerIsAnswered
  <2>8. IsAnswered(callers[c], callers'[c], "ok", kids[callers[c].part])
    BY <2>7 DEF WorkerAnswered
  <2> QED
    BY <2>1, <2>2, <2>3, <2>4, <2>6, <2>7, <2>8 DEF c
<1>3. ASSUME PartitionsSupEnds
      PROVE  /\ CallersTyped'
             /\ \A c \in Callers :
                  \/ callers[c].at # "partitions_sup" /\ callers'[c] = callers[c]
                  \/ /\ callers[c].at = "partitions_sup"
                     /\ IsAnswered(callers[c], callers'[c], "producer_down", Nobody)
  <2>1. callers' = [c \in Callers |-> IF callers[c].at = "partitions_sup"
                                      THEN WorkerIs(c, "producer_down", Nobody)[c] ELSE callers[c]]
    BY <1>3 DEF PartitionsSupEnds
  <2>2. ASSUME NEW c \in Callers
        PROVE  /\ WorkerIs(c, "producer_down", Nobody)[c] \in CallerType /\ callers[c] \in CallerType
               /\ IsAnswered(callers[c], WorkerIs(c, "producer_down", Nobody)[c], "producer_down", Nobody)
    BY <1>1, WorkerIsAnswered DEF OnlyMoves, CallersTyped, WorkerAnswered
  <2> QED
    BY <2>1, <2>2 DEF CallersTyped
<1> QED
  BY <1>2, <1>3

LEMMA ClientEndsEffects ==
  ASSUME TypeOK, Mail, CallersTyped, OneAnswer, CannotConnect \/ HandleStop \/ StopProducerFailed
  PROVE
    /\ CallersTyped' /\ client' = "down"
    /\ \A c \in Callers :
         LET a == callers[c]
             b == callers'[c]
         IN \/ b = a /\ serving # c /\ (\A i \in 1..Len(cbox) : cbox[i].from # c)
               /\ ~(HandleStop /\ c = Head(cbox).from)
            \/ /\ a.at \in ClientCalls /\ a.waits
               /\ \/ HandleStop /\ a.at = "stop" /\ IsAnswered(a, b, "ok", Nobody)
                  \/ IsAnswered(a, b, "client_down", Nobody)
<1> DEFINE asked == {cbox[i].from : i \in DOMAIN cbox} \cup {serving}
<1>1. {"ok", "client_down"} \subseteq Answers /\ Nobody \in Pids \cup {Nobody, Restarting}
  BY DEF Answers
<1>2. PICK answered : /\ \/ answered = Nobody
                         \/ /\ HandleStop /\ answered = Head(cbox).from /\ cbox # <<>>
                            /\ Head(cbox).what = "stop"
                      /\ HandleStop => answered = Head(cbox).from
                      /\ ClientEnds(answered)
  BY DEF CannotConnect, HandleStop, StopProducerFailed, Takes
<1>3. /\ callers' = [c \in Callers |->
           IF c = answered THEN Returns(c, "ok", Nobody)[c]
           ELSE IF c \in asked THEN Replied(c, "client_down")[c] ELSE callers[c]]
      /\ client' = "down"
  BY <1>2 DEF ClientEnds
<1>4. DOMAIN cbox = 1..Len(cbox)
  BY DEF Mail, ClientMail
<1>5. \A c : c \in asked <=> c = serving \/ \E i \in 1..Len(cbox) : cbox[i].from = c
  BY <1>4
<1> HIDE DEF asked
<1>6. ASSUME NEW c \in Callers
      PROVE  /\ Returns(c, "ok", Nobody)[c] \in CallerType /\ callers[c] \in CallerType
             /\ Replied(c, "client_down")[c] \in CallerType
             /\ IsAnswered(callers[c], Returns(c, "ok", Nobody)[c], "ok", Nobody)
             /\ IsAnswered(callers[c], Replied(c, "client_down")[c], "client_down", Nobody)
  <2>1. /\ OnlyMoves(c, Returns(c, "ok", Nobody)) /\ OnlyMoves(c, Replied(c, "client_down"))
        /\ IsAnswered(callers[c], Returns(c, "ok", Nobody)[c], "ok", Nobody)
        /\ ClientAnswered(callers[c], Replied(c, "client_down")[c], "client_down")
    BY <1>1, ReturnsAnswers, RepliedAnswered
  <2> QED
    BY <2>1 DEF OnlyMoves, CallersTyped, ClientAnswered
<1>7. ASSUME NEW c \in Callers, c \in asked
      PROVE  callers[c].at \in ClientCalls /\ callers[c].waits
  <2>1. CASE c = serving
    <3>1. /\ callers[c].waits
          /\ callers[c].at \in {"start_producer", "auto_start_producer", "stop_producer"}
      BY <2>1 DEF OneAnswer, Serves
    <3> QED
      BY <3>1 DEF ClientCalls
  <2>2. ASSUME NEW i \in 1..Len(cbox), cbox[i].from = c
        PROVE  callers[c].at \in ClientCalls /\ callers[c].waits
    <3>1. callers[c].waits /\ callers[c].at = cbox[i].what
      BY <2>2 DEF OneAnswer, AskedClient
    <3>3. cbox[i].what \in ClientMessages
      BY MessagesAre
    <3>4. callers[c].at \in CallerAts
      BY DEF CallersTyped, CallerType
    <3> QED
      BY <3>1, <3>3, <3>4 DEF ClientMessages, ProducerMessages, CallerAts
  <2> QED
    BY <1>5, <1>7, <2>1, <2>2
<1>8. CallersTyped'
  BY <1>3, <1>6 DEF CallersTyped
<1>9. ASSUME NEW c \in Callers
      PROVE  LET a == callers[c]
                 b == callers'[c]
             IN \/ b = a /\ serving # c /\ (\A i \in 1..Len(cbox) : cbox[i].from # c)
                   /\ ~(HandleStop /\ c = Head(cbox).from)
                \/ /\ a.at \in ClientCalls /\ a.waits
                   /\ \/ HandleStop /\ a.at = "stop" /\ IsAnswered(a, b, "ok", Nobody)
                      \/ IsAnswered(a, b, "client_down", Nobody)
  <2>1. CASE c = answered
    <3>1. HandleStop /\ callers[c].at = "stop" /\ callers[c].waits
      BY <1>2, <2>1, HeadsOfCalls, PidFacts
    <3>2. IsAnswered(callers[c], callers'[c], "ok", Nobody)
      BY <1>3, <1>6, <2>1
    <3>3. "stop" \in ClientCalls
      BY DEF ClientCalls
    <3> QED
      BY <3>1, <3>2, <3>3
  <2>2. CASE c # answered /\ c \in asked
    BY <1>3, <1>6, <1>7, <2>2
  <2>3. CASE c # answered /\ c \notin asked
    BY <1>2, <1>3, <1>5, <2>3
  <2> QED
    BY <2>1, <2>2, <2>3
<1> QED
  BY <1>3, <1>8, <1>9

LEMMA BeginEffects ==
  ASSUME CallersTyped, NEW c \in Callers, NEW op \in Ops[c], NEW k \in Partitions, Begin(c, op, k)
  PROVE
    /\ CallersTyped' /\ op \in OpNames /\ callers[c].at = "idle"
    /\ LET b == callers'[c] IN
       /\ b.op = op /\ ~b.waits /\ b.pid = Nobody /\ b.answer = "none"
       /\ b.at = IF op \in {"get", "start_producer"} THEN "lookup" ELSE op
       /\ b.gone = {p \in Pids : prods[p].st = "left"}
       /\ b.stopped <=> \E e \in Callers : StopsNow(e)
       /\ b.started <=> callers[c].started /\ ~Stops(op)
    /\ \A d \in Callers : d # c =>
         LET a == callers[d]
             b == callers'[d]
         IN /\ b.at = a.at /\ b.waits = a.waits /\ b.op = a.op /\ b.pid = a.pid
            /\ b.answer = a.answer /\ b.part = a.part /\ b.gone = a.gone
            /\ b.stopped <=> a.at # "idle" /\ (a.stopped \/ Stops(op))
            /\ b.started <=> a.started /\ ~Stops(op)
<1> DEFINE new == [op |-> op, part |-> IF op = "get" THEN k ELSE 1,
                   at |-> IF op \in {"get", "start_producer"} THEN "lookup" ELSE op,
                   waits |-> FALSE, pid |-> Nobody, answer |-> "none",
                   gone |-> {p \in Pids : prods[p].st = "left"},
                   stopped |-> \E e \in Callers : StopsNow(e),
                   started |-> callers[c].started /\ ~Stops(op)]
           other(d) == [callers[d] EXCEPT !.stopped = callers[d].at # "idle" /\ (@ \/ Stops(op)),
                                          !.started = @ /\ ~Stops(op)]
<1>1. callers' = [d \in Callers |-> IF d = c THEN new ELSE other(d)] /\ callers[c].at = "idle"
  BY DEF Begin
<1>2. op \in OpNames
  BY ClientAssumption
<1>3. new \in CallerType
  <2>1. (IF op = "get" THEN k ELSE 1) \in Partitions
    BY PidFacts
  <2>2. (IF op \in {"get", "start_producer"} THEN "lookup" ELSE op) \in CallerAts
    BY <1>2 DEF OpNames, CallerAts, ClientCalls
  <2>3. "none" \in Answers /\ op \in OpNames \cup {"none", "get_again"}
    BY <1>2 DEF Answers
  <2>4. (callers[c].started /\ ~Stops(op)) \in BOOLEAN /\ (\E e \in Callers : StopsNow(e)) \in BOOLEAN
    OBVIOUS
  <2> QED
    BY <2>1, <2>2, <2>3, <2>4 DEF CallerType
<1>4. ASSUME NEW d \in Callers
      PROVE  LET a == callers[d]
                 b == other(d)
             IN /\ b \in CallerType
                /\ b.at = a.at /\ b.waits = a.waits /\ b.op = a.op /\ b.pid = a.pid
                /\ b.answer = a.answer /\ b.part = a.part /\ b.gone = a.gone
                /\ b.stopped <=> a.at # "idle" /\ (a.stopped \/ Stops(op))
                /\ b.started <=> a.started /\ ~Stops(op)
  <2> DEFINE a == callers[d]
             s == a.at # "idle" /\ (a.stopped \/ Stops(op))
             t == a.started /\ ~Stops(op)
             b == [a EXCEPT !.stopped = s, !.started = t]
  <2>1. a \in CallerType
    BY DEF CallersTyped
  <2>2. s \in BOOLEAN /\ t \in BOOLEAN
    OBVIOUS
  <2>3. other(d) = b
    OBVIOUS
  <2>4. /\ s <=> a.at # "idle" /\ (a.stopped \/ Stops(op))
        /\ t <=> a.started /\ ~Stops(op)
    OBVIOUS
  <2> HIDE DEF a, s, t
  <2>5. /\ b \in CallerType /\ b.at = a.at /\ b.waits = a.waits /\ b.op = a.op /\ b.pid = a.pid
        /\ b.answer = a.answer /\ b.part = a.part /\ b.gone = a.gone
        /\ b.stopped = s /\ b.started = t
    BY <2>1, <2>2 DEF CallerType
  <2> HIDE DEF b, other
  <2> QED
    BY <2>3, <2>4, <2>5 DEF a
<1>5. /\ new.op = op /\ ~new.waits /\ new.pid = Nobody /\ new.answer = "none"
      /\ new.at = IF op \in {"get", "start_producer"} THEN "lookup" ELSE op
      /\ new.gone = {p \in Pids : prods[p].st = "left"}
      /\ new.stopped <=> \E e \in Callers : StopsNow(e)
      /\ new.started <=> callers[c].started /\ ~Stops(op)
  OBVIOUS
<1> HIDE DEF new, other
<1>6. callers'[c] = new /\ CallersTyped' /\ \A d \in Callers : d # c => callers'[d] = other(d)
  BY <1>1, <1>3, <1>4 DEF CallersTyped
<1> QED
  BY <1>1, <1>2, <1>4, <1>5, <1>6

-----------------------------------------------------------------------------
LEMMA KeepsOrder ==
  ASSUME NEW a, NEW b, InOrder(a), a.at # "idle",
         \/ StartsToWait(a, b) /\ a.at \in ClientCalls \cup {"topics_sup", "partitions_sup"}
         \/ \E answer, pid : IsAnswered(a, b, answer, pid)
         \/ a.at \in Looks /\ \E at \in Looks \ {"is_process_alive"} : Goes(a, b, at, a.op, a.pid)
         \/ a.at \in Looks /\ \E pid \in Pids : Goes(a, b, "is_process_alive", a.op, pid)
         \/ a.op = "start_producer" /\ Goes(a, b, "start_producer", a.op, a.pid)
         \/ a.op = "get" /\ Goes(a, b, "auto_start_producer", a.op, a.pid)
         \/ Goes(a, b, "lookup", "get_again", a.pid)
  PROVE  InOrder(b)
<1>1. CASE StartsToWait(a, b) /\ a.at \in ClientCalls \cup {"topics_sup", "partitions_sup"}
  BY <1>1 DEF StartsToWait, InOrder
<1>2. CASE \E answer, pid : IsAnswered(a, b, answer, pid)
  BY <1>2 DEF IsAnswered, InOrder, Looks
<1>3. CASE a.at \in Looks /\ \E at \in Looks \ {"is_process_alive"} : Goes(a, b, at, a.op, a.pid)
  BY <1>3 DEF Goes, InOrder, Looks
<1>4. CASE a.at \in Looks /\ \E pid \in Pids : Goes(a, b, "is_process_alive", a.op, pid)
  BY <1>4 DEF Goes, InOrder, Looks
<1>5. CASE a.op = "start_producer" /\ Goes(a, b, "start_producer", a.op, a.pid)
  BY <1>5 DEF Goes, InOrder, Looks
<1>6. CASE a.op = "get" /\ Goes(a, b, "auto_start_producer", a.op, a.pid)
  BY <1>6 DEF Goes, InOrder, Looks
<1>7. CASE Goes(a, b, "lookup", "get_again", a.pid)
  BY <1>7 DEF Goes, InOrder, Looks
<1> QED
  BY <1>1, <1>2, <1>3, <1>4, <1>5, <1>6, <1>7

LEMMA MovedInOrder ==
  ASSUME CallProgress, NEW c \in Callers, OnlyMoves(c, callers'), InOrder(callers'[c])
  PROVE  CallersTyped' /\ CallProgress'
BY DEF OnlyMoves, CallersTyped, CallProgress

\* A call keeps its order, whatever happens to the processes that serve it.
LEMMA CallersStep == ClientInv /\ CallersTyped /\ OneAnswer /\ CallProgress /\ [Next]_vars => CallersTyped' /\ CallProgress'
<1> SUFFICES ASSUME ClientInv, CallersTyped, OneAnswer, CallProgress, [Next]_vars PROVE CallersTyped' /\ CallProgress'
  OBVIOUS
<1>0. /\ TypeOK /\ Mail /\ OneCall /\ FirstPostInit /\ CallersTyped /\ OneAnswer /\ CallProgress
      /\ \A c \in Callers : InOrder(callers[c])
  BY DEF ClientInv, Family, CallProgress
<1>1. CASE UNCHANGED <<callers>>
  BY <1>0, <1>1 DEF CallersTyped, CallProgress
<1>2. ASSUME NEW c \in Callers, NEW op \in Ops[c], NEW k \in Partitions, Begin(c, op, k)
      PROVE  CallersTyped' /\ CallProgress'
  <2>1. InOrder(callers'[c])
    <3> DEFINE b == callers'[c]
    <3>1. /\ op \in OpNames /\ b.op = op /\ ~b.waits /\ b.answer = "none"
          /\ b.at = IF op \in {"get", "start_producer"} THEN "lookup" ELSE op
      BY <1>2, <1>0, BeginEffects
    <3> HIDE DEF b
    <3>2. InOrder(b)
      BY <3>1 DEF InOrder, OpNames, Looks
    <3> QED
      BY <3>2 DEF b
  <2>2. \A d \in Callers : d # c => InOrder(callers'[d])
    BY <1>2, <1>0, BeginEffects DEF InOrder
  <2> QED
    BY <1>2, <1>0, <2>1, <2>2, BeginEffects DEF CallProgress
<1>3. ASSUME NEW c \in Callers, Lookup(c)
      PROVE  CallersTyped' /\ CallProgress'
  <2>1. OnlyMoves(c, callers') /\ InOrder(callers[c]) /\ callers[c].at # "idle"
    BY <1>3, <1>0, CallerNextEffects
  <2>2. InOrder(callers'[c])
    <3> DEFINE a == callers[c]
               b == callers'[c]
               found == table[a.part]
    <3>1. a.at \in Looks /\ "get_producers_sup_pid" \in Looks \ {"is_process_alive"}
      BY <1>3 DEF Looks, Lookup
    <3>2. \/ IsAnswered(a, b, "client_down", Nobody) \/ IsAnswered(a, b, "ok", found)
          \/ Goes(a, b, "get_producers_sup_pid", a.op, a.pid)
          \/ found \in Pids /\ Goes(a, b, "is_process_alive", a.op, found)
      BY <1>3, <1>0, CallerNextEffects
    <3> HIDE DEF a, b, found
    <3>3. InOrder(a) /\ a.at # "idle" => InOrder(b)
      BY <3>1, <3>2, KeepsOrder
    <3> QED
      BY <2>1, <3>3 DEF a, b
  <2> QED
    BY <2>1, <2>2, <1>0, MovedInOrder
<1>4. ASSUME NEW c \in Callers, CheckAlive(c)
      PROVE  CallersTyped' /\ CallProgress'
  <2>1. OnlyMoves(c, callers') /\ InOrder(callers[c]) /\ callers[c].at # "idle"
    BY <1>4, <1>0, CallerNextEffects
  <2>2. InOrder(callers'[c])
    BY <1>4, <1>0, <2>1, CallerNextEffects, KeepsOrder DEF Looks, CheckAlive
  <2> QED
    BY <2>1, <2>2, <1>0, MovedInOrder
<1>5. ASSUME NEW c \in Callers, CallClient(c)
      PROVE  CallersTyped' /\ CallProgress'
  <2>1. OnlyMoves(c, callers') /\ InOrder(callers[c]) /\ callers[c].at # "idle"
    BY <1>5, <1>0, CallerNextEffects
  <2>2. InOrder(callers'[c])
    BY <1>5, <1>0, <2>1, CallerNextEffects, KeepsOrder DEF Looks, CallClient
  <2> QED
    BY <2>1, <2>2, <1>0, MovedInOrder
<1>6. ASSUME NEW c \in Callers, CallTopicsSup(c)
      PROVE  CallersTyped' /\ CallProgress'
  <2>1. OnlyMoves(c, callers') /\ InOrder(callers[c]) /\ callers[c].at # "idle"
    BY <1>6, <1>0, CallerNextEffects
  <2>2. InOrder(callers'[c])
    BY <1>6, <1>0, <2>1, CallerNextEffects, KeepsOrder DEF Looks, CallTopicsSup
  <2> QED
    BY <2>1, <2>2, <1>0, MovedInOrder
<1>7. ASSUME NEW c \in Callers, CallPartitionsSup(c)
      PROVE  CallersTyped' /\ CallProgress'
  <2>1. OnlyMoves(c, callers') /\ InOrder(callers[c]) /\ callers[c].at # "idle"
    BY <1>7, <1>0, CallerNextEffects
  <2>2. InOrder(callers'[c])
    BY <1>7, <1>0, <2>1, CallerNextEffects, KeepsOrder DEF Looks, CallPartitionsSup
  <2> QED
    BY <2>1, <2>2, <1>0, MovedInOrder
<1>8. ASSUME HandleQuery
      PROVE  CallersTyped' /\ CallProgress'
  <2>0. CASE UNCHANGED callers
    BY <2>0, <1>0 DEF CallersTyped, CallProgress
  <2>1. CASE ~UNCHANGED callers
    <3>1. Head(cbox).from \in Callers /\ OnlyMoves(Head(cbox).from, callers') /\ callers[Head(cbox).from].at # "idle"
      BY <1>8, <2>1, <1>0, ClientEffects
    <3>2. InOrder(callers'[Head(cbox).from])
      <4> DEFINE a == callers[Head(cbox).from]
                 b == callers'[Head(cbox).from]
      <4>1. InOrder(a) /\ a.at # "idle"
        BY <3>1, <1>0
      <4>2. \/ a.at = "get_workers_table" /\ Goes(a, b, "lookup_again", a.op, a.pid)
            \/ a.at = "get_producers_sup_pid" /\ Goes(a, b, "topics_sup", a.op, a.pid)
        BY <1>8, <2>1, <1>0, ClientEffects
      <4> HIDE DEF a, b
      <4>3. InOrder(b)
        BY <4>1, <4>2, KeepsOrder DEF Looks
      <4> QED
        BY <4>3 DEF b
    <3> QED
      BY <3>1, <3>2, <1>0, MovedInOrder
  <2> QED
    BY <2>0, <2>1
<1>9. ASSUME HandleStartProducer
      PROVE  CallersTyped' /\ CallProgress'
  <2>0. CASE UNCHANGED callers
    BY <2>0, <1>0 DEF CallersTyped, CallProgress
  <2>1. CASE ~UNCHANGED callers
    <3>1. Head(cbox).from \in Callers /\ OnlyMoves(Head(cbox).from, callers') /\ callers[Head(cbox).from].at # "idle"
      BY <1>9, <2>1, <1>0, ClientEffects
    <3>2. InOrder(callers'[Head(cbox).from])
      BY <1>9, <2>1, <3>1, <1>0, ClientEffects, KeepsOrder DEF Looks, WorkerAnswered
    <3> QED
      BY <3>1, <3>2, <1>0, MovedInOrder
  <2> QED
    BY <2>0, <2>1
<1>10. ASSUME HandleGetMetadata
      PROVE  CallersTyped' /\ CallProgress'
  <2>0. CASE UNCHANGED callers
    BY <2>0, <1>0 DEF CallersTyped, CallProgress
  <2>1. CASE ~UNCHANGED callers
    <3>1. Head(cbox).from \in Callers /\ OnlyMoves(Head(cbox).from, callers') /\ callers[Head(cbox).from].at # "idle"
      BY <1>10, <2>1, <1>0, ClientEffects
    <3>2. InOrder(callers'[Head(cbox).from])
      <4> DEFINE a == callers[Head(cbox).from]
                 b == callers'[Head(cbox).from]
      <4>1. InOrder(a) /\ a.at # "idle"
        BY <3>1, <1>0
      <4>2. \E answer, pid : IsAnswered(a, b, answer, pid)
        BY <1>10, <2>1, <1>0, ClientEffects
      <4> HIDE DEF a, b
      <4>3. InOrder(b)
        BY <4>1, <4>2, KeepsOrder
      <4> QED
        BY <4>3 DEF b
    <3> QED
      BY <3>1, <3>2, <1>0, MovedInOrder
  <2> QED
    BY <2>0, <2>1
<1>11. ASSUME HandleStartChild
      PROVE  CallersTyped' /\ CallProgress'
  <2>0. CASE UNCHANGED callers
    BY <2>0, <1>0 DEF CallersTyped, CallProgress
  <2>1. CASE ~UNCHANGED callers
    <3>1. serving \in Callers /\ OnlyMoves(serving, callers') /\ callers[serving].at # "idle"
      BY <1>11, <2>1, <1>0, TopicsSupEffects
    <3>2. InOrder(callers'[serving])
      BY <1>11, <2>1, <3>1, <1>0, TopicsSupEffects, KeepsOrder DEF Looks, WorkerAnswered
    <3> QED
      BY <3>1, <3>2, <1>0, MovedInOrder
  <2> QED
    BY <2>0, <2>1
<1>12. ASSUME HandleDeleteChild
      PROVE  CallersTyped' /\ CallProgress'
  <2>0. CASE UNCHANGED callers
    BY <2>0, <1>0 DEF CallersTyped, CallProgress
  <2>1. CASE ~UNCHANGED callers
    <3>1. serving \in Callers /\ OnlyMoves(serving, callers') /\ callers[serving].at # "idle"
      BY <1>12, <2>1, <1>0, TopicsSupEffects
    <3>2. InOrder(callers'[serving])
      BY <1>12, <2>1, <3>1, <1>0, TopicsSupEffects, KeepsOrder DEF Looks, WorkerAnswered
    <3> QED
      BY <3>1, <3>2, <1>0, MovedInOrder
  <2> QED
    BY <2>0, <2>1
<1>13. ASSUME TopicsSupWhichChildren
      PROVE  CallersTyped' /\ CallProgress'
  <2>0. CASE UNCHANGED callers
    BY <2>0, <1>0 DEF CallersTyped, CallProgress
  <2>1. CASE ~UNCHANGED callers
    <3>1. Head(tbox).from \in Callers /\ OnlyMoves(Head(tbox).from, callers') /\ callers[Head(tbox).from].at # "idle"
      BY <1>13, <2>1, <1>0, TopicsSupEffects
    <3>2. InOrder(callers'[Head(tbox).from])
      <4> DEFINE a == callers[Head(tbox).from]
                 b == callers'[Head(tbox).from]
      <4>1. a.at \in Looks /\ "partitions_sup" \in Looks
        BY <1>13, <1>0, TopicsSupEffects DEF Looks
      <4>2. \/ WorkerAnswered(a, b, "topic_not_found", Nobody)
            \/ Goes(a, b, "partitions_sup", a.op, a.pid)
            \/ IsAnswered(a, b, "producer_down", Nobody)
        BY <1>13, <1>0, TopicsSupEffects
      <4>3. InOrder(a) /\ a.at # "idle"
        BY <3>1, <1>0
      <4> HIDE DEF a, b
      <4>4. InOrder(b)
        BY <4>1, <4>2, <4>3, KeepsOrder DEF WorkerAnswered
      <4> QED
        BY <4>4 DEF b
    <3> QED
      BY <3>1, <3>2, <1>0, MovedInOrder
  <2> QED
    BY <2>0, <2>1
<1>14. ASSUME PartitionsSupWhichChildren
      PROVE  CallersTyped' /\ CallProgress'
  <2>0. CASE UNCHANGED callers
    BY <2>0, <1>0 DEF CallersTyped, CallProgress
  <2>1. CASE ~UNCHANGED callers
    <3>1. Head(pbox).from \in Callers /\ OnlyMoves(Head(pbox).from, callers') /\ callers[Head(pbox).from].at # "idle"
      BY <1>14, <2>1, <1>0, PartitionsSupEffects
    <3>2. InOrder(callers'[Head(pbox).from])
      <4>1. \E pid : IsAnswered(callers[Head(pbox).from], callers'[Head(pbox).from], "ok", pid)
        BY <1>14, <1>0, PartitionsSupEffects
      <4>2. InOrder(callers[Head(pbox).from])
        BY <3>1, <1>0
      <4> QED
        BY <3>1, <4>1, <4>2, KeepsOrder
    <3> QED
      BY <3>1, <3>2, <1>0, MovedInOrder
  <2> QED
    BY <2>0, <2>1
<1>15. ASSUME CannotConnect \/ HandleStop \/ StopProducerFailed
      PROVE  CallersTyped' /\ CallProgress'
  <2>1. ASSUME NEW c \in Callers PROVE InOrder(callers'[c])
    <3>1. InOrder(callers[c])
      BY <1>0
    <3>2. callers'[c] = callers[c] \/ \E answer, pid : IsAnswered(callers[c], callers'[c], answer, pid)
      BY <1>15, <1>0, ClientEndsEffects
    <3> QED
      BY <3>1, <3>2 DEF IsAnswered, InOrder, Looks
  <2> QED
    BY <1>15, <1>0, <2>1, ClientEndsEffects DEF CallProgress
<1>16. ASSUME TopicsSupEnds
      PROVE  CallersTyped' /\ CallProgress'
  <2>1. ASSUME NEW c \in Callers PROVE InOrder(callers'[c])
    <3>1. InOrder(callers[c])
      BY <1>0
    <3>2. callers'[c] = callers[c] \/ \E answer, pid : IsAnswered(callers[c], callers'[c], answer, pid)
      BY <1>16, <1>0, TopicsSupEffects
    <3> QED
      BY <3>1, <3>2 DEF IsAnswered, InOrder, Looks
  <2> QED
    BY <1>16, <1>0, <2>1, TopicsSupEffects DEF CallProgress
<1>17. ASSUME PartitionsSupEnds
      PROVE  CallersTyped' /\ CallProgress'
  <2>1. ASSUME NEW c \in Callers PROVE InOrder(callers'[c])
    <3>1. InOrder(callers[c])
      BY <1>0
    <3>2. callers'[c] = callers[c] \/ \E answer, pid : IsAnswered(callers[c], callers'[c], answer, pid)
      BY <1>17, <1>0, PartitionsSupEffects
    <3> QED
      BY <3>1, <3>2 DEF IsAnswered, InOrder, Looks
  <2> QED
    BY <1>17, <1>0, <2>1, PartitionsSupEffects DEF CallProgress
<1>18. ASSUME HandleInit \/ HandleStopProducer \/ HandleGetLeaderConnection \/
              HandleRegister \/ UnknownTopicExpires \/ HandleTerminateChild \/
              ChildIsDown \/ TopicsSupExit \/ TopicsSupDelayedRestart
      PROVE  UNCHANGED <<callers>>
  BY <1>18 DEF HandleInit, Takes, HandleStopProducer, HandleGetLeaderConnection,
       HandleRegister, UnknownTopicExpires, HandleTerminateChild, Terminated,
       TopicsSupTakes, ChildIsDown, TopicsSupExit, TopicsSupDelayedRestart,
       StartPartitionsSup, sups, env
<1>19. ASSUME TopicsSupShutdown \/ HandlePostInit \/ LookupCount \/ StartProducers \/
              PartitionsSupExit \/ PartitionsSupDelayedRestart \/ PartitionsSupShutdown \/
              TerminateProducer \/ (\E p \in Pids : AskForConnection(p))
      PROVE  UNCHANGED <<callers>>
  BY <1>19 DEF TopicsSupShutdown, TopicsSupTakes, HandlePostInit, PartitionsSupTakes,
       LookupCount, StartProducers, Start, PartitionsSupExit, PartitionsSupDelayedRestart,
       PartitionsSupShutdown, TerminateProducer, Leaves, Dies, AskForConnection, sups, env
<1>20. ASSUME TopicMoves \/ (\E p \in Pids : ProducerEnds(p)) \/
              (\E t \in Partitions \cup {Topic} : TimerFires(t))
      PROVE  UNCHANGED <<callers>>
  BY <1>20 DEF ProducerEnds, Leaves, Dies, TimerFires, TopicMoves, sups, env
<1>21. CASE UNCHANGED vars
  BY <1>1, <1>21 DEF vars, sups
<1> QED
  BY <1>1, <1>2, <1>3, <1>4, <1>5, <1>6, <1>7, <1>8, <1>9, <1>10, <1>11, <1>12, <1>13,
     <1>14, <1>15, <1>16, <1>17, <1>18, <1>19, <1>20, <1>21
     DEF Next, CallerNext, ClientNext, TopicsSupNext, PartitionsSupNext

-----------------------------------------------------------------------------
Stays(d) == callers'[d].at = callers[d].at /\ callers'[d].waits
WaitersStay ==
  \A d \in Callers : callers[d].waits =>
    \/ Stays(d)
    \/ /\ callers[d].at = "topics_sup"
       /\ TopicsSupEnds \/ (TopicsSupWhichChildren /\ d = Head(tbox).from)
    \/ /\ callers[d].at = "partitions_sup"
       /\ PartitionsSupEnds \/ (PartitionsSupWhichChildren /\ d = Head(pbox).from)
    \/ /\ callers[d].at \in ClientCalls
       /\ \/ (HandleQuery \/ HandleStartProducer \/ HandleGetMetadata) /\ d = Head(cbox).from
          \/ (HandleStartChild \/ HandleDeleteChild) /\ d = serving
          \/ CannotConnect \/ HandleStop \/ StopProducerFailed

\* Who waits for a process waits until that one answers or ends.
LEMMA WaitersStayStep == ClientInv /\ CallersTyped /\ OneAnswer /\ CallProgress /\ [Next]_vars => WaitersStay
<1> SUFFICES ASSUME ClientInv, CallersTyped, OneAnswer, CallProgress, [Next]_vars PROVE WaitersStay
  OBVIOUS
<1>0. /\ TypeOK /\ Mail /\ OneCall /\ FirstPostInit /\ CallersTyped /\ OneAnswer /\ CallProgress
      /\ \A c \in Callers : InOrder(callers[c])
      /\ \A c \in Callers : callers[c].waits =>
           callers[c].at \in ClientCalls \cup {"topics_sup", "partitions_sup"}
  BY DEF ClientInv, Family, CallProgress, InOrder
<1>1. CASE UNCHANGED <<callers>>
  BY <1>1 DEF WaitersStay, Stays
<1>2. ASSUME NEW c \in Callers, NEW op \in Ops[c], NEW k \in Partitions, Begin(c, op, k)
      PROVE  WaitersStay
  <2>1. callers[c].at = "idle" /\ ~callers[c].waits
    BY <1>2, <1>0, BeginEffects DEF ClientCalls
  <2>2. \A d \in Callers : d # c => callers'[d].at = callers[d].at /\ callers'[d].waits = callers[d].waits
    BY <1>2, <1>0, BeginEffects
  <2> QED
    BY <2>1, <2>2 DEF WaitersStay, Stays
<1>3. ASSUME
             (\E c \in Callers : Lookup(c) \/ CheckAlive(c) \/ CallClient(c) \/ CallTopicsSup(c) \/ CallPartitionsSup(c))
      PROVE  WaitersStay
  <2>1. PICK c \in Callers : Lookup(c) \/ CheckAlive(c) \/ CallClient(c) \/ CallTopicsSup(c) \/ CallPartitionsSup(c)
    BY <1>3
  <2>2. ~callers[c].waits
    BY <2>1, <1>0 DEF Lookup, CheckAlive, CallClient, CallTopicsSup, CallPartitionsSup, ClientCalls
  <2>3. OnlyMoves(c, callers')
    BY <2>1, <1>0, CallerNextEffects
  <2> QED
    BY <2>2, <2>3 DEF WaitersStay, Stays, OnlyMoves
<1>4. ASSUME HandleQuery \/ HandleStartProducer \/ HandleGetMetadata
      PROVE  WaitersStay
  <2> DEFINE c == Head(cbox).from
  <2>1. UNCHANGED callers \/ (c \in Callers /\ OnlyMoves(c, callers'))
    BY <1>4, <1>0, ClientEffects
  <2>2. c \in Callers => callers[c].at \in ClientCalls
    BY <1>4, <1>0, HeadsOfCalls DEF HandleQuery, HandleStartProducer, HandleGetMetadata, Takes, ClientCalls
  <2> HIDE DEF c
  <2> QED
    BY <1>4, <2>1, <2>2 DEF WaitersStay, Stays, OnlyMoves, c
<1>5. ASSUME HandleStartChild \/ HandleDeleteChild
      PROVE  WaitersStay
  <2>1. serving \in Callers /\ (UNCHANGED callers \/ OnlyMoves(serving, callers'))
    BY <1>5, <1>0, TopicsSupEffects
  <2>2. callers[serving].at \in ClientCalls
    BY <1>5, <1>0, <2>1, TopicsSupEffects DEF ClientCalls
  <2> QED
    BY <1>5, <2>1, <2>2 DEF WaitersStay, Stays, OnlyMoves
<1>6. ASSUME TopicsSupWhichChildren
      PROVE  WaitersStay
  <2> DEFINE c == Head(tbox).from
  <2>1. c \in Callers /\ OnlyMoves(c, callers') /\ callers[c].at = "topics_sup"
    BY <1>6, <1>0, TopicsSupEffects
  <2> HIDE DEF c
  <2> QED
    BY <1>6, <2>1 DEF WaitersStay, Stays, OnlyMoves, c
<1>7. ASSUME PartitionsSupWhichChildren
      PROVE  WaitersStay
  <2> DEFINE c == Head(pbox).from
  <2>1. c \in Callers /\ OnlyMoves(c, callers') /\ callers[c].at = "partitions_sup"
    BY <1>7, <1>0, PartitionsSupEffects
  <2> HIDE DEF c
  <2> QED
    BY <1>7, <2>1 DEF WaitersStay, Stays, OnlyMoves, c
<1>8. ASSUME TopicsSupEnds
      PROVE  WaitersStay
  <2>1. \A c \in Callers : callers'[c] = callers[c] \/ callers[c].at = "topics_sup"
    BY <1>8, <1>0, TopicsSupEffects
  <2> QED
    BY <1>8, <2>1 DEF WaitersStay, Stays
<1>9. ASSUME PartitionsSupEnds
      PROVE  WaitersStay
  <2>1. \A c \in Callers : callers'[c] = callers[c] \/ callers[c].at = "partitions_sup"
    BY <1>9, <1>0, PartitionsSupEffects
  <2> QED
    BY <1>9, <2>1 DEF WaitersStay, Stays
<1>10. ASSUME CannotConnect \/ HandleStop \/ StopProducerFailed
      PROVE  WaitersStay
  <2>1. \A c \in Callers : callers'[c] = callers[c] \/ callers[c].at \in ClientCalls
    BY <1>10, <1>0, ClientEndsEffects
  <2> QED
    BY <1>10, <2>1 DEF WaitersStay, Stays
<1>11. ASSUME HandleInit \/ HandleStopProducer \/ HandleGetLeaderConnection \/
              HandleRegister \/ UnknownTopicExpires \/ HandleTerminateChild \/
              ChildIsDown \/ TopicsSupExit \/ TopicsSupDelayedRestart
      PROVE  UNCHANGED <<callers>>
  BY <1>11 DEF HandleInit, Takes, HandleStopProducer, HandleGetLeaderConnection,
       HandleRegister, UnknownTopicExpires, HandleTerminateChild, Terminated,
       TopicsSupTakes, ChildIsDown, TopicsSupExit, TopicsSupDelayedRestart,
       StartPartitionsSup, sups, env
<1>12. ASSUME TopicsSupShutdown \/ HandlePostInit \/ LookupCount \/ StartProducers \/
              PartitionsSupExit \/ PartitionsSupDelayedRestart \/ PartitionsSupShutdown \/
              TerminateProducer \/ (\E p \in Pids : AskForConnection(p))
      PROVE  UNCHANGED <<callers>>
  BY <1>12 DEF TopicsSupShutdown, TopicsSupTakes, HandlePostInit, PartitionsSupTakes,
       LookupCount, StartProducers, Start, PartitionsSupExit, PartitionsSupDelayedRestart,
       PartitionsSupShutdown, TerminateProducer, Leaves, Dies, AskForConnection, sups, env
<1>13. ASSUME TopicMoves \/ (\E p \in Pids : ProducerEnds(p)) \/
              (\E t \in Partitions \cup {Topic} : TimerFires(t))
      PROVE  UNCHANGED <<callers>>
  BY <1>13 DEF ProducerEnds, Leaves, Dies, TimerFires, TopicMoves, sups, env
<1>14. CASE UNCHANGED vars
  BY <1>1, <1>14 DEF vars, sups
<1> QED
  BY <1>1, <1>2, <1>3, <1>4, <1>5, <1>6, <1>7, <1>8, <1>9, <1>10, <1>11, <1>12, <1>13, <1>14
     DEF Next, CallerNext, ClientNext, TopicsSupNext, PartitionsSupNext

LEMMA AskedSent ==
  ASSUME NEW f, NEW g, NEW a, NEW b, NEW m, NEW at, Asked(f, a, at), Sent(a, m, b),
         \A d \in Callers : f[d].waits /\ f[d].at = at => g[d].waits /\ g[d].at = at,
         m.what = "which_children" =>
           m.from \in Callers /\ g[m.from].at = at /\ g[m.from].waits /\ ~f[m.from].waits
  PROVE  Asked(g, b, at)
<1>1. /\ Len(a) \in Nat /\ Len(b) = Len(a) + 1 /\ b[Len(a) + 1] = m
      /\ \A i \in 1..Len(a) : b[i] = a[i]
      /\ \A i \in 1..Len(b) : i \in 1..Len(a) \/ i = Len(a) + 1
  BY DEF Sent
<1>2. ASSUME NEW i \in 1..Len(b), b[i].what = "which_children"
      PROVE  /\ b[i].from \in Callers /\ g[b[i].from].at = at /\ g[b[i].from].waits
             /\ i \in 1..Len(a) => f[b[i].from].waits
             /\ i = Len(a) + 1 => ~f[b[i].from].waits
  BY <1>1, <1>2 DEF Asked
<1>3. ASSUME NEW i \in 1..Len(b), NEW j \in 1..Len(b), b[i].what = "which_children",
             b[j].what = "which_children", b[j].from = b[i].from
      PROVE  i = j
  <2>1. CASE i \in 1..Len(a) /\ j \in 1..Len(a)
    BY <1>1, <1>3, <2>1 DEF Asked
  <2>2. CASE i = Len(a) + 1 /\ j = Len(a) + 1
    BY <2>2
  <2> QED
    BY <1>1, <1>2, <1>3, <2>1, <2>2
<1> QED
  BY <1>2, <1>3 DEF Asked

LEMMA AskedSame ==
  ASSUME NEW f, NEW g, NEW a, NEW at, Asked(f, a, at),
         \A d \in Callers : f[d].waits /\ f[d].at = at => g[d].waits /\ g[d].at = at
  PROVE  Asked(g, a, at)
BY DEF Asked

LEMMA AskedTook ==
  ASSUME NEW f, NEW g, NEW a, NEW b, NEW at, Asked(f, a, at), Took(a, b),
         \A d \in Callers : f[d].waits /\ f[d].at = at =>
           (g[d].waits /\ g[d].at = at) \/ (Head(a).what = "which_children" /\ d = Head(a).from)
  PROVE  Asked(g, b, at)
<1>1. /\ Len(a) \in Nat /\ Len(b) = Len(a) - 1 /\ 1 \in 1..Len(a) /\ Head(a) = a[1]
      /\ \A i \in 1..Len(b) : b[i] = a[i + 1] /\ i + 1 \in 1..Len(a)
  BY DEF Took
<1>2. ASSUME NEW i \in 1..Len(b), b[i].what = "which_children"
      PROVE  b[i].from \in Callers /\ g[b[i].from].at = at /\ g[b[i].from].waits
  <2>1. b[i] = a[i + 1] /\ i + 1 \in 1..Len(a) /\ i + 1 # 1
    BY <1>1
  <2>2. b[i].from \in Callers /\ f[b[i].from].at = at /\ f[b[i].from].waits
    BY <1>2, <2>1 DEF Asked
  <2>3. ~(Head(a).what = "which_children" /\ b[i].from = Head(a).from)
    BY <1>1, <1>2, <2>1 DEF Asked
  <2> QED
    BY <2>2, <2>3
<1>3. ASSUME NEW i \in 1..Len(b), NEW j \in 1..Len(b), b[i].what = "which_children",
             b[j].what = "which_children", b[j].from = b[i].from
      PROVE  i = j
  <2>1. i + 1 \in 1..Len(a) /\ j + 1 \in 1..Len(a) /\ b[i] = a[i + 1] /\ b[j] = a[j + 1]
    BY <1>1
  <2>2. i + 1 = j + 1
    BY <1>3, <2>1 DEF Asked
  <2> QED
    BY <2>2
<1> QED
  BY <1>2, <1>3 DEF Asked

LEMMA AskedCut ==
  ASSUME NEW f, NEW g, NEW a, NEW b, NEW at, Asked(f, a, at), Cut(a, b),
         \A d \in Callers : f[d].waits /\ f[d].at = at => g[d].waits /\ g[d].at = at
  PROVE  Asked(g, b, at)
<1>1. PICK h \in [1..(Len(b) - 1) -> 2..Len(a)] :
        /\ \A i \in 1..(Len(b) - 1) : b[i] = a[h[i]]
        /\ \A i, j \in 1..(Len(b) - 1) : i < j => h[i] < h[j]
  BY DEF Cut
<1>2. Len(a) \in Nat /\ Len(b) \in Nat \ {0} /\ b[Len(b)].what # "which_children"
  BY DEF Cut, Message
<1>3. ASSUME NEW i \in 1..Len(b), b[i].what = "which_children"
      PROVE  i \in 1..(Len(b) - 1) /\ h[i] \in 1..Len(a) /\ b[i] = a[h[i]]
  <2>1. i \in 1..(Len(b) - 1)
    BY <1>2, <1>3
  <2>2. h[i] \in 2..Len(a)
    BY <1>1, <2>1
  <2> QED
    BY <1>1, <1>2, <2>1, <2>2
<1>4. ASSUME NEW i \in 1..Len(b), b[i].what = "which_children"
      PROVE  b[i].from \in Callers /\ g[b[i].from].at = at /\ g[b[i].from].waits
  BY <1>3, <1>4 DEF Asked
<1>5. ASSUME NEW i \in 1..Len(b), NEW j \in 1..Len(b), b[i].what = "which_children",
             b[j].what = "which_children", b[j].from = b[i].from
      PROVE  i = j
  <2>1. h[i] = h[j]
    <3>1. /\ h[i] \in 1..Len(a) /\ h[j] \in 1..Len(a) /\ a[h[i]] = b[i] /\ a[h[j]] = b[j]
      BY <1>3, <1>5
    <3> QED
      BY <1>5, <3>1 DEF Asked
  <2>2. /\ i \in 1..(Len(b) - 1) /\ j \in 1..(Len(b) - 1)
        /\ h[i] \in 1..Len(a) /\ h[j] \in 1..Len(a)
    BY <1>3, <1>5
  <2>3. ~(h[i] < h[j]) /\ ~(h[j] < h[i])
    BY <1>2, <2>1, <2>2
  <2>4. ~(i < j) /\ ~(j < i)
    BY <1>1, <2>2, <2>3
  <2> QED
    BY <1>2, <2>2, <2>4
<1> QED
  BY <1>4, <1>5 DEF Asked

LEMMA AskedNobody ==
  ASSUME NEW f, NEW a, NEW at, \A i \in 1..Len(a) : a[i].what # "which_children"
  PROVE  Asked(f, a, at)
BY DEF Asked

\* The callers that wait for the topics' supervisor have a message in its mailbox.
LEMMA AskedTopicsSupStep == ClientInv /\ CallersTyped /\ OneAnswer /\ CallProgress /\ [Next]_vars => Asked(callers, tbox, "topics_sup")'
<1> SUFFICES ASSUME ClientInv, CallersTyped, OneAnswer, CallProgress, [Next]_vars PROVE Asked(callers, tbox, "topics_sup")'
  OBVIOUS
<1>0. /\ TypeOK /\ Mail /\ OneRestart /\ CallersTyped /\ CallProgress
      /\ Asked(callers, tbox, "topics_sup")
      /\ \A d \in Callers : callers[d].waits /\ callers[d].at = "topics_sup" =>
           \/ callers'[d].waits /\ callers'[d].at = "topics_sup"
           \/ TopicsSupEnds \/ (TopicsSupWhichChildren /\ d = Head(tbox).from)
  BY WaitersStayStep DEF ClientInv, OneAnswer, WaitersStay, Stays, ClientCalls
<1>00. \A w, s : Message(w, s).what = w /\ Message(w, s).from = s
  BY DEF Message
<1>01. TopicsSupEnds => tbox' = <<>> /\ Len(tbox') = 0
  BY <1>0, TopicsBox
<1>02. TopicsSupWhichChildren => Took(tbox, tbox') /\ Head(tbox).what = "which_children"
  BY <1>0, TopicsBox DEF TopicsSupWhichChildren, TopicsSupTakes
<1>1. CASE UNCHANGED <<tbox>>
  <2>1. CASE TopicsSupEnds
    <3>1. \A i \in 1..Len(tbox') : tbox'[i].what # "which_children"
      BY <2>1, <1>01
    <3> QED
      BY <3>1, AskedNobody
  <2>2. CASE ~TopicsSupEnds
    <3>1. ~TopicsSupWhichChildren
      BY <1>1, <1>02 DEF Took
    <3> QED
      BY <1>0, <1>1, <2>2, <3>1, AskedSame
  <2> QED
    BY <2>1, <2>2
<1>2. ASSUME NEW c \in Callers, CallTopicsSup(c)
      PROVE  Asked(callers, tbox, "topics_sup")'
  <2>1. CASE UNCHANGED tbox
    BY <2>1, <1>1
  <2>2. CASE Sent(tbox, Message("which_children", c), tbox')
    <3>1. callers[c].at = "topics_sup" /\ ~callers[c].waits
      BY <1>2 DEF CallTopicsSup
    <3>2. tsup # "down"
      BY <1>2, <2>2 DEF CallTopicsSup, Sent
    <3>3. callers'[c].at = "topics_sup" /\ callers'[c].waits
      BY <1>2, <1>0, <3>1, <3>2, CallerNextEffects DEF StartsToWait
    <3>4. ~TopicsSupEnds /\ ~TopicsSupWhichChildren
      BY <1>01, <1>02, <2>2, <1>0 DEF Sent, Took
    <3> QED
      BY <1>0, <1>00, <2>2, <3>1, <3>3, <3>4, AskedSent
  <2> QED
    BY <1>2, <1>0, <2>1, <2>2, TopicsBox
<1>3. ASSUME HandleStartProducer \/ HandleStopProducer \/ ChildIsDown \/
             PartitionsSupEnds \/ CannotConnect \/ HandleStop \/ StopProducerFailed \/
             (\E t \in Partitions \cup {Topic} : TimerFires(t))
      PROVE  Asked(callers, tbox, "topics_sup")'
  <2>1. UNCHANGED tbox \/ \E w \in TopicsSupMessages \ {"which_children"} : \E s : Sent(tbox, Message(w, s), tbox')
    <3>1. {"start_child", "terminate_child", "shutdown", "delete_child", "EXIT", "delayed_restart"}
            \subseteq TopicsSupMessages \ {"which_children"}
      BY DEF TopicsSupMessages, ClientWaits
    <3>2. \/ UNCHANGED tbox
          \/ \E w \in {"start_child", "terminate_child", "shutdown", "delete_child", "EXIT", "delayed_restart"} :
               \E s : Sent(tbox, Message(w, s), tbox')
      BY <1>3, <1>0, TopicsBox
    <3> QED
      BY <3>1, <3>2
  <2>2. CASE UNCHANGED tbox
    BY <2>2, <1>1
  <2>3. ASSUME NEW w, NEW s, w # "which_children", Sent(tbox, Message(w, s), tbox')
        PROVE  Asked(callers, tbox, "topics_sup")'
    <3>1. ~TopicsSupEnds /\ ~TopicsSupWhichChildren
      BY <1>01, <1>02, <2>3, <1>0 DEF Sent, Took
    <3> QED
      BY <1>0, <1>00, <2>3, <3>1, AskedSent
  <2> QED
    BY <2>1, <2>2, <2>3
<1>4. ASSUME HandleStartChild \/ HandleDeleteChild \/ TopicsSupWhichChildren \/
             TopicsSupExit \/ TopicsSupDelayedRestart \/ TopicsSupShutdown
      PROVE  Asked(callers, tbox, "topics_sup")'
  <2>1. Took(tbox, tbox')
    BY <1>4, <1>0, TopicsBox
  <2>2. TopicsSupEnds => \A i \in 1..Len(tbox') : tbox'[i].what # "which_children"
    BY <1>01
  <2> QED
    BY <1>0, <1>02, <2>1, <2>2, AskedTook, AskedNobody
<1>5. ASSUME HandleTerminateChild
      PROVE  Asked(callers, tbox, "topics_sup")'
  <2>1. Head(tbox).what = "terminate_child" /\ (Took(tbox, tbox') \/ Cut(tbox, tbox'))
    BY <1>5, <1>0, TopicsBox DEF HandleTerminateChild, TopicsSupTakes
  <2>2. ~TopicsSupWhichChildren
    BY <1>02, <2>1
  <2>3. TopicsSupEnds => \A i \in 1..Len(tbox') : tbox'[i].what # "which_children"
    BY <1>01
  <2> QED
    BY <1>0, <2>1, <2>2, <2>3, AskedTook, AskedCut, AskedNobody
<1>6. ASSUME TopicsSupEnds
      PROVE  Asked(callers, tbox, "topics_sup")'
  <2>1. \A i \in 1..Len(tbox') : tbox'[i].what # "which_children"
    BY <1>6, <1>01
  <2> QED
    BY <2>1, AskedNobody
<1>7. ASSUME HandleInit \/ HandleQuery \/ HandleGetMetadata \/ HandleGetLeaderConnection \/
             (\E c \in Callers : Lookup(c) \/ CheckAlive(c) \/ CallClient(c) \/ CallPartitionsSup(c)) \/
             (\E c \in Callers : \E op \in Ops[c], k \in Partitions : Begin(c, op, k))
      PROVE  UNCHANGED <<tbox>>
  BY <1>7 DEF Begin, Lookup, CheckAlive, CallClient, CallPartitionsSup, HandleInit, Takes,
       HandleQuery, HandleGetMetadata, HandleGetLeaderConnection, sups, env
<1>8. ASSUME HandleRegister \/ UnknownTopicExpires \/ HandlePostInit \/ LookupCount \/
             StartProducers \/ PartitionsSupWhichChildren \/ PartitionsSupExit \/
             PartitionsSupDelayedRestart \/ PartitionsSupShutdown
      PROVE  UNCHANGED <<tbox>>
  BY <1>8 DEF HandleRegister, Takes, UnknownTopicExpires, HandlePostInit,
       PartitionsSupTakes, LookupCount, StartProducers, Start, PartitionsSupWhichChildren,
       PartitionsSupExit, PartitionsSupDelayedRestart, PartitionsSupShutdown, sups, env
<1>9. ASSUME TerminateProducer \/ TopicMoves \/
             (\E p \in Pids : AskForConnection(p) \/ ProducerEnds(p))
      PROVE  UNCHANGED <<tbox>>
  BY <1>9 DEF TerminateProducer, Leaves, Dies, AskForConnection, ProducerEnds, TopicMoves,
       sups, env
<1>10. CASE UNCHANGED vars
  BY <1>1, <1>10 DEF vars, sups
<1> QED
  BY <1>1, <1>2, <1>3, <1>4, <1>5, <1>6, <1>7, <1>8, <1>9, <1>10
     DEF Next, CallerNext, ClientNext, TopicsSupNext, PartitionsSupNext

\* The same of the partitions' supervisor.
LEMMA AskedPartitionsSupStep == ClientInv /\ CallersTyped /\ OneAnswer /\ CallProgress /\ [Next]_vars => Asked(callers, pbox, "partitions_sup")'
<1> SUFFICES ASSUME ClientInv, CallersTyped, OneAnswer, CallProgress, [Next]_vars PROVE Asked(callers, pbox, "partitions_sup")'
  OBVIOUS
<1>0. /\ TypeOK /\ Mail /\ OneRestart /\ CallersTyped /\ CallProgress
      /\ Asked(callers, pbox, "partitions_sup")
      /\ \A d \in Callers : callers[d].waits /\ callers[d].at = "partitions_sup" =>
           \/ callers'[d].waits /\ callers'[d].at = "partitions_sup"
           \/ PartitionsSupEnds \/ (PartitionsSupWhichChildren /\ d = Head(pbox).from)
  BY WaitersStayStep DEF ClientInv, OneAnswer, WaitersStay, Stays, ClientCalls
<1>00. \A w, s : Message(w, s).what = w /\ Message(w, s).from = s
  BY DEF Message
<1>01. PartitionsSupEnds => pbox' = <<>> /\ Len(pbox') = 0
  BY <1>0, PartitionsBox
<1>02. PartitionsSupWhichChildren => Took(pbox, pbox') /\ Head(pbox).what = "which_children"
  BY <1>0, PartitionsBox DEF PartitionsSupWhichChildren, PartitionsSupTakes
<1>1. CASE UNCHANGED <<pbox>>
  <2>1. CASE PartitionsSupEnds
    <3>1. \A i \in 1..Len(pbox') : pbox'[i].what # "which_children"
      BY <2>1, <1>01
    <3> QED
      BY <3>1, AskedNobody
  <2>2. CASE ~PartitionsSupEnds
    <3>1. ~PartitionsSupWhichChildren
      BY <1>1, <1>02 DEF Took
    <3> QED
      BY <1>0, <1>1, <2>2, <3>1, AskedSame
  <2> QED
    BY <2>1, <2>2
<1>2. ASSUME NEW c \in Callers, CallPartitionsSup(c)
      PROVE  Asked(callers, pbox, "partitions_sup")'
  <2>1. callers[c].at = "partitions_sup" /\ ~callers[c].waits
    BY <1>2 DEF CallPartitionsSup
  <2>2. callers'[c].at = "partitions_sup" /\ callers'[c].waits
    BY <1>2, <1>0, <2>1, CallerNextEffects DEF StartsToWait
  <2>3. Sent(pbox, Message("which_children", c), pbox')
    BY <1>2, <1>0, PartitionsBox
  <2>4. ~PartitionsSupEnds /\ ~PartitionsSupWhichChildren
    BY <1>01, <1>02, <2>3, <1>0 DEF Sent, Took
  <2> QED
    BY <1>0, <1>00, <2>1, <2>2, <2>3, <2>4, AskedSent
<1>3. ASSUME HandleTerminateChild \/ TopicsSupShutdown \/
             (\E p \in Pids : ProducerEnds(p)) \/
             (\E t \in Partitions \cup {Topic} : TimerFires(t))
      PROVE  Asked(callers, pbox, "partitions_sup")'
  <2>1. \/ UNCHANGED pbox
        \/ \E w \in {"shutdown", "EXIT", "delayed_restart"} : \E s : Sent(pbox, Message(w, s), pbox')
    BY <1>3, <1>0, PartitionsBox
  <2>2. CASE UNCHANGED pbox
    BY <2>2, <1>1
  <2>3. ASSUME NEW w, NEW s, w # "which_children", Sent(pbox, Message(w, s), pbox')
        PROVE  Asked(callers, pbox, "partitions_sup")'
    <3>1. ~PartitionsSupEnds /\ ~PartitionsSupWhichChildren
      BY <1>01, <1>02, <2>3, <1>0 DEF Sent, Took
    <3> QED
      BY <1>0, <1>00, <2>3, <3>1, AskedSent
  <2> QED
    BY <2>1, <2>2, <2>3
<1>4. ASSUME HandlePostInit \/ PartitionsSupWhichChildren \/ PartitionsSupExit \/
             PartitionsSupDelayedRestart \/ PartitionsSupShutdown
      PROVE  Asked(callers, pbox, "partitions_sup")'
  <2>1. Took(pbox, pbox')
    BY <1>4, <1>0, PartitionsBox
  <2>2. PartitionsSupEnds => \A i \in 1..Len(pbox') : pbox'[i].what # "which_children"
    BY <1>01
  <2> QED
    BY <1>0, <1>02, <2>1, <2>2, AskedTook, AskedNobody
<1>5. ASSUME HandleStartChild \/ TopicsSupDelayedRestart
      PROVE  Asked(callers, pbox, "partitions_sup")'
  <2>1. CASE UNCHANGED pbox
    BY <2>1, <1>1
  <2>2. CASE Len(pbox') = 1 /\ pbox'[1] = Message("post_init", Topic)
    <3>1. \A i \in 1..Len(pbox') : pbox'[i].what # "which_children"
      BY <1>00, <2>2
    <3> QED
      BY <3>1, AskedNobody
  <2> QED
    BY <1>5, <1>0, <2>1, <2>2, PartitionsBox
<1>6. ASSUME PartitionsSupEnds
      PROVE  Asked(callers, pbox, "partitions_sup")'
  <2>1. \A i \in 1..Len(pbox') : pbox'[i].what # "which_children"
    BY <1>6, <1>01
  <2> QED
    BY <2>1, AskedNobody
<1>7. ASSUME HandleInit \/ HandleQuery \/ HandleStartProducer \/ HandleStopProducer \/
             (\E c \in Callers : Lookup(c) \/ CheckAlive(c) \/ CallClient(c) \/ CallTopicsSup(c)) \/
             (\E c \in Callers : \E op \in Ops[c], k \in Partitions : Begin(c, op, k))
      PROVE  UNCHANGED <<pbox>>
  BY <1>7 DEF Begin, Lookup, CheckAlive, CallClient, CallTopicsSup, HandleInit, Takes,
       HandleQuery, HandleStartProducer, HandleStopProducer, sups, env
<1>8. ASSUME HandleGetMetadata \/ HandleGetLeaderConnection \/ HandleRegister \/
             CannotConnect \/ HandleStop \/ StopProducerFailed \/ UnknownTopicExpires \/
             ChildIsDown \/ HandleDeleteChild
      PROVE  UNCHANGED <<pbox>>
  BY <1>8 DEF HandleGetMetadata, Takes, HandleGetLeaderConnection, HandleRegister,
       CannotConnect, ClientEnds, HandleStop, StopProducerFailed, UnknownTopicExpires,
       ChildIsDown, Terminated, HandleDeleteChild, TopicsSupTakes, sups, env
<1>9. ASSUME TopicsSupWhichChildren \/ TopicsSupExit \/ TopicsSupEnds \/ LookupCount \/
             StartProducers \/ TerminateProducer \/ TopicMoves \/
             (\E p \in Pids : AskForConnection(p))
      PROVE  UNCHANGED <<pbox>>
  BY <1>9 DEF TopicsSupWhichChildren, TopicsSupTakes, TopicsSupExit, TopicsSupEnds,
       LookupCount, StartProducers, Start, TerminateProducer, Leaves, Dies,
       AskForConnection, TopicMoves, sups, env
<1>10. CASE UNCHANGED vars
  BY <1>1, <1>10 DEF vars, sups
<1> QED
  BY <1>1, <1>2, <1>3, <1>4, <1>5, <1>6, <1>7, <1>8, <1>9, <1>10
     DEF Next, CallerNext, ClientNext, TopicsSupNext, PartitionsSupNext

LEMMA ExtendAskedClient ==
  ASSUME AskedClient, serving' = serving \/ serving' \notin Callers,
         \A i \in 1..Len(cbox) : cbox[i].from \in Callers => Stays(cbox[i].from),
         \A i \in 1..Len(cbox') :
           (i \in 1..Len(cbox) /\ cbox'[i] = cbox[i]) \/ cbox'[i].from \notin Callers
  PROVE  AskedClient'
BY DEF AskedClient, Stays

LEMMA TookAskedClient ==
  ASSUME AskedClient, Took(cbox, cbox'), serving' = serving \/ serving' = Head(cbox).from,
         \A i \in 1..Len(cbox) : cbox[i].from \in Callers =>
           Stays(cbox[i].from) \/ cbox[i].from = Head(cbox).from
  PROVE  AskedClient'
<1>1. /\ Len(cbox) \in Nat /\ 1 \in 1..Len(cbox) /\ Head(cbox) = cbox[1]
      /\ \A i \in 1..Len(cbox') : cbox'[i] = cbox[i + 1] /\ i + 1 \in 1..Len(cbox) /\ i + 1 # 1
  BY DEF Took
<1>2. ASSUME NEW i \in 1..Len(cbox'), cbox'[i].from \in Callers
      PROVE  /\ callers'[cbox'[i].from].at = cbox'[i].what /\ callers'[cbox'[i].from].waits
             /\ serving' # cbox'[i].from
  <2>1. cbox'[i] = cbox[i + 1] /\ i + 1 \in 1..Len(cbox) /\ i + 1 # 1
    BY <1>1
  <2>2. cbox[i + 1].from # Head(cbox).from
    BY <1>1, <1>2, <2>1 DEF AskedClient
  <2> QED
    BY <1>2, <2>1, <2>2 DEF AskedClient, Stays
<1>3. ASSUME NEW i \in 1..Len(cbox'), NEW j \in 1..Len(cbox'), cbox'[i].from \in Callers,
             cbox'[j].from = cbox'[i].from
      PROVE  i = j
  <2>1. i + 1 \in 1..Len(cbox) /\ j + 1 \in 1..Len(cbox) /\ cbox'[i] = cbox[i + 1] /\ cbox'[j] = cbox[j + 1]
    BY <1>1
  <2>2. i + 1 = j + 1
    BY <1>3, <2>1 DEF AskedClient
  <2> QED
    BY <2>2
<1> QED
  BY <1>2, <1>3 DEF AskedClient

\* The callers that wait for the client have a message in its mailbox, or are
\* served by the topics' supervisor.
LEMMA AskedClientStep == ClientInv /\ CallersTyped /\ OneAnswer /\ CallProgress /\ [Next]_vars => (AskedClient /\ Serves)'
<1> SUFFICES ASSUME ClientInv, CallersTyped, OneAnswer, CallProgress, [Next]_vars PROVE (AskedClient /\ Serves)'
  OBVIOUS
<1>0. /\ TypeOK /\ Mail /\ BornInOrder /\ OneCall /\ CallersTyped /\ OneAnswer /\ CallProgress
      /\ AskedClient /\ Serves /\ WaitersStay
      /\ TypeOK' /\ serving \in Callers \cup {Nobody}
  BY WaitersStayStep, TypeStep DEF ClientInv, OneAnswer, TypeOK
<1>00. \A w, s : Message(w, s).what = w /\ Message(w, s).from = s
  BY DEF Message
<1>01. HandleStartChild \/ HandleDeleteChild \/ CannotConnect \/ HandleStop \/ StopProducerFailed
         => client' # client
  <2>1. HandleStartChild \/ HandleDeleteChild => client \in {"start_child", "delete_child"}
    BY <1>0, TopicsSupEffects
  <2>2. HandleStartChild \/ HandleDeleteChild => client' \in {"up", "badmatch"}
    BY DEF HandleStartChild, HandleDeleteChild
  <2>3. CannotConnect \/ HandleStop \/ StopProducerFailed => client # "down" /\ client' = "down"
    BY DEF CannotConnect, HandleStop, StopProducerFailed, ClientEnds, Takes
  <2> QED
    BY <2>1, <2>2, <2>3
<1>02. HandleQuery \/ HandleStartProducer \/ HandleGetMetadata => Took(cbox, cbox')
  BY <1>0, ClientBox
<1>03. \A i \in 1..Len(cbox) : cbox[i].from \in Callers =>
         /\ callers[cbox[i].from].waits /\ callers[cbox[i].from].at \in ClientCalls
         /\ serving # cbox[i].from
  <2>1. ASSUME NEW i \in 1..Len(cbox), cbox[i].from \in Callers
        PROVE  /\ callers[cbox[i].from].waits /\ callers[cbox[i].from].at \in ClientCalls
               /\ serving # cbox[i].from
    <3>1. /\ callers[cbox[i].from].waits /\ callers[cbox[i].from].at = cbox[i].what
          /\ serving # cbox[i].from
      BY <1>0, <2>1 DEF AskedClient
    <3>2. cbox[i].what \in ClientMessages
      BY <1>0, MessagesAre
    <3>3. callers[cbox[i].from].at \in CallerAts
      BY <1>0, <2>1 DEF CallersTyped, CallerType
    <3> QED
      BY <3>1, <3>2, <3>3 DEF ClientMessages, ProducerMessages, CallerAts
  <2> QED
    BY <2>1
<1>04. "topics_sup" \notin ClientCalls /\ "partitions_sup" \notin ClientCalls
  BY DEF ClientCalls
<1>05. \A i \in 1..Len(cbox) : cbox[i].from \in Callers =>
         \/ Stays(cbox[i].from)
         \/ /\ HandleQuery \/ HandleStartProducer \/ HandleGetMetadata
            /\ cbox[i].from = Head(cbox).from
         \/ CannotConnect \/ HandleStop \/ StopProducerFailed
  BY <1>0, <1>03, <1>04 DEF WaitersStay
<1>06. serving \in Callers =>
         \/ Stays(serving)
         \/ HandleStartChild \/ HandleDeleteChild
         \/ CannotConnect \/ HandleStop \/ StopProducerFailed
  <2>1. ASSUME serving \in Callers
        PROVE  callers[serving].waits /\ callers[serving].at \in ClientCalls
    <3>1. /\ callers[serving].waits
          /\ callers[serving].at \in {"start_producer", "auto_start_producer", "stop_producer"}
      BY <1>0, <2>1 DEF Serves
    <3> QED
      BY <3>1 DEF ClientCalls
  <2>2. HandleQuery \/ HandleStartProducer \/ HandleGetMetadata => 1 \in 1..Len(cbox) /\ Head(cbox) = cbox[1]
    BY <1>02 DEF Took
  <2>3. ASSUME HandleQuery \/ HandleStartProducer \/ HandleGetMetadata, serving = Head(cbox).from
        PROVE  serving \notin Callers
    BY <1>03, <2>2, <2>3
  <2> QED
    BY <1>0, <1>04, <2>1, <2>3 DEF WaitersStay
<1>07. Nobody \notin Callers /\ Sup \notin Callers /\ Callers \cap Pids = {}
  BY PidFacts
<1>1. CASE UNCHANGED <<cbox, client, serving>>
  <2>1. ~(HandleStartChild \/ HandleDeleteChild \/ CannotConnect \/ HandleStop \/ StopProducerFailed)
    BY <1>01, <1>1
  <2>2. Serves'
    BY <1>06, <1>0, <1>1, <2>1 DEF Serves, Stays
  <2>3. \A i \in 1..Len(cbox) : cbox[i].from \in Callers => Stays(cbox[i].from)
    BY <1>02, <1>05, <1>1, <2>1 DEF Took
  <2> QED
    BY <1>0, <1>1, <2>2, <2>3, ExtendAskedClient
<1>2. ASSUME NEW c \in Callers, CallClient(c)
      PROVE  (AskedClient /\ Serves)'
  <2>1. UNCHANGED <<client, serving>>
    BY <1>2 DEF CallClient
  <2>2. ~(HandleStartChild \/ HandleDeleteChild \/ CannotConnect \/ HandleStop \/ StopProducerFailed)
    BY <1>01, <2>1
  <2>3. Serves'
    BY <1>06, <1>0, <2>1, <2>2 DEF Serves, Stays
  <2>4. CASE UNCHANGED cbox
    BY <2>1, <2>4, <1>1
  <2>5. CASE client # "down" /\ Sent(cbox, Message(callers[c].at, c), cbox')
    <3>1. ~callers[c].waits
      BY <1>2 DEF CallClient
    <3>2. callers'[c].at = callers[c].at /\ callers'[c].waits
      BY <1>2, <1>0, <2>5, CallerNextEffects DEF StartsToWait, IsAnswered
    <3>3. \A i \in 1..Len(cbox) : cbox[i].from \in Callers => cbox[i].from # c /\ Stays(cbox[i].from)
      BY <1>02, <1>03, <1>05, <2>2, <2>5, <3>1 DEF Took, Sent
    <3>4. /\ \A i \in 1..Len(cbox) : cbox'[i] = cbox[i]
          /\ \A i \in 1..Len(cbox') :
               i \in 1..Len(cbox) \/ (i = Len(cbox) + 1 /\ cbox'[i].what = callers[c].at /\ cbox'[i].from = c)
      BY <2>5, <1>00 DEF Sent
    <3>5. serving # c
      BY <1>0, <3>1 DEF Serves
    <3>6. ASSUME NEW i \in 1..Len(cbox'), cbox'[i].from \in Callers
          PROVE  /\ callers'[cbox'[i].from].at = cbox'[i].what /\ callers'[cbox'[i].from].waits
                 /\ serving' # cbox'[i].from
      <4>1. CASE i \in 1..Len(cbox)
        BY <1>0, <2>1, <3>3, <3>4, <3>6, <4>1 DEF AskedClient, Stays
      <4>2. CASE i = Len(cbox) + 1 /\ cbox'[i].what = callers[c].at /\ cbox'[i].from = c
        BY <2>1, <3>2, <3>5, <4>2
      <4> QED
        BY <3>4, <4>1, <4>2
    <3>7. ASSUME NEW i \in 1..Len(cbox'), NEW j \in 1..Len(cbox'), cbox'[i].from \in Callers,
                 cbox'[j].from = cbox'[i].from
          PROVE  i = j
      <4>1. CASE i \in 1..Len(cbox) /\ j \in 1..Len(cbox)
        BY <1>0, <3>4, <3>7, <4>1 DEF AskedClient
      <4>2. CASE i = Len(cbox) + 1 /\ j = Len(cbox) + 1
        BY <4>2
      <4> QED
        BY <3>3, <3>4, <3>7, <4>1, <4>2
    <3> QED
      BY <2>3, <3>6, <3>7 DEF AskedClient
  <2> QED
    BY <1>2, <1>0, <2>4, <2>5, ClientBox
<1>3. ASSUME HandlePostInit \/ LookupCount \/ TerminateProducer \/
             (\E p \in Pids : AskForConnection(p) \/ ProducerEnds(p))
      PROVE  (AskedClient /\ Serves)'
  <2>1. UNCHANGED <<client, serving>>
    BY <1>3 DEF HandlePostInit, LookupCount, AskForConnection, TerminateProducer, ProducerEnds
  <2>2. ~(HandleStartChild \/ HandleDeleteChild \/ CannotConnect \/ HandleStop \/ StopProducerFailed)
    BY <1>01, <2>1
  <2>3. Serves'
    BY <1>06, <1>0, <2>1, <2>2 DEF Serves, Stays
  <2>4. CASE UNCHANGED cbox
    BY <2>1, <2>4, <1>1
  <2>5. ASSUME NEW w, NEW s, s \notin Callers, Sent(cbox, Message(w, s), cbox')
        PROVE  AskedClient'
    <3>1. \A i \in 1..Len(cbox) : cbox[i].from \in Callers => Stays(cbox[i].from)
      BY <1>02, <1>05, <2>2, <2>5 DEF Took, Sent
    <3>2. \A i \in 1..Len(cbox') :
            (i \in 1..Len(cbox) /\ cbox'[i] = cbox[i]) \/ cbox'[i].from \notin Callers
      BY <1>00, <2>5 DEF Sent
    <3> QED
      BY <1>0, <2>1, <3>1, <3>2, ExtendAskedClient
  <2>6. UNCHANGED cbox \/ \E w, s : s \notin Callers /\ Sent(cbox, Message(w, s), cbox')
    <3>1. \/ UNCHANGED cbox
          \/ \E w \in {"get_workers_table", "get_metadata"} : Sent(cbox, Message(w, Sup), cbox')
          \/ \E q \in Pids : Sent(cbox, Message("get_leader_connection", q), cbox')
          \/ \E q \in Pids : Departs(q)
      BY <1>3, <1>0, ClientBox
    <3>2. \A q \in Pids : Departs(q) => UNCHANGED cbox \/ Sent(cbox, Message("deregister", q), cbox')
      BY DEF Departs
    <3> QED
      BY <1>07, <3>1, <3>2
  <2> QED
    BY <2>3, <2>4, <2>5, <2>6
<1>4. ASSUME StartProducers \/ PartitionsSupDelayedRestart
      PROVE  (AskedClient /\ Serves)'
  <2>1. UNCHANGED <<client, serving>>
    BY <1>4 DEF StartProducers, PartitionsSupDelayedRestart
  <2>2. ~(HandleStartChild \/ HandleDeleteChild \/ CannotConnect \/ HandleStop \/ StopProducerFailed)
    BY <1>01, <2>1
  <2>3. Serves'
    BY <1>06, <1>0, <2>1, <2>2 DEF Serves, Stays
  <2>4. /\ Len(cbox) \in Nat /\ Len(cbox') \in Nat
        /\ \A i \in 1..Len(cbox) : i \in 1..Len(cbox') /\ cbox'[i] = cbox[i]
        /\ \A i \in 1..Len(cbox') : i \in 1..Len(cbox) \/ cbox'[i].from \in Pids
    BY <1>4, <1>0, Newborns DEF Newborn
  <2>5. ~Took(cbox, cbox')
    <3>1. SUFFICES ASSUME Took(cbox, cbox') PROVE FALSE
      OBVIOUS
    <3>2. Len(cbox) \in 1..Len(cbox) /\ Len(cbox') = Len(cbox) - 1
      BY <2>4, <3>1 DEF Took
    <3>3. Len(cbox) \in 1..Len(cbox')
      BY <2>4, <3>2
    <3> QED
      BY <2>4, <3>2, <3>3
  <2>6. \A i \in 1..Len(cbox) : cbox[i].from \in Callers => Stays(cbox[i].from)
    BY <1>02, <1>05, <2>2, <2>5
  <2>7. \A i \in 1..Len(cbox') :
            (i \in 1..Len(cbox) /\ cbox'[i] = cbox[i]) \/ cbox'[i].from \notin Callers
    BY <1>07, <2>4
  <2> QED
    BY <1>0, <2>1, <2>3, <2>6, <2>7, ExtendAskedClient
<1>5. ASSUME HandleInit \/ HandleQuery \/ HandleGetMetadata \/ HandleGetLeaderConnection \/
             HandleRegister
      PROVE  (AskedClient /\ Serves)'
  <2>1. UNCHANGED <<client, serving>>
    BY <1>5 DEF HandleInit, HandleQuery, HandleGetMetadata, HandleGetLeaderConnection, HandleRegister
  <2>2. ~(HandleStartChild \/ HandleDeleteChild \/ CannotConnect \/ HandleStop \/ StopProducerFailed)
    BY <1>01, <2>1
  <2>3. Serves'
    BY <1>06, <1>0, <2>1, <2>2 DEF Serves, Stays
  <2>4. Took(cbox, cbox')
    BY <1>5, <1>0, ClientBox
  <2> QED
    BY <1>0, <1>05, <2>1, <2>2, <2>3, <2>4, TookAskedClient
<1>6. ASSUME HandleStartProducer
      PROVE  (AskedClient /\ Serves)'
  <2> DEFINE c == Head(cbox).from
  <2>1. Took(cbox, cbox')
    BY <1>6, <1>0, ClientBox
  <2>2. /\ c \in Callers /\ callers[c].at \in {"start_producer", "auto_start_producer"}
        /\ callers[c].waits
        /\ \/ UNCHANGED callers /\ client' = "start_child" /\ serving' = c
           \/ UNCHANGED <<client, serving>>
    BY <1>6, <1>0, ClientEffects
  <2>3. client = "up" /\ serving = Nobody
    BY <1>6, <1>0 DEF HandleStartProducer, Takes, Serves
  <2>4. ~(CannotConnect \/ HandleStop \/ StopProducerFailed)
    BY <2>2, <2>3 DEF CannotConnect, HandleStop, StopProducerFailed, ClientEnds
  <2>5. serving' = serving \/ serving' = Head(cbox).from
    BY <2>2
  <2>6. AskedClient'
    BY <1>0, <1>05, <2>1, <2>4, <2>5, TookAskedClient
  <2> HIDE DEF c
  <2>7. Serves'
    BY <1>07, <2>2, <2>3 DEF Serves
  <2> QED
    BY <2>6, <2>7
<1>7. ASSUME HandleStopProducer
      PROVE  (AskedClient /\ Serves)'
  <2> DEFINE c == Head(cbox).from
  <2>1. Took(cbox, cbox')
    BY <1>7, <1>0, ClientBox
  <2>2. /\ client' = "terminate_child" /\ serving' = c /\ UNCHANGED callers
        /\ cbox # <<>> /\ Head(cbox).what = "stop_producer"
    BY <1>7 DEF HandleStopProducer, Takes
  <2>3. c \in Callers /\ callers[c].at = "stop_producer" /\ callers[c].waits
    BY <1>0, <2>2, HeadsOfCalls DEF CallerCalls
  <2>4. \A i \in 1..Len(cbox) : cbox[i].from \in Callers => Stays(cbox[i].from)
    BY <1>03, <2>2 DEF Stays
  <2>5. AskedClient'
    BY <1>0, <2>1, <2>2, <2>4, TookAskedClient
  <2> HIDE DEF c
  <2>6. Serves'
    BY <1>07, <2>2, <2>3 DEF Serves
  <2> QED
    BY <2>5, <2>6
<1>8. ASSUME CannotConnect \/ HandleStop \/ StopProducerFailed
      PROVE  (AskedClient /\ Serves)'
  <2>1. client' = "down" /\ serving' = Nobody /\ Len(cbox') = 0
    BY <1>8, <1>0, ClientBox DEF CannotConnect, HandleStop, StopProducerFailed, ClientEnds
  <2> QED
    BY <1>07, <2>1 DEF AskedClient, Serves
<1>9. ASSUME HandleStartChild \/ HandleDeleteChild
      PROVE  (AskedClient /\ Serves)'
  <2>1. UNCHANGED cbox /\ \/ client' = "up" /\ serving' = Nobody
                          \/ client' = "badmatch" /\ UNCHANGED <<serving, callers>> /\ HandleDeleteChild
    BY <1>9 DEF HandleStartChild, HandleDeleteChild
  <2>2. client' # "down" /\ ~(CannotConnect \/ HandleStop \/ StopProducerFailed)
    BY <2>1 DEF CannotConnect, HandleStop, StopProducerFailed, ClientEnds
  <2>3. \A i \in 1..Len(cbox) : cbox[i].from \in Callers => Stays(cbox[i].from)
    BY <1>02, <1>05, <2>1, <2>2 DEF Took
  <2>4. AskedClient'
    BY <1>0, <1>07, <2>1, <2>3, ExtendAskedClient
  <2>5. HandleDeleteChild => client = "delete_child" /\ serving \in Callers
    BY <1>0, TopicsSupEffects
  <2>6. Serves'
    BY <1>0, <1>07, <2>1, <2>5 DEF Serves
  <2> QED
    BY <2>4, <2>6
<1>10. ASSUME HandleTerminateChild \/ ChildIsDown
      PROVE  (AskedClient /\ Serves)'
  <2>1. /\ UNCHANGED <<cbox, serving, callers>>
        /\ client' = client \/ client' = "delete_child"
    BY <1>10 DEF HandleTerminateChild, ChildIsDown, Terminated
  <2>2. tbox # <<>> => 1 \in 1..Len(tbox) /\ Head(tbox) = tbox[1]
    BY <1>0, TookTail DEF Mail, TopicsSupMail, Took
  <2>3. client = "terminate_child"
    BY <1>10, <1>0, <2>2 DEF HandleTerminateChild, ChildIsDown, TopicsSupTakes, OneCall, CallOfClient, ClientWaits
  <2>4. \A i \in 1..Len(cbox) : cbox[i].from \in Callers => Stays(cbox[i].from)
    BY <1>03, <2>1 DEF Stays
  <2>5. AskedClient'
    BY <1>0, <2>1, <2>4, ExtendAskedClient
  <2>6. Serves'
    BY <1>0, <2>1, <2>3 DEF Serves
  <2> QED
    BY <2>5, <2>6
<1>11. ASSUME UnknownTopicExpires \/ TopicsSupWhichChildren \/ TopicsSupExit \/
              TopicsSupDelayedRestart \/
              (\E c \in Callers : Lookup(c) \/ CheckAlive(c) \/ CallTopicsSup(c) \/ CallPartitionsSup(c)) \/
              (\E c \in Callers : \E op \in Ops[c], k \in Partitions : Begin(c, op, k))
      PROVE  UNCHANGED <<cbox, client, serving>>
  BY <1>11 DEF Begin, Lookup, CheckAlive, CallTopicsSup, CallPartitionsSup,
       UnknownTopicExpires, TopicsSupWhichChildren, TopicsSupTakes, TopicsSupExit,
       TopicsSupDelayedRestart, StartPartitionsSup, sups, env
<1>12. ASSUME TopicsSupShutdown \/ TopicsSupEnds \/ PartitionsSupWhichChildren \/
              PartitionsSupExit \/ PartitionsSupShutdown \/ PartitionsSupEnds \/
              TopicMoves \/ (\E t \in Partitions \cup {Topic} : TimerFires(t))
      PROVE  UNCHANGED <<cbox, client, serving>>
  BY <1>12 DEF TopicsSupShutdown, TopicsSupTakes, TopicsSupEnds, PartitionsSupWhichChildren,
       PartitionsSupTakes, PartitionsSupExit, PartitionsSupShutdown, PartitionsSupEnds,
       TimerFires, TopicMoves, sups, env
<1>13. CASE UNCHANGED vars
  BY <1>1, <1>13 DEF vars, sups
<1> QED
  BY <1>1, <1>2, <1>3, <1>4, <1>5, <1>6, <1>7, <1>8, <1>9, <1>10, <1>11, <1>12, <1>13
     DEF Next, CallerNext, ClientNext, TopicsSupNext, PartitionsSupNext

LEMMA OneAnswerStep ==
  ClientInv /\ CallersTyped /\ OneAnswer /\ CallProgress /\ [Next]_vars => OneAnswer'
BY AskedTopicsSupStep, AskedPartitionsSupStep, AskedClientStep DEF OneAnswer

-----------------------------------------------------------------------------
(***************************************************************************)
(* Producers that have deregistered leave the table.                       *)
(***************************************************************************)
KeepParts ==
  \A p \in Pids : prods[p].st # "unborn" =>
    prods'[p].st # "unborn" /\ prods'[p].part = prods[p].part

LEMMA SentCleared ==
  ASSUME Mail, LeftIsCleared, KeepParts, UNCHANGED <<client, table>>,
         Len(cbox) \in Nat, Len(cbox') \in Nat,
         \A i \in 1..Len(cbox) : i \in 1..Len(cbox') /\ cbox'[i] = cbox[i],
         \A i \in 1..Len(cbox') :
           i \in 1..Len(cbox) \/ cbox'[i].what # "register" \/ prods'[cbox'[i].from].st # "left",
         \A p \in Pids : prods'[p].st = "left" =>
           \/ prods[p].st = "left"
           \/ client = "down" /\ Len(cbox) = 0
           \/ \E j \in 1..Len(cbox') :
                j > Len(cbox) /\ cbox'[j].what = "deregister" /\ cbox'[j].from = p
  PROVE  LeftIsCleared'
<1>1. ASSUME NEW p \in Pids, NEW i \in 0..Len(cbox), Deregisters(p, i)
      PROVE  \E j \in 1..Len(cbox') : j > i /\ cbox'[j].what = "deregister" /\ cbox'[j].from = p
  BY <1>1 DEF Deregisters
<1>2. ASSUME NEW k \in Partitions, table[k] \in Pids
      PROVE  /\ prods'[table[k]].st # "unborn" /\ prods'[table[k]].part = k
             /\ prods'[table[k]].st = "left" =>
                  \E j \in 1..Len(cbox') :
                    j > 0 /\ cbox'[j].what = "deregister" /\ cbox'[j].from = table[k]
  <2>1. prods'[table[k]].st # "unborn" /\ prods'[table[k]].part = k
    BY <1>2 DEF LeftIsCleared, Born, KeepParts
  <2>2. client # "down"
    <3>1. EmptyTable[k] \notin Pids
      BY PidFacts DEF EmptyTable
    <3> QED
      BY <1>2, <3>1 DEF LeftIsCleared
  <2>3. CASE prods[table[k]].st = "left"
    <3>1. Deregisters(table[k], 0) /\ 0 \in 0..Len(cbox)
      BY <1>2, <2>3 DEF LeftIsCleared
    <3> QED
      BY <1>1, <1>2, <2>1, <3>1
  <2> QED
    BY <1>2, <2>1, <2>2, <2>3
<1>3. ASSUME NEW i \in 1..Len(cbox'), cbox'[i].what = "register", prods'[cbox'[i].from].st = "left"
      PROVE  \E j \in 1..Len(cbox') :
               j > i /\ cbox'[j].what = "deregister" /\ cbox'[j].from = cbox'[i].from
  <2>1. i \in 1..Len(cbox) /\ cbox'[i] = cbox[i]
    BY <1>3
  <2>2. cbox[i].from \in Pids
    BY <1>3, <2>1 DEF Mail, ClientMail, ProducerMessages
  <2>3. CASE prods[cbox[i].from].st = "left"
    <3>1. Deregisters(cbox[i].from, i) /\ i \in 0..Len(cbox)
      BY <1>3, <2>1, <2>3 DEF LeftIsCleared
    <3> QED
      BY <1>1, <2>1, <2>2, <3>1
  <2>4. Len(cbox) # 0
    BY <2>1
  <2> QED
    BY <1>3, <2>1, <2>2, <2>3, <2>4
<1>4. (client = "down" => table = EmptyTable)'
  BY DEF LeftIsCleared, EmptyTable
<1> QED
  BY <1>2, <1>3, <1>4 DEF LeftIsCleared, Deregisters, Born

LEMMA TookCleared ==
  ASSUME Mail, LeftIsCleared, KeepParts, Took(cbox, cbox'), client' # "down",
         table \in [Partitions -> Pids \cup {Nobody}],
         \A p \in Pids : prods'[p].st = "left" => prods[p].st = "left",
         \/ UNCHANGED table /\ Head(cbox).what \notin {"register", "deregister"}
         \/ /\ Head(cbox).what \in {"register", "deregister"}
            /\ table' = [table EXCEPT ![prods[Head(cbox).from].part] =
                 IF Head(cbox).what = "register" THEN Head(cbox).from ELSE Nobody]
  PROVE  LeftIsCleared'
<1> DEFINE h == Head(cbox)
<1>1. /\ Len(cbox) \in Nat /\ 1 \in 1..Len(cbox) /\ h = cbox[1]
      /\ Len(cbox') = Len(cbox) - 1
      /\ \A i \in 1..Len(cbox') : cbox'[i] = cbox[i + 1] /\ i + 1 \in 1..Len(cbox)
  BY DEF Took
<1>2. h.what \in {"register", "deregister"} => h.from \in Pids /\ prods[h.from].st # "unborn"
  BY <1>1 DEF Mail, ClientMail, ProducerMessages
<1> HIDE DEF h
<1>3. ASSUME NEW p \in Pids, NEW i \in 1..Len(cbox), Deregisters(p, i)
      PROVE  \E j \in 1..Len(cbox') :
               j > i - 1 /\ cbox'[j].what = "deregister" /\ cbox'[j].from = p
  <2>1. PICK j \in 1..Len(cbox) : j > i /\ cbox[j].what = "deregister" /\ cbox[j].from = p
    BY <1>3 DEF Deregisters
  <2>2. j - 1 \in 1..Len(cbox') /\ j - 1 > i - 1 /\ (j - 1) + 1 = j
    BY <1>1, <2>1
  <2>3. cbox'[j - 1] = cbox[j]
    BY <1>1, <2>2
  <2> QED
    BY <2>1, <2>2, <2>3
<1>4. ASSUME NEW k \in Partitions, table'[k] \in Pids
      PROVE  /\ prods'[table'[k]].st # "unborn" /\ prods'[table'[k]].part = k
             /\ prods'[table'[k]].st = "left" =>
                  \E j \in 1..Len(cbox') :
                    j > 0 /\ cbox'[j].what = "deregister" /\ cbox'[j].from = table'[k]
  <2>1. CASE table'[k] = table[k] /\ (h.what = "deregister" => k # prods[h.from].part)
    <3>1. /\ prods[table[k]].st # "unborn" /\ prods[table[k]].part = k
          /\ prods[table[k]].st = "left" => Deregisters(table[k], 0)
      BY <1>4, <2>1 DEF LeftIsCleared, Born
    <3>2. prods'[table[k]].st # "unborn" /\ prods'[table[k]].part = k
      BY <1>4, <2>1, <3>1 DEF KeepParts
    <3>3. ASSUME prods'[table[k]].st = "left"
          PROVE  Deregisters(table[k], 1)
      <4>1. PICK j \in 1..Len(cbox) :
              j > 0 /\ cbox[j].what = "deregister" /\ cbox[j].from = table[k]
        BY <1>4, <2>1, <3>1, <3>3 DEF Deregisters
      <4>2. j # 1
        BY <1>1, <2>1, <3>1, <4>1
      <4>3. j > 1
        BY <4>1, <4>2
      <4> QED
        BY <4>1, <4>3 DEF Deregisters
    <3>4. 1 - 1 = 0
      OBVIOUS
    <3> QED
      BY <1>1, <1>3, <1>4, <2>1, <3>2, <3>3, <3>4
  <2>2. CASE /\ h.what = "register" /\ table'[k] = h.from /\ prods[h.from].part = k
    <3>1. prods'[h.from].st # "unborn" /\ prods'[h.from].part = k
      BY <1>2, <2>2 DEF KeepParts
    <3>2. prods'[h.from].st = "left" => Deregisters(h.from, 1)
      BY <1>1, <1>2, <2>2 DEF LeftIsCleared
    <3>3. 1 - 1 = 0
      OBVIOUS
    <3> QED
      BY <1>1, <1>2, <1>3, <2>2, <3>1, <3>2, <3>3
  <2>3. \/ table'[k] = table[k] /\ (h.what = "deregister" => k # prods[h.from].part)
        \/ h.what = "register" /\ table'[k] = h.from /\ prods[h.from].part = k
    <3>1. CASE UNCHANGED table /\ h.what \notin {"register", "deregister"}
      BY <3>1
    <3>2. CASE /\ h.what \in {"register", "deregister"}
               /\ table' = [table EXCEPT ![prods[h.from].part] =
                    IF h.what = "register" THEN h.from ELSE Nobody]
      BY <1>4, <3>2, PidFacts
    <3> QED
      BY <3>1, <3>2 DEF h
  <2> QED
    BY <2>1, <2>2, <2>3
<1>5. ASSUME NEW i \in 1..Len(cbox'), cbox'[i].what = "register", prods'[cbox'[i].from].st = "left"
      PROVE  \E j \in 1..Len(cbox') :
               j > i /\ cbox'[j].what = "deregister" /\ cbox'[j].from = cbox'[i].from
  <2>1. i + 1 \in 1..Len(cbox) /\ cbox'[i] = cbox[i + 1] /\ (i + 1) - 1 = i
    BY <1>1
  <2>2. cbox[i + 1].from \in Pids
    BY <1>5, <2>1 DEF Mail, ClientMail, ProducerMessages
  <2>3. Deregisters(cbox[i + 1].from, i + 1)
    BY <1>5, <2>1, <2>2 DEF LeftIsCleared
  <2> QED
    BY <1>3, <2>1, <2>2, <2>3
<1> QED
  BY <1>4, <1>5 DEF LeftIsCleared, Deregisters, Born

\* What has left is cleared from the table, or will be.
LEMMA LeftIsClearedStep == ClientInv /\ LeftIsCleared /\ [Next]_vars => LeftIsCleared'
<1> SUFFICES ASSUME ClientInv, LeftIsCleared, [Next]_vars PROVE LeftIsCleared'
  OBVIOUS
<1>0. /\ TypeOK /\ Mail /\ BornInOrder /\ OneCall /\ LeftIsCleared /\ table \in [Partitions -> Pids \cup {Nobody}]
      /\ prods \in ProdType
  BY DEF ClientInv, TypeOK, ProdType
<1>00. \A w, s : Message(w, s).what = w /\ Message(w, s).from = s
  BY DEF Message
<1>01. KeepParts
  BY <1>0, BornStep DEF LivesGoOn, KeepParts, Born
<1>02. client = "down" => cbox = <<>> /\ Len(cbox) = 0
  BY <1>0 DEF OneCall, StartAndEnd
<1>1. CASE UNCHANGED <<client, cbox, table, prods>>
  BY <1>1, <1>0 DEF LeftIsCleared, Deregisters, Born, EmptyTable
<1>2. ASSUME NEW c \in Callers, CallClient(c)
      PROVE  LeftIsCleared'
  <2>1. UNCHANGED <<client, table, prods>> /\ callers[c].at \in ClientCalls
    BY <1>2 DEF CallClient
  <2>2. UNCHANGED cbox \/ Sent(cbox, Message(callers[c].at, c), cbox')
    BY <1>2, <1>0, ClientBox
  <2>3. callers[c].at # "register"
    BY <2>1 DEF ClientCalls
  <2>4. CASE UNCHANGED cbox
    BY <1>1, <2>1, <2>4
  <2>5. CASE Sent(cbox, Message(callers[c].at, c), cbox')
    BY <2>1, <2>3, <2>5, <1>0, <1>00, <1>01, SentCleared DEF Sent
  <2> QED
    BY <2>2, <2>4, <2>5
<1>3. ASSUME HandlePostInit \/ LookupCount
      PROVE  LeftIsCleared'
  <2>1. UNCHANGED <<client, table, prods>>
    BY <1>3 DEF HandlePostInit, LookupCount
  <2>2. UNCHANGED cbox \/ \E w \in {"get_workers_table", "get_metadata"} : Sent(cbox, Message(w, Sup), cbox')
    BY <1>3, <1>0, ClientBox
  <2>4. CASE UNCHANGED cbox
    BY <1>1, <2>1, <2>4
  <2>5. ASSUME NEW w \in {"get_workers_table", "get_metadata"}, Sent(cbox, Message(w, Sup), cbox')
        PROVE  LeftIsCleared'
    BY <2>1, <2>5, <1>0, <1>00, <1>01, SentCleared DEF Sent
  <2> QED
    BY <2>2, <2>4, <2>5
<1>4. ASSUME NEW p \in Pids, AskForConnection(p)
      PROVE  LeftIsCleared'
  <2>1. UNCHANGED <<client, table>>
    BY <1>4 DEF AskForConnection
  <2>2. Sent(cbox, Message("get_leader_connection", p), cbox')
    BY <1>4, <1>0, ClientBox
  <2>3. \A q \in Pids : prods'[q].st = "left" => prods[q].st = "left"
    BY <1>4, <1>0, ConnectionLives DEF SameLives
  <2> QED
    BY <2>1, <2>2, <2>3, <1>0, <1>00, <1>01, SentCleared DEF Sent
<1>5. ASSUME TerminateProducer \/ (\E p \in Pids : ProducerEnds(p))
      PROVE  LeftIsCleared'
  <2>1. UNCHANGED <<client, table>>
    BY <1>5 DEF TerminateProducer, ProducerEnds
  <2>2. UNCHANGED <<prods, cbox>> \/ \E q \in Pids : Departs(q)
    BY <1>5, <1>0, ClientBox
  <2>3. CASE UNCHANGED <<prods, cbox>>
    BY <1>1, <2>1, <2>3
  <2>4. ASSUME NEW q \in Pids, Departs(q) PROVE LeftIsCleared'
    <3>1. \A r \in Pids : r # q => prods'[r] = prods[r]
      BY <2>4, <1>0, EndLives DEF Departs
    <3>2. CASE prods'[q].st = "lost" /\ UNCHANGED cbox
      <4>1. Len(cbox) \in Nat
        BY <1>0 DEF Mail, ClientMail
      <4> QED
        BY <2>1, <3>1, <3>2, <4>1, <1>0, <1>01, SentCleared
    <3>3. CASE prods'[q].st = "left" /\ client = "down" /\ UNCHANGED cbox
      BY <2>1, <3>1, <3>3, <1>0, <1>01, <1>02, SentCleared
    <3>4. CASE prods'[q].st = "left" /\ Sent(cbox, Message("deregister", q), cbox')
      <4>1. /\ Len(cbox) \in Nat /\ Len(cbox') \in Nat
            /\ \A i \in 1..Len(cbox) : i \in 1..Len(cbox') /\ cbox'[i] = cbox[i]
            /\ \A i \in 1..Len(cbox') : i \in 1..Len(cbox) \/ cbox'[i].what # "register"
            /\ \E j \in 1..Len(cbox') :
                 j > Len(cbox) /\ cbox'[j].what = "deregister" /\ cbox'[j].from = q
        BY <3>4, <1>00 DEF Sent
      <4>2. \A p \in Pids : prods'[p].st = "left" => prods[p].st = "left" \/ p = q
        BY <3>1
      <4> QED
        BY <2>1, <4>1, <4>2, <1>0, <1>01, SentCleared
    <3> QED
      BY <2>4, <3>2, <3>3, <3>4 DEF Departs
  <2> QED
    BY <2>2, <2>3, <2>4
<1>6. ASSUME StartProducers \/ PartitionsSupDelayedRestart
      PROVE  LeftIsCleared'
  <2>1. UNCHANGED <<client, table>>
    BY <1>6 DEF StartProducers, PartitionsSupDelayedRestart
  <2>2. /\ Len(cbox) \in Nat /\ Len(cbox') \in Nat
        /\ \A i \in 1..Len(cbox) : i \in 1..Len(cbox') /\ cbox'[i] = cbox[i]
        /\ \A i \in 1..Len(cbox') : i \in 1..Len(cbox) \/ Newborn(cbox'[i].from)
        /\ \A p \in Pids : prods'[p] = prods[p] \/ Newborn(p)
    BY <1>6, <1>0, Newborns
  <2> QED
    BY <2>1, <2>2, <1>0, <1>01, SentCleared DEF Newborn
<1>7. ASSUME HandleInit \/ HandleQuery \/ HandleStartProducer \/ HandleStopProducer \/
             HandleGetMetadata \/ HandleGetLeaderConnection
      PROVE  LeftIsCleared'
  <2>1. /\ UNCHANGED table /\ Head(cbox).what \notin {"register", "deregister"} /\ client = "up"
        /\ client' # "down"
    BY <1>7 DEF HandleInit, Takes, HandleQuery, HandleStartProducer, HandleStopProducer,
       HandleGetMetadata, HandleGetLeaderConnection
  <2>2. UNCHANGED prods \/ HandleGetLeaderConnection
    BY <1>7 DEF HandleInit, HandleQuery, HandleStartProducer, HandleStopProducer, HandleGetMetadata
  <2>3. \A p \in Pids : prods'[p].st = "left" => prods[p].st = "left"
    BY <2>2, <1>0, ConnectionLives DEF SameLives
  <2>4. Took(cbox, cbox')
    BY <1>7, <1>0, ClientBox
  <2> QED
    BY <2>1, <2>3, <2>4, <1>0, <1>01, TookCleared
<1>8. ASSUME HandleRegister
      PROVE  LeftIsCleared'
  <2>1. /\ UNCHANGED prods /\ client' = "up" /\ Head(cbox).what \in {"register", "deregister"}
        /\ Takes("register") <=> Head(cbox).what = "register"
        /\ table' = [table EXCEPT ![prods[Head(cbox).from].part] =
             IF Takes("register") THEN Head(cbox).from ELSE Nobody]
    BY <1>8 DEF HandleRegister, Takes
  <2>2. Took(cbox, cbox')
    BY <1>8, <1>0, ClientBox
  <2>3. table' = [table EXCEPT ![prods[Head(cbox).from].part] =
          IF Head(cbox).what = "register" THEN Head(cbox).from ELSE Nobody]
    BY <2>1
  <2> QED
    BY <2>1, <2>2, <2>3, <1>0, <1>01, TookCleared
<1>9. ASSUME CannotConnect \/ HandleStop \/ StopProducerFailed
      PROVE  LeftIsCleared'
  <2>1. client' = "down" /\ table' = EmptyTable /\ Len(cbox') = 0
    BY <1>9, <1>0, ClientBox DEF CannotConnect, HandleStop, StopProducerFailed, ClientEnds
  <2>2. \A k \in Partitions : table'[k] \notin Pids
    BY <2>1, PidFacts DEF EmptyTable
  <2> QED
    BY <2>1, <2>2 DEF LeftIsCleared, EmptyTable
<1>10. ASSUME HandleStartChild \/ HandleTerminateChild \/ ChildIsDown \/ HandleDeleteChild
      PROVE  LeftIsCleared'
  <2>1. UNCHANGED <<cbox, table, prods>> /\ client' # "down"
    <3>1. HandleStartChild \/ HandleTerminateChild \/ HandleDeleteChild => client' # "down"
      <4>1. HandleTerminateChild => client # "down"
        <5>1. tbox # <<>> => 1 \in 1..Len(tbox) /\ Head(tbox) = tbox[1]
          BY <1>0, TookTail DEF Mail, TopicsSupMail, Took
        <5> QED
          BY <1>0, <5>1 DEF HandleTerminateChild, TopicsSupTakes, OneCall, CallOfClient, ClientWaits
      <4> QED
        BY <4>1 DEF HandleStartChild, HandleTerminateChild, HandleDeleteChild, Terminated
    <3>2. ChildIsDown => client' # "down"
      BY DEF ChildIsDown, Terminated
    <3> QED
      BY <1>10, <3>1, <3>2 DEF HandleStartChild, HandleTerminateChild, HandleDeleteChild, ChildIsDown
  <2> QED
    BY <2>1, <1>0 DEF LeftIsCleared, Deregisters, Born
<1>11. ASSUME UnknownTopicExpires \/ TopicsSupWhichChildren \/ TopicsSupExit \/
              TopicsSupDelayedRestart \/
              (\E c \in Callers : Lookup(c) \/ CheckAlive(c) \/ CallTopicsSup(c) \/ CallPartitionsSup(c)) \/
              (\E c \in Callers : \E op \in Ops[c], k \in Partitions : Begin(c, op, k))
      PROVE  UNCHANGED <<client, cbox, table, prods>>
  BY <1>11 DEF Begin, Lookup, CheckAlive, CallTopicsSup, CallPartitionsSup,
       UnknownTopicExpires, TopicsSupWhichChildren, TopicsSupTakes, TopicsSupExit,
       TopicsSupDelayedRestart, StartPartitionsSup, sups, env
<1>12. ASSUME TopicsSupShutdown \/ TopicsSupEnds \/ PartitionsSupWhichChildren \/
              PartitionsSupExit \/ PartitionsSupShutdown \/ PartitionsSupEnds \/
              TopicMoves \/ (\E t \in Partitions \cup {Topic} : TimerFires(t))
      PROVE  UNCHANGED <<client, cbox, table, prods>>
  BY <1>12 DEF TopicsSupShutdown, TopicsSupTakes, TopicsSupEnds, PartitionsSupWhichChildren,
       PartitionsSupTakes, PartitionsSupExit, PartitionsSupShutdown, PartitionsSupEnds,
       TimerFires, TopicMoves, sups, env
<1>13. CASE UNCHANGED vars
  BY <1>1, <1>13 DEF vars, sups
<1> QED
  BY <1>1, <1>2, <1>3, <1>4, <1>5, <1>6, <1>7, <1>8, <1>9, <1>10, <1>11, <1>12, <1>13
     DEF Next, CallerNext, ClientNext, TopicsSupNext, PartitionsSupNext

-----------------------------------------------------------------------------
(***************************************************************************)
(* The partitions' supervisor learns of every end of a producer.           *)
(***************************************************************************)
LEMMA KeepsNoticed ==
  ASSUME DeadIsNoticed, Mail, psup' = "up" /\ kids' # <<>> => psup = "up" /\ UNCHANGED kids,
         \A p \in Pids : Alive(p) => prods'[p].st \in {"idle", "busy"},
         \/ UNCHANGED pbox
         \/ \E m : Sent(pbox, m, pbox')
         \/ Took(pbox, pbox') /\ Head(pbox).what # "EXIT"
  PROVE  DeadIsNoticed'
<1> SUFFICES ASSUME psup' = "up", kids' # <<>>, NEW k \in Partitions, kids'[k] \in Pids,
                    prods'[kids'[k]].st \notin {"idle", "busy"}
             PROVE  \E i \in 1..Len(pbox') : pbox'[i] = Message("EXIT", kids'[k])
  BY DEF DeadIsNoticed, Alive
<1>1. psup = "up" /\ UNCHANGED kids /\ kids # <<>> /\ kids[k] \in Pids /\ ~Alive(kids[k])
  BY DEF Alive
<1>2. PICK i \in 1..Len(pbox) : pbox[i] = Message("EXIT", kids[k])
  BY <1>1 DEF DeadIsNoticed
<1>3. CASE UNCHANGED pbox
  BY <1>1, <1>2, <1>3
<1>4. CASE \E m : Sent(pbox, m, pbox')
  BY <1>1, <1>2, <1>4 DEF Sent
<1>5. CASE Took(pbox, pbox') /\ Head(pbox).what # "EXIT"
  <2>1. pbox[i].what = "EXIT"
    BY <1>2 DEF Message
  <2>2. i # 1 /\ Len(pbox) \in Nat /\ Len(pbox') = Len(pbox) - 1
    BY <1>5, <2>1 DEF Took
  <2>3. i - 1 \in 1..Len(pbox') /\ (i - 1) + 1 = i
    BY <2>2
  <2>4. pbox'[i - 1] = pbox[i]
    BY <1>5, <2>3 DEF Took
  <2> QED
    BY <1>1, <1>2, <2>3, <2>4
<1> QED
  BY <1>3, <1>4, <1>5

\* The supervisor has a message about each dead child that it still lists.
LEMMA DeadIsNoticedStep == ClientInv /\ DeadIsNoticed /\ [Next]_vars => DeadIsNoticed'
<1> SUFFICES ASSUME ClientInv, DeadIsNoticed, [Next]_vars PROVE DeadIsNoticed'
  OBVIOUS
<1>0. /\ TypeOK /\ Mail /\ BornInOrder /\ OneProducer /\ Family /\ OneRestart /\ DeadIsNoticed
      /\ prods \in ProdType /\ SupAsks
  BY DEF ClientInv, TypeOK, ProdType
<1>00. \A w, s : Message(w, s).what = w /\ Message(w, s).from = s
  BY DEF Message
<1>1. CASE UNCHANGED <<psup, kids, prods, pbox>>
  BY <1>1, <1>0 DEF DeadIsNoticed, Alive
<1>2. ASSUME (\E c \in Callers : CallPartitionsSup(c)) \/
             (\E t \in Partitions \cup {Topic} : TimerFires(t))
      PROVE  DeadIsNoticed'
  <2>1. UNCHANGED <<psup, kids, prods>>
    BY <1>2 DEF CallPartitionsSup, TimerFires
  <2>2. UNCHANGED pbox \/ \E m : Sent(pbox, m, pbox')
    BY <1>2, <1>0, PartitionsBox
  <2> QED
    BY <2>1, <2>2, <1>0, KeepsNoticed DEF Alive
<1>3. ASSUME HandleTerminateChild \/ TopicsSupShutdown
      PROVE  DeadIsNoticed'
  <2>1. UNCHANGED <<psup, kids, prods>>
    BY <1>3 DEF HandleTerminateChild, TopicsSupShutdown
  <2>2. UNCHANGED pbox \/ \E m : Sent(pbox, m, pbox')
    BY <1>3, <1>0, PartitionsBox
  <2> QED
    BY <2>1, <2>2, <1>0, KeepsNoticed DEF Alive
<1>4. ASSUME HandleQuery \/ HandleGetMetadata \/ LookupCount
      PROVE  DeadIsNoticed'
  <2>1. UNCHANGED <<kids, prods, pbox>>
    BY <1>4 DEF HandleQuery, HandleGetMetadata, LookupCount
  <2>2. psup' = "up" => psup = "up"
    BY <1>4 DEF HandleQuery, HandleGetMetadata, LookupCount
  <2> QED
    BY <2>1, <2>2, <1>0, KeepsNoticed DEF Alive
<1>5. ASSUME HandleGetLeaderConnection \/ (\E p \in Pids : AskForConnection(p))
      PROVE  DeadIsNoticed'
  <2>1. UNCHANGED <<psup, kids, pbox>>
    BY <1>5 DEF HandleGetLeaderConnection, AskForConnection, sups
  <2>2. \A q \in Pids : Alive(q) => prods'[q].st \in {"idle", "busy"}
    BY <1>5, <1>0, ConnectionLives DEF SameLives, Alive
  <2> QED
    BY <2>1, <2>2, <1>0, KeepsNoticed
<1>6. ASSUME CannotConnect \/ HandleStop \/ StopProducerFailed
      PROVE  DeadIsNoticed'
  <2>1. UNCHANGED <<kids, pbox>> /\ (psup' = "up" => psup = "up")
    BY <1>6 DEF CannotConnect, HandleStop, StopProducerFailed, ClientEnds
  <2>2. \A q \in Pids : Alive(q) => prods'[q].st \in {"idle", "busy"}
    BY <1>6, <1>0, ClientEndsLives DEF SameLives, Alive
  <2> QED
    BY <2>1, <2>2, <1>0, KeepsNoticed
<1>7. ASSUME HandleStartChild \/ TopicsSupDelayedRestart
      PROVE  DeadIsNoticed'
  <2>1. \/ UNCHANGED <<pbox, psup, kids, prods>>
        \/ kids' = <<>>
    BY <1>7, <1>0, PartitionsBox DEF HandleStartChild, TopicsSupDelayedRestart
  <2> QED
    BY <2>1, <1>1 DEF DeadIsNoticed
<1>8. ASSUME HandlePostInit \/ PartitionsSupShutdown \/ TerminateProducer \/
             PartitionsSupEnds
      PROVE  DeadIsNoticed'
  <2>1. psup' # "up"
    BY <1>8 DEF HandlePostInit, PartitionsSupShutdown, TerminateProducer, PartitionsSupEnds
  <2> QED
    BY <2>1 DEF DeadIsNoticed
<1>9. ASSUME PartitionsSupWhichChildren
      PROVE  DeadIsNoticed'
  <2>1. UNCHANGED <<psup, kids, prods>> /\ Head(pbox).what # "EXIT"
    BY <1>9 DEF PartitionsSupWhichChildren, PartitionsSupTakes
  <2>2. Took(pbox, pbox')
    BY <1>9, <1>0, PartitionsBox
  <2> QED
    BY <2>1, <2>2, <1>0, KeepsNoticed DEF Alive
<1>10. ASSUME PartitionsSupExit
      PROVE  DeadIsNoticed'
  <2> DEFINE q == Head(pbox).from
             e == prods[q].part
  <2>1. /\ UNCHANGED <<psup, prods>> /\ psup = "up" /\ Head(pbox).what = "EXIT"
        /\ kids' = [kids EXCEPT ![e] = Restarting]
    BY <1>10 DEF PartitionsSupExit, PartitionsSupTakes
  <2>2. Took(pbox, pbox')
    BY <1>10, <1>0, PartitionsBox
  <2>3. /\ 1 \in 1..Len(pbox) /\ q = pbox[1].from /\ q \in Pids /\ pbox[1].what = "EXIT"
        /\ kids # <<>> /\ kids[e] = q /\ e \in Partitions
        /\ kids \in [Partitions -> Pids \cup {Nobody, Restarting}]
    <3>1. 1 \in 1..Len(pbox) /\ q = pbox[1].from /\ pbox[1].what = "EXIT"
      BY <2>1, <2>2 DEF Took
    <3>2. q \in Pids
      BY <1>0, <3>1 DEF Mail, PartitionsSupMail
    <3>3. kids # <<>> /\ kids[e] = q
      BY <1>0, <2>1, <3>1 DEF OneProducer, TokensStand
    <3> QED
      BY <1>0, <3>1, <3>2, <3>3 DEF TypeOK
  <2>4. ASSUME NEW k \in Partitions, kids'[k] \in Pids, prods'[kids'[k]].st \notin {"idle", "busy"}
        PROVE  \E i \in 1..Len(pbox') : pbox'[i] = Message("EXIT", kids'[k])
    <3>1. k # e /\ kids'[k] = kids[k]
      BY <2>1, <2>3, <2>4, PidFacts
    <3>2. prods[kids[k]].part = k
      BY <1>0, <2>3, <2>4, <3>1 DEF Family, KidsAreBorn
    <3>3. kids[k] # q
      BY <3>1, <3>2
    <3>4. PICK i \in 1..Len(pbox) : pbox[i] = Message("EXIT", kids[k])
      BY <1>0, <2>1, <2>3, <2>4, <3>1 DEF DeadIsNoticed, Alive
    <3>5. i # 1
      BY <1>00, <2>3, <3>3, <3>4
    <3> HIDE DEF q, e
    <3>6. i - 1 \in 1..Len(pbox') /\ (i - 1) + 1 = i
      BY <2>2, <3>5 DEF Took
    <3>7. pbox'[i - 1] = pbox[i]
      BY <2>2, <3>6 DEF Took
    <3> QED
      BY <3>1, <3>4, <3>6, <3>7
  <2> QED
    BY <2>4 DEF DeadIsNoticed, Alive
<1>11. ASSUME StartProducers \/ PartitionsSupDelayedRestart
      PROVE  DeadIsNoticed'
  <2>1. \A p \in Pids : prods'[p] = prods[p] \/ Newborn(p)
    BY <1>11, <1>0, Newborns
  <2>2. \A k \in Partitions :
          \/ Newborn(kids'[k])
          \/ PartitionsSupDelayedRestart /\ kids'[k] = kids[k]
    BY <1>11, <1>0, Newborns
  <2>3. PartitionsSupDelayedRestart =>
          psup = "up" /\ Took(pbox, pbox') /\ Head(pbox).what = "delayed_restart"
    BY <1>0, PartitionsBox DEF PartitionsSupDelayedRestart, PartitionsSupTakes
  <2>4. ASSUME psup' = "up", kids' # <<>>, NEW k \in Partitions, kids'[k] \in Pids,
               prods'[kids'[k]].st \notin {"idle", "busy"}
        PROVE  \E i \in 1..Len(pbox') : pbox'[i] = Message("EXIT", kids'[k])
    <3>1. PartitionsSupDelayedRestart /\ kids'[k] = kids[k] /\ ~Newborn(kids'[k])
      BY <2>2, <2>4 DEF Newborn
    <3>2. kids[k] \in Pids /\ ~Alive(kids[k])
      BY <2>1, <2>4, <3>1 DEF Alive
    <3>3. 1 \in 1..Len(pbox) /\ Head(pbox) = pbox[1] /\ pbox[1].what = "delayed_restart" /\ psup = "up"
      BY <2>3, <3>1 DEF Took
    <3>4. kids # <<>>
      BY <1>0, <3>3 DEF OneProducer, TokensStand
    <3>5. PICK i \in 1..Len(pbox) : pbox[i] = Message("EXIT", kids[k])
      BY <1>0, <3>2, <3>3, <3>4 DEF DeadIsNoticed
    <3>6. i # 1
      BY <1>00, <3>3, <3>5
    <3>7. i - 1 \in 1..Len(pbox') /\ (i - 1) + 1 = i
      BY <2>3, <3>1, <3>6 DEF Took
    <3>8. pbox'[i - 1] = pbox[i]
      BY <2>3, <3>1, <3>7 DEF Took
    <3> QED
      BY <3>1, <3>5, <3>7, <3>8
  <2> QED
    BY <2>4 DEF DeadIsNoticed, Alive
<1>12. ASSUME NEW p \in Pids, ProducerEnds(p)
      PROVE  DeadIsNoticed'
  <2>1. UNCHANGED <<psup, kids>>
    BY <1>12 DEF ProducerEnds
  <2>2. Sent(pbox, Message("EXIT", p), pbox')
    BY <1>12, <1>0, PartitionsBox
  <2>3. \A q \in Pids : q # p => prods'[q] = prods[q]
    BY <1>12, <1>0, EndLives
  <2>4. ASSUME psup' = "up", kids' # <<>>, NEW k \in Partitions, kids'[k] \in Pids,
               prods'[kids'[k]].st \notin {"idle", "busy"}
        PROVE  \E i \in 1..Len(pbox') : pbox'[i] = Message("EXIT", kids'[k])
    <3>1. CASE kids'[k] = p
      BY <2>2, <3>1 DEF Sent
    <3>2. CASE kids'[k] # p
      <4>1. PICK i \in 1..Len(pbox) : pbox[i] = Message("EXIT", kids[k])
        BY <1>0, <2>1, <2>3, <2>4, <3>2 DEF DeadIsNoticed, Alive
      <4> QED
        BY <2>1, <2>2, <4>1 DEF Sent
    <3> QED
      BY <3>1, <3>2
  <2> QED
    BY <2>4 DEF DeadIsNoticed, Alive
<1>13. ASSUME HandleInit \/ HandleStartProducer \/ HandleStopProducer \/ HandleRegister \/
              (\E c \in Callers : Lookup(c) \/ CheckAlive(c) \/ CallClient(c) \/ CallTopicsSup(c)) \/
              (\E c \in Callers : \E op \in Ops[c], k \in Partitions : Begin(c, op, k))
      PROVE  UNCHANGED <<psup, kids, prods, pbox>>
  BY <1>13 DEF Begin, Lookup, CheckAlive, CallClient, CallTopicsSup, HandleInit, Takes,
       HandleStartProducer, HandleStopProducer, HandleRegister, sups, env
<1>14. ASSUME UnknownTopicExpires \/ ChildIsDown \/ HandleDeleteChild \/
              TopicsSupWhichChildren \/ TopicsSupExit \/ TopicsSupEnds \/ TopicMoves
      PROVE  UNCHANGED <<psup, kids, prods, pbox>>
  BY <1>14 DEF UnknownTopicExpires, ChildIsDown, Terminated, HandleDeleteChild,
       TopicsSupTakes, TopicsSupWhichChildren, TopicsSupExit, TopicsSupEnds, TopicMoves,
       sups, env
<1>15. CASE UNCHANGED vars
  BY <1>1, <1>15 DEF vars, sups
<1> QED
  BY <1>1, <1>2, <1>3, <1>4, <1>5, <1>6, <1>7, <1>8, <1>9, <1>10, <1>11, <1>12, <1>13,
     <1>14, <1>15
     DEF Next, CallerNext, ClientNext, TopicsSupNext, PartitionsSupNext

-----------------------------------------------------------------------------
(***************************************************************************)
(* What a step does to a call, and when it answers what.                   *)
(***************************************************************************)
SameCall(a, b) == b.gone = a.gone /\ b.part = a.part
Begins(d) == \E op \in Ops[d], k \in Partitions : Begin(d, op, k)
Rests(a, b) ==
  /\ SameCall(a, b) /\ b.at = a.at /\ b.op = a.op /\ b.pid = a.pid /\ b.answer = a.answer
  /\ b.started => a.started
  /\ b.at # "idle" /\ ~b.stopped => ~a.stopped
GoesOn(d, a, b) ==
  \E at, op, pid :
    /\ Goes(a, b, at, op, pid) /\ at \notin {"idle", "stop", "stop_producer"}
    /\ op = a.op \/ (a.op = "get" /\ op = "get_again")
    /\ at \in {"start_producer", "auto_start_producer"} => child = "absent"
    /\ a.at = "lookup" => client # "down" /\ UNCHANGED client
    /\ at = "lookup_again" =>
         Took(cbox, cbox') /\ UNCHANGED prods /\ cbox[1] = Message("get_workers_table", d)
AnswersOk(d, a, pid) ==
  \/ a.at = "start_producer" /\ HandleStartChild /\ child \in {"absent", "pid"} /\ pid = Nobody
  \/ /\ a.at = "lookup_again" /\ client # "down" /\ Lookup(d)
     /\ a.part \in Partitions /\ pid \in Pids /\ pid = table[a.part]
  \/ a.at = "is_process_alive" /\ pid \in Pids /\ Alive(pid)
  \/ /\ a.at = "partitions_sup" /\ psup = "up" /\ kids # <<>>
     /\ a.part \in Partitions /\ pid = kids[a.part]
     /\ 1 \in 1..Len(pbox) /\ pbox[1] = Message("which_children", d)
  \/ a.at = "stop_producer" /\ HandleDeleteChild /\ child = "undefined" /\ pid = Nobody
  \/ a.at \in {"get_metadata", "stop"} /\ pid = Nobody
AnswersNo(a, answer) ==
  \/ answer = "client_down"
     /\ (client = "down" \/ CannotConnect \/ HandleStop \/ StopProducerFailed)
  \/ answer = "exit" /\ tsup \in {"down", "terminate"}
  \/ answer = "producer_down" /\ psup \in {"down", "failed", "terminate"}
  \/ answer = "topic_not_found" /\ child = "absent"
  \/ a.at \in {"start_producer", "auto_start_producer", "get_metadata"}
Answered(d, a, b) ==
  \E answer, pid :
    /\ IsAnswered(a, b, answer, pid)
    /\ answer = "ok" => AnswersOk(d, a, pid)
    /\ answer # "ok" => AnswersNo(a, answer) /\ pid = Nobody
Round(d, a, b) ==
  Begins(d) \/ Rests(a, b) \/ (a.at # "idle" /\ (GoesOn(d, a, b) \/ Answered(d, a, b)))
Rounds == \A d \in Callers : Round(d, callers[d], callers'[d])

LEMMA OthersRest ==
  ASSUME NEW c \in Callers, OnlyMoves(c, callers'), Round(c, callers[c], callers'[c])
  PROVE  Rounds
<1>1. ASSUME NEW d \in Callers, d # c PROVE Round(d, callers[d], callers'[d])
  BY <1>1 DEF OnlyMoves, Round, Rests, SameCall
<1> QED
  BY <1>1 DEF Rounds

LEMMA WaitingRound ==
  ASSUME NEW d, NEW a, NEW b, StartsToWait(a, b)
  PROVE  Round(d, a, b)
BY DEF StartsToWait, Round, Rests, SameCall

LEMMA GoingRound ==
  ASSUME NEW d, NEW a, NEW b, a.at # "idle", NEW at, NEW op, NEW pid, Goes(a, b, at, op, pid),
         at \notin {"idle", "stop", "stop_producer", "lookup_again"},
         op = a.op \/ (a.op = "get" /\ op = "get_again"),
         at \in {"start_producer", "auto_start_producer"} => child = "absent",
         a.at = "lookup" => client # "down" /\ UNCHANGED client
  PROVE  Round(d, a, b)
BY DEF Round, GoesOn

LEMMA OkRound ==
  ASSUME NEW d, NEW a, NEW b, a.at # "idle", NEW pid, IsAnswered(a, b, "ok", pid),
         AnswersOk(d, a, pid)
  PROVE  Round(d, a, b)
BY DEF Round, Answered

LEMMA NoRound ==
  ASSUME NEW d, NEW a, NEW b, a.at # "idle", NEW answer, IsAnswered(a, b, answer, Nobody),
         answer # "ok", AnswersNo(a, answer)
  PROVE  Round(d, a, b)
BY DEF Round, Answered

\* Every caller begins a call, rests, goes on or is answered.
LEMMA RoundsStep == ClientInv /\ CallersTyped /\ OneAnswer /\ CallProgress /\ [Next]_vars => Rounds
<1> SUFFICES ASSUME ClientInv, CallersTyped, OneAnswer, CallProgress, [Next]_vars PROVE Rounds
  OBVIOUS
<1>0. /\ TypeOK /\ Mail /\ OneCall /\ FirstPostInit /\ CallersTyped /\ OneAnswer /\ CallProgress
      /\ \A c \in Callers : InOrder(callers[c])
  BY DEF ClientInv, Family, CallProgress
<1>00. \A c \in Callers : callers[c].part \in Partitions
  BY <1>0 DEF CallersTyped, CallerType
<1>1. CASE UNCHANGED <<callers>>
  BY <1>1 DEF Rounds, Round, Rests, SameCall
<1>2. ASSUME NEW c \in Callers, NEW op \in Ops[c], NEW k \in Partitions, Begin(c, op, k)
      PROVE  Rounds
  <2>1. Begins(c)
    BY <1>2 DEF Begins
  <2>2. ASSUME NEW d \in Callers, d # c PROVE Round(d, callers[d], callers'[d])
    BY <1>2, <1>0, <2>2, BeginEffects DEF Round, Rests, SameCall
  <2> QED
    BY <2>1, <2>2 DEF Rounds, Round
<1>3. ASSUME NEW c \in Callers, Lookup(c)
      PROVE  Rounds
  <2> DEFINE a == callers[c]
             b == callers'[c]
  <2>1. OnlyMoves(c, callers') /\ InOrder(a) /\ a.at # "idle"
    BY <1>3, <1>0, CallerNextEffects
  <2>2. \/ client = "down" /\ IsAnswered(a, b, "client_down", Nobody)
        \/ client # "down" /\ Goes(a, b, "get_producers_sup_pid", a.op, a.pid)
        \/ client # "down" /\ Goes(a, b, "is_process_alive", a.op, table[a.part])
        \/ /\ client # "down" /\ table[a.part] \in Pids /\ a.at = "lookup_again"
           /\ IsAnswered(a, b, "ok", table[a.part])
    BY <1>3, <1>0, CallerNextEffects
  <2>3. a.part \in Partitions /\ UNCHANGED client
    BY <1>3, <1>00 DEF Lookup
  <2> HIDE DEF a, b
  <2>4. client = "down" /\ IsAnswered(a, b, "client_down", Nobody) => Round(c, a, b)
    BY <2>1, NoRound DEF AnswersNo
  <2>6. (client # "down" /\ table[a.part] \in Pids /\ a.at = "lookup_again"
         /\ IsAnswered(a, b, "ok", table[a.part])) => Round(c, a, b)
    BY <1>3, <2>1, <2>3, OkRound DEF AnswersOk
  <2>5. Round(c, a, b)
    BY <2>1, <2>2, <2>3, <2>4, <2>6, GoingRound
  <2> QED
    BY <2>1, <2>5, OthersRest DEF a, b
<1>4. ASSUME NEW c \in Callers, CheckAlive(c)
      PROVE  Rounds
  <2> DEFINE a == callers[c]
             b == callers'[c]
  <2>1. OnlyMoves(c, callers') /\ InOrder(a) /\ a.at # "idle"
    BY <1>4, <1>0, CallerNextEffects
  <2>2. \/ a.pid \in Pids /\ Alive(a.pid) /\ IsAnswered(a, b, "ok", a.pid)
        \/ Goes(a, b, "get_workers_table", a.op, a.pid)
    BY <1>4, <1>0, CallerNextEffects
  <2>3. a.at = "is_process_alive"
    BY <1>4 DEF CheckAlive
  <2> HIDE DEF a, b
  <2>4. a.pid \in Pids /\ Alive(a.pid) /\ IsAnswered(a, b, "ok", a.pid) => Round(c, a, b)
    BY <2>1, <2>3, OkRound DEF AnswersOk
  <2>5. Round(c, a, b)
    BY <2>1, <2>2, <2>3, <2>4, GoingRound
  <2> QED
    BY <2>1, <2>5, OthersRest DEF a, b
<1>5. ASSUME NEW c \in Callers, CallClient(c)
      PROVE  Rounds
  <2> DEFINE a == callers[c]
             b == callers'[c]
  <2>1. OnlyMoves(c, callers') /\ InOrder(a) /\ a.at # "idle"
    BY <1>5, <1>0, CallerNextEffects
  <2>2. \/ client = "down" /\ IsAnswered(a, b, "client_down", Nobody)
        \/ StartsToWait(a, b)
    BY <1>5, <1>0, CallerNextEffects
  <2> HIDE DEF a, b
  <2>5. Round(c, a, b)
    BY <2>1, <2>2, WaitingRound, NoRound DEF AnswersNo
  <2> QED
    BY <2>1, <2>5, OthersRest DEF a, b
<1>6. ASSUME NEW c \in Callers, CallTopicsSup(c)
      PROVE  Rounds
  <2> DEFINE a == callers[c]
             b == callers'[c]
  <2>1. OnlyMoves(c, callers') /\ InOrder(a) /\ a.at # "idle"
    BY <1>6, <1>0, CallerNextEffects
  <2>2. \/ tsup = "down" /\ IsAnswered(a, b, "exit", Nobody)
        \/ StartsToWait(a, b)
    BY <1>6, <1>0, CallerNextEffects
  <2> HIDE DEF a, b
  <2>5. Round(c, a, b)
    BY <2>1, <2>2, WaitingRound, NoRound DEF AnswersNo
  <2> QED
    BY <2>1, <2>5, OthersRest DEF a, b
<1>7. ASSUME NEW c \in Callers, CallPartitionsSup(c)
      PROVE  Rounds
  <2> DEFINE a == callers[c]
             b == callers'[c]
  <2>1. OnlyMoves(c, callers') /\ InOrder(a) /\ a.at # "idle"
    BY <1>7, <1>0, CallerNextEffects
  <2>2. StartsToWait(a, b)
    BY <1>7, <1>0, CallerNextEffects
  <2> HIDE DEF a, b
  <2>5. Round(c, a, b)
    BY <2>2, WaitingRound
  <2> QED
    BY <2>1, <2>5, OthersRest DEF a, b
<1>8. ASSUME HandleQuery
      PROVE  Rounds
  <2>0. CASE UNCHANGED callers
    BY <2>0 DEF Rounds, Round, Rests, SameCall
  <2>1. ASSUME ~UNCHANGED callers
        PROVE  Rounds
    <3> DEFINE c == Head(cbox).from
               a == callers[c]
               b == callers'[c]
    <3>1. /\ c \in Callers /\ OnlyMoves(c, callers')
          /\ \/ a.at = "get_workers_table" /\ Goes(a, b, "lookup_again", a.op, a.pid)
             \/ a.at = "get_producers_sup_pid" /\ Goes(a, b, "topics_sup", a.op, a.pid)
      BY <1>8, <2>1, <1>0, ClientEffects
    <3>2. /\ Took(cbox, cbox') /\ 1 \in 1..Len(cbox) /\ Head(cbox) = cbox[1]
          /\ cbox # <<>> /\ UNCHANGED prods
      BY <1>8, <1>0, ClientBox DEF HandleQuery, Took
    <3>3. a.at = Head(cbox).what /\ InOrder(a) /\ a.at # "idle"
      BY <1>0, <3>1, <3>2, HeadsOfCalls
    <3>4. cbox[1] = Message(a.at, c)
      BY <1>0, <3>2, <3>3, MessagesAre
    <3> HIDE DEF a, b, c
    <3>5. Round(c, a, b)
      <4>1. a.at = "get_workers_table" /\ Goes(a, b, "lookup_again", a.op, a.pid) => Round(c, a, b)
        BY <3>2, <3>3, <3>4 DEF Round, GoesOn
      <4>2. a.at = "get_producers_sup_pid" /\ Goes(a, b, "topics_sup", a.op, a.pid) => Round(c, a, b)
        BY <3>3, GoingRound
      <4> QED
        BY <3>1, <4>1, <4>2
    <3> QED
      BY <3>1, <3>5, OthersRest DEF a, b
  <2> QED
    BY <2>0, <2>1
<1>9. ASSUME HandleStartProducer
      PROVE  Rounds
  <2>0. CASE UNCHANGED callers
    BY <2>0 DEF Rounds, Round, Rests, SameCall
  <2>1. ASSUME ~UNCHANGED callers
        PROVE  Rounds
    <3> DEFINE c == Head(cbox).from
               a == callers[c]
               b == callers'[c]
    <3>1. c \in Callers /\ OnlyMoves(c, callers') /\ InOrder(a) /\ a.at # "idle"
      BY <1>9, <2>1, <1>0, ClientEffects
    <3>2. /\ a.at \in {"start_producer", "auto_start_producer"}
          /\ \E answer : answer # "ok" /\ IsAnswered(a, b, answer, Nobody)
      BY <1>9, <2>1, <1>0, ClientEffects
    <3> HIDE DEF a, b, c
    <3>5. Round(c, a, b)
      BY <3>1, <3>2, NoRound DEF AnswersNo
    <3> QED
      BY <3>1, <3>5, OthersRest DEF a, b
  <2> QED
    BY <2>0, <2>1
<1>10. ASSUME HandleGetMetadata
      PROVE  Rounds
  <2>0. CASE UNCHANGED callers
    BY <2>0 DEF Rounds, Round, Rests, SameCall
  <2>1. ASSUME ~UNCHANGED callers
        PROVE  Rounds
    <3> DEFINE c == Head(cbox).from
               a == callers[c]
               b == callers'[c]
    <3>1. c \in Callers /\ OnlyMoves(c, callers') /\ InOrder(a) /\ a.at # "idle"
      BY <1>10, <2>1, <1>0, ClientEffects
    <3>2. a.at = "get_metadata" /\ \E answer : IsAnswered(a, b, answer, Nobody)
      BY <1>10, <2>1, <1>0, ClientEffects
    <3> HIDE DEF a, b, c
    <3>5. Round(c, a, b)
      BY <3>1, <3>2, NoRound, OkRound DEF AnswersNo, AnswersOk
    <3> QED
      BY <3>1, <3>5, OthersRest DEF a, b
  <2> QED
    BY <2>0, <2>1
<1>11. ASSUME HandleStartChild
      PROVE  Rounds
  <2>0. CASE UNCHANGED callers
    BY <2>0 DEF Rounds, Round, Rests, SameCall
  <2>1. ASSUME ~UNCHANGED callers
        PROVE  Rounds
    <3> DEFINE c == serving
               a == callers[c]
               b == callers'[c]
    <3>1. c \in Callers /\ OnlyMoves(c, callers') /\ InOrder(a) /\ a.at # "idle"
      BY <1>11, <2>1, <1>0, TopicsSupEffects
    <3>2. /\ a.at \in {"start_producer", "auto_start_producer"}
          /\ \/ a.at = "auto_start_producer" /\ Goes(a, b, "lookup", "get_again", a.pid)
             \/ /\ child \in {"absent", "pid"} /\ a.at = "start_producer"
                /\ IsAnswered(a, b, "ok", Nobody)
             \/ IsAnswered(a, b, "already_present", Nobody)
      BY <1>11, <2>1, <1>0, TopicsSupEffects
    <3>3. a.at = "auto_start_producer" => a.op = "get"
      BY <3>1 DEF InOrder
    <3> HIDE DEF a, b, c
    <3>5. Round(c, a, b)
      <4>1. (child \in {"absent", "pid"} /\ a.at = "start_producer"
             /\ IsAnswered(a, b, "ok", Nobody)) => Round(c, a, b)
        BY <1>11, <3>1, OkRound DEF AnswersOk
      <4>2. IsAnswered(a, b, "already_present", Nobody) => Round(c, a, b)
        BY <3>1, <3>2, NoRound DEF AnswersNo
      <4>3. a.at = "auto_start_producer" /\ Goes(a, b, "lookup", "get_again", a.pid) => Round(c, a, b)
        BY <3>1, <3>3, GoingRound
      <4> QED
        BY <3>2, <4>1, <4>2, <4>3
    <3> QED
      BY <3>1, <3>5, OthersRest DEF a, b
  <2> QED
    BY <2>0, <2>1
<1>12. ASSUME HandleDeleteChild
      PROVE  Rounds
  <2>0. CASE UNCHANGED callers
    BY <2>0 DEF Rounds, Round, Rests, SameCall
  <2>1. ASSUME ~UNCHANGED callers
        PROVE  Rounds
    <3> DEFINE c == serving
               a == callers[c]
               b == callers'[c]
    <3>1. c \in Callers /\ OnlyMoves(c, callers') /\ InOrder(a) /\ a.at # "idle"
      BY <1>12, <2>1, <1>0, TopicsSupEffects
    <3>2. /\ HandleDeleteChild /\ child = "undefined" /\ IsAnswered(a, b, "ok", Nobody)
          /\ a.at = "stop_producer"
      BY <1>12, <2>1, <1>0, TopicsSupEffects
    <3> HIDE DEF a, b, c
    <3>5. Round(c, a, b)
      BY <3>1, <3>2, OkRound DEF AnswersOk
    <3> QED
      BY <3>1, <3>5, OthersRest DEF a, b
  <2> QED
    BY <2>0, <2>1
<1>13. ASSUME TopicsSupWhichChildren
      PROVE  Rounds
  <2>0. CASE UNCHANGED callers
    BY <2>0 DEF Rounds, Round, Rests, SameCall
  <2>1. ASSUME ~UNCHANGED callers
        PROVE  Rounds
    <3> DEFINE c == Head(tbox).from
               a == callers[c]
               b == callers'[c]
    <3>1. c \in Callers /\ OnlyMoves(c, callers') /\ InOrder(a) /\ a.at # "idle"
      BY <1>13, <2>1, <1>0, TopicsSupEffects
    <3>2. /\ a.at = "topics_sup"
          /\ \/ child = "absent" /\ WorkerAnswered(a, b, "topic_not_found", Nobody)
             \/ Goes(a, b, "partitions_sup", a.op, a.pid)
             \/ /\ child # "absent" /\ ~(child = "pid" /\ psup # "down")
                /\ IsAnswered(a, b, "producer_down", Nobody)
      BY <1>13, <2>1, <1>0, TopicsSupEffects
    <3>3. child # "absent" /\ ~(child = "pid" /\ psup # "down") => psup = "down"
      BY DEF ClientInv, OneRestart, RestartState
    <3> HIDE DEF a, b, c
    <3>5. Round(c, a, b)
      <4>1. child = "absent" /\ WorkerAnswered(a, b, "topic_not_found", Nobody) => Round(c, a, b)
        <5>1. child = "absent" /\ IsAnswered(a, b, "topic_not_found", Nobody) => Round(c, a, b)
          BY <3>1, NoRound DEF AnswersNo
        <5>2. \A at \in {"start_producer", "auto_start_producer"} :
                child = "absent" /\ Goes(a, b, at, a.op, a.pid) => Round(c, a, b)
          BY <3>1, <3>2, GoingRound
        <5> QED
          BY <5>1, <5>2 DEF WorkerAnswered
      <4>2. Goes(a, b, "partitions_sup", a.op, a.pid) => Round(c, a, b)
        BY <3>1, <3>2, GoingRound
      <4>3. psup = "down" /\ IsAnswered(a, b, "producer_down", Nobody) => Round(c, a, b)
        BY <3>1, NoRound DEF AnswersNo
      <4> QED
        BY <3>2, <3>3, <4>1, <4>2, <4>3
    <3> QED
      BY <3>1, <3>5, OthersRest DEF a, b
  <2> QED
    BY <2>0, <2>1
<1>14. ASSUME PartitionsSupWhichChildren
      PROVE  Rounds
  <2>0. CASE UNCHANGED callers
    BY <2>0 DEF Rounds, Round, Rests, SameCall
  <2>1. ASSUME ~UNCHANGED callers
        PROVE  Rounds
    <3> DEFINE c == Head(pbox).from
               a == callers[c]
               b == callers'[c]
    <3>1. /\ c \in Callers /\ OnlyMoves(c, callers') /\ a.at = "partitions_sup"
          /\ a.part \in Partitions /\ kids # <<>> /\ psup = "up"
          /\ 1 \in 1..Len(pbox) /\ pbox[1] = Message("which_children", c)
          /\ IsAnswered(a, b, "ok", kids[a.part])
      BY <1>14, <2>1, <1>0, PartitionsSupEffects
    <3> HIDE DEF a, b, c
    <3>5. Round(c, a, b)
      BY <3>1, OkRound DEF AnswersOk
    <3> QED
      BY <3>1, <3>5, OthersRest DEF a, b
  <2> QED
    BY <2>0, <2>1
<1>15. ASSUME CannotConnect \/ HandleStop \/ StopProducerFailed
      PROVE  Rounds
  <2>1. ASSUME NEW c \in Callers PROVE Round(c, callers[c], callers'[c])
    <3>1. \/ callers'[c] = callers[c]
          \/ callers[c].at = "stop" /\ IsAnswered(callers[c], callers'[c], "ok", Nobody)
          \/ callers[c].at # "idle" /\ IsAnswered(callers[c], callers'[c], "client_down", Nobody)
      BY <1>15, <1>0, ClientEndsEffects DEF ClientCalls
    <3>2. CASE callers'[c] = callers[c]
      BY <3>2 DEF Round, Rests, SameCall
    <3>3. CASE callers[c].at = "stop" /\ IsAnswered(callers[c], callers'[c], "ok", Nobody)
      BY <3>3, OkRound DEF AnswersOk
    <3>4. CASE callers[c].at # "idle" /\ IsAnswered(callers[c], callers'[c], "client_down", Nobody)
      BY <1>15, <3>4, NoRound DEF AnswersNo
    <3> QED
      BY <3>1, <3>2, <3>3, <3>4
  <2> QED
    BY <2>1 DEF Rounds
<1>16. ASSUME TopicsSupEnds
      PROVE  Rounds
  <2>1. tsup = "terminate"
    BY <1>16 DEF TopicsSupEnds
  <2>2. ASSUME NEW c \in Callers PROVE Round(c, callers[c], callers'[c])
    <3>1. \/ callers'[c] = callers[c]
          \/ callers[c].at = "topics_sup" /\ IsAnswered(callers[c], callers'[c], "exit", Nobody)
      BY <1>16, <1>0, TopicsSupEffects
    <3>2. CASE callers'[c] = callers[c]
      BY <3>2 DEF Round, Rests, SameCall
    <3> QED
      BY <2>1, <3>1, <3>2, NoRound DEF AnswersNo
  <2> QED
    BY <2>2 DEF Rounds
<1>17. ASSUME PartitionsSupEnds
      PROVE  Rounds
  <2>1. psup \in {"failed", "terminate"}
    BY <1>17 DEF PartitionsSupEnds
  <2>2. ASSUME NEW c \in Callers PROVE Round(c, callers[c], callers'[c])
    <3>1. \/ callers'[c] = callers[c]
          \/ /\ callers[c].at = "partitions_sup"
             /\ IsAnswered(callers[c], callers'[c], "producer_down", Nobody)
      BY <1>17, <1>0, PartitionsSupEffects
    <3>2. CASE callers'[c] = callers[c]
      BY <3>2 DEF Round, Rests, SameCall
    <3> QED
      BY <2>1, <3>1, <3>2, NoRound DEF AnswersNo
  <2> QED
    BY <2>2 DEF Rounds
<1>18. ASSUME HandleInit \/ HandleStopProducer \/ HandleGetLeaderConnection \/
              HandleRegister \/ UnknownTopicExpires \/ HandleTerminateChild \/
              ChildIsDown \/ TopicsSupExit \/ TopicsSupDelayedRestart
      PROVE  UNCHANGED <<callers>>
  BY <1>18 DEF HandleInit, Takes, HandleStopProducer, HandleGetLeaderConnection,
       HandleRegister, UnknownTopicExpires, HandleTerminateChild, Terminated,
       TopicsSupTakes, ChildIsDown, TopicsSupExit, TopicsSupDelayedRestart,
       StartPartitionsSup, sups, env
<1>19. ASSUME TopicsSupShutdown \/ HandlePostInit \/ LookupCount \/ StartProducers \/
              PartitionsSupExit \/ PartitionsSupDelayedRestart \/ PartitionsSupShutdown \/
              TerminateProducer \/ (\E p \in Pids : AskForConnection(p))
      PROVE  UNCHANGED <<callers>>
  BY <1>19 DEF TopicsSupShutdown, TopicsSupTakes, HandlePostInit, PartitionsSupTakes,
       LookupCount, StartProducers, Start, PartitionsSupExit, PartitionsSupDelayedRestart,
       PartitionsSupShutdown, TerminateProducer, Leaves, Dies, AskForConnection, sups, env
<1>20. ASSUME TopicMoves \/ (\E p \in Pids : ProducerEnds(p)) \/
              (\E t \in Partitions \cup {Topic} : TimerFires(t))
      PROVE  UNCHANGED <<callers>>
  BY <1>20 DEF ProducerEnds, Leaves, Dies, TimerFires, TopicMoves, sups, env
<1>21. CASE UNCHANGED vars
  BY <1>1, <1>21 DEF vars, sups
<1> QED
  BY <1>1, <1>2, <1>3, <1>4, <1>5, <1>6, <1>7, <1>8, <1>9, <1>10, <1>11, <1>12, <1>13,
     <1>14, <1>15, <1>16, <1>17, <1>18, <1>19, <1>20, <1>21
     DEF Next, CallerNext, ClientNext, TopicsSupNext, PartitionsSupNext


\* The same, as far as the answer goes.
Turn(d, a, b) ==
  \/ /\ a.at = "idle" /\ b.answer = "none" /\ b.at \notin {"idle", "lookup_again"}
     /\ UNCHANGED <<cbox, pbox, prods>> /\ b.gone = {p \in Pids : prods[p].st = "left"}
  \/ SameCall(a, b) /\ b.at = a.at /\ b.answer = a.answer /\ b.pid = a.pid
  \/ SameCall(a, b) /\ b.at \notin {"idle", "lookup_again"} /\ b.answer = "none"
  \/ /\ SameCall(a, b) /\ b.at = "lookup_again" /\ b.answer = "none"
     /\ Took(cbox, cbox') /\ UNCHANGED prods /\ cbox[1] = Message("get_workers_table", d)
  \/ /\ SameCall(a, b) /\ b.at = "idle" /\ b.pid = Nobody
     /\ b.answer = "ok" /\ a.at = "stop_producer" => HandleDeleteChild /\ child = "undefined"
  \/ /\ SameCall(a, b) /\ b.at = "idle" /\ a.at = "lookup_again" /\ b.pid = table[a.part]
     /\ a.part \in Partitions /\ b.pid \in Pids
  \/ /\ SameCall(a, b) /\ b.at = "idle" /\ a.at = "is_process_alive"
     /\ b.pid \in Pids /\ Alive(b.pid)
  \/ /\ SameCall(a, b) /\ b.at = "idle" /\ a.at = "partitions_sup" /\ b.pid = kids[a.part]
     /\ a.part \in Partitions /\ psup = "up" /\ kids # <<>>
     /\ 1 \in 1..Len(pbox) /\ pbox[1] = Message("which_children", d)
Turns == \A d \in Callers : Turn(d, callers[d], callers'[d])

LEMMA TurnsStep == ClientInv /\ CallersTyped /\ OneAnswer /\ CallProgress /\ [Next]_vars => Turns
<1> SUFFICES ASSUME ClientInv, CallersTyped, OneAnswer, CallProgress, [Next]_vars, NEW d \in Callers
             PROVE  Turn(d, callers[d], callers'[d])
  BY DEF Turns
<1> DEFINE a == callers[d]
           b == callers'[d]
<1>1. Round(d, a, b)
  BY RoundsStep DEF Rounds
<1>2. CASE Begins(d)
  <2>1. PICK op \in Ops[d], k \in Partitions : Begin(d, op, k)
    BY <1>2 DEF Begins
  <2>2. /\ op \in OpNames /\ a.at = "idle" /\ b.answer = "none"
        /\ b.at = IF op \in {"get", "start_producer"} THEN "lookup" ELSE op
        /\ b.gone = {p \in Pids : prods[p].st = "left"}
    BY <2>1, BeginEffects
  <2>3. UNCHANGED <<cbox, pbox, prods>>
    BY <2>1 DEF Begin, sups
  <2>4. b.at \notin {"idle", "lookup_again"}
    BY <2>2 DEF OpNames
  <2> QED
    BY <2>2, <2>3, <2>4 DEF Turn
<1>3. CASE Rests(a, b)
  BY <1>3 DEF Rests, Turn
<1>4. a.at # "idle" => a.answer = "none"
  BY DEF CallProgress, InOrder
<1>5. CASE a.at # "idle" /\ GoesOn(d, a, b)
  BY <1>4, <1>5 DEF GoesOn, Goes, Turn, SameCall
<1>6. CASE a.at # "idle" /\ Answered(d, a, b)
  <2> HIDE DEF a, b
  <2>1. PICK answer, pid : /\ IsAnswered(a, b, answer, pid)
                           /\ answer = "ok" => AnswersOk(d, a, pid)
                           /\ answer # "ok" => AnswersNo(a, answer) /\ pid = Nobody
    BY <1>6 DEF Answered
  <2>2. b.at = "idle" /\ b.pid = pid /\ b.answer = answer /\ SameCall(a, b)
    BY <2>1 DEF IsAnswered, SameCall
  <2>3. answer # "ok" => Turn(d, a, b)
    BY <2>1, <2>2 DEF Turn
  <2>4. answer = "ok" => Turn(d, a, b)
    <3>1. answer = "ok" => AnswersOk(d, a, pid)
      BY <2>1
    <3> QED
      BY <2>2, <3>1 DEF Turn, AnswersOk
  <2> QED
    BY <2>3, <2>4 DEF a, b
<1> QED
  BY <1>1, <1>2, <1>3, <1>5, <1>6 DEF Round

-----------------------------------------------------------------------------
(***************************************************************************)
(* An end that was before a call is handled before the call's message.     *)
(***************************************************************************)
\* No message of b that was not in a is the end of a producer that has left.
NoLateEnds(a, b) ==
  \/ \A i \in 1..Len(b) : \A p \in Pids : ~EndOf(b[i], p)
  \/ Took(a, b)
  \/ /\ Len(a) \in Nat
     /\ \A i \in 1..Len(a) : b[i] = a[i]
     /\ \A i \in 1..Len(b) :
          \/ i \in 1..Len(a)
          \/ \A p \in Pids : EndOf(b[i], p) => prods[p].st # "left"

LEMMA EndsStayFirst ==
  ASSUME NEW a, NEW b, NEW m, NEW p \in Pids, NoLateEnds(a, b), prods[p].st = "left",
         Len(b) \in Nat,
         \A i, j \in 1..Len(a) : a[i] = m /\ i < j => ~EndOf(a[j], p)
  PROVE  \A i, j \in 1..Len(b) : b[i] = m /\ i < j => ~EndOf(b[j], p)
<1> SUFFICES ASSUME NEW i \in 1..Len(b), NEW j \in 1..Len(b), b[i] = m, i < j
             PROVE  ~EndOf(b[j], p)
  OBVIOUS
<1>1. CASE \A l \in 1..Len(b) : \A q \in Pids : ~EndOf(b[l], q)
  BY <1>1
<1>2. CASE Took(a, b)
  <2>1. b[i] = a[i + 1] /\ i + 1 \in 1..Len(a) /\ b[j] = a[j + 1] /\ j + 1 \in 1..Len(a)
    BY <1>2 DEF Took
  <2>2. i + 1 < j + 1
    OBVIOUS
  <2> QED
    BY <2>1, <2>2
<1>3. CASE /\ Len(a) \in Nat
           /\ \A l \in 1..Len(a) : b[l] = a[l]
           /\ \A l \in 1..Len(b) :
                \/ l \in 1..Len(a)
                \/ \A q \in Pids : EndOf(b[l], q) => prods[q].st # "left"
  <2>1. CASE j \in 1..Len(a)
    <3>1. i \in 1..Len(a)
      BY <1>3, <2>1
    <3> QED
      BY <1>3, <2>1, <3>1
  <2>2. CASE j \notin 1..Len(a)
    BY <1>3, <2>2
  <2> QED
    BY <2>1, <2>2
<1> QED
  BY <1>1, <1>2, <1>3 DEF NoLateEnds

LEMMA NoEndsLeft ==
  ASSUME NEW a, NEW b, NEW p \in Pids, NoLateEnds(a, b), prods[p].st = "left",
         \A i \in 1..Len(a) : ~EndOf(a[i], p)
  PROVE  \A i \in 1..Len(b) : ~EndOf(b[i], p)
BY DEF NoLateEnds, Took

\* Nobody sends the client word of an end twice.
LEMMA ClientEndsInOrder == ClientInv /\ [Next]_vars => NoLateEnds(cbox, cbox')
<1> SUFFICES ASSUME ClientInv, [Next]_vars PROVE NoLateEnds(cbox, cbox')
  OBVIOUS
<1>0. /\ TypeOK /\ Mail /\ BornInOrder /\ TokensStand
      /\ Len(cbox) \in Nat /\ Len(pbox) \in Nat
  BY DEF ClientInv, OneProducer, Mail, ClientMail, PartitionsSupMail
<1>00. \A w, s : Message(w, s).what = w /\ Message(w, s).from = s
  BY DEF Message
<1>01. ASSUME NEW a, NEW b, NEW m, Sent(a, m, b),
              \A p \in Pids : EndOf(m, p) => prods[p].st # "left"
       PROVE  NoLateEnds(a, b)
  BY <1>01 DEF Sent, NoLateEnds
<1>02. \A a : Len(a) \in Nat => NoLateEnds(a, a)
  BY DEF NoLateEnds
<1>1. CASE UNCHANGED <<cbox>>
  BY <1>0, <1>02, <1>1
<1>2. ASSUME NEW c \in Callers, CallClient(c)
      PROVE  NoLateEnds(cbox, cbox')
  <2>1. callers[c].at \in ClientCalls
    BY <1>2 DEF CallClient
  <2>2. UNCHANGED cbox \/ Sent(cbox, Message(callers[c].at, c), cbox')
    BY <1>2, <1>0, ClientBox
  <2>3. \A p \in Pids : ~EndOf(Message(callers[c].at, c), p)
    BY <2>1, <1>00 DEF ClientCalls, EndOf
  <2>4. CASE UNCHANGED cbox
    BY <1>0, <1>02, <2>4
  <2> QED
    BY <2>2, <2>3, <2>4, <1>01
<1>3. ASSUME HandlePostInit \/ LookupCount \/ (\E p \in Pids : AskForConnection(p))
      PROVE  NoLateEnds(cbox, cbox')
  <2>2. UNCHANGED cbox \/ \E w \in {"get_workers_table", "get_metadata", "get_leader_connection"}, s \in Pids \cup {Sup} :
                            Sent(cbox, Message(w, s), cbox')
    BY <1>3, <1>0, ClientBox
  <2>3. \A w \in {"get_workers_table", "get_metadata", "get_leader_connection"} : \A s, p : ~EndOf(Message(w, s), p)
    BY <1>00 DEF EndOf
  <2>4. CASE UNCHANGED cbox
    BY <1>0, <1>02, <2>4
  <2> QED
    BY <2>2, <2>3, <2>4, <1>01
<1>4. ASSUME TerminateProducer \/ (\E p \in Pids : ProducerEnds(p))
      PROVE  NoLateEnds(cbox, cbox')
  <2>4. CASE UNCHANGED cbox
    BY <1>0, <1>02, <2>4
  <2>5. ASSUME NEW q \in Pids, Sent(cbox, Message("deregister", q), cbox'), Departs(q)
        PROVE  NoLateEnds(cbox, cbox')
    <3>1. prods[q].st # "left"
      BY <2>5 DEF Departs, OneEnds, Alive
    <3>2. \A r \in Pids : EndOf(Message("deregister", q), r) => r = q
      BY <1>00 DEF EndOf
    <3> QED
      BY <2>5, <3>1, <3>2, <1>01
  <2> QED
    BY <1>4, <1>0, <2>4, <2>5, ClientBox DEF Departs
<1>5. ASSUME StartProducers \/ PartitionsSupDelayedRestart
      PROVE  NoLateEnds(cbox, cbox')
  <2>1. /\ Len(cbox) \in Nat
        /\ \A i \in 1..Len(cbox) : cbox'[i] = cbox[i]
        /\ \A i \in 1..Len(cbox') : i \in 1..Len(cbox) \/ Newborn(cbox'[i].from)
    BY <1>5, <1>0, Newborns
  <2>2. \A i \in 1..Len(cbox') : i \notin 1..Len(cbox) =>
          \A p \in Pids : EndOf(cbox'[i], p) => prods[p].st # "left"
    BY <2>1 DEF EndOf, Newborn, Born
  <2> QED
    BY <2>1, <2>2 DEF NoLateEnds
<1>6. ASSUME HandleInit \/ HandleQuery \/ HandleStartProducer \/ HandleStopProducer \/
             HandleGetMetadata \/ HandleGetLeaderConnection \/ HandleRegister
      PROVE  NoLateEnds(cbox, cbox')
  <2>1. Took(cbox, cbox')
    BY <1>6, <1>0, ClientBox
  <2> QED
    BY <2>1 DEF NoLateEnds
<1>7. ASSUME CannotConnect \/ HandleStop \/ StopProducerFailed
      PROVE  NoLateEnds(cbox, cbox')
  <2>1. Len(cbox') = 0
    BY <1>7, <1>0, ClientBox
  <2> QED
    BY <2>1 DEF NoLateEnds
<1>8. ASSUME UnknownTopicExpires \/ HandleStartChild \/ HandleTerminateChild \/
             ChildIsDown \/
             (\E c \in Callers : Lookup(c) \/ CheckAlive(c) \/ CallTopicsSup(c) \/ CallPartitionsSup(c)) \/
             (\E c \in Callers : \E op \in Ops[c], k \in Partitions : Begin(c, op, k))
      PROVE  UNCHANGED <<cbox>>
  BY <1>8 DEF Begin, Lookup, CheckAlive, CallTopicsSup, CallPartitionsSup,
       UnknownTopicExpires, HandleStartChild, StartPartitionsSup, TopicsSupTakes,
       HandleTerminateChild, Terminated, ChildIsDown, sups, env
<1>9. ASSUME HandleDeleteChild \/ TopicsSupWhichChildren \/ TopicsSupExit \/
             TopicsSupDelayedRestart \/ TopicsSupShutdown \/ TopicsSupEnds \/
             PartitionsSupWhichChildren \/ PartitionsSupExit \/ PartitionsSupShutdown
      PROVE  UNCHANGED <<cbox>>
  BY <1>9 DEF HandleDeleteChild, TopicsSupTakes, TopicsSupWhichChildren, TopicsSupExit,
       TopicsSupDelayedRestart, StartPartitionsSup, TopicsSupShutdown, TopicsSupEnds,
       PartitionsSupWhichChildren, PartitionsSupTakes, PartitionsSupExit,
       PartitionsSupShutdown, sups, env
<1>10. ASSUME PartitionsSupEnds \/ TopicMoves \/
              (\E t \in Partitions \cup {Topic} : TimerFires(t))
      PROVE  UNCHANGED <<cbox>>
  BY <1>10 DEF PartitionsSupEnds, TimerFires, TopicMoves, sups, env
<1>11. CASE UNCHANGED vars
  BY <1>1, <1>11 DEF vars, sups
<1> QED
  BY <1>1, <1>2, <1>3, <1>4, <1>5, <1>6, <1>7, <1>8, <1>9, <1>10, <1>11
     DEF Next, CallerNext, ClientNext, TopicsSupNext, PartitionsSupNext

\* Nor the partitions' supervisor.
LEMMA PartitionsEndsInOrder == ClientInv /\ [Next]_vars => NoLateEnds(pbox, pbox')
<1> SUFFICES ASSUME ClientInv, [Next]_vars PROVE NoLateEnds(pbox, pbox')
  OBVIOUS
<1>0. /\ TypeOK /\ Mail /\ BornInOrder /\ TokensStand
      /\ Len(cbox) \in Nat /\ Len(pbox) \in Nat
  BY DEF ClientInv, OneProducer, Mail, ClientMail, PartitionsSupMail
<1>00. \A w, s : Message(w, s).what = w /\ Message(w, s).from = s
  BY DEF Message
<1>01. ASSUME NEW a, NEW b, NEW m, Sent(a, m, b),
              \A p \in Pids : EndOf(m, p) => prods[p].st # "left"
       PROVE  NoLateEnds(a, b)
  BY <1>01 DEF Sent, NoLateEnds
<1>02. \A a : Len(a) \in Nat => NoLateEnds(a, a)
  BY DEF NoLateEnds
<1>1. CASE UNCHANGED <<pbox>>
  BY <1>0, <1>02, <1>1
<1>2. ASSUME HandleTerminateChild \/ TopicsSupShutdown \/
             (\E c \in Callers : CallPartitionsSup(c)) \/
             (\E t \in Partitions \cup {Topic} : TimerFires(t))
      PROVE  NoLateEnds(pbox, pbox')
  <2>2. UNCHANGED pbox \/ \E w \in {"which_children", "delayed_restart", "shutdown"}, s \in Callers \cup Partitions \cup {Topic} :
                            Sent(pbox, Message(w, s), pbox')
    BY <1>2, <1>0, PartitionsBox
  <2>3. \A w \in {"which_children", "delayed_restart", "shutdown"} : \A s, p : ~EndOf(Message(w, s), p)
    BY <1>00 DEF EndOf
  <2>4. CASE UNCHANGED pbox
    BY <1>0, <1>02, <2>4
  <2> QED
    BY <2>2, <2>3, <2>4, <1>01
<1>3. ASSUME HandleStartChild \/ TopicsSupDelayedRestart
      PROVE  NoLateEnds(pbox, pbox')
  <2>4. CASE UNCHANGED pbox
    BY <1>0, <1>02, <2>4
  <2>5. CASE Len(pbox') = 1 /\ pbox'[1] = Message("post_init", Topic)
    BY <2>5, <1>00 DEF NoLateEnds, EndOf
  <2> QED
    BY <1>3, <1>0, <2>4, <2>5, PartitionsBox
<1>4. ASSUME HandlePostInit \/ PartitionsSupWhichChildren \/ PartitionsSupExit \/
             PartitionsSupDelayedRestart \/ PartitionsSupShutdown
      PROVE  NoLateEnds(pbox, pbox')
  <2>1. Took(pbox, pbox')
    BY <1>4, <1>0, PartitionsBox
  <2> QED
    BY <2>1 DEF NoLateEnds
<1>5. ASSUME PartitionsSupEnds
      PROVE  NoLateEnds(pbox, pbox')
  <2>1. Len(pbox') = 0
    BY <1>5, <1>0, PartitionsBox
  <2> QED
    BY <2>1 DEF NoLateEnds
<1>6. ASSUME NEW p \in Pids, ProducerEnds(p)
      PROVE  NoLateEnds(pbox, pbox')
  <2>1. Sent(pbox, Message("EXIT", p), pbox')
    BY <1>6, <1>0, PartitionsBox
  <2>2. prods[p].st # "left"
    BY <1>6, <1>0, EndLives DEF OneEnds, Alive
  <2>3. \A r \in Pids : EndOf(Message("EXIT", p), r) => r = p
    BY <1>00 DEF EndOf
  <2> QED
    BY <2>1, <2>2, <2>3, <1>01
<1>7. ASSUME HandleInit \/ HandleQuery \/ HandleStartProducer \/ HandleStopProducer \/
             (\E c \in Callers : Lookup(c) \/ CheckAlive(c) \/ CallClient(c) \/ CallTopicsSup(c)) \/
             (\E c \in Callers : \E op \in Ops[c], k \in Partitions : Begin(c, op, k))
      PROVE  UNCHANGED <<pbox>>
  BY <1>7 DEF Begin, Lookup, CheckAlive, CallClient, CallTopicsSup, HandleInit, Takes,
       HandleQuery, HandleStartProducer, HandleStopProducer, sups, env
<1>8. ASSUME HandleGetMetadata \/ HandleGetLeaderConnection \/ HandleRegister \/
             CannotConnect \/ HandleStop \/ StopProducerFailed \/ UnknownTopicExpires \/
             ChildIsDown \/ HandleDeleteChild
      PROVE  UNCHANGED <<pbox>>
  BY <1>8 DEF HandleGetMetadata, Takes, HandleGetLeaderConnection, HandleRegister,
       CannotConnect, ClientEnds, HandleStop, StopProducerFailed, UnknownTopicExpires,
       ChildIsDown, Terminated, HandleDeleteChild, TopicsSupTakes, sups, env
<1>9. ASSUME TopicsSupWhichChildren \/ TopicsSupExit \/ TopicsSupEnds \/ LookupCount \/
             StartProducers \/ TerminateProducer \/ TopicMoves \/
             (\E p \in Pids : AskForConnection(p))
      PROVE  UNCHANGED <<pbox>>
  BY <1>9 DEF TopicsSupWhichChildren, TopicsSupTakes, TopicsSupExit, TopicsSupEnds,
       LookupCount, StartProducers, Start, TerminateProducer, Leaves, Dies,
       AskForConnection, TopicMoves, sups, env
<1>10. CASE UNCHANGED vars
  BY <1>1, <1>10 DEF vars, sups
<1> QED
  BY <1>1, <1>2, <1>3, <1>4, <1>5, <1>6, <1>7, <1>8, <1>9, <1>10
     DEF Next, CallerNext, ClientNext, TopicsSupNext, PartitionsSupNext


\* Whoever is not waiting for the client or the supervisor has no message there.
LEMMA IdleAsksNothing ==
  ASSUME OneAnswer, Mail, NEW c \in Callers, callers[c].at = "idle"
  PROVE  /\ \A i \in 1..Len(cbox) : cbox[i] # Message("get_workers_table", c)
         /\ \A i \in 1..Len(pbox) : pbox[i] # Message("which_children", c)
<1>1. \A w, s : Message(w, s).what = w /\ Message(w, s).from = s
  BY DEF Message
<1> QED
  BY <1>1 DEF OneAnswer, AskedClient, Asked

LEMMA EndsComeFirstStep ==
  ClientInv /\ CallersTyped /\ OneAnswer /\ CallProgress /\ EndsComeFirst /\ [Next]_vars
    => EndsComeFirst'
<1> SUFFICES ASSUME ClientInv, CallersTyped, OneAnswer, CallProgress, EndsComeFirst, [Next]_vars
             PROVE  EndsComeFirst'
  OBVIOUS
<1>0. /\ TypeOK' /\ Mail' /\ Mail /\ CallersTyped /\ OneAnswer /\ LivesGoOn
      /\ NoLateEnds(cbox, cbox') /\ NoLateEnds(pbox, pbox')
  BY TypeStep, ClientEndsInOrder, PartitionsEndsInOrder DEF ClientInv
<1>00. Len(cbox') \in Nat /\ Len(pbox') \in Nat
  BY <1>0 DEF Mail, ClientMail, PartitionsSupMail
<1>01. \A w, s : Message(w, s).what = w /\ Message(w, s).from = s
  BY DEF Message
<1> SUFFICES ASSUME NEW c \in Callers, NEW p \in callers'[c].gone
             PROVE  /\ prods'[p].st = "left"
                    /\ callers'[c].at = "lookup_again" => \A i \in 1..Len(cbox') : ~EndOf(cbox'[i], p)
                    /\ \A i, j \in 1..Len(cbox') :
                         cbox'[i] = Message("get_workers_table", c) /\ i < j => ~EndOf(cbox'[j], p)
                    /\ \A i, j \in 1..Len(pbox') :
                         pbox'[i] = Message("which_children", c) /\ i < j => ~EndOf(pbox'[j], p)
  BY DEF EndsComeFirst
<1> DEFINE a == callers[c]
           b == callers'[c]
<1>1. Turn(c, a, b)
  BY TurnsStep DEF Turns
<1>2. CASE /\ a.at = "idle" /\ b.at \notin {"idle", "lookup_again"}
           /\ UNCHANGED <<cbox, pbox, prods>> /\ b.gone = {q \in Pids : prods[q].st = "left"}
  BY <1>2, <1>0, IdleAsksNothing
<1>3. CASE SameCall(a, b)
  <2>1. p \in a.gone /\ p \in Pids
    BY <1>0, <1>3 DEF SameCall, CallersTyped, CallerType
  <2>2. /\ prods[p].st = "left"
        /\ a.at = "lookup_again" => \A i \in 1..Len(cbox) : ~EndOf(cbox[i], p)
        /\ \A i, j \in 1..Len(cbox) :
             cbox[i] = Message("get_workers_table", c) /\ i < j => ~EndOf(cbox[j], p)
        /\ \A i, j \in 1..Len(pbox) :
             pbox[i] = Message("which_children", c) /\ i < j => ~EndOf(pbox[j], p)
    BY <2>1 DEF EndsComeFirst
  <2>3. prods'[p].st = "left"
    BY <1>0, <2>1, <2>2 DEF LivesGoOn
  <2>4. \A i, j \in 1..Len(cbox') :
          cbox'[i] = Message("get_workers_table", c) /\ i < j => ~EndOf(cbox'[j], p)
    BY <1>0, <1>00, <2>1, <2>2, EndsStayFirst
  <2>5. \A i, j \in 1..Len(pbox') :
          pbox'[i] = Message("which_children", c) /\ i < j => ~EndOf(pbox'[j], p)
    BY <1>0, <1>00, <2>1, <2>2, EndsStayFirst
  <2>6. b.at = "lookup_again" => \A i \in 1..Len(cbox') : ~EndOf(cbox'[i], p)
    <3>1. CASE a.at = "lookup_again"
      BY <1>0, <2>1, <2>2, <3>1, NoEndsLeft
    <3>2. CASE Took(cbox, cbox') /\ cbox[1] = Message("get_workers_table", c)
      <4>1. \A i \in 1..Len(cbox') : cbox'[i] = cbox[i + 1] /\ i + 1 \in 1..Len(cbox) /\ 1 < i + 1
        BY <3>2 DEF Took
      <4>2. 1 \in 1..Len(cbox)
        BY <3>2 DEF Took
      <4> QED
        BY <2>2, <3>2, <4>1, <4>2
    <3>3. b.at = "lookup_again" =>
            a.at = "lookup_again" \/ (Took(cbox, cbox') /\ cbox[1] = Message("get_workers_table", c))
      BY <1>1 DEF Turn
    <3> QED
      BY <3>1, <3>2, <3>3
  <2> QED
    BY <2>3, <2>4, <2>5, <2>6
<1> HIDE DEF a, b
<1>4. \/ /\ a.at = "idle" /\ b.at \notin {"idle", "lookup_again"}
         /\ UNCHANGED <<cbox, pbox, prods>> /\ b.gone = {q \in Pids : prods[q].st = "left"}
      \/ SameCall(a, b)
  BY <1>1 DEF Turn
<1> QED
  BY <1>2, <1>3, <1>4

\* A step that answers a caller does not answer with one that was gone.
LEMMA NotGoneStep ==
  ClientInv /\ CallInv /\ [Next]_vars => NotGone'
<1> SUFFICES ASSUME ClientInv, CallInv, [Next]_vars, NEW c \in Callers,
                    callers'[c].answer = "ok"
             PROVE  callers'[c].pid \notin callers'[c].gone
  BY DEF NotGone
<1>0. /\ CallersTyped /\ OneAnswer /\ CallProgress /\ LeftIsCleared /\ EndsComeFirst
      /\ DeadIsNoticed /\ NotGone /\ FirstPostInit
  BY DEF CallInv, ClientInv, Family
<1>01. \A w, s : Message(w, s).what = w /\ Message(w, s).from = s
  BY DEF Message
<1> DEFINE a == callers[c]
           b == callers'[c]
<1>1. Turn(c, a, b)
  BY <1>0, TurnsStep DEF Turns
<1>2. /\ a.gone \subseteq Pids /\ Nobody \notin Pids
      /\ \A p \in a.gone : prods[p].st = "left"
  BY <1>0, PidFacts DEF CallersTyped, CallerType, EndsComeFirst
<1>3. a.answer = "ok" => a.pid \notin a.gone
  BY <1>0 DEF NotGone
<1>4. a.at = "lookup_again" /\ a.part \in Partitions /\ table[a.part] \in Pids
        => table[a.part] \notin a.gone
  <2> SUFFICES ASSUME a.at = "lookup_again", a.part \in Partitions, table[a.part] \in Pids,
                      table[a.part] \in a.gone
               PROVE  FALSE
    OBVIOUS
  <2>1. prods[table[a.part]].st = "left" /\ \A i \in 1..Len(cbox) : ~EndOf(cbox[i], table[a.part])
    BY <1>0 DEF EndsComeFirst
  <2>2. Deregisters(table[a.part], 0)
    BY <1>0, <2>1 DEF LeftIsCleared
  <2> QED
    BY <2>1, <2>2 DEF Deregisters, EndOf
<1>5. a.part \in Partitions /\ psup = "up" /\ kids # <<>> /\ 1 \in 1..Len(pbox)
      /\ pbox[1] = Message("which_children", c)
        => kids[a.part] \notin a.gone
  <2> SUFFICES ASSUME a.part \in Partitions, psup = "up", kids # <<>>, 1 \in 1..Len(pbox),
                      pbox[1] = Message("which_children", c), kids[a.part] \in a.gone
               PROVE  FALSE
    OBVIOUS
  <2>1. kids[a.part] \in Pids /\ ~Alive(kids[a.part])
    BY <1>2 DEF Alive
  <2>2. PICK i \in 1..Len(pbox) : pbox[i] = Message("EXIT", kids[a.part])
    BY <1>0, <2>1 DEF DeadIsNoticed
  <2>3. i # 1
    BY <1>01, <2>2
  <2>4. 1 < i
    BY <2>3
  <2>5. ~EndOf(pbox[i], kids[a.part])
    BY <1>0, <2>4 DEF EndsComeFirst
  <2> QED
    BY <1>01, <2>2, <2>5 DEF EndOf
<1>6. \A p \in Pids : Alive(p) => p \notin a.gone
  BY <1>2 DEF Alive
<1>7. b.answer = "ok"
  OBVIOUS
<1>8. CallProgress' /\ (b.at # "idle" => b.answer = "none")
  BY <1>0, CallersStep DEF CallProgress, InOrder
<1> HIDE DEF a, b
<1>9. b.pid \notin b.gone
  BY <1>1, <1>2, <1>3, <1>4, <1>5, <1>6, <1>7, <1>8 DEF Turn, SameCall
<1> QED
  BY <1>9 DEF a, b

LEMMA InitCallInv == Init => CallInv
<1> SUFFICES ASSUME Init PROVE CallInv
  OBVIOUS
<1>1. CallersTyped
  <2>1. /\ "none" \in Answers /\ "idle" \in CallerAts /\ 1 \in Partitions
        /\ Nobody \in Pids \cup {Nobody, Restarting}
    BY PidFacts DEF Answers, CallerAts
  <2> QED
    BY <2>1 DEF Init, CallersTyped, CallerType
<1>2. /\ tbox = <<>> /\ pbox = <<>> /\ Len(cbox) = 1 /\ cbox[1].from = Nobody
      /\ cbox[1].what = "init" /\ serving = Nobody /\ client = "up" /\ kids = <<>>
      /\ \A k \in Partitions : table[k] = Nobody
      /\ \A c \in Callers : /\ callers[c].at = "idle" /\ ~callers[c].waits
                            /\ callers[c].answer = "none" /\ callers[c].gone = {}
  BY DEF Init, Message, EmptyTable
<1>3. Nobody \notin Callers /\ Nobody \notin Pids
  BY PidFacts
<1>4. OneAnswer
  BY <1>2, <1>3 DEF OneAnswer, Asked, AskedClient, Serves
<1>5. CallProgress
  BY <1>2 DEF CallProgress, InOrder, Looks
<1>6. LeftIsCleared
  BY <1>2, <1>3 DEF LeftIsCleared
<1>7. EndsComeFirst /\ DeadIsNoticed /\ NotGone
  BY <1>2 DEF EndsComeFirst, DeadIsNoticed, NotGone
<1> QED
  BY <1>1, <1>4, <1>5, <1>6, <1>7 DEF CallInv

LEMMA CallInvStep == ClientInv /\ CallInv /\ [Next]_vars => CallInv'
BY CallersStep, OneAnswerStep, LeftIsClearedStep, EndsComeFirstStep, DeadIsNoticedStep,
   NotGoneStep DEF CallInv

\* A call of stop_producer is answered ok by delete_child alone, when the
\* partitions' supervisor is down and every producer with it.
LEMMA StopIsLast ==
  ClientInv /\ CallInv /\ [Next]_vars =>
    \A c \in Callers :
      callers[c].at = "stop_producer" /\ callers'[c].at = "idle" /\ callers'[c].answer = "ok"
        => \A p \in Pids : ~Alive(p)'
<1> SUFFICES ASSUME ClientInv, CallInv, [Next]_vars, NEW c \in Callers,
                    callers[c].at = "stop_producer", callers'[c].at = "idle",
                    callers'[c].answer = "ok", NEW p \in Pids
             PROVE  ~Alive(p)'
  OBVIOUS
<1>1. Turn(c, callers[c], callers'[c])
  BY TurnsStep DEF CallInv, Turns
<1>2. HandleDeleteChild /\ child = "undefined"
  BY <1>1 DEF Turn, SameCall
<1>3. psup = "down" /\ UNCHANGED prods
  BY <1>2 DEF ClientInv, OneRestart, RestartState, HandleDeleteChild
<1>4. ~Alive(p)
  BY <1>3 DEF ClientInv, OneProducer, AliveKnown
<1> QED
  BY <1>3, <1>4 DEF Alive

\* When stop_producer answers ok no producer of the topic is left; and a
\* producer that had deregistered and ended before a call of get_producer
\* began is never its answer.
THEOREM StopLeavesNobody == Spec => StopMeansGone
<1>1. Init => ClientInv /\ CallInv
  BY InitInv, InitCallInv
<1>2. ClientInv /\ CallInv /\ [Next]_vars => ClientInv' /\ CallInv'
  BY InvStep, CallInvStep
<1>3. ClientInv /\ CallInv /\ [Next]_vars =>
        [\A c \in Callers :
           /\ callers[c].at = "stop_producer" /\ callers'[c].at = "idle"
           /\ callers'[c].answer = "ok"
           => \A p \in Pids : ~Alive(p)']_vars
  BY StopIsLast
<1>4. CallInv => \A c \in Callers : callers[c].answer = "ok" => callers[c].pid \notin callers[c].gone
  BY DEF CallInv, NotGone
<1> QED
  BY <1>1, <1>2, <1>3, <1>4, PTL DEF Spec, StopMeansGone

-----------------------------------------------------------------------------
(***************************************************************************)
(* A process whose start_producer has returned ok is served.               *)
(*                                                                         *)
(*   Counted   without a fault the client knows the topic once it has      *)
(*             started it, and its supervisor has neither failed nor ended *)
(*   AllServe  nor have the producers of a supervisor that is up           *)
(*   Served    what a call that nobody stops (Calm) may rely on from its   *)
(*             beginning, and a process that is "started" for good: nobody *)
(*             stops; whoever has left had done so before the call; the    *)
(*             client and the supervisors are there                        *)
(***************************************************************************)
Calm(a) == a.started \/ (a.op = "start_producer" /\ a.at # "idle" /\ ~a.stopped)
NoneLost == \A p \in Pids : prods[p].st # "lost"
Quiet == \A d \in Callers : ~StopsNow(d)

Counted ==
  /\ faults \in Nat
  /\ tsup = "terminate_child" => child = "pid"
  /\ faults = 0 /\ client # "down" =>
       /\ count = "counted" => exists
       /\ count = "unknown" => ~exists
       /\ (client = "start_child" \/ child # "absent") => count = "counted"
       /\ psup # "failed"
       /\ child = "pid" /\ tsup = "up" => psup \notin {"down", "terminate"}
       /\ child # "restarting"

AllServe ==
  faults = 0 /\ psup = "up" /\ kids # <<>> =>
    \A k \in Partitions : kids[k] \in Pids /\ Alive(kids[k])

StaysCalm(a) == Calm(a) => Quiet
KnowsTheGone(a) ==
  Calm(a) /\ a.at # "idle" /\ client # "down" =>
    \A p \in Pids : prods[p].st = "left" => p \in a.gone
FindsTheClient(a) == Calm(a) /\ a.at \notin {"idle", "lookup"} => client # "down"
FindsTheChild(a) ==
  a.started => /\ client # "down" /\ child = "pid" /\ tsup = "up"
               /\ a.at \notin {"start_producer", "auto_start_producer"}
FindsItAlive(a) ==
  a.started /\ a.at = "idle" =>
    /\ a.op \in {"get", "get_again", "start_producer"} => a.answer = "ok"
    /\ a.op \in {"get", "get_again"} => a.pid \in Pids /\ Alive(a.pid)
WellServed(a) ==
  StaysCalm(a) /\ KnowsTheGone(a) /\ FindsTheClient(a) /\ FindsTheChild(a) /\ FindsItAlive(a)
Served == faults = 0 /\ NoneLost => \A c \in Callers : WellServed(callers[c])
-----------------------------------------------------------------------------
(***************************************************************************)
(* Without a fault the supervisors know the partitions and stay up.        *)
(***************************************************************************)
\* What the client and the supervisors have learnt of the topic.
LEMMA CountedStep == ClientInv /\ Counted /\ [Next]_vars => Counted'
<1> SUFFICES ASSUME ClientInv, Counted, [Next]_vars PROVE Counted'
  OBVIOUS
<1>0. /\ TypeOK /\ Mail /\ OneCall /\ OneRestart /\ ShutDown /\ SupAsks /\ Counted /\ faults \in Nat
  BY DEF ClientInv, Counted
<1>00. child # "pid" => psup = "down"
  BY <1>0 DEF OneRestart, RestartState
<1>01. tbox # <<>> => 1 \in 1..Len(tbox) /\ Head(tbox) = tbox[1]
  BY <1>0, TookTail DEF Mail, TopicsSupMail, Took
<1>02. pbox # <<>> => 1 \in 1..Len(pbox) /\ Head(pbox) = pbox[1]
  BY <1>0, TookTail DEF Mail, PartitionsSupMail, Took
<1>03. cbox # <<>> => 1 \in 1..Len(cbox) /\ Head(cbox) = cbox[1]
  BY <1>0, TookTail DEF Mail, ClientMail, Took
<1>04. psup = "terminate" => tsup \in {"terminate_child", "terminate"}
  BY <1>0 DEF ShutDown
<1>1. CASE UNCHANGED <<client, count, exists, child, psup, tsup, faults>>
  BY <1>1, <1>0 DEF Counted
<1>2. ASSUME HandleInit
      PROVE  Counted'
  <2>1. UNCHANGED <<client, count, exists, child, psup, faults>> /\ child = "absent" /\ tsup' = "up"
    <3>1. Takes("init") /\ UNCHANGED <<client, count, exists, child, psup, faults>> /\ tsup' = "up"
      BY <1>2 DEF HandleInit, env
    <3>2. tsup = "none"
      BY <1>0, <1>03, <3>1 DEF Takes, Mail, ClientMail
    <3> QED
      BY <1>0, <3>1, <3>2 DEF OneRestart, RestartState
  <2> QED
    BY <2>1, <1>0 DEF Counted
<1>3. ASSUME HandleQuery
      PROVE  Counted'
  <2>1. UNCHANGED <<client, count, exists, child, tsup, faults>> /\ (psup' = psup \/ psup' = "lookup")
    BY <1>3 DEF HandleQuery, env
  <2> QED
    BY <2>1, <1>0 DEF Counted
<1>4. ASSUME HandleStartProducer
      PROVE  Counted'
  <2>1. UNCHANGED <<exists, child, tsup, psup>> /\ client = "up" /\ client' \in {"up", "start_child"}
    BY <1>4 DEF HandleStartProducer, Takes
  <2>2. \/ UNCHANGED <<count, faults>> /\ (client' = "up" \/ count = "counted")
        \/ /\ count = "none"
           /\ \/ exists /\ count' = "counted" /\ UNCHANGED faults
              \/ ~exists /\ count' = "unknown" /\ client' = "up" /\ UNCHANGED faults
              \/ faults' = faults + 1
    BY <1>4, <2>1 DEF HandleStartProducer, Fetched
  <2> QED
    BY <2>1, <2>2, <1>0 DEF Counted
<1>5. ASSUME HandleStopProducer
      PROVE  Counted'
  <2>1. UNCHANGED <<exists, child, tsup, psup, count, faults>> /\ client = "up" /\ client' = "terminate_child"
    BY <1>5 DEF HandleStopProducer, Takes, env
  <2> QED
    BY <2>1, <1>0 DEF Counted
<1>6. ASSUME HandleGetMetadata
      PROVE  Counted'
  <2>1. UNCHANGED <<exists, child, tsup, client>> /\ client = "up"
    BY <1>6 DEF HandleGetMetadata, Takes
  <2>2. \/ exists /\ count' = "counted" /\ UNCHANGED faults /\ psup' \in {psup, "counted"}
        \/ /\ ~exists /\ count' = "unknown" /\ UNCHANGED faults
           /\ psup' = psup \/ Head(cbox).from = Sup
        \/ faults' = faults + 1
    BY <1>6 DEF HandleGetMetadata, Fetched
  <2>3. Head(cbox).from = Sup => child = "pid"
    <3>1. cbox # <<>> /\ Head(cbox).what = "get_metadata"
      BY <1>6 DEF HandleGetMetadata, Takes
    <3>2. Head(cbox).from = Sup => psup = "get_metadata"
      BY <1>0, <1>03, <3>1 DEF SupAsks
    <3> QED
      BY <1>00, <3>2
  <2> QED
    BY <2>1, <2>2, <2>3, <1>0 DEF Counted
<1>7. ASSUME CannotConnect \/ HandleStop \/ StopProducerFailed
      PROVE  Counted'
  <2>1. /\ client' = "down" /\ (faults' = faults \/ faults' = faults + 1)
        /\ UNCHANGED child /\ tsup' \in {tsup, "down"}
    BY <1>7 DEF CannotConnect, HandleStop, StopProducerFailed, ClientEnds
  <2> QED
    BY <2>1, <1>0 DEF Counted
<1>8. ASSUME UnknownTopicExpires
      PROVE  Counted'
  <2>1. UNCHANGED <<exists, child, tsup, psup, client, faults>> /\ count = "unknown" /\ count' = "none"
    BY <1>8 DEF UnknownTopicExpires, sups, env
  <2> QED
    BY <2>1, <1>0 DEF Counted
<1>9. ASSUME HandleStartChild
      PROVE  Counted'
  <2>1. UNCHANGED <<exists, tsup, count, faults>> /\ client = "start_child" /\ client' = "up"
    <3>1. tbox # <<>> /\ Head(tbox).what = "start_child"
      BY <1>9 DEF HandleStartChild, TopicsSupTakes
    <3> QED
      BY <1>9, <1>0, <1>01, <3>1 DEF HandleStartChild, env, OneCall, CallOfClient, ClientWaits
  <2>2. UNCHANGED <<child, psup>> \/ (child' = "pid" /\ psup' = "up")
    BY <1>9 DEF HandleStartChild, StartPartitionsSup
  <2> QED
    BY <2>1, <2>2, <1>0 DEF Counted
<1>10. ASSUME HandleTerminateChild
      PROVE  Counted'
  <2>1. /\ UNCHANGED <<exists, count, psup, faults>>
        /\ \/ tsup' = "terminate_child" /\ UNCHANGED <<client, child>> /\ child = "pid"
           \/ tsup' = "up" /\ client' = "delete_child" /\ child' \in {child, "undefined"}
              /\ (child = "absent" => child' = child) /\ (child # "absent" => child' = "undefined")
    BY <1>10 DEF HandleTerminateChild, TopicsSupTakes, Terminated, env
  <2>2. client = "terminate_child"
    <3>1. tbox # <<>> /\ Head(tbox).what = "terminate_child"
      BY <1>10 DEF HandleTerminateChild, TopicsSupTakes
    <3> QED
      BY <1>10, <1>0, <1>01, <3>1 DEF OneCall, CallOfClient, ClientWaits
  <2> QED
    BY <2>1, <2>2, <1>0 DEF Counted
<1>11. ASSUME ChildIsDown
      PROVE  Counted'
  <2>1. /\ UNCHANGED <<exists, count, psup, faults>> /\ client' = "delete_child"
        /\ child' = "undefined" /\ tsup = "terminate_child" /\ tsup' = "up"
    BY <1>11 DEF ChildIsDown, Terminated, env
  <2>2. child # "absent" /\ client = "terminate_child"
    BY <1>0, <2>1 DEF Counted, OneCall, CallOfClient
  <2> QED
    BY <2>1, <2>2, <1>0 DEF Counted
<1>12. ASSUME HandleDeleteChild
      PROVE  Counted'
  <2>1. /\ UNCHANGED <<exists, count, psup, tsup, faults>> /\ client' \in {"up", "badmatch"}
        /\ child' = "absent" \/ UNCHANGED child
        /\ tsup = "up"
    BY <1>12 DEF HandleDeleteChild, TopicsSupTakes, env
  <2>2. client = "delete_child"
    <3>1. tbox # <<>> /\ Head(tbox).what = "delete_child"
      BY <1>12 DEF HandleDeleteChild, TopicsSupTakes
    <3> QED
      BY <1>12, <1>0, <1>01, <3>1 DEF OneCall, CallOfClient, ClientWaits
  <2> QED
    BY <2>1, <2>2, <1>0 DEF Counted
<1>13. ASSUME TopicsSupExit
      PROVE  Counted'
  <2>1. /\ UNCHANGED <<exists, count, psup, tsup, client, faults>> /\ tsup = "up"
        /\ tbox # <<>> /\ Head(tbox).what = "EXIT"
    BY <1>13 DEF TopicsSupExit, TopicsSupTakes, env
  <2>2. psup = "down" /\ child = "pid"
    BY <1>0, <1>01, <2>1 DEF OneRestart, RestartState
  <2> QED
    BY <2>1, <2>2, <1>0 DEF Counted
<1>14. ASSUME TopicsSupDelayedRestart
      PROVE  Counted'
  <2>1. /\ UNCHANGED <<exists, count, tsup, client, faults>>
        /\ \/ UNCHANGED <<child, psup>>
           \/ child # "absent" /\ child' = "pid" /\ psup' = "up"
    BY <1>14 DEF TopicsSupDelayedRestart, StartPartitionsSup, env
  <2> QED
    BY <2>1, <1>0 DEF Counted
<1>15. ASSUME TopicsSupShutdown \/ TopicsSupEnds
      PROVE  Counted'
  <2>1. /\ UNCHANGED <<exists, count, psup, child, client, faults>>
        /\ tsup' \in {"terminate", "down"}
    BY <1>15 DEF TopicsSupShutdown, TopicsSupEnds, env
  <2> QED
    BY <2>1, <1>0 DEF Counted
<1>16. ASSUME HandlePostInit \/ LookupCount \/ StartProducers
      PROVE  Counted'
  <2>1. /\ UNCHANGED <<exists, count, tsup, child, client, faults>> /\ psup # "down"
        /\ \/ psup' \in {"get_workers_table", "get_metadata", "counted", "up"}
           \/ client = "down" \/ count = "unknown"
    BY <1>16 DEF HandlePostInit, LookupCount, StartProducers, PartitionsSupTakes, env
  <2>2. child = "pid"
    BY <1>00, <2>1
  <2> QED
    BY <2>1, <2>2, <1>0 DEF Counted
<1>17. ASSUME PartitionsSupShutdown \/ PartitionsSupEnds
      PROVE  Counted'
  <2>1. /\ UNCHANGED <<exists, count, tsup, child, client, faults>>
        /\ psup' \in {"down", "terminate"}
    BY <1>17 DEF PartitionsSupShutdown, PartitionsSupEnds, env
  <2>2. tsup \in {"terminate_child", "terminate"} \/ psup = "failed"
    <3>1. PartitionsSupShutdown => \E i \in 1..Len(pbox) : pbox[i].what = "shutdown"
      BY <1>02 DEF PartitionsSupShutdown, PartitionsSupTakes
    <3>2. PartitionsSupEnds => psup \in {"failed", "terminate"}
      BY DEF PartitionsSupEnds
    <3> QED
      BY <1>17, <1>0, <3>1, <3>2 DEF ShutDown
  <2> QED
    BY <2>1, <2>2, <1>0 DEF Counted
<1>18. ASSUME TopicMoves \/ (\E p \in Pids : ProducerEnds(p))
      PROVE  Counted'
  <2>1. faults' = faults + 1 /\ UNCHANGED <<child, tsup>>
    BY <1>18 DEF ProducerEnds, TopicMoves, sups
  <2> QED
    BY <2>1, <1>0 DEF Counted
<1>19. ASSUME HandleGetLeaderConnection \/ HandleRegister \/ TopicsSupWhichChildren \/
              (\E c \in Callers : Lookup(c) \/ CheckAlive(c) \/ CallClient(c) \/ CallTopicsSup(c) \/ CallPartitionsSup(c)) \/
              (\E c \in Callers : \E op \in Ops[c], k \in Partitions : Begin(c, op, k))
      PROVE  UNCHANGED <<client, count, exists, child, psup, tsup, faults>>
  BY <1>19 DEF Begin, Lookup, CheckAlive, CallClient, CallTopicsSup, CallPartitionsSup,
       HandleGetLeaderConnection, Takes, HandleRegister, TopicsSupWhichChildren,
       TopicsSupTakes, sups, env
<1>20. ASSUME PartitionsSupWhichChildren \/ PartitionsSupExit \/
              PartitionsSupDelayedRestart \/ TerminateProducer \/
              (\E p \in Pids : AskForConnection(p)) \/
              (\E t \in Partitions \cup {Topic} : TimerFires(t))
      PROVE  UNCHANGED <<client, count, exists, child, psup, tsup, faults>>
  BY <1>20 DEF PartitionsSupWhichChildren, PartitionsSupTakes, PartitionsSupExit,
       PartitionsSupDelayedRestart, Start, TerminateProducer, Leaves, Dies,
       AskForConnection, TimerFires, sups, env
<1>21. CASE UNCHANGED vars
  BY <1>1, <1>21 DEF vars, sups, env
<1> QED
  BY <1>1, <1>2, <1>3, <1>4, <1>5, <1>6, <1>7, <1>8, <1>9, <1>10, <1>11, <1>12, <1>13,
     <1>14, <1>15, <1>16, <1>17, <1>18, <1>19, <1>20, <1>21
     DEF Next, CallerNext, ClientNext, TopicsSupNext, PartitionsSupNext

\* Without a fault the children of the partitions' supervisor are alive while it is up.
LEMMA AllServeStep == ClientInv /\ Counted /\ AllServe /\ [Next]_vars => AllServe'
<1> SUFFICES ASSUME ClientInv, Counted, AllServe, [Next]_vars PROVE AllServe'
  OBVIOUS
<1>0. /\ TypeOK /\ Mail /\ BornInOrder /\ OneProducer /\ faults \in Nat
  BY DEF ClientInv, Counted
<1>02. pbox # <<>> => 1 \in 1..Len(pbox) /\ Head(pbox) = pbox[1]
  BY <1>0, TookTail DEF Mail, PartitionsSupMail, Took
<1>03. SameLives /\ UNCHANGED <<kids, faults>> /\ (psup' = "up" => psup = "up") => AllServe'
  <2> SUFFICES ASSUME SameLives, UNCHANGED <<kids, faults>>, psup' = "up" => psup = "up",
                      faults' = 0, psup' = "up", kids' # <<>>, NEW k \in Partitions
               PROVE  kids'[k] \in Pids /\ prods'[kids'[k]].st \in {"idle", "busy"}
    BY DEF AllServe, Alive
  <2>1. kids[k] \in Pids /\ Alive(kids[k])
    BY DEF AllServe
  <2> QED
    BY <2>1 DEF SameLives, Alive
<1>04. UNCHANGED prods => SameLives
  BY <1>0, TheSameLives
<1>1. CASE UNCHANGED <<psup, kids, prods, faults>>
  BY <1>1, <1>03, <1>04
<1>2. ASSUME HandleQuery \/ HandleGetMetadata \/ HandlePostInit \/ LookupCount \/
             PartitionsSupShutdown \/ PartitionsSupEnds
      PROVE  AllServe'
  <2>1. psup' # "up" \/ UNCHANGED <<psup, kids, prods, faults>> \/ faults' = faults + 1
    BY <1>2 DEF HandleQuery, HandleGetMetadata, Fetched, HandlePostInit, LookupCount,
         PartitionsSupShutdown, PartitionsSupEnds, env
  <2> QED
    BY <2>1, <1>0, <1>03, <1>04 DEF AllServe
<1>3. ASSUME HandleStartProducer
      PROVE  AllServe'
  <2>1. UNCHANGED <<psup, kids, prods>> /\ (UNCHANGED faults \/ faults' = faults + 1)
    BY <1>3 DEF HandleStartProducer, Fetched
  <2> QED
    BY <2>1, <1>0, <1>03, <1>04 DEF AllServe
<1>4. ASSUME HandleGetLeaderConnection \/ (\E p \in Pids : AskForConnection(p))
      PROVE  AllServe'
  <2>1. UNCHANGED <<psup, kids, faults>>
    BY <1>4 DEF HandleGetLeaderConnection, AskForConnection, sups, env
  <2> QED
    BY <1>4, <2>1, <1>0, <1>03, ConnectionLives
<1>5. ASSUME CannotConnect \/ HandleStop \/ StopProducerFailed
      PROVE  AllServe'
  <2>1. UNCHANGED kids /\ (UNCHANGED faults \/ faults' = faults + 1) /\ (psup' = "up" => psup = "up")
    BY <1>5 DEF CannotConnect, HandleStop, StopProducerFailed, ClientEnds
  <2>2. SameLives
    BY <1>5, <1>0, ClientEndsLives
  <2> QED
    BY <2>1, <2>2, <1>0, <1>03 DEF AllServe
<1>6. ASSUME HandleStartChild \/ TopicsSupDelayedRestart
      PROVE  AllServe'
  <2>1. kids' = <<>> \/ UNCHANGED <<psup, kids, prods, faults>>
    BY <1>6 DEF HandleStartChild, TopicsSupDelayedRestart, StartPartitionsSup, env
  <2> QED
    BY <2>1, <1>0, <1>03, <1>04 DEF AllServe
<1>7. ASSUME StartProducers
      PROVE  AllServe'
  <2>1. \A k \in Partitions : Newborn(kids'[k])
    BY <1>7, <1>0, Newborns DEF StartProducers, PartitionsSupDelayedRestart, PartitionsSupTakes
  <2> QED
    BY <2>1 DEF AllServe, Newborn, Alive
<1>8. ASSUME PartitionsSupExit \/ PartitionsSupDelayedRestart
      PROVE  AllServe'
  <2>1. UNCHANGED faults /\ psup = "up" /\ pbox # <<>> /\ Head(pbox).what \in {"EXIT", "delayed_restart"}
    BY <1>8 DEF PartitionsSupExit, PartitionsSupDelayedRestart, PartitionsSupTakes, env
  <2>2. PICK i \in 1..Len(pbox) : pbox[i].what \in {"EXIT", "delayed_restart"}
    BY <2>1, <1>02
  <2>3. CASE pbox[i].what = "EXIT"
    <3>1. pbox[i].from \in Pids /\ prods[pbox[i].from].part \in Partitions
      BY <1>0, <2>3 DEF Mail, PartitionsSupMail, TypeOK
    <3>2. /\ kids # <<>> /\ kids[prods[pbox[i].from].part] = pbox[i].from
          /\ ~Alive(pbox[i].from)
      BY <1>0, <2>1, <2>3 DEF OneProducer, TokensStand
    <3> QED
      BY <2>1, <3>1, <3>2 DEF AllServe
  <2>4. CASE pbox[i].what = "delayed_restart"
    <3>1. pbox[i].from \in Partitions
      BY <1>0, <2>4 DEF Mail, PartitionsSupMail
    <3>2. kids # <<>> /\ kids[pbox[i].from] = Restarting
      BY <1>0, <2>1, <2>4 DEF OneProducer, TokensStand
    <3> QED
      BY <2>1, <3>1, <3>2, PidFacts DEF AllServe
  <2> QED
    BY <2>2, <2>3, <2>4
<1>9. ASSUME TerminateProducer
      PROVE  AllServe'
  <2>1. psup = "terminate" /\ UNCHANGED psup
    BY <1>9 DEF TerminateProducer
  <2> QED
    BY <2>1 DEF AllServe
<1>10. ASSUME TopicMoves \/ (\E p \in Pids : ProducerEnds(p))
      PROVE  AllServe'
  <2>1. faults' = faults + 1
    BY <1>10 DEF ProducerEnds, TopicMoves
  <2> QED
    BY <2>1, <1>0 DEF AllServe
<1>11. ASSUME HandleInit \/ HandleStopProducer \/ HandleRegister \/
              (\E c \in Callers : Lookup(c) \/ CheckAlive(c) \/ CallClient(c) \/ CallTopicsSup(c) \/ CallPartitionsSup(c)) \/
              (\E c \in Callers : \E op \in Ops[c], k \in Partitions : Begin(c, op, k))
      PROVE  UNCHANGED <<psup, kids, prods, faults>>
  BY <1>11 DEF Begin, Lookup, CheckAlive, CallClient, CallTopicsSup, CallPartitionsSup,
       HandleInit, Takes, HandleStopProducer, HandleRegister, sups, env
<1>12. ASSUME UnknownTopicExpires \/ HandleTerminateChild \/ ChildIsDown \/
              HandleDeleteChild \/ TopicsSupWhichChildren \/ TopicsSupExit \/
              TopicsSupShutdown \/ TopicsSupEnds \/ PartitionsSupWhichChildren
      PROVE  UNCHANGED <<psup, kids, prods, faults>>
  BY <1>12 DEF UnknownTopicExpires, HandleTerminateChild, Terminated, TopicsSupTakes,
       ChildIsDown, HandleDeleteChild, TopicsSupWhichChildren, TopicsSupExit,
       TopicsSupShutdown, TopicsSupEnds, PartitionsSupWhichChildren, PartitionsSupTakes,
       sups, env
<1>13. ASSUME (\E t \in Partitions \cup {Topic} : TimerFires(t))
      PROVE  UNCHANGED <<psup, kids, prods, faults>>
  BY <1>13 DEF TimerFires, sups, env
<1>14. CASE UNCHANGED vars
  BY <1>1, <1>14 DEF vars, sups, env
<1> QED
  BY <1>1, <1>2, <1>3, <1>4, <1>5, <1>6, <1>7, <1>8, <1>9, <1>10, <1>11, <1>12, <1>13, <1>14
     DEF Next, CallerNext, ClientNext, TopicsSupNext, PartitionsSupNext

-----------------------------------------------------------------------------
(***************************************************************************)
(* While nobody stops the topic or the client and nothing fails, what was  *)
(* started stays.                                                          *)
(***************************************************************************)
\* A client that is down stays down.
LEMMA DownStays == ClientInv /\ [Next]_vars => (client = "down" => client' = "down")
<1> SUFFICES ASSUME ClientInv, [Next]_vars PROVE (client = "down" => client' = "down")
  OBVIOUS
<1>0. /\ TypeOK /\ Mail /\ CallOfClient
  BY DEF ClientInv, OneCall
<1>01. tbox # <<>> => 1 \in 1..Len(tbox) /\ Head(tbox) = tbox[1]
  BY <1>0, TookTail DEF Mail, TopicsSupMail, Took
<1>1. CASE UNCHANGED <<client>>
  BY <1>1
<1>2. ASSUME CannotConnect \/ HandleStop \/ StopProducerFailed
      PROVE  client = "down" => client' = "down"
  BY <1>2 DEF CannotConnect, HandleStop, StopProducerFailed, ClientEnds
<1>3. ASSUME HandleStartProducer \/ HandleStopProducer
      PROVE  client = "down" => client' = "down"
  BY <1>3 DEF HandleStartProducer, HandleStopProducer, Takes
<1>4. ASSUME HandleStartChild \/ HandleTerminateChild \/ HandleDeleteChild
      PROVE  client = "down" => client' = "down"
  BY <1>4, <1>0, <1>01 DEF HandleStartChild, HandleTerminateChild, HandleDeleteChild, TopicsSupTakes,
     CallOfClient, ClientWaits
<1>5. ASSUME ChildIsDown
      PROVE  client = "down" => client' = "down"
  BY <1>5, <1>0 DEF ChildIsDown, CallOfClient
<1>6. ASSUME HandleInit \/ HandleQuery \/ HandleGetMetadata \/
             (\E c \in Callers : Lookup(c) \/ CheckAlive(c) \/ CallClient(c) \/ CallTopicsSup(c) \/ CallPartitionsSup(c)) \/
             (\E c \in Callers : \E op \in Ops[c], k \in Partitions : Begin(c, op, k))
      PROVE  UNCHANGED <<client>>
  BY <1>6 DEF Begin, Lookup, CheckAlive, CallClient, CallTopicsSup, CallPartitionsSup,
       HandleInit, Takes, HandleQuery, HandleGetMetadata, sups, env
<1>7. ASSUME HandleGetLeaderConnection \/ HandleRegister \/ UnknownTopicExpires \/
             TopicsSupWhichChildren \/ TopicsSupExit \/ TopicsSupDelayedRestart \/
             TopicsSupShutdown \/ TopicsSupEnds \/ HandlePostInit
      PROVE  UNCHANGED <<client>>
  BY <1>7 DEF HandleGetLeaderConnection, Takes, HandleRegister, UnknownTopicExpires,
       TopicsSupWhichChildren, TopicsSupTakes, TopicsSupExit, TopicsSupDelayedRestart,
       StartPartitionsSup, TopicsSupShutdown, TopicsSupEnds, HandlePostInit,
       PartitionsSupTakes, sups, env
<1>8. ASSUME LookupCount \/ StartProducers \/ PartitionsSupWhichChildren \/
             PartitionsSupExit \/ PartitionsSupDelayedRestart \/ PartitionsSupShutdown \/
             TerminateProducer \/ PartitionsSupEnds \/ (\E p \in Pids : AskForConnection(p))
      PROVE  UNCHANGED <<client>>
  BY <1>8 DEF LookupCount, StartProducers, Start, PartitionsSupWhichChildren,
       PartitionsSupTakes, PartitionsSupExit, PartitionsSupDelayedRestart,
       PartitionsSupShutdown, TerminateProducer, Leaves, Dies, PartitionsSupEnds,
       AskForConnection, sups, env
<1>9. ASSUME TopicMoves \/ (\E p \in Pids : ProducerEnds(p)) \/
             (\E t \in Partitions \cup {Topic} : TimerFires(t))
      PROVE  UNCHANGED <<client>>
  BY <1>9 DEF ProducerEnds, Leaves, Dies, TimerFires, TopicMoves, sups, env
<1>10. CASE UNCHANGED vars
  BY <1>1, <1>10 DEF vars, sups, env
<1> QED
  BY <1>1, <1>2, <1>3, <1>4, <1>5, <1>6, <1>7, <1>8, <1>9, <1>10
     DEF Next, CallerNext, ClientNext, TopicsSupNext, PartitionsSupNext

\* What is so while nobody stops.
LEMMA QuietState ==
  ASSUME ClientInv, OneAnswer, client # "down", Quiet
  PROVE  /\ client \in {"up", "start_child"} /\ tsup \in {"none", "up"}
         /\ psup # "terminate" /\ \A i \in 1..Len(pbox) : pbox[i].what # "shutdown"
         /\ psup = "up" => child = "pid" /\ tsup = "up"
         /\ \A p \in Pids : Alive(p) => psup = "up" /\ child = "pid" /\ tsup = "up"
<1>1. client \in {"up", "start_child"}
  <2>1. client \notin {"up", "down"} => serving # Nobody
    BY DEF OneAnswer, Serves
  <2>2. serving \in Callers => callers[serving].at # "stop_producer"
    BY DEF Quiet, StopsNow, Stops
  <2> QED
    BY <2>1, <2>2 DEF OneAnswer, Serves, ClientInv, TypeOK
<1>2. tsup \in {"none", "up"}
  BY <1>1 DEF ClientInv, TypeOK, OneCall, CallOfClient
<1>3. psup # "terminate" /\ \A i \in 1..Len(pbox) : pbox[i].what # "shutdown"
  BY <1>2 DEF ClientInv, ShutDown
<1>4. psup = "up" => child = "pid" /\ tsup = "up"
  BY <1>2 DEF ClientInv, OneRestart, RestartState
<1>5. \A p \in Pids : Alive(p) => psup = "up"
  BY <1>3 DEF ClientInv, OneProducer, AliveKnown
<1> QED
  BY <1>1, <1>2, <1>3, <1>4, <1>5

NothingEnds ==
  /\ faults = 0 /\ client' # "down"
  /\ \A p \in Pids : prods'[p].st = "left" => prods[p].st = "left"
  /\ \A p \in Pids : Alive(p) => prods'[p].st \in {"idle", "busy"}
  /\ child = "pid" /\ tsup = "up" => child' = "pid" /\ tsup' = "up"

\* No step ends what runs.
LEMMA QuietStep ==
  ClientInv /\ CallInv /\ Counted /\ client # "down" /\ Quiet /\ faults' = 0 /\ [Next]_vars
    => NothingEnds
<1> SUFFICES ASSUME ClientInv, CallInv, Counted, client # "down", Quiet, faults' = 0, [Next]_vars
             PROVE  NothingEnds
  OBVIOUS
<1>0. /\ TypeOK /\ Mail /\ CallOfClient /\ RestartState /\ OneAnswer /\ faults \in Nat
  BY DEF ClientInv, OneCall, OneRestart, CallInv, Counted
<1>01. tbox # <<>> => 1 \in 1..Len(tbox) /\ Head(tbox) = tbox[1]
  BY <1>0, HeadsOfCalls
<1>02. /\ client \in {"up", "start_child"} /\ tsup \in {"none", "up"} /\ psup # "terminate"
  BY <1>0, QuietState
<1>03. faults' # faults + 1
  BY <1>0
<1>04. UNCHANGED <<client, child, tsup, faults>> /\ SameLives => NothingEnds
  BY DEF SameLives, NothingEnds, Alive
<1>1. CASE UNCHANGED <<client, prods, child, tsup, faults>>
  BY <1>1 DEF NothingEnds, Alive
<1>2. ASSUME HandleInit
      PROVE  NothingEnds
  BY <1>2 DEF HandleInit, NothingEnds, Alive, env
<1>3. ASSUME HandleStartProducer
      PROVE  NothingEnds
  <2>1. client' \in {"up", "start_child"} /\ UNCHANGED <<prods, child, tsup>>
        /\ (UNCHANGED faults \/ faults' = faults + 1)
    BY <1>3, <1>02 DEF HandleStartProducer, Fetched, Takes
  <2> QED
    BY <2>1, <1>03 DEF NothingEnds, Alive
<1>4. ASSUME HandleGetMetadata
      PROVE  NothingEnds
  <2>1. UNCHANGED <<client, prods, child, tsup>> /\ (UNCHANGED faults \/ faults' = faults + 1)
    BY <1>4 DEF HandleGetMetadata, Fetched
  <2> QED
    BY <2>1, <1>03 DEF NothingEnds, Alive
<1>5. ASSUME HandleStopProducer \/ HandleStop
      PROVE  NothingEnds
  <2>1. cbox # <<>> /\ Head(cbox).what \in {"stop_producer", "stop"}
    BY <1>5 DEF HandleStopProducer, HandleStop, Takes
  <2>2. Head(cbox).from \in Callers /\ Stops(callers[Head(cbox).from].at)
    BY <1>0, <2>1, HeadsOfCalls DEF CallerCalls, Stops
  <2> QED
    BY <2>2 DEF Quiet, StopsNow
<1>6. ASSUME HandleGetLeaderConnection \/ (\E p \in Pids : AskForConnection(p))
      PROVE  NothingEnds
  <2>1. UNCHANGED <<client, child, tsup, faults>>
    BY <1>6 DEF HandleGetLeaderConnection, AskForConnection, sups, env
  <2> QED
    BY <1>6, <2>1, <1>0, <1>04, ConnectionLives
<1>7. ASSUME CannotConnect \/ TopicMoves \/ (\E p \in Pids : ProducerEnds(p))
      PROVE  NothingEnds
  BY <1>7, <1>03 DEF CannotConnect, TopicMoves, ProducerEnds
<1>8. ASSUME StopProducerFailed \/ TopicsSupEnds \/ TerminateProducer \/ ChildIsDown
      PROVE  NothingEnds
  BY <1>8, <1>02 DEF StopProducerFailed, TopicsSupEnds, TerminateProducer, ChildIsDown
<1>9. ASSUME HandleStartChild
      PROVE  NothingEnds
  <2>1. client' = "up" /\ (child' = child \/ child' = "pid") /\ UNCHANGED <<tsup, prods, faults>>
    BY <1>9 DEF HandleStartChild, StartPartitionsSup, env
  <2> QED
    BY <2>1 DEF NothingEnds, Alive
<1>10. ASSUME TopicsSupDelayedRestart
      PROVE  NothingEnds
  <2>1. (child' = child \/ child' = "pid") /\ UNCHANGED <<client, tsup, prods, faults>>
    BY <1>10 DEF TopicsSupDelayedRestart, StartPartitionsSup, env
  <2> QED
    BY <2>1 DEF NothingEnds, Alive
<1>11. ASSUME HandleTerminateChild \/ HandleDeleteChild \/ TopicsSupShutdown
      PROVE  NothingEnds
  <2>1. tbox # <<>> /\ Head(tbox).what \in {"terminate_child", "delete_child", "shutdown"}
    BY <1>11 DEF HandleTerminateChild, HandleDeleteChild, TopicsSupShutdown, TopicsSupTakes
  <2> QED
    BY <1>0, <1>01, <1>02, <2>1 DEF CallOfClient, ClientWaits
<1>12. ASSUME TopicsSupExit
      PROVE  NothingEnds
  <2>1. tsup = "up" /\ tbox # <<>> /\ Head(tbox).what = "EXIT" /\ UNCHANGED faults
    BY <1>12 DEF TopicsSupExit, TopicsSupTakes, env
  <2>2. child = "pid" /\ psup = "down"
    BY <1>0, <1>01, <2>1 DEF RestartState
  <2> QED
    BY <2>1, <2>2 DEF Counted
<1>13. ASSUME StartProducers \/ PartitionsSupDelayedRestart
      PROVE  NothingEnds
  <2>1. UNCHANGED <<client, child, tsup, faults>>
    BY <1>13 DEF StartProducers, PartitionsSupDelayedRestart, env
  <2>2. \A p \in Pids : prods'[p] = prods[p] \/ prods'[p].st = "idle"
    <3>1. ASSUME NEW parts, Start(parts)
          PROVE  \A p \in Pids : prods'[p] = prods[p] \/ prods'[p].st = "idle"
      BY <3>1 DEF Start
    <3> QED
      BY <1>13, <3>1 DEF StartProducers, PartitionsSupDelayedRestart
  <2> QED
    BY <2>1, <2>2 DEF NothingEnds, Alive
<1>14. ASSUME HandleQuery \/ HandleRegister \/ UnknownTopicExpires \/
              (\E c \in Callers : Lookup(c) \/ CheckAlive(c) \/ CallClient(c) \/ CallTopicsSup(c) \/ CallPartitionsSup(c)) \/
              (\E c \in Callers : \E op \in Ops[c], k \in Partitions : Begin(c, op, k))
      PROVE  UNCHANGED <<client, prods, child, tsup, faults>>
  BY <1>14 DEF Begin, Lookup, CheckAlive, CallClient, CallTopicsSup, CallPartitionsSup,
       HandleQuery, Takes, HandleRegister, UnknownTopicExpires, sups, env
<1>15. ASSUME TopicsSupWhichChildren \/ HandlePostInit \/ LookupCount \/
              PartitionsSupWhichChildren \/ PartitionsSupExit \/ PartitionsSupShutdown \/
              PartitionsSupEnds \/ (\E t \in Partitions \cup {Topic} : TimerFires(t))
      PROVE  UNCHANGED <<client, prods, child, tsup, faults>>
  BY <1>15 DEF TopicsSupWhichChildren, TopicsSupTakes, HandlePostInit, PartitionsSupTakes,
       LookupCount, PartitionsSupWhichChildren, PartitionsSupExit, PartitionsSupShutdown,
       PartitionsSupEnds, TimerFires, sups, env
<1>16. CASE UNCHANGED vars
  BY <1>1, <1>16 DEF vars, sups, env
<1> QED
  BY <1>1, <1>2, <1>3, <1>4, <1>5, <1>6, <1>7, <1>8, <1>9, <1>10, <1>11, <1>12, <1>13,
     <1>14, <1>15, <1>16
     DEF Next, CallerNext, ClientNext, TopicsSupNext, PartitionsSupNext

\* No step takes a fault back.
LEMMA FaultsStay == Counted /\ faults' = 0 /\ [Next]_vars => faults = 0
<1> SUFFICES ASSUME Counted, faults' = 0, [Next]_vars PROVE faults = 0
  OBVIOUS
<1>0. faults \in Nat
  BY DEF Counted
<1>1. CASE UNCHANGED <<faults>>
  BY <1>1
<1>2. ASSUME HandleStartProducer \/ HandleGetMetadata
      PROVE  faults = 0
  <2>1. UNCHANGED faults \/ faults' = faults + 1
    BY <1>2 DEF HandleStartProducer, HandleGetMetadata, Fetched
  <2> QED
    BY <2>1, <1>0
<1>3. ASSUME CannotConnect \/ TopicMoves \/ (\E p \in Pids : ProducerEnds(p))
      PROVE  faults = 0
  BY <1>3, <1>0 DEF CannotConnect, ProducerEnds, TopicMoves
<1>4. ASSUME HandleInit \/ HandleQuery \/ HandleStopProducer \/
             (\E c \in Callers : Lookup(c) \/ CheckAlive(c) \/ CallClient(c) \/ CallTopicsSup(c) \/ CallPartitionsSup(c)) \/
             (\E c \in Callers : \E op \in Ops[c], k \in Partitions : Begin(c, op, k))
      PROVE  UNCHANGED <<faults>>
  BY <1>4 DEF Begin, Lookup, CheckAlive, CallClient, CallTopicsSup, CallPartitionsSup,
       HandleInit, Takes, HandleQuery, HandleStopProducer, sups, env
<1>5. ASSUME HandleGetLeaderConnection \/ HandleRegister \/ HandleStop \/
             StopProducerFailed \/ UnknownTopicExpires \/ HandleStartChild \/
             HandleTerminateChild \/ ChildIsDown \/ HandleDeleteChild
      PROVE  UNCHANGED <<faults>>
  BY <1>5 DEF HandleGetLeaderConnection, Takes, HandleRegister, HandleStop, ClientEnds,
       StopProducerFailed, UnknownTopicExpires, HandleStartChild, StartPartitionsSup,
       TopicsSupTakes, HandleTerminateChild, Terminated, ChildIsDown, HandleDeleteChild,
       sups, env
<1>6. ASSUME TopicsSupWhichChildren \/ TopicsSupExit \/ TopicsSupDelayedRestart \/
             TopicsSupShutdown \/ TopicsSupEnds \/ HandlePostInit \/ LookupCount \/
             StartProducers \/ PartitionsSupWhichChildren
      PROVE  UNCHANGED <<faults>>
  BY <1>6 DEF TopicsSupWhichChildren, TopicsSupTakes, TopicsSupExit,
       TopicsSupDelayedRestart, StartPartitionsSup, TopicsSupShutdown, TopicsSupEnds,
       HandlePostInit, PartitionsSupTakes, LookupCount, StartProducers, Start,
       PartitionsSupWhichChildren, sups, env
<1>7. ASSUME PartitionsSupExit \/ PartitionsSupDelayedRestart \/ PartitionsSupShutdown \/
             TerminateProducer \/ PartitionsSupEnds \/
             (\E p \in Pids : AskForConnection(p)) \/
             (\E t \in Partitions \cup {Topic} : TimerFires(t))
      PROVE  UNCHANGED <<faults>>
  BY <1>7 DEF PartitionsSupExit, PartitionsSupTakes, PartitionsSupDelayedRestart, Start,
       PartitionsSupShutdown, TerminateProducer, Leaves, Dies, PartitionsSupEnds,
       AskForConnection, TimerFires, sups, env
<1>8. CASE UNCHANGED vars
  BY <1>1, <1>8 DEF vars, sups, env
<1> QED
  BY <1>1, <1>2, <1>3, <1>4, <1>5, <1>6, <1>7, <1>8
     DEF Next, CallerNext, ClientNext, TopicsSupNext, PartitionsSupNext

\* A producer that is answered to a call nobody stops is alive.
LEMMA OkMeans ==
  ASSUME ClientInv, CallInv, AllServe, faults = 0, NoneLost, client # "down",
         NEW c \in Callers, \A p \in Pids : prods[p].st = "left" => p \in callers[c].gone,
         NEW pid, AnswersOk(c, callers[c], pid)
  PROVE  \/ callers[c].at = "start_producer" /\ HandleStartChild /\ child \in {"absent", "pid"}
         \/ pid \in Pids /\ Alive(pid)
         \/ callers[c].at \in {"stop_producer", "get_metadata", "stop"}
<1> DEFINE a == callers[c]
<1>1. /\ CallersTyped /\ LeftIsCleared /\ EndsComeFirst /\ TypeOK
  BY DEF CallInv, ClientInv
<1>2. a.at = "lookup_again" /\ a.part \in Partitions /\ table[a.part] \in Pids
        => Alive(table[a.part])
  <2> SUFFICES ASSUME a.at = "lookup_again", a.part \in Partitions, table[a.part] \in Pids
               PROVE  Alive(table[a.part])
    OBVIOUS
  <2>1. prods[table[a.part]].st \in {"idle", "busy", "left"}
    BY <1>1 DEF LeftIsCleared, Born, NoneLost, TypeOK
  <2>2. ASSUME prods[table[a.part]].st = "left"
        PROVE  FALSE
    <3>1. table[a.part] \in a.gone
      BY <2>2
    <3>2. Deregisters(table[a.part], 0)
      BY <1>1, <2>2 DEF LeftIsCleared
    <3>3. \A i \in 1..Len(cbox) : ~EndOf(cbox[i], table[a.part])
      BY <1>1, <3>1 DEF EndsComeFirst
    <3> QED
      BY <3>2, <3>3 DEF Deregisters, EndOf
  <2> QED
    BY <2>1, <2>2 DEF Alive
<1>3. psup = "up" /\ kids # <<>> /\ a.part \in Partitions =>
        kids[a.part] \in Pids /\ Alive(kids[a.part])
  BY DEF AllServe
<1>4. AnswersOk(c, a, pid)
  OBVIOUS
<1> HIDE DEF a
<1>5. \/ a.at = "start_producer" /\ HandleStartChild /\ child \in {"absent", "pid"}
      \/ pid \in Pids /\ Alive(pid)
      \/ a.at \in {"stop_producer", "get_metadata", "stop"}
  BY <1>2, <1>3, <1>4 DEF AnswersOk
<1> QED
  BY <1>5 DEF a

\* A call is calm from its beginning, or not at all.
LEMMA CalmStep ==
  ASSUME ClientInv, CallInv, [Next]_vars, \A d \in Callers : StaysCalm(callers[d]),
         NEW c \in Callers, Calm(callers'[c])
  PROVE  /\ Calm(callers[c]) \/ Begins(c)
         /\ callers'[c].started /\ ~callers[c].started =>
              callers[c].at # "idle" /\ Answered(c, callers[c], callers'[c])
         /\ Quiet /\ Quiet'
<1> DEFINE a == callers[c]
           b == callers'[c]
<1>0. CallersTyped /\ Rounds
  BY RoundsStep DEF CallInv
<1>1. Round(c, a, b)
  BY <1>0 DEF Rounds
<1>2. ASSUME Begins(c)
      PROVE  /\ b.started => a.started
             /\ b.stopped <=> \E e \in Callers : StopsNow(e)
  BY <1>0, <1>2, BeginEffects DEF Begins
<1>3. Calm(b)
  OBVIOUS
<1> HIDE DEF a, b
<1>4. Calm(a) \/ Begins(c)
  BY <1>1, <1>3 DEF Round, Rests, GoesOn, Goes, Answered, IsAnswered, Calm
<1>5. b.started /\ ~a.started => a.at # "idle" /\ Answered(c, a, b)
  BY <1>1, <1>2 DEF Round, Rests, GoesOn, Goes
<1>6. Quiet
  <2>1. CASE Calm(a)
    BY <2>1 DEF StaysCalm, a
  <2>2. CASE ~Calm(a)
    <3>1. ~b.started /\ ~b.stopped
      BY <1>2, <1>3, <1>4, <2>2 DEF Calm
    <3> QED
      BY <1>2, <1>4, <2>2, <3>1 DEF Quiet
  <2> QED
    BY <2>1, <2>2
<1>7. ASSUME NEW d \in Callers, Stops(callers'[d].at)
      PROVE  FALSE
  <2>1. Round(d, callers[d], callers'[d]) /\ ~Stops(callers[d].at)
    BY <1>0, <1>6 DEF Rounds, Quiet, StopsNow
  <2>2. Begins(d)
    BY <1>7, <2>1 DEF Round, Rests, GoesOn, Goes, Answered, IsAnswered, Stops
  <2>3. PICK op \in Ops[d], k \in Partitions : Begin(d, op, k)
    BY <2>2 DEF Begins
  <2>4. Stops(op)
    BY <1>0, <1>7, <2>3, BeginEffects DEF Stops
  <2>5. CASE d = c
    BY <1>0, <1>3, <2>3, <2>4, <2>5, BeginEffects DEF Calm, Stops, b
  <2>6. CASE d # c
    BY <1>0, <1>3, <2>3, <2>4, <2>6, BeginEffects DEF Calm, b
  <2> QED
    BY <2>5, <2>6
<1>8. Quiet'
  BY <1>7 DEF Quiet, StopsNow
<1> QED
  BY <1>4, <1>5, <1>6, <1>8 DEF a, b

\* Each step serves the callers well.
LEMMA ServedStep == ClientInv /\ CallInv /\ Counted /\ AllServe /\ Served /\ [Next]_vars => Served'
<1> SUFFICES ASSUME ClientInv, CallInv, Counted, AllServe, Served, [Next]_vars,
                    faults' = 0, NoneLost', NEW c \in Callers
             PROVE  WellServed(callers[c])'
  BY DEF Served
<1> DEFINE a == callers[c]
           b == callers'[c]
<1>0. /\ CallersTyped /\ CallProgress /\ InOrder(a) /\ Rounds
  BY RoundsStep DEF CallInv, CallProgress
<1>1. /\ faults = 0 /\ NoneLost
      /\ \A d \in Callers : WellServed(callers[d])
  <2>1. faults = 0
    BY FaultsStay
  <2>2. NoneLost
    <3>1. LivesGoOn
      BY BornStep DEF ClientInv
    <3> QED
      BY <3>1 DEF LivesGoOn, NoneLost
  <2> QED
    BY <2>1, <2>2 DEF Served
<1>2. WellServed(a) /\ (\A d \in Callers : StaysCalm(callers[d]))
  BY <1>1 DEF WellServed
<1>3. Round(c, a, b)
  BY <1>0 DEF Rounds
<1>4. Calm(b) => /\ Calm(a) \/ Begins(c)
                 /\ b.started /\ ~a.started => a.at # "idle" /\ Answered(c, a, b)
                 /\ Quiet /\ Quiet'
  BY <1>2, CalmStep
<1>5. Calm(b) /\ client # "down" => NothingEnds
  BY <1>4, QuietStep
<1>6. client' # "down" => client # "down"
  BY DownStays
<1>7. ASSUME Begins(c)
      PROVE  \E op \in OpNames :
               /\ b.op = op /\ b.gone = {p \in Pids : prods[p].st = "left"}
               /\ b.at = IF op \in {"get", "start_producer"} THEN "lookup" ELSE op
               /\ b.started => a.started
  BY <1>0, <1>7, BeginEffects DEF Begins
<1>8. Calm(a) /\ a.at # "idle" =>
        /\ client # "down" => \A p \in Pids : prods[p].st = "left" => p \in a.gone
        /\ a.at # "lookup" => client # "down"
  BY <1>2 DEF WellServed, KnowsTheGone, FindsTheClient
<1>9. ASSUME Calm(a), a.at # "idle", a.at # "lookup", NEW pid, AnswersOk(c, a, pid)
      PROVE  \/ a.at = "start_producer" /\ HandleStartChild /\ child \in {"absent", "pid"}
             \/ pid \in Pids /\ Alive(pid)
             \/ a.at \in {"stop_producer", "get_metadata", "stop"}
  BY <1>1, <1>8, <1>9, OkMeans
<1>10. (StaysCalm(callers[c]))'
  BY <1>4 DEF StaysCalm
<1>11. /\ KnowsTheGone(a) /\ FindsTheClient(a) /\ FindsTheChild(a) /\ FindsItAlive(a)
       /\ InOrder(a)
  BY <1>0, <1>2 DEF WellServed
<1> HIDE DEF a, b
<1>12. b.started /\ a.started =>
         Calm(a) /\ Calm(b) /\ client # "down" /\ child = "pid" /\ tsup = "up" /\ NothingEnds
  BY <1>5, <1>11 DEF Calm, FindsTheChild
<1>13. ASSUME Calm(b), b.at # "idle", client' # "down", NEW p \in Pids, prods'[p].st = "left"
       PROVE  p \in b.gone
  <2>1. client # "down" /\ prods[p].st = "left"
    BY <1>5, <1>6, <1>13 DEF NothingEnds
  <2>2. CASE Begins(c)
    BY <1>7, <2>1, <2>2
  <2>3. CASE ~Begins(c)
    BY <1>3, <1>4, <1>8, <1>13, <2>1, <2>3
       DEF Round, Rests, SameCall, GoesOn, Goes, Answered, IsAnswered
  <2> QED
    BY <2>2, <2>3
<1>14. ASSUME Calm(b), b.at \notin {"idle", "lookup"}
       PROVE  client' # "down"
  <2>1. CASE Begins(c)
    <3>1. b.started /\ a.started
      BY <1>7, <1>14, <2>1 DEF Calm
    <3> QED
      BY <1>12, <3>1 DEF NothingEnds
  <2>2. CASE ~Begins(c)
    <3>1. client # "down"
      BY <1>3, <1>4, <1>8, <1>14, <2>2
         DEF Round, Rests, GoesOn, Goes, Answered, IsAnswered
    <3> QED
      BY <1>5, <1>14, <3>1 DEF NothingEnds
  <2> QED
    BY <2>1, <2>2
<1>15. ASSUME b.started
       PROVE  /\ client' # "down" /\ child' = "pid" /\ tsup' = "up"
              /\ b.at \notin {"start_producer", "auto_start_producer"}
  <2>1. Calm(b)
    BY <1>15 DEF Calm
  <2>2. CASE a.started
    <3>1. client' # "down" /\ child' = "pid" /\ tsup' = "up" /\ child = "pid"
      BY <1>12, <1>15, <2>2 DEF NothingEnds
    <3>2. a.at \notin {"start_producer", "auto_start_producer"}
      BY <1>11, <2>2 DEF FindsTheChild
    <3>3. b.at \notin {"start_producer", "auto_start_producer"}
      BY <1>3, <1>7, <3>1, <3>2 DEF Round, Rests, GoesOn, Goes, Answered, IsAnswered, OpNames
    <3> QED
      BY <3>1, <3>3
  <2>3. CASE ~a.started
    <3>1. a.at # "idle" /\ Answered(c, a, b)
      BY <1>4, <1>15, <2>1, <2>3
    <3>2. PICK pid : /\ a.op = "start_producer" /\ ~a.stopped /\ b.at = "idle"
                     /\ AnswersOk(c, a, pid)
      BY <1>15, <2>3, <3>1 DEF Answered, IsAnswered
    <3>3. Calm(a) /\ a.at # "lookup"
      BY <3>1, <3>2 DEF Calm, AnswersOk
    <3>4. client # "down" /\ Quiet
      BY <1>4, <1>8, <2>1, <3>1, <3>3
    <3>5. NothingEnds
      BY <1>5, <2>1, <3>4
    <3>6. CASE HandleStartChild /\ child \in {"absent", "pid"}
      BY <3>2, <3>6 DEF HandleStartChild, StartPartitionsSup, TopicsSupTakes
    <3>7. CASE pid \in Pids /\ Alive(pid)
      <4>1. child = "pid" /\ tsup = "up"
        BY <3>4, <3>7, QuietState DEF CallInv
      <4> QED
        BY <3>2, <3>5, <4>1 DEF NothingEnds
    <3>8. a.at \notin {"stop_producer", "get_metadata", "stop"}
      BY <1>11, <3>2 DEF InOrder
    <3> QED
      BY <1>9, <3>1, <3>2, <3>3, <3>6, <3>7, <3>8
  <2> QED
    BY <2>2, <2>3
<1>16. ASSUME b.started, b.at = "idle"
       PROVE  /\ b.op \in {"get", "get_again", "start_producer"} => b.answer = "ok"
              /\ b.op \in {"get", "get_again"} =>
                   b.pid \in Pids /\ prods'[b.pid].st \in {"idle", "busy"}
  <2>1. Calm(b) /\ client' # "down"
    BY <1>15, <1>16 DEF Calm
  <2>2. CASE a.at = "idle"
    <3>1. ~Begins(c)
      BY <1>7, <1>16 DEF OpNames
    <3>2. Rests(a, b)
      BY <1>3, <2>2, <3>1 DEF Round
    <3>3. a.started /\ b.op = a.op /\ b.pid = a.pid /\ b.answer = a.answer
      BY <1>16, <3>2 DEF Rests
    <3> QED
      BY <1>11, <1>12, <1>16, <2>2, <3>3 DEF FindsItAlive, NothingEnds
  <2>3. CASE a.at # "idle"
    <3>1. ~Begins(c) /\ ~Rests(a, b) /\ ~GoesOn(c, a, b)
      BY <1>7, <1>16, <2>3 DEF Rests, GoesOn, Goes, OpNames
    <3>2. PICK answer, pid : /\ IsAnswered(a, b, answer, pid)
                             /\ answer = "ok" => AnswersOk(c, a, pid)
                             /\ answer # "ok" => AnswersNo(a, answer) /\ pid = Nobody
      BY <1>3, <3>1 DEF Round, Answered
    <3>3. b.op = a.op /\ b.answer = answer /\ b.pid = pid
      BY <3>2 DEF IsAnswered
    <3>4. CASE answer = "ok"
      <4>1. a.at # "lookup" /\ AnswersOk(c, a, pid)
        BY <3>2, <3>4 DEF AnswersOk
      <4>2. Calm(a)
        BY <1>4, <2>1, <3>1
      <4>3. NothingEnds
        BY <1>5, <1>6, <2>1
      <4>4. a.op \in {"get", "get_again"} => pid \in Pids /\ Alive(pid)
        BY <1>9, <1>11, <2>3, <4>1, <4>2 DEF InOrder
      <4> QED
        BY <3>3, <3>4, <4>3, <4>4 DEF NothingEnds
    <3>5. CASE answer # "ok"
      <4> SUFFICES ASSUME a.op \in {"get", "get_again", "start_producer"}
                   PROVE  FALSE
        BY <3>3
      <4>1. a.started /\ AnswersNo(a, answer)
        BY <1>16, <3>2, <3>5 DEF IsAnswered
      <4>2. /\ client # "down" /\ child = "pid" /\ tsup = "up"
            /\ psup \notin {"down", "failed", "terminate"}
        BY <1>1, <1>12, <1>16, <4>1 DEF Counted
      <4>3. ~CannotConnect /\ ~HandleStop /\ ~StopProducerFailed
        BY <2>1 DEF CannotConnect, HandleStop, StopProducerFailed, ClientEnds
      <4>4. a.at \notin {"start_producer", "auto_start_producer", "get_metadata"}
        BY <1>11, <4>1 DEF InOrder, FindsTheChild
      <4> QED
        BY <4>1, <4>2, <4>3, <4>4 DEF AnswersNo
    <3> QED
      BY <3>4, <3>5
  <2> QED
    BY <2>2, <2>3
<1>17. b = callers'[c] /\ a = callers[c]
  BY DEF a, b
<1>18. (KnowsTheGone(callers[c]))' /\ (FindsTheClient(callers[c]))'
  BY <1>13, <1>14, <1>17 DEF KnowsTheGone, FindsTheClient
<1>19. (FindsTheChild(callers[c]))' /\ (FindsItAlive(callers[c]))'
  BY <1>15, <1>16, <1>17 DEF FindsTheChild, FindsItAlive, Alive
<1> QED
  BY <1>10, <1>18, <1>19 DEF WellServed

LEMMA InitServed == Init => Counted /\ AllServe /\ Served
<1> SUFFICES ASSUME Init PROVE Counted /\ AllServe /\ Served
  OBVIOUS
<1>1. /\ faults = 0 /\ tsup = "none" /\ child = "absent" /\ psup = "down" /\ count = "none"
      /\ client = "up"
      /\ \A c \in Callers : callers[c].op = "none" /\ ~callers[c].started
  BY DEF Init
<1>2. \A c \in Callers : ~Calm(callers[c])
  BY <1>1 DEF Calm
<1> QED
  BY <1>1, <1>2 DEF Counted, AllServe, Served, WellServed, StaysCalm, KnowsTheGone, FindsTheClient,
                    FindsTheChild, FindsItAlive

\* A process whose start_producer has returned ok, in a call that nobody
\* stopped, gets a live producer at every later get_producer until somebody
\* stops the topic or the client: unless something failed, or a producer was
\* killed in a stop and stays in the table.
THEOREM FastCallersServed == Spec => []FastCallerIsServed
<1>1. Init => ClientInv /\ CallInv /\ Counted /\ AllServe /\ Served
  BY InitInv, InitCallInv, InitServed
<1>2. ClientInv /\ CallInv /\ Counted /\ AllServe /\ Served /\ [Next]_vars
        => (ClientInv /\ CallInv /\ Counted /\ AllServe /\ Served)'
  BY InvStep, CallInvStep, CountedStep, AllServeStep, ServedStep
<1>3. Served => FastCallerIsServed
  BY DEF Served, NoneLost, WellServed, FindsItAlive, FastCallerIsServed
<1> QED
  BY <1>1, <1>2, <1>3, PTL DEF Spec
=============================================================================
