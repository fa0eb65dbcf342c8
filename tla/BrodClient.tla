----------------------------- MODULE BrodClient -----------------------------
(***************************************************************************)
(* brod's client (brod_client.erl) and the processes that serve            *)
(* get_producer, start_producer and stop_producer with it: the supervisor  *)
(* of all topics and the supervisor of one topic's partitions              *)
(* (brod_producers_sup.erl, run by supervisor3.erl), the producers of that *)
(* topic, and the processes that call the client.                          *)
(*                                                                         *)
(* A live producer is found in the client's table, where it registers with *)
(* a cast; a miss is taken down the supervision tree, one call per level.  *)
(* The client calls the topics' supervisor, which waits for the            *)
(* partitions' supervisor, which calls the client: every call here has     *)
(* timeout infinity.                                                       *)
(*                                                                         *)
(* A process handles its mailbox in order, and a mailbox holds messages in *)
(* the order they were sent (one node).  What a process of brod does at    *)
(* the start of its life while its parent waits is part of the parent's    *)
(* step.  The client is not restarted: its next life shares nothing with   *)
(* this one.                                                               *)
(***************************************************************************)
EXTENDS Integers, Sequences, FiniteSets, Functions

CONSTANTS
  Callers,
  Ops,           \* what each of them calls, some of OpNames
  NumPartitions, \* of the topic
  AutoStart,     \* auto_start_producers
  MaxOps,        \* bound: calls made
  MaxFaults      \* bound: ends of producers, failed requests and connection
                 \*   attempts, creations and deletions of the topic

OpNames == {"get", "start_producer", "stop_producer", "get_metadata", "stop"}
Partitions == 1..NumPartitions
Pids == 1..(NumPartitions * (MaxOps + MaxFaults + 1))   \* of producers

ASSUME ClientAssumption ==
  /\ Ops \in [Callers -> SUBSET OpNames]
  /\ AutoStart \in BOOLEAN
  /\ NumPartitions \in Nat \ {0} /\ {MaxOps, MaxFaults} \subseteq Nat
  /\ Callers \cap (Pids \cup {0, -2}) = {}   \* nor Nobody, nor Sup

Nobody == 0        \* no process
Restarting == -1   \* what which_children says of a child whose restart is delayed
Sup == -2          \* the partitions' supervisor, as a caller of the client
Topic == 0         \* its restart timer, next to those of the partitions

VARIABLES
  client,   \* "up", "down", the call to the topics' supervisor it waits for,
            \*   or "badmatch" when the last of them did not answer ok
  serving,  \* the caller that made it wait
  cbox,     \* the client's mailbox
  table,    \* workers_tab: the pid registered for each partition, or Nobody
  count,    \* workers_tab: partitions of the topic, "unknown" or "none"
  tsup,     \* topics' supervisor: "none" yet, "up", "down", or waiting for its child
            \*   to end in "terminate_child" or "terminate"
  tbox,
  child,    \* its child, the partitions' supervisor: "absent", "undefined",
            \*   "restarting" after a delay, or "pid" when it has been started
  psup,     \* partitions' supervisor: "down", "up", "terminate", or in post_init:
            \*   "get_workers_table" and "get_metadata" wait for the client,
            \*   "lookup" reads its table, "counted" and "failed" know the outcome
  pbox,
  kids,     \* its children
  timers,   \* running delayed restarts
  prods,    \* [part, st]: st is "unborn", "idle", "busy" in a call, "left" or "lost"
  callers,
  exists,   \* does the broker know the topic?
  ops, faults

sups == <<tsup, tbox, child, psup, pbox, kids, timers>>
env == <<exists, ops, faults>>
vars == <<client, serving, cbox, table, count, sups, prods, callers, env>>

Alive(p) == prods[p].st \in {"idle", "busy"}
EmptyTable == [k \in Partitions |-> Nobody]
Message(what, from) == [what |-> what, from |-> from]

Init ==
  /\ client = "up" /\ serving = Nobody /\ cbox = <<Message("init", Nobody)>>
  /\ table = EmptyTable /\ count = "none"
  /\ tsup = "none" /\ tbox = <<>> /\ child = "absent"
  /\ psup = "down" /\ pbox = <<>> /\ kids = <<>> /\ timers = {}
  /\ prods = [p \in Pids |-> [part |-> 1, st |-> "unborn"]]
  /\ callers = [c \in Callers |->
       [op |-> "none", part |-> 1, at |-> "idle", waits |-> FALSE, pid |-> Nobody,
        answer |-> "none", gone |-> {}, stopped |-> FALSE, started |-> FALSE]]
  /\ exists \in BOOLEAN
  /\ ops = 0 /\ faults = 0

(***************************************************************************)
(* Callers.  at is the call that a caller makes next, or waits for: "idle" *)
(* outside brod, a local read of the table ("lookup", "lookup_again"),     *)
(* a test of a pid ("is_process_alive"), a call to the client, or one to   *)
(* "topics_sup" or "partitions_sup".  gone are the producers that had      *)
(* deregistered and ended when it began; stopped, that a stop was under    *)
(* way then or has been called since; started, that a start_producer of it *)
(* has returned ok and nobody has called a stop since that call began.     *)
(***************************************************************************)
GoTo(c, at) == [callers EXCEPT ![c].at = at, ![c].waits = FALSE]
Waits(c) == [callers EXCEPT ![c].waits = TRUE]

Returns(c, answer, pid) ==
  [callers EXCEPT ![c].at = "idle", ![c].waits = FALSE,
                  ![c].answer = answer, ![c].pid = pid, ![c].stopped = FALSE,
                  ![c].started = @ \/ /\ answer = "ok" /\ callers[c].op = "start_producer"
                                      /\ ~callers[c].stopped]

\* get_partition_worker has answered: what get_producer and start_producer do next.
WorkerIs(c, answer, pid) ==
  CASE answer = "topic_not_found" /\ callers[c].op = "start_producer" ->
         GoTo(c, "start_producer")
    [] answer = "topic_not_found" /\ callers[c].op = "get" -> GoTo(c, "auto_start_producer")
    [] OTHER -> Returns(c, answer, pid)

\* The answer of the client to a caller.
Replied(c, reply) ==
  IF reply = "client_down" THEN Returns(c, reply, Nobody) ELSE
  CASE callers[c].at = "get_workers_table" -> GoTo(c, "lookup_again")
    [] callers[c].at = "get_producers_sup_pid" -> GoTo(c, "topics_sup")
    [] callers[c].at = "auto_start_producer" /\ reply = "ok" ->
         [GoTo(c, "lookup") EXCEPT ![c].op = "get_again"]
    [] OTHER -> Returns(c, reply, Nobody)

Stops(op) == op \in {"stop_producer", "stop"}
StopsNow(d) == Stops(callers[d].at)

Begin(c, op, k) ==
  /\ callers[c].at = "idle" /\ ops < MaxOps
  /\ callers' = [d \in Callers |-> IF d = c
       THEN [op |-> op, part |-> IF op = "get" THEN k ELSE 1,
             at |-> IF op \in {"get", "start_producer"} THEN "lookup" ELSE op,
             waits |-> FALSE, pid |-> Nobody, answer |-> "none",
             gone |-> {p \in Pids : prods[p].st = "left"},
             stopped |-> \E e \in Callers : StopsNow(e),
             started |-> callers[c].started /\ ~Stops(op)]
       ELSE [callers[d] EXCEPT !.stopped = callers[d].at # "idle" /\ (@ \/ Stops(op)),
                               !.started = @ /\ ~Stops(op)]]
  /\ ops' = ops + 1
  /\ UNCHANGED <<client, serving, cbox, table, count, sups, prods, exists, faults>>

\* lookup_partition_worker: the table goes with the client.
Lookup(c) ==
  LET found == table[callers[c].part] IN
  /\ callers[c].at \in {"lookup", "lookup_again"}
  /\ callers' =
       CASE client = "down" -> WorkerIs(c, "client_down", Nobody)
         [] client # "down" /\ found = Nobody -> GoTo(c, "get_producers_sup_pid")
         [] client # "down" /\ found # Nobody /\ callers[c].at = "lookup" ->
              [GoTo(c, "is_process_alive") EXCEPT ![c].pid = found]
         [] OTHER -> WorkerIs(c, "ok", found)
  /\ UNCHANGED <<client, serving, cbox, table, count, sups, prods, env>>

CheckAlive(c) ==
  /\ callers[c].at = "is_process_alive"
  /\ callers' = IF Alive(callers[c].pid) THEN WorkerIs(c, "ok", callers[c].pid)
                                         ELSE GoTo(c, "get_workers_table")
  /\ UNCHANGED <<client, serving, cbox, table, count, sups, prods, env>>

ClientCalls == {"get_workers_table", "get_producers_sup_pid", "start_producer",
                "auto_start_producer", "stop_producer", "get_metadata", "stop"}

\* safe_gen_call
CallClient(c) ==
  /\ callers[c].at \in ClientCalls /\ ~callers[c].waits
  /\ IF client = "down"
     THEN callers' = Replied(c, "client_down") /\ UNCHANGED cbox
     ELSE callers' = Waits(c) /\ cbox' = Append(cbox, Message(callers[c].at, c))
  /\ UNCHANGED <<client, serving, table, count, sups, prods, env>>

\* find_child of the topics' supervisor: nothing catches the exit when it has ended.
CallTopicsSup(c) ==
  /\ callers[c].at = "topics_sup" /\ ~callers[c].waits
  /\ IF tsup = "down"
     THEN callers' = Returns(c, "exit", Nobody) /\ UNCHANGED tbox
     ELSE callers' = Waits(c) /\ tbox' = Append(tbox, Message("which_children", c))
  /\ UNCHANGED <<client, serving, cbox, table, count, tsup, child, psup, pbox, kids,
                 timers, prods, env>>

CallPartitionsSup(c) ==
  /\ callers[c].at = "partitions_sup" /\ ~callers[c].waits
  /\ pbox' = Append(pbox, Message("which_children", c))
  /\ callers' = Waits(c)
  /\ UNCHANGED <<client, serving, cbox, table, count, tsup, tbox, child, psup, kids,
                 timers, prods, env>>

(***************************************************************************)
(* The client.                                                             *)
(***************************************************************************)
\* Mutant of ClientEnds: leaves the supervisors running.
ClientEndsAlone(answered) ==
  LET asked == {cbox[i].from : i \in DOMAIN cbox} \cup {serving} IN
  /\ client' = "down" /\ serving' = Nobody /\ cbox' = <<>>
  /\ table' = EmptyTable /\ count' = "none"
  /\ callers' = [c \in Callers |->
       IF c = answered THEN Returns(c, "ok", Nobody)[c]
       ELSE IF c \in asked THEN Replied(c, "client_down")[c] ELSE callers[c]]
  /\ prods' = [p \in Pids |-> IF prods[p].st = "busy" THEN [prods[p] EXCEPT !.st = "idle"]
                                                      ELSE prods[p]]
  /\ psup' = IF Sup \in asked THEN "failed" ELSE psup
  /\ IF tsup = "none" THEN tsup' = "down" /\ UNCHANGED tbox
                     ELSE UNCHANGED <<tbox, tsup>>
  /\ UNCHANGED <<child, pbox, kids, timers, exists, ops>>

\* The client ends, with its table; whoever waits for it learns so.
\* terminate/2 tells the topics' supervisor to shut down.
ClientEnds(answered) ==
  LET asked == {cbox[i].from : i \in DOMAIN cbox} \cup {serving} IN
  /\ client' = "down" /\ serving' = Nobody /\ cbox' = <<>>
  /\ table' = EmptyTable /\ count' = "none"
  /\ callers' = [c \in Callers |->
       IF c = answered THEN Returns(c, "ok", Nobody)[c]
       ELSE IF c \in asked THEN Replied(c, "client_down")[c] ELSE callers[c]]
  /\ prods' = [p \in Pids |-> IF prods[p].st = "busy" THEN [prods[p] EXCEPT !.st = "idle"]
                                                      ELSE prods[p]]
  /\ psup' = IF Sup \in asked THEN "failed" ELSE psup
  /\ IF tsup = "none" THEN tsup' = "down" /\ UNCHANGED tbox
                     ELSE tbox' = Append(tbox, Message("shutdown", Nobody)) /\ UNCHANGED tsup
  /\ UNCHANGED <<child, pbox, kids, timers, exists, ops>>

Takes(what) ==
  client = "up" /\ cbox # <<>> /\ Head(cbox).what = what

\* handle_info(init): connects, then starts the supervisors.
HandleInit ==
  /\ Takes("init")
  /\ cbox' = Tail(cbox) /\ tsup' = "up"
  /\ UNCHANGED <<client, serving, table, count, tbox, child, psup, pbox, kids, timers,
                 prods, callers, env>>

\* ensure_metadata_connection: no endpoint can be reached, and the client exits.
CannotConnect ==
  /\ \/ Takes("init") \/ Takes("get_metadata") \/ Takes("get_leader_connection")
     \/ (Takes("start_producer") /\ count = "none")
     \/ (Takes("auto_start_producer") /\ AutoStart /\ count = "none")
  /\ faults < MaxFaults /\ faults' = faults + 1
  /\ ClientEnds(Nobody)

HandleQuery ==
  /\ Takes("get_workers_table") \/ Takes("get_producers_sup_pid")
  /\ cbox' = Tail(cbox)
  /\ IF Head(cbox).from = Sup THEN psup' = "lookup" /\ UNCHANGED callers
     ELSE callers' = Replied(Head(cbox).from, "ok") /\ UNCHANGED psup
  /\ UNCHANGED <<client, serving, table, count, tsup, tbox, child, pbox, kids, timers,
                 prods, env>>

\* Mutant of Fetched: caches whatever went wrong.
FetchedAnyError(counted, answer) ==
  \/ /\ exists /\ counted = "counted" /\ answer = "ok" /\ UNCHANGED faults
  \/ /\ ~exists /\ counted = "unknown" /\ answer = "ok" /\ UNCHANGED faults
  \/ /\ counted = "request_failed" /\ answer = "request_failed"
     /\ faults < MaxFaults /\ faults' = faults + 1

\* What a metadata request leaves in the cache: an answer, or nothing new.
Fetched(counted, answer) ==
  \/ /\ exists /\ counted = "counted" /\ answer = "ok" /\ UNCHANGED faults
  \/ /\ ~exists /\ counted = "unknown" /\ answer = "ok" /\ UNCHANGED faults
  \/ /\ counted = count /\ answer = "request_failed"
     /\ faults < MaxFaults /\ faults' = faults + 1

\* do_start_producer, up to the call of the topics' supervisor.
HandleStartProducer ==
  /\ Takes("start_producer") \/ Takes("auto_start_producer")
  /\ cbox' = Tail(cbox)
  /\ LET c == Head(cbox).from
         Asks == /\ client' = "start_child" /\ serving' = c
                 /\ tbox' = Append(tbox, Message("start_child", Sup))
                 /\ UNCHANGED callers
         Answers(reply) == /\ callers' = Replied(c, reply)
                           /\ UNCHANGED <<client, serving, tbox>>
     IN IF Takes("auto_start_producer") /\ ~AutoStart
        THEN Answers("topic_not_found") /\ UNCHANGED <<count, faults>>
        ELSE \/ count = "counted" /\ Asks /\ UNCHANGED <<count, faults>>
             \/ count = "unknown" /\ Answers("unknown_topic") /\ UNCHANGED <<count, faults>>
             \/ /\ count = "none"
                /\ \E answer \in {"ok", "request_failed"} :
                     /\ Fetched(count', answer)
                     /\ CASE answer = "request_failed" -> Answers(answer)
                          [] answer = "ok" /\ count' = "counted" -> Asks
                          [] OTHER -> Answers("unknown_topic")
  /\ UNCHANGED <<table, tsup, child, psup, pbox, kids, timers, prods, exists, ops>>

HandleStopProducer ==
  /\ Takes("stop_producer")
  /\ cbox' = Tail(cbox)
  /\ client' = "terminate_child" /\ serving' = Head(cbox).from
  /\ tbox' = Append(tbox, Message("terminate_child", Sup))
  /\ UNCHANGED <<table, count, tsup, child, psup, pbox, kids, timers, prods, callers, env>>

HandleGetMetadata ==
  /\ Takes("get_metadata")
  /\ cbox' = Tail(cbox)
  /\ \E answer \in {"ok", "request_failed"} :
       /\ Fetched(count', answer)
       /\ IF Head(cbox).from = Sup
          THEN /\ psup' = IF answer = "ok" /\ count' = "counted" THEN "counted" ELSE "failed"
               /\ UNCHANGED callers
          ELSE callers' = Replied(Head(cbox).from, answer) /\ UNCHANGED psup
  /\ UNCHANGED <<client, serving, table, tsup, tbox, child, pbox, kids, timers, prods,
                 exists, ops>>

\* For the producer the answer is a connection or an error: it goes on.
HandleGetLeaderConnection ==
  /\ Takes("get_leader_connection")
  /\ cbox' = Tail(cbox)
  /\ LET p == Head(cbox).from IN
       prods' = IF prods[p].st = "busy" THEN [prods EXCEPT ![p].st = "idle"] ELSE prods
  /\ UNCHANGED <<client, serving, table, count, sups, callers, env>>

\* Mutant of HandleRegister: inserts a pid only where there is none.
HandleRegisterOnce ==
  /\ Takes("register") \/ Takes("deregister")
  /\ cbox' = Tail(cbox)
  /\ LET p == Head(cbox).from IN
       table' = [table EXCEPT ![prods[p].part] =
                   IF Takes("register") THEN (IF @ = Nobody THEN p ELSE @) ELSE Nobody]
  /\ UNCHANGED <<client, serving, count, sups, prods, callers, env>>

HandleRegister ==
  /\ Takes("register") \/ Takes("deregister")
  /\ cbox' = Tail(cbox)
  /\ LET p == Head(cbox).from IN
       table' = [table EXCEPT ![prods[p].part] = IF Takes("register") THEN p ELSE Nobody]
  /\ UNCHANGED <<client, serving, count, sups, prods, callers, env>>

HandleStop ==
  /\ Takes("stop")
  /\ ClientEnds(Head(cbox).from)
  /\ UNCHANGED faults

\* The cached unknown_topic_or_partition is older than 120 seconds.
UnknownTopicExpires ==
  /\ count = "unknown" /\ count' = "none"
  /\ UNCHANGED <<client, serving, cbox, table, sups, prods, callers, env>>

\* ok = brod_producers_sup:stop_producer(...), and it was not.
StopProducerFailed ==
  /\ client = "badmatch"
  /\ ClientEnds(Nobody)
  /\ UNCHANGED faults

(***************************************************************************)
(* The supervisor of all topics.                                           *)
(***************************************************************************)
TopicsSupTakes(what) ==
  tsup = "up" /\ tbox # <<>> /\ Head(tbox).what = what

\* supervisor3:start_link returns before post_init is called.
StartPartitionsSup ==
  /\ child' = "pid" /\ psup' = "up" /\ kids' = <<>>
  /\ pbox' = <<Message("post_init", Topic)>>

HandleStartChild ==
  /\ TopicsSupTakes("start_child")
  /\ tbox' = Tail(tbox)
  /\ IF child = "absent" THEN StartPartitionsSup ELSE UNCHANGED <<child, psup, pbox, kids>>
  /\ client' = "up" /\ serving' = Nobody
  /\ callers' = Replied(serving, IF child \in {"absent", "pid"} THEN "ok" ELSE "already_present")
  /\ UNCHANGED <<cbox, table, count, tsup, timers, prods, env>>

\* The client has its answer and sends delete_child.
Terminated(box) ==
  tbox' = Append(box, Message("delete_child", Sup)) /\ client' = "delete_child"

\* monitor_child takes the first EXIT of its child out of the mailbox.
WithoutExit(box) ==
  LET exits == {i \in DOMAIN box : box[i].what = "EXIT"}
      first == CHOOSE i \in exits : \A j \in exits : i <= j
  IN IF exits = {} THEN box
     ELSE SubSeq(box, 1, first - 1) \o SubSeq(box, first + 1, Len(box))

\* Mutant of HandleTerminateChild: does not wait for the child to end.
HandleTerminateChildAsync ==
  /\ TopicsSupTakes("terminate_child")
  /\ Terminated(Tail(tbox))
  /\ child' = IF child = "absent" THEN child ELSE "undefined"
  /\ timers' = timers \ {Topic}
  /\ pbox' = IF psup = "down" THEN pbox ELSE Append(pbox, Message("shutdown", Topic))
  /\ UNCHANGED <<serving, cbox, table, count, tsup, psup, kids, prods, callers, env>>

HandleTerminateChild ==
  /\ TopicsSupTakes("terminate_child")
  /\ IF child = "pid" /\ psup # "down"
     THEN /\ tsup' = "terminate_child" /\ tbox' = Tail(tbox)
          /\ pbox' = Append(pbox, Message("shutdown", Topic))
          /\ UNCHANGED <<client, child, timers>>
     ELSE /\ Terminated(WithoutExit(Tail(tbox)))
          /\ child' = IF child = "absent" THEN child ELSE "undefined"
          /\ timers' = timers \ {Topic}
          /\ UNCHANGED <<tsup, pbox>>
  /\ UNCHANGED <<serving, cbox, table, count, psup, kids, prods, callers, env>>

ChildIsDown ==
  /\ tsup = "terminate_child" /\ psup = "down"
  /\ tsup' = "up" /\ child' = "undefined"
  /\ Terminated(tbox)
  /\ UNCHANGED <<serving, cbox, table, count, psup, pbox, kids, timers, prods, callers, env>>

HandleDeleteChild ==
  /\ TopicsSupTakes("delete_child")
  /\ tbox' = Tail(tbox)
  /\ IF child = "undefined"
     THEN /\ child' = "absent" /\ client' = "up" /\ serving' = Nobody
          /\ callers' = Replied(serving, "ok")
     ELSE client' = "badmatch" /\ UNCHANGED <<child, serving, callers>>
  /\ UNCHANGED <<cbox, table, count, tsup, psup, pbox, kids, timers, prods, env>>

\* Mutant of TopicsSupWhichChildren: does not wait for children yet to be counted.
TopicsSupWhichChildrenYet ==
  /\ TopicsSupTakes("which_children")
  /\ tbox' = Tail(tbox)
  /\ LET c == Head(tbox).from IN
       callers' = CASE child = "absent" -> WorkerIs(c, "topic_not_found", Nobody)
                    [] child = "pid" /\ psup # "down" /\ kids = <<>> ->
                         WorkerIs(c, "partition_not_found", Nobody)
                    [] child = "pid" /\ psup # "down" /\ kids # <<>> -> GoTo(c, "partitions_sup")
                    [] OTHER -> WorkerIs(c, "producer_down", Nobody)
  /\ UNCHANGED <<client, serving, cbox, table, count, tsup, child, psup, pbox, kids,
                 timers, prods, env>>

\* find_producer: the call of a child that is no process or has ended exits,
\* and that exit is caught.
TopicsSupWhichChildren ==
  /\ TopicsSupTakes("which_children")
  /\ tbox' = Tail(tbox)
  /\ LET c == Head(tbox).from IN
       callers' = CASE child = "absent" -> WorkerIs(c, "topic_not_found", Nobody)
                    [] child = "pid" /\ psup # "down" -> GoTo(c, "partitions_sup")
                    [] OTHER -> WorkerIs(c, "producer_down", Nobody)
  /\ UNCHANGED <<client, serving, cbox, table, count, tsup, child, psup, pbox, kids,
                 timers, prods, env>>

TopicsSupExit ==
  /\ TopicsSupTakes("EXIT")
  /\ tbox' = Tail(tbox)
  /\ child' = "restarting" /\ timers' = timers \cup {Topic}
  /\ UNCHANGED <<client, serving, cbox, table, count, tsup, psup, pbox, kids, prods,
                 callers, env>>

\* Whatever the child's pid is by now, it is started if it is known.
TopicsSupDelayedRestart ==
  /\ TopicsSupTakes("delayed_restart")
  /\ tbox' = Tail(tbox)
  /\ IF child = "absent" THEN UNCHANGED <<child, psup, pbox, kids>> ELSE StartPartitionsSup
  /\ UNCHANGED <<client, serving, cbox, table, count, tsup, timers, prods, callers, env>>

TopicsSupShutdown ==
  /\ TopicsSupTakes("shutdown")
  /\ tsup' = "terminate" /\ tbox' = Tail(tbox)
  /\ timers' = timers \ {Topic}
  /\ pbox' = IF psup = "down" THEN pbox ELSE Append(pbox, Message("shutdown", Topic))
  /\ UNCHANGED <<client, serving, cbox, table, count, child, psup, kids, prods, callers, env>>

TopicsSupEnds ==
  /\ tsup = "terminate" /\ psup = "down"
  /\ tsup' = "down" /\ tbox' = <<>>
  /\ callers' = [c \in Callers |-> IF callers[c].at = "topics_sup" /\ callers[c].waits
                                   THEN Returns(c, "exit", Nobody)[c] ELSE callers[c]]
  /\ UNCHANGED <<client, serving, cbox, table, count, child, psup, pbox, kids, timers,
                 prods, env>>

(***************************************************************************)
(* The supervisor of the topic's partitions.                               *)
(***************************************************************************)
PartitionsSupTakes(what) ==
  psup = "up" /\ pbox # <<>> /\ Head(pbox).what = what

HandlePostInit ==
  /\ PartitionsSupTakes("post_init")
  /\ pbox' = Tail(pbox)
  /\ IF client = "down"
     THEN psup' = "failed" /\ UNCHANGED cbox
     ELSE /\ psup' = "get_workers_table"
          /\ cbox' = Append(cbox, Message("get_workers_table", Sup))
  /\ UNCHANGED <<client, serving, table, count, tsup, tbox, child, kids, timers, prods,
                 callers, env>>

LookupCount ==
  /\ psup = "lookup"
  /\ psup' = CASE client = "down" \/ count = "unknown" -> "failed"
               [] client # "down" /\ count = "counted" -> "counted"
               [] OTHER -> "get_metadata"
  /\ cbox' = IF psup' = "get_metadata" THEN Append(cbox, Message("get_metadata", Sup)) ELSE cbox
  /\ UNCHANGED <<client, serving, table, count, tsup, tbox, child, pbox, kids, timers,
                 prods, callers, env>>

\* Producers get the next pids and register in init.
Start(parts) ==
  LET n == Cardinality({p \in Pids : prods[p].st # "unborn"}) IN
  /\ n + Len(parts) \in Pids
  /\ prods' = [p \in Pids |-> IF p - n \in DOMAIN parts
                               THEN [part |-> parts[p - n], st |-> "idle"] ELSE prods[p]]
  /\ cbox' = IF client = "down" THEN cbox
             ELSE cbox \o [i \in DOMAIN parts |-> Message("register", n + i)]
  /\ kids' = [k \in Partitions |-> IF k \in Range(parts)
                  THEN n + CHOOSE i \in DOMAIN parts : parts[i] = k ELSE kids[k]]

StartProducers ==
  /\ psup = "counted" /\ psup' = "up"
  /\ Start([k \in Partitions |-> k])
  /\ UNCHANGED <<client, serving, table, count, tsup, tbox, child, pbox, timers, callers, env>>

PartitionsSupWhichChildren ==
  /\ PartitionsSupTakes("which_children")
  /\ pbox' = Tail(pbox)
  /\ LET c == Head(pbox).from IN
       callers' = WorkerIs(c, "ok", kids[callers[c].part])
  /\ UNCHANGED <<client, serving, cbox, table, count, tsup, tbox, child, psup, kids,
                 timers, prods, env>>

\* Mutant of PartitionsSupExit: sets no timer.
PartitionsSupExitForgets ==
  /\ PartitionsSupTakes("EXIT")
  /\ pbox' = Tail(pbox)
  /\ LET k == prods[Head(pbox).from].part IN
       kids' = [kids EXCEPT ![k] = Restarting] /\ UNCHANGED timers
  /\ UNCHANGED <<client, serving, cbox, table, count, tsup, tbox, child, psup, prods,
                 callers, env>>

PartitionsSupExit ==
  /\ PartitionsSupTakes("EXIT")
  /\ pbox' = Tail(pbox)
  /\ LET k == prods[Head(pbox).from].part IN
       kids' = [kids EXCEPT ![k] = Restarting] /\ timers' = timers \cup {k}
  /\ UNCHANGED <<client, serving, cbox, table, count, tsup, tbox, child, psup, prods,
                 callers, env>>

PartitionsSupDelayedRestart ==
  /\ PartitionsSupTakes("delayed_restart")
  /\ pbox' = Tail(pbox)
  /\ Start(<<Head(pbox).from>>)
  /\ UNCHANGED <<client, serving, table, count, tsup, tbox, child, psup, timers, callers, env>>

PartitionsSupShutdown ==
  /\ PartitionsSupTakes("shutdown")
  /\ psup' = "terminate" /\ pbox' = Tail(pbox)
  /\ UNCHANGED <<client, serving, cbox, table, count, tsup, tbox, child, kids, timers,
                 prods, callers, env>>

\* terminate/2 of a producer, for a normal reason or another.
Leaves(p) ==
  /\ prods' = [prods EXCEPT ![p].st = "left"]
  /\ cbox' = IF client = "down" THEN cbox ELSE Append(cbox, Message("deregister", p))
Dies(p) == prods' = [prods EXCEPT ![p].st = "lost"] /\ UNCHANGED cbox

\* Mutant of TerminateProducer: waits for ever for one in a call.
TerminateProducerPatiently ==
  /\ psup = "terminate"
  /\ \E k \in DOMAIN kids :
       /\ kids[k] # Nobody /\ \A j \in DOMAIN kids : j > k => kids[j] = Nobody
       /\ kids' = [kids EXCEPT ![k] = Nobody]
       /\ timers' = timers \ {k}
       /\ IF kids[k] \in Pids /\ Alive(kids[k])
          THEN prods[kids[k]].st = "idle" /\ Leaves(kids[k])
          ELSE UNCHANGED <<prods, cbox>>
  /\ UNCHANGED <<client, serving, table, count, tsup, tbox, child, psup, pbox, callers, env>>

\* The last one first.  A producer in a call cannot hear of it, and is killed
\* after 5 seconds; another deregisters.
TerminateProducer ==
  /\ psup = "terminate"
  /\ \E k \in DOMAIN kids :
       /\ kids[k] # Nobody /\ \A j \in DOMAIN kids : j > k => kids[j] = Nobody
       /\ kids' = [kids EXCEPT ![k] = Nobody]
       /\ timers' = timers \ {k}
       /\ IF kids[k] \in Pids /\ Alive(kids[k])
          THEN IF prods[kids[k]].st = "idle" THEN Leaves(kids[k]) ELSE Dies(kids[k])
          ELSE UNCHANGED <<prods, cbox>>
  /\ UNCHANGED <<client, serving, table, count, tsup, tbox, child, psup, pbox, callers, env>>

PartitionsSupEnds ==
  /\ psup = "failed" \/ (psup = "terminate" /\ Range(kids) \subseteq {Nobody})
  /\ psup' = "down" /\ pbox' = <<>> /\ kids' = <<>>
  /\ tbox' = IF tsup = "up" THEN Append(tbox, Message("EXIT", Topic)) ELSE tbox
  /\ callers' = [c \in Callers |-> IF callers[c].at = "partitions_sup"
                                   THEN WorkerIs(c, "producer_down", Nobody)[c] ELSE callers[c]]
  /\ UNCHANGED <<client, serving, cbox, table, count, tsup, child, timers, prods, env>>

(***************************************************************************)
(* Producers, timers and the world.                                        *)
(***************************************************************************)
\* maybe_reinit_connection: the producer calls the client.
AskForConnection(p) ==
  /\ prods[p].st = "idle" /\ client # "down"
  /\ prods' = [prods EXCEPT ![p].st = "busy"]
  /\ cbox' = Append(cbox, Message("get_leader_connection", p))
  /\ UNCHANGED <<client, serving, table, count, sups, callers, env>>

\* brod_producer:stop/1, or a crash.
ProducerEnds(p) ==
  /\ faults < MaxFaults /\ faults' = faults + 1
  /\ (prods[p].st = "idle" /\ Leaves(p)) \/ (Alive(p) /\ Dies(p))
  /\ pbox' = Append(pbox, Message("EXIT", p))
  /\ UNCHANGED <<client, serving, table, count, tsup, tbox, child, psup, kids, timers,
                 callers, exists, ops>>

TimerFires(t) ==
  /\ t \in timers /\ timers' = timers \ {t}
  /\ LET restart == Message("delayed_restart", t) IN
       IF t = Topic THEN tbox' = Append(tbox, restart) /\ UNCHANGED pbox
                    ELSE pbox' = Append(pbox, restart) /\ UNCHANGED tbox
  /\ UNCHANGED <<client, serving, cbox, table, count, tsup, child, psup, kids, prods,
                 callers, env>>

TopicMoves ==
  /\ faults < MaxFaults /\ faults' = faults + 1
  /\ exists' = ~exists
  /\ UNCHANGED <<client, serving, cbox, table, count, sups, prods, callers, ops>>

CallerNext(c) ==
  Lookup(c) \/ CheckAlive(c) \/ CallClient(c) \/ CallTopicsSup(c) \/ CallPartitionsSup(c)

ClientNext ==
  \/ HandleInit \/ HandleQuery \/ HandleStartProducer \/ HandleStopProducer
  \/ HandleGetMetadata \/ HandleGetLeaderConnection \/ HandleRegister \/ HandleStop
  \/ StopProducerFailed

TopicsSupNext ==
  \/ HandleStartChild \/ HandleTerminateChild \/ ChildIsDown \/ HandleDeleteChild
  \/ TopicsSupWhichChildren \/ TopicsSupExit \/ TopicsSupDelayedRestart
  \/ TopicsSupShutdown \/ TopicsSupEnds

PartitionsSupNext ==
  \/ HandlePostInit \/ LookupCount \/ StartProducers \/ PartitionsSupWhichChildren
  \/ PartitionsSupExit \/ PartitionsSupDelayedRestart \/ PartitionsSupShutdown
  \/ TerminateProducer \/ PartitionsSupEnds

Next ==
  \/ \E c \in Callers : CallerNext(c) \/ \E op \in Ops[c], k \in Partitions : Begin(c, op, k)
  \/ ClientNext \/ CannotConnect \/ UnknownTopicExpires
  \/ TopicsSupNext \/ PartitionsSupNext
  \/ \E p \in Pids : AskForConnection(p) \/ ProducerEnds(p)
  \/ \E t \in Partitions \cup {Topic} : TimerFires(t)
  \/ TopicMoves

Spec == Init /\ [][Next]_vars

\* Every process gets its turn and every timer fires.
FairSpec ==
  /\ Spec
  /\ \A c \in Callers : WF_vars(CallerNext(c))
  /\ WF_vars(ClientNext) /\ WF_vars(TopicsSupNext) /\ WF_vars(PartitionsSupNext)
  /\ \A t \in Partitions \cup {Topic} : WF_vars(TimerFires(t))
-----------------------------------------------------------------------------
\* Every variable has its type.
TypeOK ==
  /\ client \in {"up", "down", "start_child", "terminate_child", "delete_child", "badmatch"}
  /\ serving \in Callers \cup {Nobody}
  /\ table \in [Partitions -> Pids \cup {Nobody}]
  /\ count \in {"none", "counted", "unknown"}
  /\ tsup \in {"none", "up", "down", "terminate_child", "terminate"}
  /\ child \in {"absent", "undefined", "restarting", "pid"}
  /\ psup \in {"down", "up", "terminate", "get_workers_table", "lookup", "get_metadata",
               "counted", "failed"}
  /\ kids = <<>> \/ kids \in [Partitions -> Pids \cup {Nobody, Restarting}]
  /\ timers \subseteq Partitions \cup {Topic}
  /\ prods \in [Pids -> [part : Partitions, st : {"unborn", "idle", "busy", "left", "lost"}]]
  /\ \A box \in {cbox, tbox, pbox} : \A i \in DOMAIN box :
       box[i].from \in Callers \cup Pids \cup {Nobody, Sup}

\* What the table will say of partition k when the client has handled its mailbox.
Registered(k) ==
  LET casts == {i \in DOMAIN cbox : /\ cbox[i].what \in {"register", "deregister"}
                                    /\ prods[cbox[i].from].part = k}
      last == CHOOSE i \in casts : \A j \in casts : j <= i
  IN CASE casts = {} -> table[k]
       [] casts # {} /\ cbox[last].what = "register" -> cbox[last].from
       [] OTHER -> Nobody

\* A live producer is the one its supervisor knows for the partition, so that
\* no two write to one partition and none outlives its supervisor.  And while
\* a client runs its table, or what it has yet to handle, has that producer:
\* registrations and deregistrations name only a partition, and those of a
\* producer and of the next one of its partition come from two processes.
LiveProducersAreKnown ==
  \A p \in Pids : Alive(p) =>
    /\ psup # "down" /\ kids # <<>> /\ kids[prods[p].part] = p
    /\ client # "down" => Registered(prods[p].part) = p

\* A process whose start_producer has returned ok finds a live producer at
\* once, unless somebody stops it, the topic is deleted or something fails: a
\* caller that is faster than the registrations waits in the supervisors.  A
\* producer killed in a stop stays in the table, so that none may be lost.
FastCallerIsServed ==
  faults = 0 /\ (\A p \in Pids : prods[p].st # "lost") => \A c \in Callers :
    callers[c].started /\ callers[c].at = "idle" =>
      /\ callers[c].op \in {"get", "get_again", "start_producer"} => callers[c].answer = "ok"
      /\ callers[c].op \in {"get", "get_again"} => Alive(callers[c].pid)

\* When stop_producer answers ok no producer of the topic is left.  And a
\* producer that had deregistered and ended before a call began is never its
\* answer: is_process_alive and the second lookup see to that.
StopMeansGone ==
  /\ [][\A c \in Callers :
          /\ callers[c].at = "stop_producer" /\ callers'[c].at = "idle"
          /\ callers'[c].answer = "ok"
          => \A p \in Pids : ~Alive(p)']_vars
  /\ [](\A c \in Callers : callers[c].answer = "ok" => callers[c].pid \notin callers[c].gone)

\* The three processes wait for each other: stop_producer came before the
\* partitions' supervisor has asked the client for the number of partitions.
Embrace ==
  /\ client = "terminate_child" /\ tsup = "terminate_child"
  /\ psup \in {"get_workers_table", "get_metadata"}

\* Every call returns, with an answer or an exit, except in that embrace.
EveryCallReturns ==
  \A c \in Callers : callers[c].at # "idle" ~> callers[c].at = "idle" \/ Embrace

\* Once the supervisor of a topic has its children, a partition is served and
\* stays served by registered producers when there is no further fault,
\* unless the topic is stopped.
ProducersComeBack ==
  \A k \in Partitions :
    psup = "up" /\ kids # <<>> ~> psup # "up" \/ (table[k] \in Pids /\ Alive(table[k]))

\* When the client is down everything it started ends.
AllEndsWithTheClient ==
  client = "down" ~> tsup = "down" /\ \A p \in Pids : ~Alive(p)

\* "Return ok if the producer is already started" (brod_client.erl:159-160):
\* one that has answered ok is known to the supervisor.
StartedIsSupervised ==
  \A c \in Callers :
    callers[c].op = "start_producer" /\ callers[c].answer = "ok" => child # "absent"
=============================================================================
