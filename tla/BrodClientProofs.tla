-------------------------- MODULE BrodClientProofs --------------------------
(***************************************************************************)
(* The types of BrodClient, and what the supervisors and the client know   *)
(* of the live producers, proved.                                          *)
(*                                                                         *)
(* A mailbox is described by what it may hold and by what each message in  *)
(* it says of the rest of the state:                                       *)
(*                                                                         *)
(*   Mail         who sends what to whom                                   *)
(*   OneCall      the client waits for the one call that the topics'       *)
(*                supervisor has of it (CallOfClient)                      *)
(*   SupAsks      the partitions' supervisor waits for the one message     *)
(*                that the client has of it                                *)
(*   OneRestart   while the partitions' supervisor is down one token, a    *)
(*                message or a timer, stands for its restart               *)
(*   Family       its children come with post_init and go with it          *)
(*   OneProducer  the same for the producer of a partition, and a live     *)
(*                producer is the child of its partition                   *)
(*   Listed       the last word about a live producer's partition, in the  *)
(*                client's table and mailbox, is that producer's           *)
(***************************************************************************)
EXTENDS BrodClient, SequenceTheorems, FiniteSetTheorems, TLAPS

CallerCalls == {"get_producers_sup_pid", "start_producer", "auto_start_producer",
                "stop_producer", "stop"}
ProducerMessages == {"register", "deregister", "get_leader_connection"}
ClientMessages == ClientCalls \cup ProducerMessages \cup {"init"}
ClientWaits == {"start_child", "terminate_child", "delete_child"}
TopicsSupMessages == ClientWaits \cup {"which_children", "EXIT", "delayed_restart", "shutdown"}
PartitionsSupMessages == {"post_init", "which_children", "EXIT", "delayed_restart", "shutdown"}
Senders == Callers \cup Pids \cup {Nobody, Sup}
Born(p) == prods[p].st # "unborn"

\* What the mailboxes hold, and from whom.
ClientMail ==
  /\ cbox \in Seq([what : ClientMessages, from : Senders])
  /\ \A i \in 1..Len(cbox) :
       /\ cbox[i].what \in ProducerMessages =>
            cbox[i].from \in Pids /\ prods[cbox[i].from].st # "unborn"
       /\ cbox[i].what \in ClientCalls => cbox[i].from \in Callers \cup {Sup}
       /\ cbox[i].what \in CallerCalls => cbox[i].from \in Callers
       /\ cbox[i].what = "init" => i = 1 /\ tsup = "none"
TopicsSupMail ==
  /\ tbox \in Seq([what : TopicsSupMessages, from : Senders])
  /\ \A i \in 1..Len(tbox) : tbox[i].what = "which_children" => tbox[i].from \in Callers
PartitionsSupMail ==
  /\ pbox \in Seq([what : PartitionsSupMessages, from : Senders])
  /\ \A i \in 1..Len(pbox) :
       /\ pbox[i].what = "which_children" => pbox[i].from \in Callers
       /\ pbox[i].what = "EXIT" => pbox[i].from \in Pids
       /\ pbox[i].what = "delayed_restart" => pbox[i].from \in Partitions
Mail == ClientMail /\ TopicsSupMail /\ PartitionsSupMail

\* Pids are given out in order.
LastPid == NumPartitions * (MaxOps + MaxFaults + 1)
BornInOrder == \E n \in 0..LastPid : \A p \in Pids : Born(p) <=> p <= n

\* The topics' supervisor does one call of the client at a time.
CallOfClient ==
  /\ \A i \in 1..Len(tbox) :
       /\ tbox[i].what \in ClientWaits => client = tbox[i].what /\ tsup # "terminate_child"
       /\ tbox[i].what = "shutdown" => client = "down"
  /\ \A i, j \in 1..Len(tbox) :
       tbox[i].what \in ClientWaits /\ tbox[j].what \in ClientWaits => i = j
  /\ tsup = "terminate_child" => client = "terminate_child"
  /\ tsup \in {"terminate", "down"} => client = "down"
StartAndEnd ==
  /\ client = "down" => cbox = <<>> /\ tsup # "none"
  /\ tsup = "none" => client = "up" /\ cbox # <<>> /\ cbox[1].what = "init"
OneCall == CallOfClient /\ StartAndEnd

\* The partitions' supervisor waits for the answer to its only message.
SupAsks ==
  /\ \A i \in 1..Len(cbox) : cbox[i].from = Sup => psup = cbox[i].what
  /\ \A i, j \in 1..Len(cbox) : cbox[i].from = Sup /\ cbox[j].from = Sup => i = j

\* At most one token stands for the restart of the partitions' supervisor, and
\* only while it is down.
RestartState ==
  /\ child # "pid" => psup = "down"
  /\ tsup = "none" => child = "absent"
  /\ \A i \in 1..Len(tbox) :
       /\ tbox[i].what = "EXIT" => psup = "down" /\ child = "pid" /\ tsup # "terminate_child"
       /\ tbox[i].what = "delayed_restart" =>
            /\ psup = "down" /\ child \in {"restarting", "undefined"}
            /\ tsup # "terminate_child" /\ Topic \notin timers
       /\ tbox[i].what = "delete_child" => child # "restarting"
  /\ Topic \in timers => psup = "down" /\ child = "restarting" /\ tsup # "terminate_child"
RestartOrder ==
  \A i, j \in 1..Len(tbox) :
    /\ tbox[i].what = "EXIT" /\ tbox[j].what = "EXIT" => i = j
    /\ tbox[i].what = "delayed_restart" /\ tbox[j].what = "delayed_restart" => i = j
    /\ tbox[i].what = "delayed_restart" /\ tbox[j].what = "delete_child" => i < j
    /\ tbox[i].what = "delete_child" /\ tbox[j].what = "EXIT" => i < j
OneRestart == RestartState /\ RestartOrder

\* The partitions' supervisor has children from StartProducers on.
FirstPostInit ==
  /\ psup \notin {"up", "terminate"} => kids = <<>>
  /\ psup = "up" /\ kids = <<>> => 1 \in 1..Len(pbox) /\ pbox[1].what = "post_init"
  /\ \A i \in 1..Len(pbox) : pbox[i].what = "post_init" => i = 1 /\ psup = "up" /\ kids = <<>>
KidsAreBorn ==
  kids # <<>> => \A k \in Partitions :
    kids[k] \in Pids => Born(kids[k]) /\ prods[kids[k]].part = k
Family == FirstPostInit /\ KidsAreBorn

\* The partitions' supervisor ends when the topics' supervisor waits for that.
ShutDown ==
  psup = "terminate" \/ (\E i \in 1..Len(pbox) : pbox[i].what = "shutdown") =>
    tsup \in {"terminate_child", "terminate"}
NoShutDownLeft == psup = "down" => \A i \in 1..Len(pbox) : pbox[i].what # "shutdown"

\* One token stands for the restart of a partition's producer.
TimersWait == \A k \in Partitions : k \in timers => kids # <<>> /\ kids[k] = Restarting
TokensStand ==
  psup # "terminate" => \A i \in 1..Len(pbox) :
    LET m == pbox[i] IN
    /\ m.what = "delayed_restart" =>
         kids # <<>> /\ kids[m.from] = Restarting /\ m.from \notin timers
    /\ m.what = "EXIT" => /\ kids # <<>> /\ kids[prods[m.from].part] = m.from
                          /\ Born(m.from) /\ ~Alive(m.from)
BoxOnce ==
  \A i, j \in 1..Len(pbox) :
    pbox[i].what \in {"delayed_restart", "EXIT"}
    /\ pbox[j].what = pbox[i].what /\ pbox[j].from = pbox[i].from => i = j
TokensOnce == psup # "terminate" => BoxOnce
AliveKnown ==
  \A p \in Pids : Alive(p) =>
    psup \in {"up", "terminate"} /\ kids # <<>> /\ kids[prods[p].part] = p
OneProducer == TimersWait /\ TokensStand /\ TokensOnce /\ AliveKnown

\* What the client's mailbox says of partition k.
CastOf(i, k) == cbox[i].what \in {"register", "deregister"} /\ prods[cbox[i].from].part = k

\* The last word on a live producer's partition is its own.
LastWord(p) ==
  \/ /\ table[prods[p].part] = p
     /\ \A i \in 1..Len(cbox) : ~CastOf(i, prods[p].part)
  \/ \E i \in 1..Len(cbox) :
       /\ cbox[i].what = "register" /\ cbox[i].from = p
       /\ \A j \in 1..Len(cbox) : j > i => ~CastOf(j, prods[p].part)

Listed == client # "down" => \A p \in Pids : Alive(p) => LastWord(p)

ClientInv == TypeOK /\ Mail /\ BornInOrder /\ OneCall /\ SupAsks /\ OneRestart /\ Family
             /\ ShutDown /\ NoShutDownLeft /\ OneProducer

-----------------------------------------------------------------------------
(***************************************************************************)
(* Pids, mailboxes and the start of producers.                             *)
(***************************************************************************)
LEMMA PidFacts ==
  /\ LastPid \in Nat /\ Pids = 1..LastPid
  /\ Partitions \subseteq Pids /\ 1 \in Partitions
  /\ \A k \in Partitions : k \in Nat /\ k # Topic
  /\ Nobody \notin Pids /\ Restarting \notin Pids /\ Sup \notin Pids
  /\ Callers \cap Pids = {} /\ Nobody \notin Callers /\ Sup \notin Callers
  /\ Nobody # Sup /\ Restarting # Nobody
<1>1. NumPartitions \in Nat \ {0} /\ MaxOps \in Nat /\ MaxFaults \in Nat
  BY ClientAssumption
<1>2. /\ NumPartitions * (MaxOps + MaxFaults) \in Nat
      /\ LastPid = NumPartitions * (MaxOps + MaxFaults) + NumPartitions
  BY <1>1 DEF LastPid
<1>3. LastPid \in Nat /\ NumPartitions <= LastPid
  BY <1>1, <1>2
<1> QED
  BY <1>1, <1>3, ClientAssumption DEF Pids, Partitions, LastPid, Nobody, Sup, Restarting, Topic

LEMMA TailElements ==
  ASSUME NEW S, NEW box \in Seq(S), box # <<>>
  PROVE  /\ Tail(box) \in Seq(S) /\ Len(box) \in Nat \ {0} /\ Len(Tail(box)) = Len(box) - 1
         /\ \A i \in 1..Len(Tail(box)) : Tail(box)[i] = box[i + 1] /\ i + 1 \in 1..Len(box)
         /\ Head(box) = box[1] /\ Head(box) \in S /\ 1 \in 1..Len(box)
<1>1. Len(box) \in Nat \ {0}
  BY EmptySeq
<1> QED
  BY <1>1

LEMMA AppendElements ==
  ASSUME NEW S, NEW box \in Seq(S), NEW m \in S
  PROVE  /\ Append(box, m) \in Seq(S) /\ Append(box, m) # <<>> /\ Len(box) \in Nat
         /\ Len(Append(box, m)) = Len(box) + 1
         /\ \A i \in 1..Len(box) : Append(box, m)[i] = box[i]
         /\ Append(box, m)[Len(box) + 1] = m
         /\ \A i \in 1..Len(Append(box, m)) : i = Len(box) + 1 \/ i \in 1..Len(box)
<1>1. /\ Append(box, m) \in Seq(S) /\ Len(box) \in Nat
      /\ Len(Append(box, m)) = Len(box) + 1
      /\ \A i \in 1..Len(box) : Append(box, m)[i] = box[i]
      /\ Append(box, m)[Len(box) + 1] = m
  OBVIOUS
<1>2. Append(box, m) # <<>>
  BY <1>1, EmptySeq
<1> QED
  BY <1>1, <1>2

LEMMA WithoutExitElements ==
  ASSUME NEW S, NEW box \in Seq(S),
         \A i, j \in 1..Len(box) : box[i].what = "EXIT" /\ box[j].what = "EXIT" => i = j
  PROVE  /\ WithoutExit(box) \in Seq(S)
         /\ \E f \in [1..Len(WithoutExit(box)) -> 1..Len(box)] :
              /\ \A i \in 1..Len(WithoutExit(box)) : WithoutExit(box)[i] = box[f[i]]
              /\ \A i, j \in 1..Len(WithoutExit(box)) : i < j => f[i] < f[j]
              /\ \A i \in 1..Len(WithoutExit(box)) : WithoutExit(box)[i].what # "EXIT"
<1> DEFINE exits == {i \in DOMAIN box : box[i].what = "EXIT"}
           first == CHOOSE i \in exits : \A j \in exits : i <= j
<1>1. CASE exits = {}
  <2>1. WithoutExit(box) = box
    BY <1>1 DEF WithoutExit
  <2>2. \A i \in 1..Len(box) : box[i].what # "EXIT"
    BY <1>1
  <2> DEFINE f == [i \in 1..Len(box) |-> i]
  <2>3. f \in [1..Len(box) -> 1..Len(box)] /\ \A i \in 1..Len(box) : f[i] = i
    OBVIOUS
  <2> QED
    BY <2>1, <2>2, <2>3
<1>2. CASE exits # {}
  <2>1. first \in 1..Len(box) /\ first \in exits
    <3>1. PICK e \in exits : e \in 1..Len(box) /\ box[e].what = "EXIT"
      BY <1>2
    <3>2. \A j \in exits : e <= j
      BY <3>1
    <3> QED
      BY <3>2
  <2>2. WithoutExit(box) = SubSeq(box, 1, first - 1) \o SubSeq(box, first + 1, Len(box))
    BY <1>2 DEF WithoutExit
  <2> HIDE DEF first
  <2>3. /\ SubSeq(box, 1, first - 1) \in Seq(S) /\ Len(SubSeq(box, 1, first - 1)) = first - 1
        /\ \A i \in 1..first - 1 : SubSeq(box, 1, first - 1)[i] = box[i]
    BY <2>1
  <2>4. /\ SubSeq(box, first + 1, Len(box)) \in Seq(S)
        /\ Len(SubSeq(box, first + 1, Len(box))) = Len(box) - first
        /\ \A i \in 1..Len(box) - first :
             SubSeq(box, first + 1, Len(box))[i] = box[first + i]
    BY <2>1
  <2>5. /\ WithoutExit(box) \in Seq(S) /\ Len(WithoutExit(box)) = Len(box) - 1
        /\ \A i \in 1..Len(box) - 1 :
             WithoutExit(box)[i] = box[IF i < first THEN i ELSE i + 1]
    <3> DEFINE a == SubSeq(box, 1, first - 1)
               b == SubSeq(box, first + 1, Len(box))
    <3>1. /\ a \in Seq(S) /\ b \in Seq(S) /\ Len(a) = first - 1 /\ Len(b) = Len(box) - first
          /\ \A i \in 1..first - 1 : a[i] = box[i]
          /\ \A i \in 1..Len(box) - first : b[i] = box[first + i]
      BY <2>3, <2>4
    <3>2. WithoutExit(box) = a \o b
      BY <2>2
    <3> HIDE DEF a, b
    <3>3. /\ a \o b \in Seq(S) /\ Len(a \o b) = Len(box) - 1
          /\ \A i \in 1..Len(a \o b) : (a \o b)[i] = IF i <= Len(a) THEN a[i] ELSE b[i - Len(a)]
      BY <3>1, <2>1
    <3>4. ASSUME NEW i \in 1..Len(box) - 1
          PROVE  (a \o b)[i] = box[IF i < first THEN i ELSE i + 1]
      <4>1. CASE i < first
        <5>1. i \in 1..first - 1 /\ i \in 1..Len(a \o b) /\ i <= Len(a)
          BY <3>1, <3>3, <2>1, <4>1
        <5>2. (a \o b)[i] = a[i]
          BY <3>3, <5>1
        <5> QED
          BY <3>1, <5>1, <5>2, <4>1
      <4>2. CASE i >= first
        <5>1. (a \o b)[i] = b[i - (first - 1)]
          BY <3>1, <3>3, <2>1, <4>2
        <5>2. i - (first - 1) \in 1..Len(box) - first /\ first + (i - (first - 1)) = i + 1
          BY <2>1, <4>2
        <5>3. b[i - (first - 1)] = box[first + (i - (first - 1))]
          BY <3>1, <5>2
        <5>4. (a \o b)[i] = box[i + 1]
          BY <5>1, <5>2, <5>3
        <5>5. ~(i < first)
          BY <4>2, <2>1
        <5> QED
          BY <5>4, <5>5
      <4>3. i < first \/ i >= first
        BY <2>1
      <4> QED
        BY <4>1, <4>2, <4>3
    <3> QED
      BY <3>2, <3>3, <3>4
  <2> DEFINE f == [i \in 1..Len(box) - 1 |-> IF i < first THEN i ELSE i + 1]
  <2>6. /\ f \in [1..Len(box) - 1 -> 1..Len(box)]
        /\ \A i \in 1..Len(box) - 1 : f[i] = (IF i < first THEN i ELSE i + 1)
    BY <2>1
  <2> HIDE DEF f
  <2>7. /\ \A i \in 1..Len(box) - 1 : WithoutExit(box)[i] = box[f[i]] /\ f[i] # first
        /\ \A i, j \in 1..Len(box) - 1 : i < j => f[i] < f[j]
    BY <2>1, <2>5, <2>6
  <2>8. \A i \in 1..Len(box) - 1 : WithoutExit(box)[i].what # "EXIT"
    <3>1. box[first].what = "EXIT"
      BY <2>1
    <3> QED
      BY <2>1, <2>6, <2>7, <3>1
  <2> QED
    BY <2>5, <2>6, <2>7, <2>8
<1> QED
  BY <1>1, <1>2

\* The pids given out so far are counted by the number of producers born.
LEMMA BornCount ==
  ASSUME BornInOrder
  PROVE  LET n == Cardinality({p \in Pids : prods[p].st # "unborn"}) IN
         n \in 0..LastPid /\ \A p \in Pids : Born(p) <=> p <= n
<1>1. PICK n \in 0..LastPid : \A p \in Pids : Born(p) <=> p <= n
  BY DEF BornInOrder
<1>2. n \in Nat /\ LastPid \in Nat /\ Pids = 1..LastPid
  BY PidFacts
<1>3. {p \in Pids : prods[p].st # "unborn"} = 1..n
  BY <1>1, <1>2 DEF Born
<1>4. Cardinality(1..n) = n
  BY <1>2, FS_Interval
<1> QED
  BY <1>1, <1>3, <1>4

\* What a step that starts the producers of all partitions does.
LEMMA AllStarted ==
  ASSUME TypeOK, Mail, BornInOrder, StartProducers
  PROVE  \E n \in 0..LastPid :
    /\ n + NumPartitions <= LastPid /\ \A p \in Pids : Born(p) <=> p <= n
    /\ prods' \in [Pids -> [part : Partitions, st : {"unborn", "idle", "busy", "left", "lost"}]]
    /\ \A p \in Pids : p <= n \/ p > n + NumPartitions => prods'[p] = prods[p]
    /\ \A k \in Partitions :
         n + k \in Pids /\ prods'[n + k] = [part |-> k, st |-> "idle"] /\ ~Born(n + k)
    /\ client = "down" => cbox' = cbox
    /\ client # "down" =>
         /\ cbox' \in Seq([what : ClientMessages, from : Senders])
         /\ Len(cbox') = Len(cbox) + NumPartitions
         /\ \A i \in 1..Len(cbox) : cbox'[i] = cbox[i]
         /\ \A k \in Partitions : cbox'[Len(cbox) + k] = Message("register", n + k)
    /\ kids' = [k \in Partitions |-> n + k]
<1> DEFINE parts == [k \in Partitions |-> k]
           n == Cardinality({p \in Pids : prods[p].st # "unborn"})
           new == [i \in DOMAIN parts |-> Message("register", n + i)]
<1>1. /\ LastPid \in Nat /\ Pids = 1..LastPid /\ NumPartitions \in Nat \ {0}
      /\ Partitions = 1..NumPartitions
  BY PidFacts, ClientAssumption DEF Partitions
<1>2. n \in 0..LastPid /\ \A p \in Pids : Born(p) <=> p <= n
  BY BornCount
<1>3. DOMAIN parts = 1..NumPartitions /\ Len(parts) = NumPartitions /\ Range(parts) = Partitions
  BY <1>1 DEF Range
<1>4. /\ n + Len(parts) \in Pids
      /\ prods' = [p \in Pids |-> IF p - n \in DOMAIN parts
                                    THEN [part |-> parts[p - n], st |-> "idle"] ELSE prods[p]]
      /\ cbox' = IF client = "down" THEN cbox ELSE cbox \o new
      /\ kids' = [k \in Partitions |-> IF k \in Range(parts)
                      THEN n + CHOOSE i \in DOMAIN parts : parts[i] = k ELSE kids[k]]
  BY DEF StartProducers, Start
<1> HIDE DEF n
<1>5. /\ n + NumPartitions <= LastPid
      /\ \A k \in Partitions : n + k \in Pids /\ (n + k) - n = k /\ ~Born(n + k)
  BY <1>1, <1>2, <1>3, <1>4
<1>6. \A p \in Pids : prods'[p] = IF p - n \in Partitions THEN [part |-> p - n, st |-> "idle"]
                                                          ELSE prods[p]
  BY <1>1, <1>3, <1>4
<1>7. prods' \in [Pids -> [part : Partitions, st : {"unborn", "idle", "busy", "left", "lost"}]]
  <2>1. prods \in [Pids -> [part : Partitions, st : {"unborn", "idle", "busy", "left", "lost"}]]
    BY DEF TypeOK
  <2> QED
    BY <1>1, <1>3, <1>4, <2>1
<1>8. \A p \in Pids : p <= n \/ p > n + NumPartitions => prods'[p] = prods[p]
  <2>1. ASSUME NEW p \in Pids, p <= n \/ p > n + NumPartitions
        PROVE  p - n \notin Partitions
    BY <1>1, <1>2, <2>1
  <2> QED
    BY <1>6, <2>1
<1>9. \A k \in Partitions : prods'[n + k] = [part |-> k, st |-> "idle"]
  BY <1>5, <1>6
<1>10. kids' = [k \in Partitions |-> n + k]
  <2>1. \A k \in Partitions : (CHOOSE i \in DOMAIN parts : parts[i] = k) = k
    BY <1>1, <1>3
  <2>2. ASSUME NEW k \in Partitions
        PROVE  (IF k \in Range(parts) THEN n + CHOOSE i \in DOMAIN parts : parts[i] = k
                                      ELSE kids[k]) = n + k
    BY <1>3, <2>1
  <2> HIDE DEF parts
  <2> QED
    BY <1>4, <2>2
<1>11. ASSUME client # "down"
       PROVE  /\ cbox' \in Seq([what : ClientMessages, from : Senders])
              /\ Len(cbox') = Len(cbox) + NumPartitions
              /\ \A i \in 1..Len(cbox) : cbox'[i] = cbox[i]
              /\ \A k \in Partitions : cbox'[Len(cbox) + k] = Message("register", n + k)
  <2>1. /\ new = [i \in 1..NumPartitions |-> Message("register", n + i)]
        /\ \A i \in 1..NumPartitions :
             Message("register", n + i) \in [what : ClientMessages, from : Senders]
    BY <1>1, <1>3, <1>5 DEF Message, ClientMessages, ProducerMessages, Senders
  <2>2. /\ new \in Seq([what : ClientMessages, from : Senders]) /\ Len(new) = NumPartitions
        /\ \A i \in 1..NumPartitions : new[i] = Message("register", n + i)
    BY <1>1, <2>1
  <2>3. cbox \in Seq([what : ClientMessages, from : Senders]) /\ cbox' = cbox \o new
    BY <1>4, <1>11 DEF Mail, ClientMail
  <2> HIDE DEF new
  <2>4. /\ cbox \o new \in Seq([what : ClientMessages, from : Senders])
        /\ Len(cbox \o new) = Len(cbox) + NumPartitions /\ Len(cbox) \in Nat
        /\ \A i \in 1..Len(cbox) + NumPartitions :
             (cbox \o new)[i] = IF i <= Len(cbox) THEN cbox[i] ELSE new[i - Len(cbox)]
    <3> DEFINE S == [what : ClientMessages, from : Senders]
    <3>1. cbox \in Seq(S) /\ new \in Seq(S) /\ Len(new) = NumPartitions /\ NumPartitions \in Nat
      BY <1>1, <2>2, <2>3
    <3> HIDE DEF S
    <3>2. /\ cbox \o new \in Seq(S) /\ Len(cbox \o new) = Len(cbox) + NumPartitions
          /\ Len(cbox) \in Nat
          /\ \A i \in 1..Len(cbox \o new) :
               (cbox \o new)[i] = IF i <= Len(cbox) THEN cbox[i] ELSE new[i - Len(cbox)]
      BY <3>1
    <3> QED
      BY <3>2 DEF S
  <2>5. ASSUME NEW i \in 1..Len(cbox) PROVE cbox'[i] = cbox[i]
    BY <1>1, <2>3, <2>4
  <2>6. ASSUME NEW k \in Partitions
        PROVE  cbox'[Len(cbox) + k] = Message("register", n + k)
    <3>1. /\ k \in 1..NumPartitions /\ Len(cbox) + k \in 1..Len(cbox) + NumPartitions
          /\ ~(Len(cbox) + k <= Len(cbox)) /\ (Len(cbox) + k) - Len(cbox) = k
      BY <1>1, <2>4
    <3>2. (cbox \o new)[Len(cbox) + k] = new[(Len(cbox) + k) - Len(cbox)]
      BY <2>4, <3>1
    <3> QED
      BY <2>2, <2>3, <3>1, <3>2
  <2> QED
    BY <2>3, <2>4, <2>5, <2>6
<1>12. client = "down" => cbox' = cbox
  BY <1>4
<1> HIDE DEF new, parts
<1>20. n \in 0..LastPid
  BY <1>2
<1> WITNESS n \in 0..LastPid
<1> QED
  BY <1>2, <1>5, <1>7, <1>8, <1>9, <1>10, <1>11, <1>12

\* What a step that starts one producer again does.
LEMMA OneStarted ==
  ASSUME TypeOK, Mail, BornInOrder, PartitionsSupDelayedRestart
  PROVE  \E n \in 0..LastPid :
    LET t == Head(pbox).from IN
    /\ n + 1 \in Pids /\ \A p \in Pids : Born(p) <=> p <= n
    /\ t \in Partitions /\ pbox # <<>> /\ pbox[1].what = "delayed_restart" /\ psup = "up"
    /\ prods' = [prods EXCEPT ![n + 1] = [part |-> t, st |-> "idle"]]
    /\ client = "down" => cbox' = cbox
    /\ client # "down" => cbox' = Append(cbox, Message("register", n + 1))
    /\ kids' = [k \in Partitions |-> IF k = t THEN n + 1 ELSE kids[k]]
<1> DEFINE t == Head(pbox).from
           parts == <<t>>
           n == Cardinality({p \in Pids : prods[p].st # "unborn"})
           new == [i \in DOMAIN parts |-> Message("register", n + i)]
<1>1. LastPid \in Nat /\ Pids = 1..LastPid
  BY PidFacts
<1>2. n \in 0..LastPid /\ \A p \in Pids : Born(p) <=> p <= n
  BY BornCount
<1>3. t \in Partitions /\ pbox # <<>> /\ pbox[1].what = "delayed_restart" /\ psup = "up"
  <2>1. pbox # <<>> /\ Head(pbox).what = "delayed_restart" /\ psup = "up"
    BY DEF PartitionsSupDelayedRestart, PartitionsSupTakes
  <2>2. pbox \in Seq([what : PartitionsSupMessages, from : Senders])
    BY DEF Mail, PartitionsSupMail
  <2>3. Head(pbox) = pbox[1] /\ 1 \in 1..Len(pbox)
    BY <2>1, <2>2, TailElements
  <2> QED
    BY <2>1, <2>3 DEF Mail, PartitionsSupMail
<1>4. /\ n + Len(parts) \in Pids
      /\ prods' = [p \in Pids |-> IF p - n \in DOMAIN parts
                                    THEN [part |-> parts[p - n], st |-> "idle"] ELSE prods[p]]
      /\ cbox' = IF client = "down" THEN cbox ELSE cbox \o new
      /\ kids' = [k \in Partitions |-> IF k \in Range(parts)
                      THEN n + CHOOSE i \in DOMAIN parts : parts[i] = k ELSE kids[k]]
  BY DEF PartitionsSupDelayedRestart, Start
<1> HIDE DEF n, t
<1>5. DOMAIN parts = {1} /\ Len(parts) = 1 /\ parts[1] = t /\ Range(parts) = {t}
  BY DEF Range
<1> HIDE DEF parts
<1>6. n + 1 \in Pids
  BY <1>4, <1>5
<1>7. prods' = [prods EXCEPT ![n + 1] = [part |-> t, st |-> "idle"]]
  <2>1. \A p \in Pids : (p - n \in DOMAIN parts) <=> p = n + 1
    BY <1>1, <1>2, <1>5
  <2>2. \A p \in Pids : p = n + 1 => parts[p - n] = t
    BY <1>1, <1>2, <1>5
  <2>3. DOMAIN prods = Pids
    BY DEF TypeOK
  <2> QED
    BY <1>4, <1>6, <2>1, <2>2, <2>3
<1>8. kids' = [k \in Partitions |-> IF k = t THEN n + 1 ELSE kids[k]]
  <2>1. (CHOOSE i \in DOMAIN parts : parts[i] = t) = 1
    BY <1>5
  <2> QED
    BY <1>4, <1>5, <2>1
<1>9. ASSUME client # "down" PROVE cbox' = Append(cbox, Message("register", n + 1))
  <2>1. new = <<Message("register", n + 1)>>
    BY <1>5
  <2>2. Message("register", n + 1) \in [what : ClientMessages, from : Senders]
    BY <1>6 DEF Message, ClientMessages, ProducerMessages, Senders
  <2>3. cbox \in Seq([what : ClientMessages, from : Senders])
    BY DEF Mail, ClientMail
  <2>4. cbox' = cbox \o new
    BY <1>4, <1>9
  <2> QED
    BY <2>1, <2>2, <2>3, <2>4, AppendIsConcat
<1>10. client = "down" => cbox' = cbox
  BY <1>4
<1> HIDE DEF new
<1>20. n \in 0..LastPid
  BY <1>2
<1> WITNESS n \in 0..LastPid
<1> QED
  BY <1>2, <1>3, <1>6, <1>7, <1>8, <1>9, <1>10 DEF t

ProdType == [Pids -> [part : Partitions, st : {"unborn", "idle", "busy", "left", "lost"}]]
\* A producer's partition is fixed when it starts; an end is for ever.
LivesGoOn ==
  /\ prods' \in ProdType
  /\ \A p \in Pids :
       /\ Born(p) => Born(p)' /\ prods'[p].part = prods[p].part
       /\ prods[p].st \in {"left", "lost"} => prods'[p].st = prods[p].st
SameLives ==
  /\ prods' \in ProdType
  /\ \A p \in Pids :
       /\ prods'[p].part = prods[p].part
       /\ prods'[p].st = prods[p].st \/ {prods[p].st, prods'[p].st} \subseteq {"idle", "busy"}
\* Somebody ends.
OneEnds(p) ==
  /\ Alive(p)
  /\ \/ prods' = [prods EXCEPT ![p].st = "left"] /\ prods[p].st = "idle"
     \/ prods' = [prods EXCEPT ![p].st = "lost"]

LEMMA ClientEndsLives ==
  ASSUME TypeOK, CannotConnect \/ HandleStop \/ StopProducerFailed
  PROVE  SameLives
BY DEF CannotConnect, HandleStop, StopProducerFailed, ClientEnds, SameLives, TypeOK, ProdType

LEMMA ConnectionLives ==
  ASSUME TypeOK, HandleGetLeaderConnection \/ \E p \in Pids : AskForConnection(p)
  PROVE  SameLives
<1>1. prods \in ProdType
  BY DEF TypeOK, ProdType
<1>2. CASE HandleGetLeaderConnection
  <2>1. PICK q : prods' = IF prods[q].st = "busy" THEN [prods EXCEPT ![q].st = "idle"] ELSE prods
    BY <1>2 DEF HandleGetLeaderConnection
  <2> QED
    BY <1>1, <2>1 DEF SameLives, ProdType
<1>3. CASE \E p \in Pids : AskForConnection(p)
  BY <1>1, <1>3 DEF AskForConnection, SameLives, ProdType
<1> QED
  BY <1>2, <1>3

LEMMA EndLives ==
  ASSUME TypeOK
  PROVE  /\ TerminateProducer => UNCHANGED prods \/ \E p \in Pids : OneEnds(p)
         /\ \A p \in Pids : ProducerEnds(p) => OneEnds(p)
         /\ \A p \in Pids : OneEnds(p) =>
              /\ LivesGoOn /\ ~Alive(p)' /\ Born(p)' /\ Born(p)
              /\ \A q \in Pids : q # p => prods'[q] = prods[q]
              /\ \A q \in Pids : prods'[q].part = prods[q].part /\ (Born(q)' <=> Born(q))
<1>1. prods \in ProdType
  BY DEF TypeOK, ProdType
<1>2. TerminateProducer => UNCHANGED prods \/ \E p \in Pids : OneEnds(p)
  BY DEF TerminateProducer, OneEnds, Leaves, Dies
<1>3. \A p \in Pids : ProducerEnds(p) => OneEnds(p)
  BY DEF ProducerEnds, OneEnds, Leaves, Dies, Alive
<1>4. ASSUME NEW p \in Pids, OneEnds(p)
      PROVE  /\ LivesGoOn /\ ~Alive(p)' /\ Born(p)' /\ Born(p)
             /\ \A q \in Pids : q # p => prods'[q] = prods[q]
             /\ \A q \in Pids : prods'[q].part = prods[q].part /\ (Born(q)' <=> Born(q))
  BY <1>1, <1>4 DEF OneEnds, LivesGoOn, ProdType, Alive, Born
<1> QED
  BY <1>2, <1>3, <1>4

\* Pids are given out in order, and no producer changes its partition or comes back.
LEMMA BornStep == TypeOK /\ Mail /\ BornInOrder /\ [Next]_vars => BornInOrder' /\ LivesGoOn
<1> SUFFICES ASSUME TypeOK, Mail, BornInOrder, [Next]_vars PROVE BornInOrder' /\ LivesGoOn
  OBVIOUS
<1>1. CASE UNCHANGED <<prods>>
  BY <1>1 DEF BornInOrder, Born, LivesGoOn, TypeOK, ProdType
<1>2. ASSUME CannotConnect \/ HandleStop \/ StopProducerFailed \/
             HandleGetLeaderConnection \/ (\E p \in Pids : AskForConnection(p))
      PROVE  BornInOrder' /\ LivesGoOn
  <2>1. SameLives
    <3>1. CASE CannotConnect \/ HandleStop \/ StopProducerFailed
      BY <3>1, ClientEndsLives
    <3>2. CASE HandleGetLeaderConnection
      BY <3>2, ConnectionLives
    <3>3. CASE \E p \in Pids : AskForConnection(p)
      BY <3>3, ConnectionLives
    <3> QED
      BY <1>2, <3>1, <3>2, <3>3
  <2>2. LivesGoOn /\ \A p_1 \in Pids : Born(p_1)' <=> Born(p_1)
    BY <2>1 DEF SameLives, LivesGoOn, Born
  <2> QED
    BY <2>2 DEF BornInOrder
<1>3. ASSUME TerminateProducer \/ (\E p \in Pids : ProducerEnds(p))
      PROVE  BornInOrder' /\ LivesGoOn
  <2>1. CASE UNCHANGED prods
    BY <1>1, <2>1
  <2>2. CASE \E q \in Pids : OneEnds(q)
    <3>1. LivesGoOn /\ \A q \in Pids : Born(q)' <=> Born(q)
      BY <2>2, EndLives
    <3> QED
      BY <3>1 DEF BornInOrder
  <2> QED
    BY <1>3, <2>1, <2>2, EndLives
<1>4. ASSUME StartProducers
      PROVE  BornInOrder' /\ LivesGoOn
  <2>1. PICK n \in 0..LastPid :
          /\ n + NumPartitions <= LastPid /\ \A p \in Pids : Born(p) <=> p <= n
          /\ prods' \in ProdType
          /\ \A p \in Pids : p <= n \/ p > n + NumPartitions => prods'[p] = prods[p]
          /\ \A k \in Partitions :
               n + k \in Pids /\ prods'[n + k] = [part |-> k, st |-> "idle"] /\ ~Born(n + k)
    BY <1>4, AllStarted DEF ProdType
  <2>2. NumPartitions \in Nat /\ Partitions = 1..NumPartitions /\ Pids = 1..LastPid /\ LastPid \in Nat
    BY PidFacts, ClientAssumption DEF Partitions
  <2>3. \A p \in Pids : p > n /\ p <= n + NumPartitions => p - n \in Partitions /\ n + (p - n) = p
    BY <2>2
  <2>4. ASSUME NEW p \in Pids PROVE Born(p)' <=> p <= n + NumPartitions
    <3>1. CASE p <= n \/ p > n + NumPartitions
      <4>1. prods'[p] = prods[p]
        BY <2>1, <3>1
      <4> QED
        BY <2>1, <2>2, <3>1, <4>1 DEF Born
    <3>2. CASE p > n /\ p <= n + NumPartitions
      <4>1. prods'[p] = [part |-> p - n, st |-> "idle"]
        BY <2>1, <2>3, <3>2
      <4> QED
        BY <3>2, <4>1 DEF Born
    <3>3. (p <= n \/ p > n + NumPartitions) \/ (p > n /\ p <= n + NumPartitions)
      BY <2>2
    <3> QED
      BY <3>1, <3>2, <3>3
  <2>5. BornInOrder'
    <3>1. n + NumPartitions \in 0..LastPid
      BY <2>1, <2>2
    <3>2. UNCHANGED LastPid
      BY DEF LastPid
    <3> QED
      BY <2>4, <3>1, <3>2 DEF BornInOrder
  <2>6. LivesGoOn
    BY <2>1, <2>2 DEF LivesGoOn, Born
  <2> QED
    BY <2>5, <2>6
<1>5. ASSUME PartitionsSupDelayedRestart
      PROVE  BornInOrder' /\ LivesGoOn
  <2>1. PICK n \in 0..LastPid :
          /\ n + 1 \in Pids /\ \A p \in Pids : Born(p) <=> p <= n
          /\ Head(pbox).from \in Partitions
          /\ prods' = [prods EXCEPT ![n + 1] = [part |-> Head(pbox).from, st |-> "idle"]]
    BY <1>5, OneStarted
  <2>2. Pids = 1..LastPid /\ LastPid \in Nat
    BY PidFacts
  <2>3. prods \in ProdType
    BY DEF TypeOK, ProdType
  <2>4. \A p \in Pids : Born(p)' <=> p <= n + 1
    BY <2>1, <2>2, <2>3 DEF Born, ProdType
  <2>5. BornInOrder'
    <3>1. n + 1 \in 0..LastPid
      BY <2>1, <2>2
    <3> QED
      BY <2>4, <3>1 DEF BornInOrder
  <2>6. LivesGoOn
    BY <2>1, <2>2, <2>3 DEF LivesGoOn, Born, ProdType
  <2> QED
    BY <2>5, <2>6
<1>6. ASSUME HandleInit \/ HandleQuery \/ HandleStartProducer \/
             (\E c \in Callers : Lookup(c) \/ CheckAlive(c) \/ CallClient(c) \/ CallTopicsSup(c) \/ CallPartitionsSup(c)) \/
             (\E c \in Callers : \E op \in Ops[c], k \in Partitions : Begin(c, op, k))
      PROVE  UNCHANGED <<prods>>
  BY <1>6 DEF Begin, Lookup, CheckAlive, CallClient, CallTopicsSup, CallPartitionsSup,
       HandleInit, Takes, HandleQuery, HandleStartProducer, sups, env
<1>7. ASSUME HandleStopProducer \/ HandleGetMetadata \/ HandleRegister \/
             UnknownTopicExpires \/ HandleStartChild \/ HandleTerminateChild \/
             ChildIsDown \/ HandleDeleteChild \/ TopicsSupWhichChildren
      PROVE  UNCHANGED <<prods>>
  BY <1>7 DEF HandleStopProducer, Takes, HandleGetMetadata, HandleRegister,
       UnknownTopicExpires, HandleStartChild, StartPartitionsSup, TopicsSupTakes,
       HandleTerminateChild, Terminated, ChildIsDown, HandleDeleteChild,
       TopicsSupWhichChildren, sups, env
<1>8. ASSUME TopicsSupExit \/ TopicsSupDelayedRestart \/ TopicsSupShutdown \/
             TopicsSupEnds \/ HandlePostInit \/ LookupCount \/ PartitionsSupWhichChildren \/
             PartitionsSupExit \/ PartitionsSupShutdown
      PROVE  UNCHANGED <<prods>>
  BY <1>8 DEF TopicsSupExit, TopicsSupTakes, TopicsSupDelayedRestart, StartPartitionsSup,
       TopicsSupShutdown, TopicsSupEnds, HandlePostInit, PartitionsSupTakes, LookupCount,
       PartitionsSupWhichChildren, PartitionsSupExit, PartitionsSupShutdown, sups, env
<1>9. ASSUME PartitionsSupEnds \/ TopicMoves \/
             (\E t \in Partitions \cup {Topic} : TimerFires(t))
      PROVE  UNCHANGED <<prods>>
  BY <1>9 DEF PartitionsSupEnds, TimerFires, TopicMoves, sups, env
<1>10. CASE UNCHANGED vars
  BY <1>1, <1>10 DEF vars, sups
<1> QED
  BY <1>1, <1>2, <1>3, <1>4, <1>5, <1>6, <1>7, <1>8, <1>9, <1>10
     DEF Next, CallerNext, ClientNext, TopicsSupNext, PartitionsSupNext

LEMMA ClientTakes ==
  ASSUME ClientMail, LivesGoOn, cbox # <<>>, cbox' = Tail(cbox)
  PROVE  ClientMail'
<1> DEFINE S == [what : ClientMessages, from : Senders]
<1>1. cbox \in Seq(S)
  BY DEF ClientMail
<1> HIDE DEF S
<1>2. /\ cbox' \in Seq(S) /\ Len(cbox) \in Nat /\ Len(cbox') = Len(cbox) - 1
      /\ \A i \in 1..Len(cbox') : cbox'[i] = cbox[i + 1] /\ i + 1 \in 1..Len(cbox)
  BY <1>1, TailElements
<1>3. \A i \in 1..Len(cbox') : cbox'[i].what # "init"
  BY <1>2 DEF ClientMail
<1>4. cbox' \in Seq([what : ClientMessages, from : Senders])
  BY <1>2 DEF S
<1> QED
  BY <1>2, <1>3, <1>4 DEF ClientMail, LivesGoOn, Born

LEMMA ClientIsSent ==
  ASSUME ClientMail, LivesGoOn, UNCHANGED tsup,
         NEW m \in [what : ClientMessages \ {"init"}, from : Senders],
         m.what \in ProducerMessages => m.from \in Pids /\ prods'[m.from].st # "unborn",
         m.what \in ClientCalls => m.from \in Callers \cup {Sup},
         m.what \in CallerCalls => m.from \in Callers,
         cbox' = Append(cbox, m)
  PROVE  ClientMail'
<1> DEFINE S == [what : ClientMessages, from : Senders]
<1>1. cbox \in Seq(S) /\ m \in S /\ m.what # "init"
  BY DEF ClientMail
<1> HIDE DEF S
<1>2. /\ cbox' \in Seq(S)
      /\ \A i \in 1..Len(cbox') : (i \in 1..Len(cbox) /\ cbox'[i] = cbox[i]) \/ cbox'[i] = m
  BY <1>1, AppendElements
<1>3. cbox' \in Seq([what : ClientMessages, from : Senders])
  BY <1>2 DEF S
<1>4. ASSUME NEW i \in 1..Len(cbox')
      PROVE  /\ cbox'[i].what \in ProducerMessages => cbox'[i].from \in Pids /\ prods'[cbox'[i].from].st # "unborn"
             /\ cbox'[i].what \in ClientCalls => cbox'[i].from \in Callers \cup {Sup}
             /\ cbox'[i].what \in CallerCalls => cbox'[i].from \in Callers
             /\ cbox'[i].what = "init" => i = 1 /\ tsup' = "none"
  <2>1. CASE i \in 1..Len(cbox) /\ cbox'[i] = cbox[i]
    BY <2>1 DEF ClientMail, LivesGoOn, Born
  <2>2. CASE cbox'[i] = m
    BY <2>2, <1>1
  <2> QED
    BY <1>2, <2>1, <2>2
<1> QED
  BY <1>3, <1>4 DEF ClientMail

\* The client takes the first message, and others put theirs at the end.
LEMMA ClientMailStep == TypeOK /\ Mail /\ BornInOrder /\ [Next]_vars => ClientMail'
<1> SUFFICES ASSUME TypeOK, Mail, BornInOrder, [Next]_vars PROVE ClientMail'
  OBVIOUS
<1>0. LivesGoOn
  BY BornStep
<1>1. CASE UNCHANGED <<cbox, prods, tsup>>
  BY <1>1 DEF Mail, ClientMail, Born
<1>2. ASSUME HandleInit \/ HandleQuery \/ HandleStopProducer \/ HandleGetMetadata \/
             HandleGetLeaderConnection \/ HandleRegister \/ HandleStartProducer
      PROVE  ClientMail'
  <2>1. cbox # <<>> /\ cbox' = Tail(cbox)
    BY <1>2 DEF Takes, HandleInit, HandleQuery, HandleStopProducer, HandleGetMetadata,
       HandleGetLeaderConnection, HandleRegister, HandleStartProducer
  <2> QED
    BY <2>1, <1>0, ClientTakes DEF Mail
<1>3. ASSUME CannotConnect \/ HandleStop \/ StopProducerFailed
      PROVE  ClientMail'
  <2>1. cbox' = <<>>
    BY <1>3 DEF CannotConnect, HandleStop, StopProducerFailed, ClientEnds
  <2>2. 1..Len(cbox') = {}
    BY <2>1, EmptySeq
  <2> QED
    BY <2>1, <2>2, EmptySeq DEF ClientMail
<1>4. ASSUME NEW c \in Callers, CallClient(c)
      PROVE  ClientMail'
  <2>1. CASE cbox' = cbox
    BY <1>4, <2>1, <1>1 DEF CallClient, sups
  <2>2. CASE cbox' = Append(cbox, Message(callers[c].at, c))
    <3>1. callers[c].at \in ClientCalls /\ UNCHANGED tsup
      BY <1>4 DEF CallClient, sups
    <3>2. /\ Message(callers[c].at, c) \in [what : ClientMessages \ {"init"}, from : Senders]
          /\ Message(callers[c].at, c).what \notin ProducerMessages
          /\ Message(callers[c].at, c).from \in Callers
      BY <3>1 DEF Message, ClientMessages, Senders, ClientCalls, ProducerMessages
    <3> QED
      BY <2>2, <3>1, <3>2, <1>0, ClientIsSent DEF Mail
  <2> QED
    BY <1>4, <2>1, <2>2 DEF CallClient
<1>5. ASSUME HandlePostInit \/ LookupCount
      PROVE  ClientMail'
  <2>1. CASE cbox' = cbox /\ UNCHANGED <<prods, tsup>>
    BY <2>1, <1>1
  <2>2. ASSUME NEW w \in {"get_workers_table", "get_metadata"},
               cbox' = Append(cbox, Message(w, Sup))
        PROVE  ClientMail'
    BY <1>5, <2>2, <1>0, ClientIsSent
       DEF HandlePostInit, LookupCount, Message, Mail, ClientMessages, Senders, ClientCalls,
           ProducerMessages, CallerCalls
  <2> QED
    BY <1>5, <2>1, <2>2 DEF HandlePostInit, LookupCount
<1>6. ASSUME NEW p \in Pids, AskForConnection(p)
      PROVE  ClientMail'
  <2>1. /\ cbox' = Append(cbox, Message("get_leader_connection", p)) /\ UNCHANGED tsup
        /\ Born(p)
    BY <1>6 DEF AskForConnection, sups, Born
  <2> QED
    BY <2>1, <1>0, ClientIsSent
       DEF Message, Mail, ClientMessages, Senders, ClientCalls, ProducerMessages, CallerCalls,
           LivesGoOn, Born
<1>7. ASSUME TerminateProducer \/ (\E p \in Pids : ProducerEnds(p))
      PROVE  ClientMail'
  <2>1. UNCHANGED tsup
    BY <1>7 DEF TerminateProducer, ProducerEnds
  <2>2. CASE cbox' = cbox
    BY <2>1, <2>2, <1>0 DEF Mail, ClientMail, LivesGoOn, Born
  <2>3. ASSUME NEW p \in Pids, Born(p), cbox' = Append(cbox, Message("deregister", p))
        PROVE  ClientMail'
    BY <2>1, <2>3, <1>0, ClientIsSent
       DEF Message, Mail, ClientMessages, Senders, ClientCalls, ProducerMessages, CallerCalls,
           LivesGoOn, Born
  <2> QED
    BY <1>7, <2>2, <2>3 DEF TerminateProducer, ProducerEnds, Leaves, Dies, Born, Alive
<1>8. ASSUME StartProducers
      PROVE  ClientMail'
  <2>1. PICK n \in 0..LastPid :
          /\ \A k \in Partitions :
               n + k \in Pids /\ prods'[n + k] = [part |-> k, st |-> "idle"]
          /\ client = "down" => cbox' = cbox
          /\ client # "down" =>
               /\ cbox' \in Seq([what : ClientMessages, from : Senders])
               /\ Len(cbox') = Len(cbox) + NumPartitions
               /\ \A i \in 1..Len(cbox) : cbox'[i] = cbox[i]
               /\ \A k \in Partitions : cbox'[Len(cbox) + k] = Message("register", n + k)
    BY <1>8, AllStarted
  <2>2. UNCHANGED tsup
    BY <1>8 DEF StartProducers
  <2>3. CASE client = "down"
    BY <2>1, <2>2, <2>3, <1>0 DEF Mail, ClientMail, LivesGoOn, Born
  <2>4. CASE client # "down"
    <3>1. Len(cbox) \in Nat /\ NumPartitions \in Nat /\ Partitions = 1..NumPartitions
      BY ClientAssumption DEF Mail, ClientMail, Partitions
    <3>2. ASSUME NEW i \in 1..Len(cbox'), i \notin 1..Len(cbox)
          PROVE  \E k \in Partitions : cbox'[i] = Message("register", n + k)
      <4>1. i - Len(cbox) \in Partitions /\ i = Len(cbox) + (i - Len(cbox))
        BY <2>1, <2>4, <3>1, <3>2
      <4> QED
        BY <2>1, <2>4, <4>1
    <3>3. ASSUME NEW i \in 1..Len(cbox')
          PROVE  /\ cbox'[i].what \in ProducerMessages =>
                      cbox'[i].from \in Pids /\ prods'[cbox'[i].from].st # "unborn"
                 /\ cbox'[i].what \in ClientCalls => cbox'[i].from \in Callers \cup {Sup}
                 /\ cbox'[i].what \in CallerCalls => cbox'[i].from \in Callers
                 /\ cbox'[i].what = "init" => i = 1 /\ tsup' = "none"
      <4>1. CASE i \in 1..Len(cbox)
        BY <2>1, <2>2, <2>4, <4>1, <1>0 DEF Mail, ClientMail, LivesGoOn, Born
      <4>2. CASE i \notin 1..Len(cbox)
        <5>1. PICK k \in Partitions : cbox'[i] = Message("register", n + k)
          BY <3>2, <4>2
        <5>2. /\ cbox'[i].what = "register" /\ cbox'[i].from = n + k
              /\ n + k \in Pids /\ prods'[n + k].st = "idle"
          <6>1. n + k \in Pids /\ prods'[n + k] = [part |-> k, st |-> "idle"]
            BY <2>1
          <6>2. cbox'[i] = [what |-> "register", from |-> n + k]
            BY <5>1 DEF Message
          <6> QED
            BY <6>1, <6>2
        <5> QED
          BY <5>2 DEF ProducerMessages, ClientCalls, CallerCalls
      <4> QED
        BY <4>1, <4>2
    <3> QED
      BY <2>1, <2>4, <3>3 DEF ClientMail
  <2> QED
    BY <2>3, <2>4
<1>9. ASSUME PartitionsSupDelayedRestart
      PROVE  ClientMail'
  <2>1. PICK n \in 0..LastPid :
          /\ n + 1 \in Pids
          /\ prods' = [prods EXCEPT ![n + 1] = [part |-> Head(pbox).from, st |-> "idle"]]
          /\ client = "down" => cbox' = cbox
          /\ client # "down" => cbox' = Append(cbox, Message("register", n + 1))
    BY <1>9, OneStarted
  <2>2. UNCHANGED tsup
    BY <1>9 DEF PartitionsSupDelayedRestart
  <2>3. Born(n + 1)'
    BY <2>1 DEF Born, TypeOK
  <2>4. CASE client = "down"
    BY <2>1, <2>2, <2>4, <1>0 DEF Mail, ClientMail, LivesGoOn, Born
  <2>5. CASE client # "down"
    BY <2>1, <2>2, <2>3, <2>5, <1>0, ClientIsSent
       DEF Message, Mail, ClientMessages, Senders, ClientCalls, ProducerMessages, CallerCalls,
           Born
  <2> QED
    BY <2>4, <2>5
<1>10. ASSUME HandleTerminateChild \/ ChildIsDown \/ TopicsSupShutdown \/ TopicsSupEnds
      PROVE  ClientMail'
  <2>1. cbox' = cbox /\ tsup # "none"
    BY <1>10 DEF HandleTerminateChild, ChildIsDown, TopicsSupShutdown, TopicsSupEnds, TopicsSupTakes
  <2> QED
    BY <2>1, <1>0 DEF Mail, ClientMail, LivesGoOn, Born
<1>11. ASSUME UnknownTopicExpires \/ HandleStartChild \/ HandleDeleteChild \/
              TopicsSupWhichChildren \/
              (\E c \in Callers : Lookup(c) \/ CheckAlive(c) \/ CallTopicsSup(c) \/ CallPartitionsSup(c)) \/
              (\E c \in Callers : \E op \in Ops[c], k \in Partitions : Begin(c, op, k))
      PROVE  UNCHANGED <<cbox, prods, tsup>>
  BY <1>11 DEF Begin, Lookup, CheckAlive, CallTopicsSup, CallPartitionsSup,
       UnknownTopicExpires, HandleStartChild, StartPartitionsSup, TopicsSupTakes,
       HandleDeleteChild, TopicsSupWhichChildren, sups, env
<1>12. ASSUME TopicsSupExit \/ TopicsSupDelayedRestart \/ PartitionsSupWhichChildren \/
              PartitionsSupExit \/ PartitionsSupShutdown \/ PartitionsSupEnds \/
              TopicMoves \/ (\E t \in Partitions \cup {Topic} : TimerFires(t))
      PROVE  UNCHANGED <<cbox, prods, tsup>>
  BY <1>12 DEF TopicsSupExit, TopicsSupTakes, TopicsSupDelayedRestart, StartPartitionsSup,
       PartitionsSupWhichChildren, PartitionsSupTakes, PartitionsSupExit,
       PartitionsSupShutdown, PartitionsSupEnds, TimerFires, TopicMoves, sups, env
<1>13. CASE UNCHANGED vars
  BY <1>1, <1>13 DEF vars, sups
<1> QED
  BY <1>1, <1>2, <1>3, <1>4, <1>5, <1>6, <1>7, <1>8, <1>9, <1>10, <1>11, <1>12, <1>13
     DEF Next, CallerNext, ClientNext, TopicsSupNext, PartitionsSupNext

LEMMA TopicsSupTakesMail ==
  ASSUME TopicsSupMail, tbox # <<>>, tbox' = Tail(tbox)
  PROVE  TopicsSupMail'
<1> DEFINE S == [what : TopicsSupMessages, from : Senders]
<1>1. tbox \in Seq(S)
  BY DEF TopicsSupMail
<1> HIDE DEF S
<1>2. tbox' \in Seq(S) /\ \A i \in 1..Len(tbox') : tbox'[i] = tbox[i + 1] /\ i + 1 \in 1..Len(tbox)
  BY <1>1, TailElements
<1> QED
  BY <1>2 DEF S, TopicsSupMail

LEMMA TopicsSupIsSent ==
  ASSUME TopicsSupMail, NEW m \in [what : TopicsSupMessages, from : Senders],
         m.what = "which_children" => m.from \in Callers, tbox' = Append(tbox, m)
  PROVE  TopicsSupMail'
<1> DEFINE S == [what : TopicsSupMessages, from : Senders]
<1>1. tbox \in Seq(S) /\ m \in S
  BY DEF TopicsSupMail
<1> HIDE DEF S
<1>2. /\ tbox' \in Seq(S)
      /\ \A i \in 1..Len(tbox') : (i \in 1..Len(tbox) /\ tbox'[i] = tbox[i]) \/ tbox'[i] = m
  BY <1>1, AppendElements
<1> QED
  BY <1>2 DEF S, TopicsSupMail

LEMMA PartitionsSupTakesMail ==
  ASSUME PartitionsSupMail, pbox # <<>>, pbox' = Tail(pbox)
  PROVE  PartitionsSupMail'
<1> DEFINE S == [what : PartitionsSupMessages, from : Senders]
<1>1. pbox \in Seq(S)
  BY DEF PartitionsSupMail
<1> HIDE DEF S
<1>2. pbox' \in Seq(S) /\ \A i \in 1..Len(pbox') : pbox'[i] = pbox[i + 1] /\ i + 1 \in 1..Len(pbox)
  BY <1>1, TailElements
<1> QED
  BY <1>2 DEF S, PartitionsSupMail

LEMMA PartitionsSupIsSent ==
  ASSUME PartitionsSupMail, NEW m \in [what : PartitionsSupMessages, from : Senders],
         m.what = "which_children" => m.from \in Callers,
         m.what = "EXIT" => m.from \in Pids,
         m.what = "delayed_restart" => m.from \in Partitions, pbox' = Append(pbox, m)
  PROVE  PartitionsSupMail'
<1> DEFINE S == [what : PartitionsSupMessages, from : Senders]
<1>1. pbox \in Seq(S) /\ m \in S
  BY DEF PartitionsSupMail
<1> HIDE DEF S
<1>2. /\ pbox' \in Seq(S)
      /\ \A i \in 1..Len(pbox') : (i \in 1..Len(pbox) /\ pbox'[i] = pbox[i]) \/ pbox'[i] = m
  BY <1>1, AppendElements
<1> QED
  BY <1>2 DEF S, PartitionsSupMail

LEMMA TopicsSupMailStep == ClientInv /\ [Next]_vars => TopicsSupMail'
<1> SUFFICES ASSUME ClientInv, [Next]_vars PROVE TopicsSupMail'
  OBVIOUS
<1>0. TopicsSupMail
  BY DEF ClientInv, Mail
<1>1. CASE UNCHANGED <<tbox>>
  BY <1>0, <1>1 DEF TopicsSupMail
<1>2. ASSUME HandleStartChild \/ HandleDeleteChild \/ TopicsSupWhichChildren \/
             TopicsSupExit \/ TopicsSupDelayedRestart \/ TopicsSupShutdown
      PROVE  TopicsSupMail'
  <2>1. tbox # <<>> /\ tbox' = Tail(tbox)
    BY <1>2 DEF TopicsSupTakes, HandleStartChild, HandleDeleteChild, TopicsSupWhichChildren,
       TopicsSupExit, TopicsSupDelayedRestart, TopicsSupShutdown
  <2> QED
    BY <2>1, <1>0, TopicsSupTakesMail
<1>3. ASSUME NEW c \in Callers, CallTopicsSup(c)
      PROVE  TopicsSupMail'
  <2>1. UNCHANGED tbox \/ tbox' = Append(tbox, Message("which_children", c))
    BY <1>3 DEF CallTopicsSup
  <2> QED
    BY <2>1, <1>0, <1>1, TopicsSupIsSent DEF Message, TopicsSupMessages, ClientWaits, Senders
<1>4. ASSUME HandleStartProducer \/ HandleStopProducer \/ ChildIsDown
      PROVE  TopicsSupMail'
  <2>1. \/ UNCHANGED tbox
        \/ \E w \in ClientWaits : tbox' = Append(tbox, Message(w, Sup))
    BY <1>4 DEF HandleStartProducer, HandleStopProducer, ChildIsDown, Terminated, ClientWaits
  <2> QED
    BY <2>1, <1>0, <1>1, TopicsSupIsSent DEF Message, TopicsSupMessages, ClientWaits, Senders
<1>5. ASSUME CannotConnect \/ HandleStop \/ StopProducerFailed \/ PartitionsSupEnds \/
             (\E t \in Partitions \cup {Topic} : TimerFires(t))
      PROVE  TopicsSupMail'
  <2>1. \/ UNCHANGED tbox
        \/ \E w \in {"shutdown", "EXIT", "delayed_restart"} : tbox' = Append(tbox, Message(w, Nobody))
    BY <1>5 DEF CannotConnect, HandleStop, StopProducerFailed, ClientEnds, PartitionsSupEnds,
       TimerFires, Topic, Nobody
  <2> QED
    BY <2>1, <1>0, <1>1, TopicsSupIsSent DEF Message, TopicsSupMessages, ClientWaits, Senders
<1>6. ASSUME HandleTerminateChild
      PROVE  TopicsSupMail'
  <2>1. tbox # <<>>
    BY <1>6 DEF HandleTerminateChild, TopicsSupTakes
  <2>2. CASE tbox' = Tail(tbox)
    BY <2>1, <2>2, <1>0, TopicsSupTakesMail
  <2>3. CASE tbox' = Append(WithoutExit(Tail(tbox)), Message("delete_child", Sup))
    <3> DEFINE S == [what : TopicsSupMessages, from : Senders]
               rest == Tail(tbox)
               box == WithoutExit(rest)
    <3>1. tbox \in Seq(S)
      BY <1>0 DEF TopicsSupMail
    <3>2. Message("delete_child", Sup) \in S
      BY DEF Message, TopicsSupMessages, ClientWaits, Senders
    <3> HIDE DEF S
    <3>3. /\ rest \in Seq(S) /\ Len(rest) = Len(tbox) - 1 /\ Len(tbox) \in Nat
          /\ \A i \in 1..Len(rest) : rest[i] = tbox[i + 1] /\ i + 1 \in 1..Len(tbox)
      BY <2>1, <3>1, TailElements
    <3>4. \A i, j \in 1..Len(rest) : rest[i].what = "EXIT" /\ rest[j].what = "EXIT" => i = j
      BY <3>3 DEF ClientInv, OneRestart, RestartOrder
    <3> HIDE DEF rest
    <3>5. /\ box \in Seq(S)
          /\ \E f \in [1..Len(box) -> 1..Len(rest)] : \A i \in 1..Len(box) : box[i] = rest[f[i]]
      BY <3>3, <3>4, WithoutExitElements
    <3> HIDE DEF box
    <3>6. tbox' = Append(box, Message("delete_child", Sup))
      BY <2>3 DEF box, rest
    <3>7. /\ tbox' \in Seq(S)
          /\ \A i \in 1..Len(tbox') :
               (i \in 1..Len(box) /\ tbox'[i] = box[i]) \/ tbox'[i] = Message("delete_child", Sup)
      BY <3>2, <3>5, <3>6, AppendElements
    <3>8. ASSUME NEW i \in 1..Len(tbox'), tbox'[i].what = "which_children"
          PROVE  tbox'[i].from \in Callers
      <4>1. i \in 1..Len(box) /\ tbox'[i] = box[i]
        BY <3>7, <3>8 DEF Message
      <4>2. PICK j \in 1..Len(rest) : box[i] = rest[j]
        BY <3>5, <4>1
      <4> QED
        BY <3>3, <3>8, <4>1, <4>2, <1>0 DEF TopicsSupMail
    <3> QED
      BY <3>7, <3>8 DEF S, TopicsSupMail
  <2> QED
    BY <1>6, <2>2, <2>3 DEF HandleTerminateChild, Terminated
<1>7. ASSUME TopicsSupEnds
      PROVE  TopicsSupMail'
  <2>1. tbox' = <<>> /\ Len(<<>>) = 0
    BY <1>7, EmptySeq DEF TopicsSupEnds
  <2> QED
    BY <2>1, EmptySeq DEF TopicsSupMail
<1>8. ASSUME HandleInit \/ HandleQuery \/ HandleGetMetadata \/ HandleGetLeaderConnection \/
             (\E c \in Callers : Lookup(c) \/ CheckAlive(c) \/ CallClient(c) \/ CallPartitionsSup(c)) \/
             (\E c \in Callers : \E op \in Ops[c], k \in Partitions : Begin(c, op, k))
      PROVE  UNCHANGED <<tbox>>
  BY <1>8 DEF Begin, Lookup, CheckAlive, CallClient, CallPartitionsSup, HandleInit, Takes,
       HandleQuery, HandleGetMetadata, HandleGetLeaderConnection, sups, env
<1>9. ASSUME HandleRegister \/ UnknownTopicExpires \/ HandlePostInit \/ LookupCount \/
             StartProducers \/ PartitionsSupWhichChildren \/ PartitionsSupExit \/
             PartitionsSupDelayedRestart \/ PartitionsSupShutdown
      PROVE  UNCHANGED <<tbox>>
  BY <1>9 DEF HandleRegister, Takes, UnknownTopicExpires, HandlePostInit,
       PartitionsSupTakes, LookupCount, StartProducers, Start, PartitionsSupWhichChildren,
       PartitionsSupExit, PartitionsSupDelayedRestart, PartitionsSupShutdown, sups, env
<1>10. ASSUME TerminateProducer \/ TopicMoves \/
              (\E p \in Pids : AskForConnection(p) \/ ProducerEnds(p))
      PROVE  UNCHANGED <<tbox>>
  BY <1>10 DEF TerminateProducer, Leaves, Dies, AskForConnection, ProducerEnds, TopicMoves,
       sups, env
<1>11. CASE UNCHANGED vars
  BY <1>1, <1>11 DEF vars, sups
<1> QED
  BY <1>1, <1>2, <1>3, <1>4, <1>5, <1>6, <1>7, <1>8, <1>9, <1>10, <1>11
     DEF Next, CallerNext, ClientNext, TopicsSupNext, PartitionsSupNext

LEMMA PartitionsSupMailStep == ClientInv /\ [Next]_vars => PartitionsSupMail'
<1> SUFFICES ASSUME ClientInv, [Next]_vars PROVE PartitionsSupMail'
  OBVIOUS
<1>0. PartitionsSupMail
  BY DEF ClientInv, Mail
<1>1. CASE UNCHANGED <<pbox>>
  BY <1>0, <1>1 DEF PartitionsSupMail
<1>2. ASSUME HandlePostInit \/ PartitionsSupWhichChildren \/ PartitionsSupExit \/
             PartitionsSupDelayedRestart \/ PartitionsSupShutdown
      PROVE  PartitionsSupMail'
  <2>1. pbox # <<>> /\ pbox' = Tail(pbox)
    BY <1>2 DEF PartitionsSupTakes, HandlePostInit, PartitionsSupWhichChildren, PartitionsSupExit,
       PartitionsSupDelayedRestart, PartitionsSupShutdown
  <2> QED
    BY <2>1, <1>0, PartitionsSupTakesMail
<1>3. ASSUME NEW c \in Callers, CallPartitionsSup(c)
      PROVE  PartitionsSupMail'
  <2>1. pbox' = Append(pbox, Message("which_children", c))
    BY <1>3 DEF CallPartitionsSup
  <2> QED
    BY <2>1, <1>0, PartitionsSupIsSent DEF Message, PartitionsSupMessages, Senders
<1>4. ASSUME HandleTerminateChild \/ TopicsSupShutdown
      PROVE  PartitionsSupMail'
  <2>1. UNCHANGED pbox \/ pbox' = Append(pbox, Message("shutdown", Nobody))
    BY <1>4 DEF HandleTerminateChild, TopicsSupShutdown, Topic, Nobody
  <2> QED
    BY <2>1, <1>0, <1>1, PartitionsSupIsSent DEF Message, PartitionsSupMessages, Senders
<1>5. ASSUME NEW p \in Pids, ProducerEnds(p)
      PROVE  PartitionsSupMail'
  <2>1. pbox' = Append(pbox, Message("EXIT", p))
    BY <1>5 DEF ProducerEnds
  <2> QED
    BY <2>1, <1>0, PartitionsSupIsSent DEF Message, PartitionsSupMessages, Senders
<1>6. ASSUME NEW t \in Partitions \cup {Topic}, TimerFires(t)
      PROVE  PartitionsSupMail'
  <2>1. UNCHANGED pbox \/ (t \in Partitions /\ pbox' = Append(pbox, Message("delayed_restart", t)))
    BY <1>6 DEF TimerFires
  <2> QED
    BY <2>1, <1>0, <1>1, PidFacts, PartitionsSupIsSent DEF Message, PartitionsSupMessages, Senders
<1>7. ASSUME HandleStartChild \/ TopicsSupDelayedRestart
      PROVE  PartitionsSupMail'
  <2>1. UNCHANGED pbox \/ pbox' = <<Message("post_init", Nobody)>>
    BY <1>7 DEF HandleStartChild, TopicsSupDelayedRestart, StartPartitionsSup, Topic, Nobody
  <2>2. CASE pbox' = <<Message("post_init", Nobody)>>
    <3>1. Message("post_init", Nobody) \in [what : PartitionsSupMessages, from : Senders]
      BY DEF Message, PartitionsSupMessages, Senders
    <3>2. /\ pbox' \in Seq([what : PartitionsSupMessages, from : Senders])
          /\ \A i \in 1..Len(pbox') : pbox'[i] = Message("post_init", Nobody)
      BY <2>2, <3>1
    <3> QED
      BY <3>2 DEF PartitionsSupMail, Message
  <2> QED
    BY <2>1, <2>2, <1>1
<1>8. ASSUME PartitionsSupEnds
      PROVE  PartitionsSupMail'
  <2>1. pbox' = <<>> /\ Len(<<>>) = 0
    BY <1>8, EmptySeq DEF PartitionsSupEnds
  <2> QED
    BY <2>1, EmptySeq DEF PartitionsSupMail
<1>9. ASSUME HandleInit \/ HandleQuery \/ HandleStartProducer \/ HandleStopProducer \/
             (\E c \in Callers : Lookup(c) \/ CheckAlive(c) \/ CallClient(c) \/ CallTopicsSup(c)) \/
             (\E c \in Callers : \E op \in Ops[c], k \in Partitions : Begin(c, op, k))
      PROVE  UNCHANGED <<pbox>>
  BY <1>9 DEF Begin, Lookup, CheckAlive, CallClient, CallTopicsSup, HandleInit, Takes,
       HandleQuery, HandleStartProducer, HandleStopProducer, sups, env
<1>10. ASSUME HandleGetMetadata \/ HandleGetLeaderConnection \/ HandleRegister \/
              CannotConnect \/ HandleStop \/ StopProducerFailed \/ UnknownTopicExpires \/
              ChildIsDown \/ HandleDeleteChild
      PROVE  UNCHANGED <<pbox>>
  BY <1>10 DEF HandleGetMetadata, Takes, HandleGetLeaderConnection, HandleRegister,
       CannotConnect, ClientEnds, HandleStop, StopProducerFailed, UnknownTopicExpires,
       ChildIsDown, Terminated, HandleDeleteChild, TopicsSupTakes, sups, env
<1>11. ASSUME TopicsSupWhichChildren \/ TopicsSupExit \/ TopicsSupEnds \/ LookupCount \/
              StartProducers \/ TerminateProducer \/ TopicMoves \/
              (\E p \in Pids : AskForConnection(p))
      PROVE  UNCHANGED <<pbox>>
  BY <1>11 DEF TopicsSupWhichChildren, TopicsSupTakes, TopicsSupExit, TopicsSupEnds,
       LookupCount, StartProducers, Start, TerminateProducer, Leaves, Dies,
       AskForConnection, TopicMoves, sups, env
<1>12. CASE UNCHANGED vars
  BY <1>1, <1>12 DEF vars, sups
<1> QED
  BY <1>1, <1>2, <1>3, <1>4, <1>5, <1>6, <1>7, <1>8, <1>9, <1>10, <1>11, <1>12
     DEF Next, CallerNext, ClientNext, TopicsSupNext, PartitionsSupNext

\* The part of the type invariant that the control of a process is.
ControlTyped ==
  /\ client \in {"up", "down", "start_child", "terminate_child", "delete_child", "badmatch"}
  /\ serving \in Callers \cup {Nobody}
  /\ count \in {"none", "counted", "unknown"}
  /\ tsup \in {"none", "up", "down", "terminate_child", "terminate"}
  /\ child \in {"absent", "undefined", "restarting", "pid"}
  /\ psup \in {"down", "up", "terminate", "get_workers_table", "lookup", "get_metadata",
               "counted", "failed"}
  /\ timers \subseteq Partitions \cup {Topic}

LEMMA ControlTypedStep == TypeOK /\ Mail /\ [Next]_vars => ControlTyped'
<1> SUFFICES ASSUME TypeOK, Mail, [Next]_vars PROVE ControlTyped'
  OBVIOUS
<1>0. ControlTyped
  BY DEF TypeOK, ControlTyped
<1>1. CASE UNCHANGED <<client, serving, count, tsup, child, psup, timers>>
  BY <1>0, <1>1 DEF ControlTyped
<1>2. ASSUME CannotConnect \/ HandleStop \/ StopProducerFailed
      PROVE  ControlTyped'
  BY <1>2, <1>0 DEF ControlTyped, CannotConnect, ClientEnds, Takes, HandleStop,
       StopProducerFailed
<1>3. ASSUME HandleInit \/ ChildIsDown \/ TopicsSupShutdown \/ TopicsSupEnds \/
             HandleTerminateChild
      PROVE  ControlTyped'
  BY <1>3, <1>0 DEF ControlTyped, HandleInit, Takes, ChildIsDown, Terminated,
       TopicsSupShutdown, TopicsSupTakes, TopicsSupEnds, HandleTerminateChild
<1>4. ASSUME HandleStartProducer \/ HandleStopProducer
      PROVE  ControlTyped'
  <2>1. Head(cbox).from \in Callers
    <3>1. /\ cbox # <<>>
          /\ Head(cbox).what \in CallerCalls
      BY <1>4 DEF HandleStartProducer, HandleStopProducer, Takes, CallerCalls
    <3>2. cbox \in Seq([what : ClientMessages, from : Senders])
      BY DEF Mail, ClientMail
    <3>3. Head(cbox) = cbox[1] /\ 1 \in 1..Len(cbox)
      BY <3>1, <3>2, TailElements
    <3> QED
      BY <3>1, <3>3 DEF Mail, ClientMail
  <2>2. /\ client' \in {client, "start_child", "terminate_child"}
        /\ serving' \in {serving, Head(cbox).from}
        /\ count' \in {"none", "counted", "unknown"}
        /\ UNCHANGED <<tsup, child, psup, timers>>
    BY <1>4, <1>0 DEF HandleStartProducer, HandleStopProducer, Fetched, ControlTyped
  <2> QED
    BY <2>1, <2>2, <1>0 DEF ControlTyped
<1>5. ASSUME HandleQuery \/ HandleGetMetadata \/ UnknownTopicExpires
      PROVE  ControlTyped'
  <2>1. /\ psup' \in {psup, "lookup", "counted", "failed"}
        /\ count' \in {"none", "counted", "unknown"}
        /\ UNCHANGED <<client, serving, tsup, child, timers>>
    BY <1>5, <1>0 DEF HandleQuery, HandleGetMetadata, UnknownTopicExpires, Fetched, ControlTyped, sups
  <2> QED
    BY <2>1, <1>0 DEF ControlTyped
<1>6. ASSUME HandleStartChild \/ HandleDeleteChild \/ TopicsSupExit \/
             TopicsSupDelayedRestart
      PROVE  ControlTyped'
  BY <1>6, <1>0 DEF ControlTyped, HandleStartChild, StartPartitionsSup, TopicsSupTakes,
       HandleDeleteChild, TopicsSupExit, TopicsSupDelayedRestart
<1>7. ASSUME HandlePostInit \/ LookupCount \/ StartProducers \/ PartitionsSupShutdown \/
             PartitionsSupEnds
      PROVE  ControlTyped'
  BY <1>7, <1>0 DEF ControlTyped, HandlePostInit, PartitionsSupTakes, LookupCount,
       StartProducers, Start, PartitionsSupShutdown, PartitionsSupEnds
<1>8. ASSUME TerminateProducer
      PROVE  ControlTyped'
  BY <1>8, <1>0 DEF ControlTyped, TerminateProducer, Leaves, Dies
<1>9. ASSUME NEW t \in Partitions \cup {Topic}, TimerFires(t)
      PROVE  ControlTyped'
  BY <1>9, <1>0 DEF ControlTyped, TimerFires
<1>10. ASSUME PartitionsSupExit
      PROVE  ControlTyped'
  <2>1. Head(pbox).from \in Pids
    <3>1. pbox # <<>> /\ Head(pbox).what = "EXIT"
      BY <1>10 DEF PartitionsSupExit, PartitionsSupTakes
    <3>2. pbox \in Seq([what : PartitionsSupMessages, from : Senders])
      BY DEF Mail, PartitionsSupMail
    <3>3. Head(pbox) = pbox[1] /\ 1 \in 1..Len(pbox)
      BY <3>1, <3>2, TailElements
    <3> QED
      BY <3>1, <3>3 DEF Mail, PartitionsSupMail
  <2>2. prods[Head(pbox).from].part \in Partitions
    BY <2>1 DEF TypeOK
  <2> QED
    BY <1>10, <2>2, <1>0 DEF PartitionsSupExit, ControlTyped
<1>11. ASSUME HandleGetLeaderConnection \/ HandleRegister \/ TopicsSupWhichChildren \/
              (\E c \in Callers : Lookup(c) \/ CheckAlive(c) \/ CallClient(c) \/ CallTopicsSup(c) \/ CallPartitionsSup(c)) \/
              (\E c \in Callers : \E op \in Ops[c], k \in Partitions : Begin(c, op, k))
      PROVE  UNCHANGED <<client, serving, count, tsup, child, psup, timers>>
  BY <1>11 DEF Begin, Lookup, CheckAlive, CallClient, CallTopicsSup, CallPartitionsSup,
       HandleGetLeaderConnection, Takes, HandleRegister, TopicsSupWhichChildren,
       TopicsSupTakes, sups, env
<1>12. ASSUME PartitionsSupWhichChildren \/ PartitionsSupDelayedRestart \/ TopicMoves \/
              (\E p \in Pids : AskForConnection(p) \/ ProducerEnds(p))
      PROVE  UNCHANGED <<client, serving, count, tsup, child, psup, timers>>
  BY <1>12 DEF PartitionsSupWhichChildren, PartitionsSupTakes, PartitionsSupDelayedRestart,
       Start, AskForConnection, ProducerEnds, Leaves, Dies, TopicMoves, sups, env
<1>13. CASE UNCHANGED vars
  BY <1>1, <1>13 DEF vars, sups
<1> QED
  BY <1>1, <1>2, <1>3, <1>4, <1>5, <1>6, <1>7, <1>8, <1>9, <1>10, <1>11, <1>12, <1>13
     DEF Next, CallerNext, ClientNext, TopicsSupNext, PartitionsSupNext

TableTyped == table \in [Partitions -> Pids \cup {Nobody}]

LEMMA TableTypedStep == TypeOK /\ Mail /\ [Next]_vars => TableTyped'
<1> SUFFICES ASSUME TypeOK, Mail, [Next]_vars PROVE TableTyped'
  OBVIOUS
<1>0. TableTyped
  BY DEF TypeOK, TableTyped
<1>1. CASE UNCHANGED <<table>>
  BY <1>0, <1>1 DEF TableTyped
<1>2. ASSUME CannotConnect \/ HandleStop \/ StopProducerFailed
      PROVE  TableTyped'
  BY <1>2 DEF CannotConnect, HandleStop, StopProducerFailed, ClientEnds, EmptyTable, TableTyped
<1>3. ASSUME HandleRegister
      PROVE  TableTyped'
  <2>1. Head(cbox).from \in Pids
    <3>1. cbox # <<>> /\ Head(cbox).what \in ProducerMessages
      BY <1>3 DEF HandleRegister, Takes, ProducerMessages
    <3>2. cbox \in Seq([what : ClientMessages, from : Senders])
      BY DEF Mail, ClientMail
    <3>3. Head(cbox) = cbox[1] /\ 1 \in 1..Len(cbox)
      BY <3>1, <3>2, TailElements
    <3> QED
      BY <3>1, <3>3 DEF Mail, ClientMail
  <2> QED
    BY <1>3, <2>1, <1>0 DEF HandleRegister, TableTyped
<1>4. ASSUME HandleInit \/ HandleQuery \/ HandleStartProducer \/
             (\E c \in Callers : Lookup(c) \/ CheckAlive(c) \/ CallClient(c) \/ CallTopicsSup(c) \/ CallPartitionsSup(c)) \/
             (\E c \in Callers : \E op \in Ops[c], k \in Partitions : Begin(c, op, k))
      PROVE  UNCHANGED <<table>>
  BY <1>4 DEF Begin, Lookup, CheckAlive, CallClient, CallTopicsSup, CallPartitionsSup,
       HandleInit, Takes, HandleQuery, HandleStartProducer, sups, env
<1>5. ASSUME HandleStopProducer \/ HandleGetMetadata \/ HandleGetLeaderConnection \/
             UnknownTopicExpires \/ HandleStartChild \/ HandleTerminateChild \/
             ChildIsDown \/ HandleDeleteChild \/ TopicsSupWhichChildren
      PROVE  UNCHANGED <<table>>
  BY <1>5 DEF HandleStopProducer, Takes, HandleGetMetadata, HandleGetLeaderConnection,
       UnknownTopicExpires, HandleStartChild, StartPartitionsSup, TopicsSupTakes,
       HandleTerminateChild, Terminated, ChildIsDown, HandleDeleteChild,
       TopicsSupWhichChildren, sups, env
<1>6. ASSUME TopicsSupExit \/ TopicsSupDelayedRestart \/ TopicsSupShutdown \/
             TopicsSupEnds \/ HandlePostInit \/ LookupCount \/ StartProducers \/
             PartitionsSupWhichChildren \/ PartitionsSupExit
      PROVE  UNCHANGED <<table>>
  BY <1>6 DEF TopicsSupExit, TopicsSupTakes, TopicsSupDelayedRestart, StartPartitionsSup,
       TopicsSupShutdown, TopicsSupEnds, HandlePostInit, PartitionsSupTakes, LookupCount,
       StartProducers, Start, PartitionsSupWhichChildren, PartitionsSupExit, sups, env
<1>7. ASSUME PartitionsSupDelayedRestart \/ PartitionsSupShutdown \/ TerminateProducer \/
             PartitionsSupEnds \/ TopicMoves \/
             (\E p \in Pids : AskForConnection(p) \/ ProducerEnds(p)) \/
             (\E t \in Partitions \cup {Topic} : TimerFires(t))
      PROVE  UNCHANGED <<table>>
  BY <1>7 DEF PartitionsSupDelayedRestart, Start, PartitionsSupTakes, PartitionsSupShutdown,
       TerminateProducer, Leaves, Dies, PartitionsSupEnds, AskForConnection, ProducerEnds,
       TimerFires, TopicMoves, sups, env
<1>8. CASE UNCHANGED vars
  BY <1>1, <1>8 DEF vars, sups
<1> QED
  BY <1>1, <1>2, <1>3, <1>4, <1>5, <1>6, <1>7, <1>8
     DEF Next, CallerNext, ClientNext, TopicsSupNext, PartitionsSupNext

KidsTyped == kids = <<>> \/ kids \in [Partitions -> Pids \cup {Nobody, Restarting}]

LEMMA KidsTypedStep == TypeOK /\ Mail /\ BornInOrder /\ OneProducer /\ [Next]_vars => KidsTyped'
<1> SUFFICES ASSUME TypeOK, Mail, BornInOrder, OneProducer, [Next]_vars PROVE KidsTyped'
  OBVIOUS
<1>0. KidsTyped
  BY DEF TypeOK, KidsTyped
<1>1. CASE UNCHANGED <<kids>>
  BY <1>0, <1>1 DEF KidsTyped
<1>2. ASSUME HandleStartChild \/ TopicsSupDelayedRestart \/ PartitionsSupEnds
      PROVE  KidsTyped'
  BY <1>2, <1>0 DEF HandleStartChild, TopicsSupDelayedRestart, PartitionsSupEnds,
       StartPartitionsSup, KidsTyped
<1>3. ASSUME StartProducers
      PROVE  KidsTyped'
  BY <1>3, AllStarted DEF KidsTyped
<1>4. ASSUME PartitionsSupExit
      PROVE  KidsTyped'
  <2>1. kids # <<>>
    <3>1. pbox # <<>> /\ Head(pbox).what = "EXIT" /\ psup = "up"
      BY <1>4 DEF PartitionsSupExit, PartitionsSupTakes
    <3>2. pbox \in Seq([what : PartitionsSupMessages, from : Senders])
      BY DEF Mail, PartitionsSupMail
    <3>3. Head(pbox) = pbox[1] /\ 1 \in 1..Len(pbox)
      BY <3>1, <3>2, TailElements
    <3> QED
      BY <3>1, <3>3 DEF OneProducer, TokensStand
  <2> QED
    BY <1>4, <2>1, <1>0 DEF PartitionsSupExit, KidsTyped
<1>5. ASSUME PartitionsSupDelayedRestart
      PROVE  KidsTyped'
  <2>1. kids # <<>>
    <3>1. pbox # <<>> /\ Head(pbox).what = "delayed_restart" /\ psup = "up"
      BY <1>5 DEF PartitionsSupDelayedRestart, PartitionsSupTakes
    <3>2. pbox \in Seq([what : PartitionsSupMessages, from : Senders])
      BY DEF Mail, PartitionsSupMail
    <3>3. Head(pbox) = pbox[1] /\ 1 \in 1..Len(pbox)
      BY <3>1, <3>2, TailElements
    <3> QED
      BY <3>1, <3>3 DEF OneProducer, TokensStand
  <2>2. PICK n \in 0..LastPid : /\ n + 1 \in Pids
          /\ kids' = [k \in Partitions |-> IF k = Head(pbox).from THEN n + 1 ELSE kids[k]]
    BY <1>5, OneStarted
  <2> QED
    BY <2>1, <2>2, <1>0 DEF KidsTyped
<1>6. ASSUME TerminateProducer
      PROVE  KidsTyped'
  <2>1. PICK k \in DOMAIN kids : kids' = [kids EXCEPT ![k] = Nobody]
    BY <1>6 DEF TerminateProducer
  <2>2. kids # <<>>
    BY <2>1
  <2> QED
    BY <2>1, <2>2, <1>0 DEF KidsTyped
<1>7. ASSUME HandleInit \/ HandleQuery \/ HandleStartProducer \/
             (\E c \in Callers : Lookup(c) \/ CheckAlive(c) \/ CallClient(c) \/ CallTopicsSup(c) \/ CallPartitionsSup(c)) \/
             (\E c \in Callers : \E op \in Ops[c], k \in Partitions : Begin(c, op, k))
      PROVE  UNCHANGED <<kids>>
  BY <1>7 DEF Begin, Lookup, CheckAlive, CallClient, CallTopicsSup, CallPartitionsSup,
       HandleInit, Takes, HandleQuery, HandleStartProducer, sups, env
<1>8. ASSUME HandleStopProducer \/ HandleGetMetadata \/ HandleGetLeaderConnection \/
             HandleRegister \/ CannotConnect \/ HandleStop \/ StopProducerFailed \/
             UnknownTopicExpires \/ HandleTerminateChild
      PROVE  UNCHANGED <<kids>>
  BY <1>8 DEF HandleStopProducer, Takes, HandleGetMetadata, HandleGetLeaderConnection,
       HandleRegister, CannotConnect, ClientEnds, HandleStop, StopProducerFailed,
       UnknownTopicExpires, HandleTerminateChild, Terminated, TopicsSupTakes, sups, env
<1>9. ASSUME ChildIsDown \/ HandleDeleteChild \/ TopicsSupWhichChildren \/ TopicsSupExit \/
             TopicsSupShutdown \/ TopicsSupEnds \/ HandlePostInit \/ LookupCount \/
             PartitionsSupWhichChildren
      PROVE  UNCHANGED <<kids>>
  BY <1>9 DEF ChildIsDown, Terminated, HandleDeleteChild, TopicsSupTakes,
       TopicsSupWhichChildren, TopicsSupExit, TopicsSupShutdown, TopicsSupEnds,
       HandlePostInit, PartitionsSupTakes, LookupCount, PartitionsSupWhichChildren, sups,
       env
<1>10. ASSUME PartitionsSupShutdown \/ TopicMoves \/
              (\E p \in Pids : AskForConnection(p) \/ ProducerEnds(p)) \/
              (\E t \in Partitions \cup {Topic} : TimerFires(t))
      PROVE  UNCHANGED <<kids>>
  BY <1>10 DEF PartitionsSupShutdown, PartitionsSupTakes, AskForConnection, ProducerEnds,
       Leaves, Dies, TimerFires, TopicMoves, sups, env
<1>11. CASE UNCHANGED vars
  BY <1>1, <1>11 DEF vars, sups
<1> QED
  BY <1>1, <1>2, <1>3, <1>4, <1>5, <1>6, <1>7, <1>8, <1>9, <1>10, <1>11
     DEF Next, CallerNext, ClientNext, TopicsSupNext, PartitionsSupNext

LEMMA SendersOf ==
  ASSUME NEW W, NEW box \in Seq([what : W, from : Senders])
  PROVE  \A i \in DOMAIN box : box[i].from \in Senders
<1> DEFINE S == [what : W, from : Senders]
<1>1. \A m \in S : m.from \in Senders
  OBVIOUS
<1>2. box \in Seq(S)
  OBVIOUS
<1> HIDE DEF S
<1>3. \A i \in DOMAIN box : box[i] \in S
  BY <1>2
<1> QED
  BY <1>1, <1>3

\* Every variable keeps its type, and the mailboxes theirs.
LEMMA TypeStep == ClientInv /\ [Next]_vars => TypeOK' /\ Mail' /\ BornInOrder' /\ LivesGoOn
<1> SUFFICES ASSUME ClientInv, [Next]_vars PROVE TypeOK' /\ Mail' /\ BornInOrder' /\ LivesGoOn
  OBVIOUS
<1>1. ControlTyped' /\ TableTyped' /\ KidsTyped' /\ BornInOrder' /\ LivesGoOn
  BY ControlTypedStep, TableTypedStep, KidsTypedStep, BornStep DEF ClientInv
<1>2. Mail'
  BY ClientMailStep, TopicsSupMailStep, PartitionsSupMailStep DEF Mail, ClientInv
<1>3. \A box \in {cbox', tbox', pbox'} : \A i \in DOMAIN box :
        box[i].from \in Callers \cup Pids \cup {Nobody, Sup}
  <2>1. \A i \in DOMAIN cbox' : cbox'[i].from \in Senders
    BY <1>2, SendersOf DEF Mail, ClientMail
  <2>2. \A i \in DOMAIN tbox' : tbox'[i].from \in Senders
    BY <1>2, SendersOf DEF Mail, TopicsSupMail
  <2>3. \A i \in DOMAIN pbox' : pbox'[i].from \in Senders
    BY <1>2, SendersOf DEF Mail, PartitionsSupMail
  <2> QED
    BY <2>1, <2>2, <2>3 DEF Senders
<1>4. TypeOK'
  BY <1>1, <1>3 DEF TypeOK, ControlTyped, TableTyped, KidsTyped, LivesGoOn, ProdType
<1> QED
  BY <1>1, <1>2, <1>4

-----------------------------------------------------------------------------
(***************************************************************************)
(* What each action does to a mailbox: takes the first message, puts one   *)
(* at the end, or (monitor_child) takes the EXIT out.                      *)
(***************************************************************************)
Took(a, b) ==
  /\ a # <<>> /\ Len(a) \in Nat /\ 1 \in 1..Len(a) /\ Head(a) = a[1]
  /\ Len(b) = Len(a) - 1
  /\ \A i \in 1..Len(b) : b[i] = a[i + 1] /\ i + 1 \in 1..Len(a)
Sent(a, m, b) ==
  /\ Len(a) \in Nat /\ Len(b) = Len(a) + 1
  /\ \A i \in 1..Len(a) : b[i] = a[i] /\ i \in 1..Len(b)
  /\ b[Len(a) + 1] = m /\ Len(a) + 1 \in 1..Len(b)
  /\ \A i \in 1..Len(b) : i \in 1..Len(a) \/ i = Len(a) + 1
Cut(a, b) ==
  /\ a # <<>> /\ Len(a) \in Nat /\ 1 \in 1..Len(a) /\ Head(a) = a[1]
  /\ Len(b) \in Nat \ {0} /\ b[Len(b)] = Message("delete_child", Sup)
  /\ \E f \in [1..(Len(b) - 1) -> 2..Len(a)] :
       /\ \A i \in 1..(Len(b) - 1) : b[i] = a[f[i]] /\ b[i].what # "EXIT"
       /\ \A i, j \in 1..(Len(b) - 1) : i < j => f[i] < f[j]

LEMMA TookTail == ASSUME NEW S, NEW a \in Seq(S), a # <<>> PROVE Took(a, Tail(a))
BY TailElements DEF Took

LEMMA SentAppend ==
  ASSUME NEW S, NEW a \in Seq(S), NEW m \in S PROVE Sent(a, m, Append(a, m))
<1> DEFINE b == Append(a, m)
<1>1. /\ Len(a) \in Nat /\ Len(b) = Len(a) + 1 /\ b[Len(a) + 1] = m
      /\ \A i \in 1..Len(a) : b[i] = a[i]
      /\ \A i \in 1..Len(b) : i = Len(a) + 1 \/ i \in 1..Len(a)
  BY AppendElements
<1> HIDE DEF b
<1>2. Sent(a, m, b)
  BY <1>1 DEF Sent
<1> QED
  BY <1>2 DEF b

LEMMA CutWithoutExit ==
  ASSUME NEW S, NEW a \in Seq(S), a # <<>>, Message("delete_child", Sup) \in S,
         \A i, j \in 1..Len(a) : a[i].what = "EXIT" /\ a[j].what = "EXIT" => i = j
  PROVE  Cut(a, Append(WithoutExit(Tail(a)), Message("delete_child", Sup)))
<1> DEFINE rest == Tail(a)
           mid == WithoutExit(rest)
           m == Message("delete_child", Sup)
           b == Append(mid, m)
<1>1. /\ rest \in Seq(S) /\ Len(a) \in Nat \ {0} /\ Len(rest) = Len(a) - 1
      /\ \A i \in 1..Len(rest) : rest[i] = a[i + 1] /\ i + 1 \in 1..Len(a)
      /\ Head(a) = a[1]
  BY TailElements
<1> HIDE DEF rest
<1>2. \A i, j \in 1..Len(rest) : rest[i].what = "EXIT" /\ rest[j].what = "EXIT" => i = j
  BY <1>1
<1>3. /\ mid \in Seq(S)
      /\ \E f \in [1..Len(mid) -> 1..Len(rest)] :
           /\ \A i \in 1..Len(mid) : mid[i] = rest[f[i]]
           /\ \A i, j \in 1..Len(mid) : i < j => f[i] < f[j]
           /\ \A i \in 1..Len(mid) : mid[i].what # "EXIT"
  BY <1>1, <1>2, WithoutExitElements
<1> HIDE DEF mid, m
<1>4. /\ Len(mid) \in Nat /\ Len(b) = Len(mid) + 1 /\ b[Len(mid) + 1] = m
      /\ \A i \in 1..Len(mid) : b[i] = mid[i]
  BY <1>3, AppendElements DEF m
<1> HIDE DEF b
<1>5. PICK f \in [1..Len(mid) -> 1..Len(rest)] :
        /\ \A i \in 1..Len(mid) : mid[i] = rest[f[i]]
        /\ \A i, j \in 1..Len(mid) : i < j => f[i] < f[j]
        /\ \A i \in 1..Len(mid) : mid[i].what # "EXIT"
  BY <1>3
<1> DEFINE g == [i \in 1..(Len(b) - 1) |-> f[i] + 1]
<1>6. Len(b) \in Nat \ {0} /\ Len(b) - 1 = Len(mid) /\ b[Len(b)] = m
  BY <1>4
<1>7. /\ g \in [1..(Len(b) - 1) -> 2..Len(a)]
      /\ \A i \in 1..(Len(b) - 1) : g[i] = f[i] + 1
  BY <1>1, <1>5, <1>6
<1> HIDE DEF g
<1>8. /\ \A i \in 1..(Len(b) - 1) : b[i] = a[g[i]] /\ b[i].what # "EXIT"
      /\ \A i, j \in 1..(Len(b) - 1) : i < j => g[i] < g[j]
  <2>1. 1..(Len(b) - 1) = 1..Len(mid)
    BY <1>6
  <2>2. ASSUME NEW i \in 1..Len(mid) PROVE b[i] = a[g[i]] /\ b[i].what # "EXIT"
    <3>1. b[i] = rest[f[i]] /\ f[i] \in 1..Len(rest) /\ mid[i].what # "EXIT"
      BY <1>4, <1>5
    <3>2. rest[f[i]] = a[f[i] + 1]
      BY <1>1, <3>1
    <3> QED
      BY <1>4, <1>7, <2>1, <3>1, <3>2
  <2>3. ASSUME NEW i \in 1..Len(mid), NEW j \in 1..Len(mid), i < j PROVE g[i] < g[j]
    <3>1. f[i] < f[j] /\ f[i] \in Int /\ f[j] \in Int
      BY <1>1, <1>5, <2>3
    <3> QED
      BY <1>7, <2>1, <3>1
  <2> QED
    BY <2>1, <2>2, <2>3
<1>9. Cut(a, b)
  <2>1. \E h \in [1..(Len(b) - 1) -> 2..Len(a)] :
          /\ \A i \in 1..(Len(b) - 1) : b[i] = a[h[i]] /\ b[i].what # "EXIT"
          /\ \A i, j \in 1..(Len(b) - 1) : i < j => h[i] < h[j]
    BY <1>7, <1>8
  <2>2. Len(a) \in Nat /\ 1 \in 1..Len(a) /\ Head(a) = a[1] /\ b[Len(b)] = Message("delete_child", Sup)
    BY <1>1, <1>6 DEF m
  <2> QED
    BY <1>6, <2>1, <2>2 DEF Cut
<1> QED
  BY <1>9 DEF b, mid, rest, m

\* How the actions change the mailbox of the topics' supervisor.
LEMMA TopicsBox ==
  ASSUME TypeOK, Mail, OneRestart
  PROVE
    /\ \A c \in Callers : CallTopicsSup(c) =>
         UNCHANGED tbox \/ Sent(tbox, Message("which_children", c), tbox')
    /\ HandleStartProducer =>
         \/ UNCHANGED <<tbox, client, serving>>
         \/ /\ client' = "start_child" /\ serving' = Head(cbox).from
            /\ Sent(tbox, Message("start_child", Sup), tbox')
    /\ HandleStopProducer => Sent(tbox, Message("terminate_child", Sup), tbox')
    /\ CannotConnect \/ HandleStop \/ StopProducerFailed =>
         \/ tsup = "none" /\ tsup' = "down" /\ UNCHANGED tbox
         \/ tsup # "none" /\ tsup' = tsup /\ Sent(tbox, Message("shutdown", Nobody), tbox')
    /\ HandleStartChild \/ HandleDeleteChild \/ TopicsSupWhichChildren \/ TopicsSupExit
       \/ TopicsSupDelayedRestart \/ TopicsSupShutdown => Took(tbox, tbox')
    /\ HandleTerminateChild =>
         \/ child = "pid" /\ psup # "down" /\ Took(tbox, tbox')
         \/ ~(child = "pid" /\ psup # "down") /\ Cut(tbox, tbox')
    /\ ChildIsDown => Sent(tbox, Message("delete_child", Sup), tbox')
    /\ PartitionsSupEnds =>
         \/ tsup # "up" /\ UNCHANGED tbox
         \/ tsup = "up" /\ Sent(tbox, Message("EXIT", Topic), tbox')
    /\ TimerFires(Topic) => Sent(tbox, Message("delayed_restart", Topic), tbox')
    /\ \A k \in Partitions : TimerFires(k) => UNCHANGED tbox
    /\ TopicsSupEnds => tbox' = <<>> /\ Len(tbox') = 0
<1> DEFINE S == [what : TopicsSupMessages, from : Senders]
<1>1. tbox \in Seq(S)
  BY DEF Mail, TopicsSupMail
<1>2. \A w \in TopicsSupMessages, s \in Senders : Message(w, s) \in S
  BY DEF Message
<1> HIDE DEF S
<1>3. /\ tbox # <<>> => Took(tbox, Tail(tbox))
      /\ \A m \in S : Sent(tbox, m, Append(tbox, m))
  BY <1>1, TookTail, SentAppend
<1>4. /\ TopicsSupMessages = {"start_child", "terminate_child", "delete_child",
            "which_children", "EXIT", "delayed_restart", "shutdown"}
      /\ Senders = Callers \cup Pids \cup {Nobody, Sup} /\ Topic \in Senders
  BY DEF TopicsSupMessages, ClientWaits, Senders, Topic, Nobody
<1>5. \A c \in Callers : CallTopicsSup(c) =>
         UNCHANGED tbox \/ Sent(tbox, Message("which_children", c), tbox')
  BY <1>2, <1>3, <1>4 DEF CallTopicsSup
<1>6. HandleStartProducer =>
         \/ UNCHANGED <<tbox, client, serving>>
         \/ /\ client' = "start_child" /\ serving' = Head(cbox).from
            /\ Sent(tbox, Message("start_child", Sup), tbox')
  <2>1. HandleStartProducer =>
         \/ UNCHANGED <<tbox, client, serving>>
         \/ /\ client' = "start_child" /\ serving' = Head(cbox).from
            /\ tbox' = Append(tbox, Message("start_child", Sup))
    BY DEF HandleStartProducer
  <2> QED
    BY <2>1, <1>2, <1>3, <1>4
<1>7. HandleStopProducer => Sent(tbox, Message("terminate_child", Sup), tbox')
  BY <1>2, <1>3, <1>4 DEF HandleStopProducer
<1>8. CannotConnect \/ HandleStop \/ StopProducerFailed =>
         \/ tsup = "none" /\ tsup' = "down" /\ UNCHANGED tbox
         \/ tsup # "none" /\ tsup' = tsup /\ Sent(tbox, Message("shutdown", Nobody), tbox')
  <2>1. CannotConnect \/ HandleStop \/ StopProducerFailed =>
         \/ tsup = "none" /\ tsup' = "down" /\ UNCHANGED tbox
         \/ tsup # "none" /\ tsup' = tsup /\ tbox' = Append(tbox, Message("shutdown", Nobody))
    BY DEF CannotConnect, HandleStop, StopProducerFailed, ClientEnds
  <2> QED
    BY <2>1, <1>2, <1>3, <1>4
<1>9. HandleStartChild \/ HandleDeleteChild \/ TopicsSupWhichChildren \/ TopicsSupExit
      \/ TopicsSupDelayedRestart \/ TopicsSupShutdown => Took(tbox, tbox')
  <2>1. HandleStartChild \/ HandleDeleteChild \/ TopicsSupWhichChildren \/ TopicsSupExit
        \/ TopicsSupDelayedRestart \/ TopicsSupShutdown => tbox # <<>> /\ tbox' = Tail(tbox)
    BY DEF TopicsSupTakes, HandleStartChild, HandleDeleteChild, TopicsSupWhichChildren,
       TopicsSupExit, TopicsSupDelayedRestart, TopicsSupShutdown
  <2> QED
    BY <2>1, <1>3
<1>10. HandleTerminateChild =>
         \/ child = "pid" /\ psup # "down" /\ Took(tbox, tbox')
         \/ ~(child = "pid" /\ psup # "down") /\ Cut(tbox, tbox')
  <2>1. HandleTerminateChild => tbox # <<>> /\
         \/ child = "pid" /\ psup # "down" /\ tbox' = Tail(tbox)
         \/ /\ ~(child = "pid" /\ psup # "down")
            /\ tbox' = Append(WithoutExit(Tail(tbox)), Message("delete_child", Sup))
    BY DEF TopicsSupTakes, HandleTerminateChild, Terminated
  <2>2. \A i, j \in 1..Len(tbox) : tbox[i].what = "EXIT" /\ tbox[j].what = "EXIT" => i = j
    BY DEF OneRestart, RestartOrder
  <2>3. tbox # <<>> => Cut(tbox, Append(WithoutExit(Tail(tbox)), Message("delete_child", Sup)))
    BY <1>1, <1>2, <1>4, <2>2, CutWithoutExit
  <2> QED
    BY <2>1, <2>3, <1>3
<1>11. ChildIsDown => Sent(tbox, Message("delete_child", Sup), tbox')
  BY <1>2, <1>3, <1>4 DEF ChildIsDown, Terminated
<1>12. PartitionsSupEnds =>
         \/ tsup # "up" /\ UNCHANGED tbox
         \/ tsup = "up" /\ Sent(tbox, Message("EXIT", Topic), tbox')
  BY <1>2, <1>3, <1>4 DEF PartitionsSupEnds
<1>13. TimerFires(Topic) => Sent(tbox, Message("delayed_restart", Topic), tbox')
  BY <1>2, <1>3, <1>4 DEF TimerFires
<1>14. \A k \in Partitions : TimerFires(k) => UNCHANGED tbox
  BY PidFacts DEF TimerFires
<1>15. TopicsSupEnds => tbox' = <<>> /\ Len(tbox') = 0
  BY EmptySeq DEF TopicsSupEnds
<1> QED
  BY <1>5, <1>6, <1>7, <1>8, <1>9, <1>10, <1>11, <1>12, <1>13, <1>14, <1>15

\* How the actions change the mailbox of the partitions' supervisor.
LEMMA PartitionsBox ==
  ASSUME TypeOK, Mail
  PROVE
    /\ \A c \in Callers : CallPartitionsSup(c) =>
         Sent(pbox, Message("which_children", c), pbox')
    /\ HandleStartChild \/ TopicsSupDelayedRestart =>
         \/ UNCHANGED <<pbox, psup, kids, child>>
         \/ /\ Len(pbox') = 1 /\ pbox' # <<>> /\ pbox'[1] = Message("post_init", Topic)
            /\ child' = "pid" /\ psup' = "up" /\ kids' = <<>>
    /\ HandleTerminateChild =>
         \/ child = "pid" /\ psup # "down" /\ Sent(pbox, Message("shutdown", Topic), pbox')
         \/ ~(child = "pid" /\ psup # "down") /\ UNCHANGED pbox
    /\ TopicsSupShutdown =>
         \/ psup # "down" /\ Sent(pbox, Message("shutdown", Topic), pbox')
         \/ psup = "down" /\ UNCHANGED pbox
    /\ HandlePostInit \/ PartitionsSupWhichChildren \/ PartitionsSupExit
       \/ PartitionsSupDelayedRestart \/ PartitionsSupShutdown => Took(pbox, pbox')
    /\ PartitionsSupEnds => pbox' = <<>> /\ Len(pbox') = 0
    /\ \A p \in Pids : ProducerEnds(p) => Sent(pbox, Message("EXIT", p), pbox')
    /\ \A k \in Partitions : TimerFires(k) => Sent(pbox, Message("delayed_restart", k), pbox')
    /\ TimerFires(Topic) => UNCHANGED pbox
<1> DEFINE S == [what : PartitionsSupMessages, from : Senders]
<1>1. pbox \in Seq(S)
  BY DEF Mail, PartitionsSupMail
<1>2. \A w \in PartitionsSupMessages, s \in Senders : Message(w, s) \in S
  BY DEF Message
<1> HIDE DEF S
<1>3. /\ pbox # <<>> => Took(pbox, Tail(pbox))
      /\ \A m \in S : Sent(pbox, m, Append(pbox, m))
  BY <1>1, TookTail, SentAppend
<1>4. /\ PartitionsSupMessages =
           {"post_init", "which_children", "EXIT", "delayed_restart", "shutdown"}
      /\ Senders = Callers \cup Pids \cup {Nobody, Sup} /\ Topic \in Senders
      /\ Partitions \subseteq Senders
  BY PidFacts DEF PartitionsSupMessages, Senders, Topic, Nobody
<1>5. \A c \in Callers : CallPartitionsSup(c) => Sent(pbox, Message("which_children", c), pbox')
  BY <1>2, <1>3, <1>4 DEF CallPartitionsSup
<1>6. HandleStartChild \/ TopicsSupDelayedRestart =>
         \/ UNCHANGED <<pbox, psup, kids, child>>
         \/ /\ Len(pbox') = 1 /\ pbox' # <<>> /\ pbox'[1] = Message("post_init", Topic)
            /\ child' = "pid" /\ psup' = "up" /\ kids' = <<>>
  <2>1. HandleStartChild \/ TopicsSupDelayedRestart =>
         \/ UNCHANGED <<pbox, psup, kids, child>>
         \/ /\ pbox' = <<Message("post_init", Topic)>>
            /\ child' = "pid" /\ psup' = "up" /\ kids' = <<>>
    BY DEF HandleStartChild, TopicsSupDelayedRestart, StartPartitionsSup
  <2>2. \A m \in S : Len(<<m>>) = 1 /\ <<m>> # <<>> /\ <<m>>[1] = m
    OBVIOUS
  <2>3. Message("post_init", Topic) \in S
    BY <1>2, <1>4
  <2> QED
    BY <2>1, <2>2, <2>3
<1>7. HandleTerminateChild =>
         \/ child = "pid" /\ psup # "down" /\ Sent(pbox, Message("shutdown", Topic), pbox')
         \/ ~(child = "pid" /\ psup # "down") /\ UNCHANGED pbox
  BY <1>2, <1>3, <1>4 DEF HandleTerminateChild
<1>8. TopicsSupShutdown =>
         \/ psup # "down" /\ Sent(pbox, Message("shutdown", Topic), pbox')
         \/ psup = "down" /\ UNCHANGED pbox
  BY <1>2, <1>3, <1>4 DEF TopicsSupShutdown
<1>9. HandlePostInit \/ PartitionsSupWhichChildren \/ PartitionsSupExit
      \/ PartitionsSupDelayedRestart \/ PartitionsSupShutdown => Took(pbox, pbox')
  <2>1. HandlePostInit \/ PartitionsSupWhichChildren \/ PartitionsSupExit
        \/ PartitionsSupDelayedRestart \/ PartitionsSupShutdown
        => pbox # <<>> /\ pbox' = Tail(pbox)
    BY DEF HandlePostInit, PartitionsSupWhichChildren, PartitionsSupExit,
       PartitionsSupDelayedRestart, PartitionsSupShutdown, PartitionsSupTakes
  <2> QED
    BY <2>1, <1>3
<1>10. PartitionsSupEnds => pbox' = <<>> /\ Len(pbox') = 0
  BY EmptySeq DEF PartitionsSupEnds
<1>11. \A p \in Pids : ProducerEnds(p) => Sent(pbox, Message("EXIT", p), pbox')
  BY <1>2, <1>3, <1>4 DEF ProducerEnds
<1>12. \A k \in Partitions : TimerFires(k) => Sent(pbox, Message("delayed_restart", k), pbox')
  BY <1>2, <1>3, <1>4, PidFacts DEF TimerFires
<1>13. TimerFires(Topic) => UNCHANGED pbox
  BY DEF TimerFires
<1> QED
  BY <1>5, <1>6, <1>7, <1>8, <1>9, <1>10, <1>11, <1>12, <1>13

\* p ends, and tells the client if it can.
Departs(p) ==
  /\ OneEnds(p)
  /\ \/ prods'[p].st = "lost" /\ UNCHANGED cbox
     \/ prods'[p].st = "left" /\ client = "down" /\ UNCHANGED cbox
     \/ prods'[p].st = "left" /\ client # "down" /\ Sent(cbox, Message("deregister", p), cbox')

\* How the actions change the mailbox of the client.
LEMMA ClientBox ==
  ASSUME TypeOK, Mail
  PROVE
    /\ \A c \in Callers : CallClient(c) =>
         \/ client = "down" /\ UNCHANGED cbox
         \/ client # "down" /\ Sent(cbox, Message(callers[c].at, c), cbox')
    /\ HandleInit \/ HandleQuery \/ HandleStartProducer \/ HandleStopProducer
       \/ HandleGetMetadata \/ HandleGetLeaderConnection \/ HandleRegister => Took(cbox, cbox')
    /\ CannotConnect \/ HandleStop \/ StopProducerFailed => cbox' = <<>> /\ Len(cbox') = 0
    /\ HandlePostInit =>
         \/ client = "down" /\ psup' = "failed" /\ UNCHANGED cbox
         \/ /\ client # "down" /\ psup' = "get_workers_table"
            /\ Sent(cbox, Message("get_workers_table", Sup), cbox')
    /\ LookupCount =>
         \/ psup' \in {"failed", "counted"} /\ UNCHANGED cbox
         \/ /\ psup' = "get_metadata" /\ client # "down"
            /\ Sent(cbox, Message("get_metadata", Sup), cbox')
    /\ \A p \in Pids : AskForConnection(p) =>
         client # "down" /\ Sent(cbox, Message("get_leader_connection", p), cbox')
    /\ \A p \in Pids : ProducerEnds(p) => Departs(p)
    /\ TerminateProducer =>
         UNCHANGED <<prods, cbox>> \/ (\E k \in DOMAIN kids : kids[k] \in Pids /\ Departs(kids[k]))
<1> DEFINE S == [what : ClientMessages, from : Senders]
<1>1. cbox \in Seq(S)
  BY DEF Mail, ClientMail
<1>2. \A w \in ClientMessages, s \in Senders : Message(w, s) \in S
  BY DEF Message
<1> HIDE DEF S
<1>3. /\ cbox # <<>> => Took(cbox, Tail(cbox))
      /\ \A m \in S : Sent(cbox, m, Append(cbox, m))
  BY <1>1, TookTail, SentAppend
<1>4. /\ {"get_workers_table", "get_metadata", "get_leader_connection", "register", "deregister"}
           \subseteq ClientMessages
      /\ ClientCalls \subseteq ClientMessages
      /\ Senders = Callers \cup Pids \cup {Nobody, Sup}
  BY DEF ClientMessages, ClientCalls, ProducerMessages, Senders
<1>5. \A c \in Callers : CallClient(c) =>
         \/ client = "down" /\ UNCHANGED cbox
         \/ client # "down" /\ Sent(cbox, Message(callers[c].at, c), cbox')
  BY <1>2, <1>3, <1>4 DEF CallClient
<1>6. HandleInit \/ HandleQuery \/ HandleStartProducer \/ HandleStopProducer
      \/ HandleGetMetadata \/ HandleGetLeaderConnection \/ HandleRegister => Took(cbox, cbox')
  <2>1. HandleInit \/ HandleQuery \/ HandleStartProducer \/ HandleStopProducer
        \/ HandleGetMetadata \/ HandleGetLeaderConnection \/ HandleRegister
        => cbox # <<>> /\ cbox' = Tail(cbox)
    BY DEF Takes, HandleInit, HandleQuery, HandleStopProducer, HandleGetMetadata,
       HandleGetLeaderConnection, HandleRegister, HandleStartProducer
  <2> QED
    BY <2>1, <1>3
<1>7. CannotConnect \/ HandleStop \/ StopProducerFailed => cbox' = <<>> /\ Len(cbox') = 0
  BY EmptySeq DEF CannotConnect, HandleStop, StopProducerFailed, ClientEnds
<1>8. HandlePostInit =>
         \/ client = "down" /\ psup' = "failed" /\ UNCHANGED cbox
         \/ /\ client # "down" /\ psup' = "get_workers_table"
            /\ Sent(cbox, Message("get_workers_table", Sup), cbox')
  BY <1>2, <1>3, <1>4 DEF HandlePostInit
<1>9. LookupCount =>
         \/ psup' \in {"failed", "counted"} /\ UNCHANGED cbox
         \/ /\ psup' = "get_metadata" /\ client # "down"
            /\ Sent(cbox, Message("get_metadata", Sup), cbox')
  BY <1>2, <1>3, <1>4 DEF LookupCount
<1>10. \A p \in Pids : AskForConnection(p) =>
         client # "down" /\ Sent(cbox, Message("get_leader_connection", p), cbox')
  BY <1>2, <1>3, <1>4 DEF AskForConnection
<1>11. ASSUME NEW p \in Pids, Alive(p), (prods[p].st = "idle" /\ Leaves(p)) \/ Dies(p)
       PROVE  Departs(p)
  <2>1. prods' = [prods EXCEPT ![p].st = "left"] => prods'[p].st = "left"
    BY DEF TypeOK
  <2>2. prods' = [prods EXCEPT ![p].st = "lost"] => prods'[p].st = "lost"
    BY DEF TypeOK
  <2>3. Sent(cbox, Message("deregister", p), Append(cbox, Message("deregister", p)))
    BY <1>2, <1>3, <1>4
  <2> QED
    BY <1>11, <2>1, <2>2, <2>3 DEF Departs, OneEnds, Leaves, Dies
<1>12. \A p \in Pids : ProducerEnds(p) => Departs(p)
  BY <1>11 DEF ProducerEnds, Alive
<1>13. TerminateProducer =>
         UNCHANGED <<prods, cbox>> \/ (\E k \in DOMAIN kids : kids[k] \in Pids /\ Departs(kids[k]))
  BY <1>11 DEF TerminateProducer
<1> QED
  BY <1>5, <1>6, <1>7, <1>8, <1>9, <1>10, <1>12, <1>13

-----------------------------------------------------------------------------
LEMMA SentQuietly ==
  ASSUME CallOfClient, UNCHANGED <<client, tsup>>,
         UNCHANGED tbox \/ \E m : m.what \notin ClientWaits \cup {"shutdown"} /\ Sent(tbox, m, tbox')
  PROVE  CallOfClient'
BY DEF CallOfClient, Sent

LEMMA CallOfClientStep == ClientInv /\ [Next]_vars => CallOfClient'
<1> SUFFICES ASSUME ClientInv, [Next]_vars PROVE CallOfClient'
  OBVIOUS
<1>0. TypeOK /\ Mail /\ OneRestart /\ CallOfClient
  BY DEF ClientInv, OneCall
<1>1. CASE UNCHANGED <<client, tsup, tbox>>
  BY <1>0, <1>1 DEF CallOfClient
<1>2. ASSUME NEW c \in Callers, CallTopicsSup(c)
      PROVE  CallOfClient'
  <2>1. UNCHANGED <<client, tsup>>
    BY <1>2 DEF CallTopicsSup
  <2>2. UNCHANGED tbox \/ Sent(tbox, Message("which_children", c), tbox')
    BY <1>2, <1>0, TopicsBox
  <2> QED
    BY <2>1, <2>2, <1>0, SentQuietly DEF Message, ClientWaits
<1>3. ASSUME HandleInit
      PROVE  CallOfClient'
  <2>1. tsup = "none"
    <3>1. Took(cbox, cbox') /\ Head(cbox).what = "init"
      BY <1>3, <1>0, ClientBox DEF HandleInit, Takes
    <3> QED
      BY <3>1, <1>0 DEF Took, Mail, ClientMail
  <2>2. client = "up" /\ client' = client /\ tsup' = "up" /\ UNCHANGED tbox
    BY <1>3 DEF HandleInit, Takes
  <2> QED
    BY <2>1, <2>2, <1>0 DEF CallOfClient, ClientWaits
<1>4. ASSUME HandleStartProducer \/ HandleStopProducer
      PROVE  CallOfClient'
  <2>1. client = "up" /\ UNCHANGED tsup
    BY <1>4 DEF HandleStartProducer, HandleStopProducer, Takes
  <2>2. CASE UNCHANGED <<tbox, client>>
    BY <2>1, <2>2, <1>0 DEF CallOfClient
  <2>3. ASSUME NEW w \in {"start_child", "terminate_child"}, client' = w,
               Sent(tbox, Message(w, Sup), tbox')
        PROVE  CallOfClient'
    BY <2>1, <2>3, <1>0 DEF CallOfClient, Sent, Message, ClientWaits
  <2>4. HandleStopProducer => client' = "terminate_child"
    BY DEF HandleStopProducer
  <2> QED
    BY <1>4, <2>2, <2>3, <2>4, <1>0, TopicsBox
<1>5. ASSUME CannotConnect \/ HandleStop \/ StopProducerFailed
      PROVE  CallOfClient'
  <2>1. client \in {"up", "badmatch"} /\ client' = "down"
    BY <1>5 DEF CannotConnect, HandleStop, StopProducerFailed, ClientEnds, Takes
  <2>2. CASE tsup = "none" /\ tsup' = "down" /\ UNCHANGED tbox
    BY <2>1, <2>2, <1>0 DEF CallOfClient, ClientWaits
  <2>3. CASE tsup # "none" /\ tsup' = tsup /\ Sent(tbox, Message("shutdown", Nobody), tbox')
    BY <2>1, <2>3, <1>0 DEF CallOfClient, Sent, Message, ClientWaits
  <2> QED
    BY <1>5, <2>2, <2>3, <1>0, TopicsBox
<1>6. ASSUME HandleStartChild \/ HandleDeleteChild
      PROVE  CallOfClient'
  <2>1. /\ Head(tbox).what \in ClientWaits /\ tsup = "up" /\ UNCHANGED tsup
        /\ client' \in {"up", "badmatch"}
    BY <1>6 DEF HandleStartChild, HandleDeleteChild, TopicsSupTakes, ClientWaits
  <2>2. Took(tbox, tbox')
    BY <1>6, <1>0, TopicsBox
  <2>3. \A i \in 1..Len(tbox') : tbox'[i].what \notin ClientWaits
    BY <2>1, <2>2, <1>0 DEF Took, CallOfClient
  <2>4. client # "down"
    BY <2>1, <2>2, <1>0 DEF Took, CallOfClient, ClientWaits
  <2> QED
    BY <2>1, <2>2, <2>3, <2>4, <1>0 DEF Took, CallOfClient
<1>7. ASSUME HandleTerminateChild
      PROVE  CallOfClient'
  <2>1. /\ tbox # <<>> /\ Head(tbox).what = "terminate_child" /\ tsup = "up"
    BY <1>7 DEF HandleTerminateChild, TopicsSupTakes
  <2>2. CASE child = "pid" /\ psup # "down" /\ Took(tbox, tbox')
    <3>1. tsup' = "terminate_child" /\ UNCHANGED client
      BY <1>7, <2>2 DEF HandleTerminateChild
    <3>2. /\ client = "terminate_child"
          /\ \A i \in 1..Len(tbox') : tbox'[i].what \notin ClientWaits
      BY <2>1, <2>2, <1>0 DEF Took, CallOfClient, ClientWaits
    <3> QED
      BY <2>2, <3>1, <3>2, <1>0 DEF Took, CallOfClient, ClientWaits
  <2>3. CASE ~(child = "pid" /\ psup # "down") /\ Cut(tbox, tbox')
    <3>1. client' = "delete_child" /\ UNCHANGED tsup
      BY <1>7, <2>3 DEF HandleTerminateChild, Terminated
    <3>2. PICK f \in [1..(Len(tbox') - 1) -> 2..Len(tbox)] :
            \A i \in 1..(Len(tbox') - 1) : tbox'[i] = tbox[f[i]]
      BY <2>3 DEF Cut
    <3>3. /\ Len(tbox) \in Nat /\ Len(tbox') \in Nat \ {0} /\ Head(tbox) = tbox[1]
          /\ 1 \in 1..Len(tbox) /\ tbox'[Len(tbox')] = Message("delete_child", Sup)
      BY <2>3 DEF Cut
    <3>4. client = "terminate_child"
      BY <2>1, <3>3, <1>0 DEF CallOfClient, ClientWaits
    <3>5. ASSUME NEW i \in 1..Len(tbox')
          PROVE  \/ i = Len(tbox') /\ tbox'[i].what = "delete_child"
                 \/ i # Len(tbox') /\ tbox'[i].what \notin ClientWaits \cup {"shutdown"}
      <4>1. CASE i = Len(tbox')
        BY <3>3, <4>1 DEF Message
      <4>2. CASE i # Len(tbox')
        <5>1. i \in 1..(Len(tbox') - 1)
          BY <3>3, <4>2
        <5>2. tbox'[i] = tbox[f[i]] /\ f[i] \in 1..Len(tbox) /\ f[i] # 1
          BY <3>2, <3>3, <5>1
        <5>3. tbox[f[i]].what \notin ClientWaits /\ tbox[f[i]].what # "shutdown"
          BY <2>1, <3>3, <3>4, <5>2, <1>0 DEF CallOfClient, ClientWaits
        <5> QED
          BY <4>2, <5>2, <5>3
      <4> QED
        BY <4>1, <4>2
    <3> QED
      BY <2>1, <3>1, <3>5 DEF CallOfClient, ClientWaits
  <2> QED
    BY <1>7, <2>2, <2>3, <1>0, TopicsBox
<1>8. ASSUME ChildIsDown
      PROVE  CallOfClient'
  <2>1. /\ tsup = "terminate_child" /\ tsup' = "up" /\ client' = "delete_child"
        /\ Sent(tbox, Message("delete_child", Sup), tbox')
    BY <1>8, <1>0, TopicsBox DEF ChildIsDown, Terminated
  <2> QED
    BY <2>1, <1>0 DEF Sent, CallOfClient, Message, ClientWaits
<1>9. ASSUME TopicsSupWhichChildren \/ TopicsSupExit \/ TopicsSupDelayedRestart
      PROVE  CallOfClient'
  <2>1. Took(tbox, tbox') /\ UNCHANGED <<client, tsup>>
    BY <1>9, <1>0, TopicsBox DEF TopicsSupWhichChildren, TopicsSupExit, TopicsSupDelayedRestart
  <2>2. /\ \A i \in 1..Len(tbox') :
             /\ tbox'[i].what \in ClientWaits => client = tbox'[i].what /\ tsup # "terminate_child"
             /\ tbox'[i].what = "shutdown" => client = "down"
        /\ tsup = "terminate_child" => client = "terminate_child"
        /\ tsup \in {"terminate", "down"} => client = "down"
    BY <2>1, <1>0 DEF Took, CallOfClient
  <2>3. \A i, j \in 1..Len(tbox') :
          tbox'[i].what \in ClientWaits /\ tbox'[j].what \in ClientWaits => i = j
    <3>1. ASSUME NEW i \in 1..Len(tbox'), NEW j \in 1..Len(tbox'),
                 tbox'[i].what \in ClientWaits, tbox'[j].what \in ClientWaits
          PROVE  i = j
      <4>1. i + 1 = j + 1
        BY <2>1, <3>1, <1>0 DEF Took, CallOfClient
      <4> QED
        BY <4>1
    <3> QED
      BY <3>1
  <2> QED
    BY <2>1, <2>2, <2>3 DEF CallOfClient
<1>10. ASSUME TopicsSupShutdown
      PROVE  CallOfClient'
  <2>1. /\ Took(tbox, tbox') /\ UNCHANGED client /\ tsup' = "terminate"
        /\ Head(tbox).what = "shutdown"
    BY <1>10, <1>0, TopicsBox DEF TopicsSupShutdown, TopicsSupTakes
  <2>2. client = "down"
    BY <2>1, <1>0 DEF Took, CallOfClient
  <2> QED
    BY <2>1, <2>2, <1>0 DEF Took, CallOfClient, ClientWaits
<1>11. ASSUME TopicsSupEnds
      PROVE  CallOfClient'
  <2>1. Len(tbox') = 0 /\ client = "down" /\ UNCHANGED client /\ tsup' = "down"
    BY <1>11, <1>0, TopicsBox DEF TopicsSupEnds, CallOfClient
  <2> QED
    BY <2>1 DEF CallOfClient
<1>12. ASSUME PartitionsSupEnds \/ (\E t \in Partitions \cup {Topic} : TimerFires(t))
      PROVE  CallOfClient'
  <2>1. UNCHANGED <<client, tsup>>
    BY <1>12 DEF PartitionsSupEnds, TimerFires
  <2>2. \/ UNCHANGED tbox
        \/ \E w \in {"EXIT", "delayed_restart"} : Sent(tbox, Message(w, Topic), tbox')
    BY <1>12, <1>0, TopicsBox
  <2> QED
    BY <2>1, <2>2, <1>0, SentQuietly DEF Message, ClientWaits
<1>13. ASSUME HandleQuery \/ HandleGetMetadata \/ HandleGetLeaderConnection \/
              HandleRegister \/
              (\E c \in Callers : Lookup(c) \/ CheckAlive(c) \/ CallClient(c) \/ CallPartitionsSup(c)) \/
              (\E c \in Callers : \E op \in Ops[c], k \in Partitions : Begin(c, op, k))
      PROVE  UNCHANGED <<client, tsup, tbox>>
  BY <1>13 DEF Begin, Lookup, CheckAlive, CallClient, CallPartitionsSup, HandleQuery, Takes,
       HandleGetMetadata, HandleGetLeaderConnection, HandleRegister, sups, env
<1>14. ASSUME UnknownTopicExpires \/ HandlePostInit \/ LookupCount \/ StartProducers \/
              PartitionsSupWhichChildren \/ PartitionsSupExit \/
              PartitionsSupDelayedRestart \/ PartitionsSupShutdown \/ TerminateProducer
      PROVE  UNCHANGED <<client, tsup, tbox>>
  BY <1>14 DEF UnknownTopicExpires, HandlePostInit, PartitionsSupTakes, LookupCount,
       StartProducers, Start, PartitionsSupWhichChildren, PartitionsSupExit,
       PartitionsSupDelayedRestart, PartitionsSupShutdown, TerminateProducer, Leaves, Dies,
       sups, env
<1>15. ASSUME TopicMoves \/ (\E p \in Pids : AskForConnection(p) \/ ProducerEnds(p))
      PROVE  UNCHANGED <<client, tsup, tbox>>
  BY <1>15 DEF AskForConnection, ProducerEnds, Leaves, Dies, TopicMoves, sups, env
<1>16. CASE UNCHANGED vars
  BY <1>1, <1>16 DEF vars, sups
<1> QED
  BY <1>1, <1>2, <1>3, <1>4, <1>5, <1>6, <1>7, <1>8, <1>9, <1>10, <1>11, <1>12, <1>13,
     <1>14, <1>15, <1>16
     DEF Next, CallerNext, ClientNext, TopicsSupNext, PartitionsSupNext

LEMMA RegisterIsSent ==
  ASSUME Mail, NEW p \in Pids, cbox' = Append(cbox, Message("register", p))
  PROVE  Sent(cbox, Message("register", p), cbox')
<1> DEFINE S == [what : ClientMessages, from : Senders]
<1>1. cbox \in Seq(S) /\ Message("register", p) \in S
  BY DEF Mail, ClientMail, Message, ClientMessages, ProducerMessages, Senders
<1> HIDE DEF S
<1> QED
  BY <1>1, SentAppend

LEMMA SentStartAndEnd ==
  ASSUME Mail, StartAndEnd, UNCHANGED <<client, tsup>>, client # "down", NEW m,
         Sent(cbox, m, cbox')
  PROVE  StartAndEnd'
<1>1. Len(cbox) \in Nat /\ (cbox # <<>> => Len(cbox) # 0)
  BY EmptySeq DEF Mail, ClientMail
<1>2. cbox' # <<>> /\ (cbox # <<>> => cbox'[1] = cbox[1])
  BY <1>1, EmptySeq DEF Sent
<1> QED
  BY <1>2 DEF StartAndEnd

LEMMA StartAndEndStep == ClientInv /\ [Next]_vars => StartAndEnd'
<1> SUFFICES ASSUME ClientInv, [Next]_vars PROVE StartAndEnd'
  OBVIOUS
<1>0. TypeOK /\ Mail /\ BornInOrder /\ OneRestart /\ StartAndEnd
  BY DEF ClientInv, OneCall
<1>1. CASE UNCHANGED <<client, tsup, cbox>>
  BY <1>0, <1>1 DEF StartAndEnd
<1>2. ASSUME HandleInit
      PROVE  StartAndEnd'
  BY <1>2 DEF HandleInit, Takes, StartAndEnd
<1>3. ASSUME NEW c \in Callers, CallClient(c)
      PROVE  StartAndEnd'
  <2>1. UNCHANGED <<client, tsup>>
    BY <1>3 DEF CallClient, sups
  <2> QED
    BY <1>3, <2>1, <1>0, <1>1, ClientBox, SentStartAndEnd
<1>4. ASSUME HandleQuery \/ HandleStopProducer \/ HandleGetMetadata \/
             HandleGetLeaderConnection \/ HandleRegister \/ HandleStartProducer
      PROVE  StartAndEnd'
  <2>1. client = "up" /\ client' # "down" /\ UNCHANGED tsup
    BY <1>4 DEF HandleQuery, HandleStopProducer, HandleGetMetadata, HandleGetLeaderConnection,
       HandleRegister, HandleStartProducer, Takes, sups
  <2>2. Took(cbox, cbox') /\ Head(cbox).what # "init"
    BY <1>4, <1>0, ClientBox DEF HandleQuery, HandleStopProducer, HandleGetMetadata,
       HandleGetLeaderConnection, HandleRegister, HandleStartProducer, Takes
  <2>3. tsup # "none"
    BY <2>2, <1>0 DEF Took, StartAndEnd
  <2> QED
    BY <2>1, <2>3 DEF StartAndEnd
<1>5. ASSUME CannotConnect \/ HandleStop \/ StopProducerFailed
      PROVE  StartAndEnd'
  <2>1. client' = "down" /\ cbox' = <<>>
    BY <1>5 DEF CannotConnect, HandleStop, StopProducerFailed, ClientEnds
  <2>2. tsup' # "none"
    BY <1>5, <1>0, TopicsBox
  <2> QED
    BY <2>1, <2>2 DEF StartAndEnd
<1>6. ASSUME HandlePostInit \/ LookupCount \/ (\E p \in Pids : AskForConnection(p))
      PROVE  StartAndEnd'
  <2>1. UNCHANGED <<client, tsup>>
    BY <1>6 DEF HandlePostInit, LookupCount, AskForConnection, sups
  <2> QED
    BY <1>6, <2>1, <1>0, <1>1, ClientBox, SentStartAndEnd
<1>7. ASSUME TerminateProducer \/ (\E p \in Pids : ProducerEnds(p))
      PROVE  StartAndEnd'
  <2>1. UNCHANGED <<client, tsup>>
    BY <1>7 DEF TerminateProducer, ProducerEnds
  <2>2. UNCHANGED cbox \/ (client # "down" /\ \E m : Sent(cbox, m, cbox'))
    BY <1>7, <1>0, ClientBox DEF Departs
  <2> QED
    BY <2>1, <2>2, <1>0, <1>1, SentStartAndEnd
<1>8. ASSUME StartProducers
      PROVE  StartAndEnd'
  <2>1. UNCHANGED <<client, tsup>>
    BY <1>8 DEF StartProducers
  <2>2. PICK n \in 0..LastPid :
          /\ client = "down" => cbox' = cbox
          /\ client # "down" =>
               /\ Len(cbox') = Len(cbox) + NumPartitions
               /\ \A i \in 1..Len(cbox) : cbox'[i] = cbox[i]
    BY <1>8, <1>0, AllStarted
  <2>3. CASE client = "down"
    BY <2>1, <2>2, <2>3, <1>0, <1>1
  <2>4. CASE client # "down"
    <3>1. Len(cbox) \in Nat /\ NumPartitions \in Nat \ {0} /\ (cbox # <<>> => Len(cbox) # 0)
      BY ClientAssumption, EmptySeq, <1>0 DEF Mail, ClientMail
    <3>2. cbox' # <<>> /\ (cbox # <<>> => cbox'[1] = cbox[1])
      BY <2>2, <2>4, <3>1, EmptySeq
    <3> QED
      BY <2>1, <2>4, <3>2, <1>0 DEF StartAndEnd
  <2> QED
    BY <2>3, <2>4
<1>9. ASSUME PartitionsSupDelayedRestart
      PROVE  StartAndEnd'
  <2>1. UNCHANGED <<client, tsup>>
    BY <1>9 DEF PartitionsSupDelayedRestart
  <2>2. PICK n \in 0..LastPid :
          /\ n + 1 \in Pids
          /\ client = "down" => cbox' = cbox
          /\ client # "down" => cbox' = Append(cbox, Message("register", n + 1))
    BY <1>9, <1>0, OneStarted
  <2>3. UNCHANGED cbox \/ (client # "down" /\ Sent(cbox, Message("register", n + 1), cbox'))
    BY <2>2, <1>0, RegisterIsSent
  <2> QED
    BY <2>1, <2>3, <1>0, <1>1, SentStartAndEnd
<1>10. ASSUME HandleStartChild \/ HandleTerminateChild \/ ChildIsDown \/ HandleDeleteChild
      PROVE  StartAndEnd'
  BY <1>10, <1>0 DEF HandleStartChild, HandleTerminateChild, ChildIsDown, HandleDeleteChild, Terminated,
       TopicsSupTakes, StartAndEnd
<1>11. ASSUME TopicsSupShutdown \/ TopicsSupEnds
      PROVE  StartAndEnd'
  BY <1>11, <1>0 DEF TopicsSupShutdown, TopicsSupEnds, TopicsSupTakes, StartAndEnd
<1>12. ASSUME UnknownTopicExpires \/ TopicsSupWhichChildren \/ TopicsSupExit \/
              TopicsSupDelayedRestart \/
              (\E c \in Callers : Lookup(c) \/ CheckAlive(c) \/ CallTopicsSup(c) \/ CallPartitionsSup(c)) \/
              (\E c \in Callers : \E op \in Ops[c], k \in Partitions : Begin(c, op, k))
      PROVE  UNCHANGED <<client, tsup, cbox>>
  BY <1>12 DEF Begin, Lookup, CheckAlive, CallTopicsSup, CallPartitionsSup,
       UnknownTopicExpires, TopicsSupWhichChildren, TopicsSupTakes, TopicsSupExit,
       TopicsSupDelayedRestart, StartPartitionsSup, sups, env
<1>13. ASSUME PartitionsSupWhichChildren \/ PartitionsSupExit \/ PartitionsSupShutdown \/
              PartitionsSupEnds \/ TopicMoves \/
              (\E t \in Partitions \cup {Topic} : TimerFires(t))
      PROVE  UNCHANGED <<client, tsup, cbox>>
  BY <1>13 DEF PartitionsSupWhichChildren, PartitionsSupTakes, PartitionsSupExit,
       PartitionsSupShutdown, PartitionsSupEnds, TimerFires, TopicMoves, sups, env
<1>14. CASE UNCHANGED vars
  BY <1>1, <1>14 DEF vars, sups
<1> QED
  BY <1>1, <1>2, <1>3, <1>4, <1>5, <1>6, <1>7, <1>8, <1>9, <1>10, <1>11, <1>12, <1>13, <1>14
     DEF Next, CallerNext, ClientNext, TopicsSupNext, PartitionsSupNext

LEMMA OneCallStep == ClientInv /\ [Next]_vars => OneCall'
BY CallOfClientStep, StartAndEndStep DEF OneCall

-----------------------------------------------------------------------------
\* A producer that this step starts.
Newborn(p) ==
  p \in Pids /\ ~Born(p) /\ prods'[p].st = "idle" /\ kids'[prods'[p].part] = p

\* What the client is told of producers that start.
LEMMA Newborns ==
  ASSUME TypeOK, Mail, BornInOrder, StartProducers \/ PartitionsSupDelayedRestart
  PROVE
    /\ Len(cbox) \in Nat /\ Len(cbox') \in Nat
    /\ \A i \in 1..Len(cbox) : i \in 1..Len(cbox') /\ cbox'[i] = cbox[i]
    /\ \A i \in 1..Len(cbox') :
         \/ i \in 1..Len(cbox)
         \/ /\ i > Len(cbox) /\ client # "down"
            /\ cbox'[i].what = "register" /\ Newborn(cbox'[i].from)
    /\ \A i, j \in 1..Len(cbox') :
         i > Len(cbox) /\ j > Len(cbox) /\ cbox'[i].from = cbox'[j].from => i = j
    /\ \A p \in Pids :
         \/ prods'[p] = prods[p]
         \/ /\ Newborn(p)
            /\ client # "down" => \E i \in 1..Len(cbox') :
                 i > Len(cbox) /\ cbox'[i] = Message("register", p)
    /\ \A k \in Partitions :
         \/ Newborn(kids'[k]) /\ prods'[kids'[k]].part = k
         \/ PartitionsSupDelayedRestart /\ k # Head(pbox).from /\ kids'[k] = kids[k]
<1>1. /\ Len(cbox) \in Nat /\ NumPartitions \in Nat \ {0} /\ Partitions = 1..NumPartitions
      /\ Pids = 1..LastPid /\ LastPid \in Nat
      /\ cbox \in Seq([what : ClientMessages, from : Senders])
  BY ClientAssumption, PidFacts DEF Mail, ClientMail, Partitions
<1>0. \A w, s : Message(w, s).what = w /\ Message(w, s).from = s
  BY DEF Message
<1>2. CASE StartProducers
  <2>1. PICK n \in 0..LastPid :
          /\ n + NumPartitions <= LastPid /\ \A p \in Pids : Born(p) <=> p <= n
          /\ \A p \in Pids : p <= n \/ p > n + NumPartitions => prods'[p] = prods[p]
          /\ \A k \in Partitions :
               n + k \in Pids /\ prods'[n + k] = [part |-> k, st |-> "idle"] /\ ~Born(n + k)
          /\ client = "down" => cbox' = cbox
          /\ client # "down" =>
               /\ Len(cbox') = Len(cbox) + NumPartitions
               /\ \A i \in 1..Len(cbox) : cbox'[i] = cbox[i]
               /\ \A k \in Partitions : cbox'[Len(cbox) + k] = Message("register", n + k)
          /\ kids' = [k \in Partitions |-> n + k]
    BY <1>2, AllStarted
  <2>2. ASSUME NEW k \in Partitions
        PROVE  Newborn(n + k) /\ prods'[n + k].part = k /\ kids'[k] = n + k
    <3>1. /\ n + k \in Pids /\ prods'[n + k] = [part |-> k, st |-> "idle"] /\ ~Born(n + k)
          /\ kids'[k] = n + k
      BY <2>1
    <3>2. prods'[n + k].part = k /\ prods'[n + k].st = "idle"
      BY <3>1
    <3> QED
      BY <3>1, <3>2 DEF Newborn
  <2>3. Len(cbox') \in Nat /\ \A i \in 1..Len(cbox) : i \in 1..Len(cbox') /\ cbox'[i] = cbox[i]
    BY <1>1, <2>1
  <2>4. ASSUME NEW i \in 1..Len(cbox'), i \notin 1..Len(cbox)
        PROVE  /\ i > Len(cbox) /\ client # "down" /\ i - Len(cbox) \in Partitions
               /\ cbox'[i] = Message("register", n + (i - Len(cbox)))
    <3>1. client # "down" /\ i > Len(cbox)
      BY <1>1, <2>1, <2>3, <2>4
    <3>2. i - Len(cbox) \in Partitions /\ Len(cbox) + (i - Len(cbox)) = i
      BY <1>1, <2>1, <3>1
    <3>3. cbox'[Len(cbox) + (i - Len(cbox))] = Message("register", n + (i - Len(cbox)))
      BY <2>1, <3>1, <3>2
    <3> QED
      BY <3>1, <3>2, <3>3
  <2>5. ASSUME NEW i \in 1..Len(cbox'), i \notin 1..Len(cbox)
        PROVE  i > Len(cbox) /\ client # "down" /\ cbox'[i].what = "register" /\ Newborn(cbox'[i].from)
    <3>1. cbox'[i].what = "register" /\ cbox'[i].from = n + (i - Len(cbox))
      BY <1>0, <2>4, <2>5
    <3> QED
      BY <2>2, <2>4, <2>5, <3>1
  <2>6. ASSUME NEW i \in 1..Len(cbox'), NEW j \in 1..Len(cbox'), i > Len(cbox), j > Len(cbox),
               cbox'[i].from = cbox'[j].from
        PROVE  i = j
    <3>1. i \notin 1..Len(cbox) /\ j \notin 1..Len(cbox)
      BY <1>1, <2>6
    <3>2. cbox'[i].from = n + (i - Len(cbox)) /\ cbox'[j].from = n + (j - Len(cbox))
      BY <1>0, <2>4, <3>1
    <3>3. n + (i - Len(cbox)) = n + (j - Len(cbox))
      BY <2>6, <3>2
    <3>4. i \in Int /\ j \in Int /\ n \in Int
      BY <1>1, <2>3
    <3> QED
      BY <1>1, <3>3, <3>4
  <2>7. ASSUME NEW p \in Pids, prods'[p] # prods[p]
        PROVE  /\ Newborn(p)
               /\ client # "down" => \E i \in 1..Len(cbox') :
                    i > Len(cbox) /\ cbox'[i] = Message("register", p)
    <3>1. p - n \in Partitions /\ n + (p - n) = p
      BY <1>1, <2>1, <2>7
    <3>2. Newborn(p)
      BY <2>2, <3>1
    <3>3. ASSUME client # "down"
          PROVE  \E i \in 1..Len(cbox') : i > Len(cbox) /\ cbox'[i] = Message("register", p)
      <4>1. Len(cbox) + (p - n) \in 1..Len(cbox') /\ Len(cbox) + (p - n) > Len(cbox)
        BY <1>1, <2>1, <3>1, <3>3
      <4>2. cbox'[Len(cbox) + (p - n)] = Message("register", n + (p - n))
        BY <2>1, <3>1, <3>3
      <4> QED
        BY <3>1, <4>1, <4>2
    <3> QED
      BY <3>2, <3>3
  <2> QED
    BY <1>1, <2>2, <2>3, <2>5, <2>6, <2>7
<1>3. CASE PartitionsSupDelayedRestart
  <2> DEFINE t == Head(pbox).from
  <2>1. PICK n \in 0..LastPid :
          /\ n + 1 \in Pids /\ \A p \in Pids : Born(p) <=> p <= n
          /\ t \in Partitions
          /\ prods' = [prods EXCEPT ![n + 1] = [part |-> t, st |-> "idle"]]
          /\ client = "down" => cbox' = cbox
          /\ client # "down" => cbox' = Append(cbox, Message("register", n + 1))
          /\ kids' = [k \in Partitions |-> IF k = t THEN n + 1 ELSE kids[k]]
    BY <1>3, OneStarted
  <2> HIDE DEF t
  <2>2. prods \in ProdType
    BY DEF TypeOK, ProdType
  <2>3. /\ prods'[n + 1] = [part |-> t, st |-> "idle"]
        /\ \A p \in Pids : p # n + 1 => prods'[p] = prods[p]
    BY <2>1, <2>2 DEF ProdType
  <2>4. ~Born(n + 1)
    BY <1>1, <2>1
  <2>5. Newborn(n + 1) /\ kids'[t] = n + 1
    BY <2>1, <2>3, <2>4 DEF Newborn
  <2>6. \A k \in Partitions : k # t => kids'[k] = kids[k]
    BY <2>1
  <2>7. CASE client = "down"
    BY <1>1, <1>3, <2>1, <2>3, <2>5, <2>6, <2>7 DEF t
  <2>8. CASE client # "down"
    <3>1. Sent(cbox, Message("register", n + 1), cbox')
      BY <2>1, <2>8, RegisterIsSent
    <3>2. \A i \in 1..Len(cbox) : i \in 1..Len(cbox') /\ cbox'[i] = cbox[i]
      BY <3>1 DEF Sent
    <3>3. ASSUME NEW i \in 1..Len(cbox'), i \notin 1..Len(cbox)
          PROVE  i = Len(cbox) + 1 /\ cbox'[i].what = "register" /\ cbox'[i].from = n + 1
      BY <3>1, <3>3 DEF Sent, Message
    <3>4. \A i \in 1..Len(cbox') : i > Len(cbox) => i \notin 1..Len(cbox)
      BY <1>1
    <3>5. /\ Len(cbox) + 1 \in 1..Len(cbox') /\ Len(cbox) + 1 > Len(cbox)
          /\ cbox'[Len(cbox) + 1] = Message("register", n + 1) /\ Len(cbox') \in Nat
      BY <1>1, <3>1 DEF Sent
    <3>6. /\ \A i \in 1..Len(cbox') :
               \/ i \in 1..Len(cbox)
               \/ /\ i > Len(cbox) /\ client # "down"
                  /\ cbox'[i].what = "register" /\ Newborn(cbox'[i].from)
          /\ \A i, j \in 1..Len(cbox') :
               i > Len(cbox) /\ j > Len(cbox) /\ cbox'[i].from = cbox'[j].from => i = j
      BY <2>5, <2>8, <3>3, <3>4, <3>5
    <3>7. \A p \in Pids :
            \/ prods'[p] = prods[p]
            \/ /\ Newborn(p)
               /\ client # "down" => \E i \in 1..Len(cbox') :
                    i > Len(cbox) /\ cbox'[i] = Message("register", p)
      BY <2>3, <2>5, <3>5
    <3>8. \A k \in Partitions :
            \/ Newborn(kids'[k]) /\ prods'[kids'[k]].part = k
            \/ PartitionsSupDelayedRestart /\ k # Head(pbox).from /\ kids'[k] = kids[k]
      BY <1>3, <2>3, <2>5, <2>6 DEF t
    <3> QED
      BY <1>1, <3>2, <3>5, <3>6, <3>7, <3>8
  <2> QED
    BY <2>7, <2>8
<1> QED
  BY <1>2, <1>3

-----------------------------------------------------------------------------
LEMMA NothingAsked ==
  ASSUME Mail, SupAsks, psup \in {"up", "down", "lookup", "counted", "failed", "terminate"}
  PROVE  \A i \in 1..Len(cbox) : cbox[i].from # Sup
<1> DEFINE S == [what : ClientMessages, from : Senders]
<1>1. cbox \in Seq(S) /\ \A m \in S : m.what \in ClientMessages
  BY DEF Mail, ClientMail
<1> HIDE DEF S
<1>2. \A i \in 1..Len(cbox) : cbox[i].what \in ClientMessages
  BY <1>1
<1> QED
  BY <1>2 DEF SupAsks, ClientMessages, ClientCalls, ProducerMessages

LEMMA SentSupAsks ==
  ASSUME SupAsks, UNCHANGED psup,
         UNCHANGED cbox \/ \E m : m.from # Sup /\ Sent(cbox, m, cbox')
  PROVE  SupAsks'
BY DEF SupAsks, Sent

LEMMA TookSupAsks ==
  ASSUME SupAsks, UNCHANGED psup, Took(cbox, cbox')
  PROVE  SupAsks'
<1>1. ASSUME NEW i \in 1..Len(cbox'), NEW j \in 1..Len(cbox'),
             cbox'[i].from = Sup, cbox'[j].from = Sup
      PROVE  i = j
  <2>0. /\ i + 1 \in 1..Len(cbox) /\ j + 1 \in 1..Len(cbox)
        /\ cbox[i + 1].from = Sup /\ cbox[j + 1].from = Sup
    BY <1>1 DEF Took
  <2>1. i + 1 = j + 1
    BY <2>0 DEF SupAsks
  <2> QED
    BY <2>1
<1>2. \A i \in 1..Len(cbox') : cbox'[i].from = Sup => psup' = cbox'[i].what
  BY DEF Took, SupAsks
<1> QED
  BY <1>1, <1>2 DEF SupAsks

\* The partitions' supervisor has one question at a time.
LEMMA SupAsksStep == ClientInv /\ [Next]_vars => SupAsks'
<1> SUFFICES ASSUME ClientInv, [Next]_vars PROVE SupAsks'
  OBVIOUS
<1>0. TypeOK /\ Mail /\ BornInOrder /\ OneRestart /\ SupAsks
  BY DEF ClientInv
<1>00. \A w, s : Message(w, s).what = w /\ Message(w, s).from = s
  BY DEF Message
<1>1. CASE UNCHANGED <<cbox, psup>>
  BY <1>0, <1>1 DEF SupAsks
<1>2. ASSUME NEW c \in Callers, CallClient(c)
      PROVE  SupAsks'
  <2>1. UNCHANGED psup
    BY <1>2 DEF CallClient, sups
  <2>2. UNCHANGED cbox \/ Sent(cbox, Message(callers[c].at, c), cbox')
    BY <1>2, <1>0, ClientBox
  <2>3. c # Sup
    BY PidFacts
  <2> QED
    BY <2>1, <2>2, <2>3, <1>0, <1>00, SentSupAsks
<1>3. ASSUME HandleInit \/ HandleStopProducer \/ HandleGetLeaderConnection \/
             HandleRegister \/ HandleStartProducer
      PROVE  SupAsks'
  <2>1. UNCHANGED psup /\ Took(cbox, cbox')
    BY <1>3, <1>0, ClientBox DEF HandleInit, HandleStopProducer, HandleGetLeaderConnection,
       HandleRegister, HandleStartProducer, sups
  <2> QED
    BY <2>1, <1>0, TookSupAsks
<1>4. ASSUME HandleQuery \/ HandleGetMetadata
      PROVE  SupAsks'
  <2>1. Took(cbox, cbox')
    BY <1>4, <1>0, ClientBox
  <2>2. CASE Head(cbox).from # Sup
    <3>1. UNCHANGED psup
      BY <1>4, <2>2 DEF HandleQuery, HandleGetMetadata
    <3> QED
      BY <2>1, <3>1, <1>0, TookSupAsks
  <2>3. CASE Head(cbox).from = Sup
    <3>1. \A i \in 1..Len(cbox') : cbox'[i].from # Sup
      BY <2>1, <2>3, <1>0 DEF Took, SupAsks
    <3> QED
      BY <3>1 DEF SupAsks
  <2> QED
    BY <2>2, <2>3
<1>5. ASSUME CannotConnect \/ HandleStop \/ StopProducerFailed
      PROVE  SupAsks'
  <2>1. Len(cbox') = 0
    BY <1>5, <1>0, ClientBox
  <2> QED
    BY <2>1 DEF SupAsks
<1>6. ASSUME HandlePostInit \/ LookupCount
      PROVE  SupAsks'
  <2>1. psup \in {"up", "lookup"}
    BY <1>6 DEF HandlePostInit, LookupCount, PartitionsSupTakes
  <2>2. \A i \in 1..Len(cbox) : cbox[i].from # Sup
    BY <2>1, <1>0, NothingAsked
  <2>3. CASE UNCHANGED cbox
    BY <2>2, <2>3 DEF SupAsks
  <2>4. ASSUME NEW w, psup' = w, Sent(cbox, Message(w, Sup), cbox')
        PROVE  SupAsks'
    BY <2>2, <2>4, <1>00 DEF Sent, SupAsks
  <2> QED
    BY <1>6, <2>3, <2>4, <1>0, ClientBox
<1>7. ASSUME NEW p \in Pids, AskForConnection(p)
      PROVE  SupAsks'
  <2>1. UNCHANGED psup /\ Sent(cbox, Message("get_leader_connection", p), cbox')
    BY <1>7, <1>0, ClientBox DEF AskForConnection, sups
  <2> QED
    BY <2>1, <1>0, <1>00, PidFacts, SentSupAsks
<1>8. ASSUME TerminateProducer \/ (\E p \in Pids : ProducerEnds(p))
      PROVE  SupAsks'
  <2>1. UNCHANGED psup
    BY <1>8 DEF TerminateProducer, ProducerEnds
  <2>2. UNCHANGED cbox \/ \E p \in Pids : Sent(cbox, Message("deregister", p), cbox')
    BY <1>8, <1>0, ClientBox DEF Departs
  <2> QED
    BY <2>1, <2>2, <1>0, <1>00, PidFacts, SentSupAsks
<1>9. ASSUME StartProducers \/ PartitionsSupDelayedRestart
      PROVE  SupAsks'
  <2>1. psup \in {"counted", "up"}
    BY <1>9 DEF StartProducers, PartitionsSupDelayedRestart, PartitionsSupTakes
  <2>2. \A i \in 1..Len(cbox) : cbox[i].from # Sup
    BY <2>1, <1>0, NothingAsked
  <2>3. \A i \in 1..Len(cbox') :
          (i \in 1..Len(cbox) /\ cbox'[i] = cbox[i]) \/ cbox'[i].from \in Pids
    BY <1>9, <1>0, Newborns DEF Newborn
  <2>4. \A i \in 1..Len(cbox') : cbox'[i].from # Sup
    BY <2>2, <2>3, PidFacts
  <2> QED
    BY <2>4 DEF SupAsks
<1>10. ASSUME HandleStartChild \/ TopicsSupDelayedRestart
      PROVE  SupAsks'
  <2>1. UNCHANGED cbox
    BY <1>10 DEF HandleStartChild, TopicsSupDelayedRestart
  <2>2. CASE UNCHANGED psup
    BY <2>1, <2>2, <1>0 DEF SupAsks
  <2>3. CASE ~UNCHANGED psup
    <3>1. psup = "down"
      <4>1. Took(tbox, tbox')
        BY <1>10, <1>0, TopicsBox
      <4>2. HandleStartChild => child # "pid"
        BY <1>10, <2>3 DEF HandleStartChild
      <4>3. TopicsSupDelayedRestart => Head(tbox).what = "delayed_restart"
        BY DEF TopicsSupDelayedRestart, TopicsSupTakes
      <4> QED
        BY <1>10, <4>1, <4>2, <4>3, <1>0 DEF Took, OneRestart, RestartState
    <3>2. \A i \in 1..Len(cbox) : cbox[i].from # Sup
      BY <3>1, <1>0, NothingAsked
    <3> QED
      BY <2>1, <3>2 DEF SupAsks
  <2> QED
    BY <2>2, <2>3
<1>11. ASSUME PartitionsSupShutdown \/ PartitionsSupEnds
      PROVE  SupAsks'
  <2>1. psup \in {"up", "failed", "terminate"} /\ UNCHANGED cbox
    BY <1>11 DEF PartitionsSupShutdown, PartitionsSupEnds, PartitionsSupTakes
  <2>2. \A i \in 1..Len(cbox) : cbox[i].from # Sup
    BY <2>1, <1>0, NothingAsked
  <2> QED
    BY <2>1, <2>2 DEF SupAsks
<1>12. ASSUME UnknownTopicExpires \/ HandleTerminateChild \/ ChildIsDown \/
              HandleDeleteChild \/
              (\E c \in Callers : Lookup(c) \/ CheckAlive(c) \/ CallTopicsSup(c) \/ CallPartitionsSup(c)) \/
              (\E c \in Callers : \E op \in Ops[c], k \in Partitions : Begin(c, op, k))
      PROVE  UNCHANGED <<cbox, psup>>
  BY <1>12 DEF Begin, Lookup, CheckAlive, CallTopicsSup, CallPartitionsSup,
       UnknownTopicExpires, HandleTerminateChild, Terminated, TopicsSupTakes, ChildIsDown,
       HandleDeleteChild, sups, env
<1>13. ASSUME TopicsSupWhichChildren \/ TopicsSupExit \/ TopicsSupShutdown \/
              TopicsSupEnds \/ PartitionsSupWhichChildren \/ PartitionsSupExit \/
              TopicMoves \/ (\E t \in Partitions \cup {Topic} : TimerFires(t))
      PROVE  UNCHANGED <<cbox, psup>>
  BY <1>13 DEF TopicsSupWhichChildren, TopicsSupTakes, TopicsSupExit, TopicsSupShutdown,
       TopicsSupEnds, PartitionsSupWhichChildren, PartitionsSupTakes, PartitionsSupExit,
       TimerFires, TopicMoves, sups, env
<1>14. CASE UNCHANGED vars
  BY <1>1, <1>14 DEF vars, sups
<1> QED
  BY <1>1, <1>2, <1>3, <1>4, <1>5, <1>6, <1>7, <1>8, <1>9, <1>10, <1>11, <1>12, <1>13, <1>14
     DEF Next, CallerNext, ClientNext, TopicsSupNext, PartitionsSupNext

-----------------------------------------------------------------------------
LEMMA SentRestartOrder ==
  ASSUME RestartOrder,
         \/ UNCHANGED tbox
         \/ \E m : /\ m.what \notin {"EXIT", "delayed_restart", "delete_child"}
                   /\ Sent(tbox, m, tbox')
  PROVE  RestartOrder'
<1>1. CASE UNCHANGED tbox
  BY <1>1 DEF RestartOrder
<1>2. ASSUME NEW m, m.what \notin {"EXIT", "delayed_restart", "delete_child"}, Sent(tbox, m, tbox')
      PROVE  RestartOrder'
  <2>1. \A i \in 1..Len(tbox') :
          \/ i \in 1..Len(tbox) /\ tbox'[i] = tbox[i]
          \/ tbox'[i].what \notin {"EXIT", "delayed_restart", "delete_child"}
    BY <1>2 DEF Sent
  <2> QED
    BY <2>1 DEF RestartOrder
<1> QED
  BY <1>1, <1>2

LEMMA TookRestartOrder ==
  ASSUME RestartOrder, Took(tbox, tbox')
  PROVE  RestartOrder'
<1>1. ASSUME NEW i \in 1..Len(tbox'), NEW j \in 1..Len(tbox')
      PROVE  /\ tbox'[i].what = "EXIT" /\ tbox'[j].what = "EXIT" => i = j
             /\ tbox'[i].what = "delayed_restart" /\ tbox'[j].what = "delayed_restart" => i = j
             /\ tbox'[i].what = "delayed_restart" /\ tbox'[j].what = "delete_child" => i < j
             /\ tbox'[i].what = "delete_child" /\ tbox'[j].what = "EXIT" => i < j
  <2>1. /\ i + 1 \in 1..Len(tbox) /\ j + 1 \in 1..Len(tbox)
        /\ tbox'[i] = tbox[i + 1] /\ tbox'[j] = tbox[j + 1]
    BY DEF Took
  <2>2. /\ tbox'[i].what = "EXIT" /\ tbox'[j].what = "EXIT" => i + 1 = j + 1
        /\ tbox'[i].what = "delayed_restart" /\ tbox'[j].what = "delayed_restart" => i + 1 = j + 1
        /\ tbox'[i].what = "delayed_restart" /\ tbox'[j].what = "delete_child" => i + 1 < j + 1
        /\ tbox'[i].what = "delete_child" /\ tbox'[j].what = "EXIT" => i + 1 < j + 1
    BY <2>1 DEF RestartOrder
  <2>3. i \in Int /\ j \in Int
    BY DEF Took
  <2> QED
    BY <2>2, <2>3
<1> QED
  BY <1>1 DEF RestartOrder

LEMMA RestartOrderStep == ClientInv /\ [Next]_vars => RestartOrder'
<1> SUFFICES ASSUME ClientInv, [Next]_vars PROVE RestartOrder'
  OBVIOUS
<1>0. TypeOK /\ Mail /\ BornInOrder /\ OneRestart /\ CallOfClient /\ RestartOrder
  BY DEF ClientInv, OneCall, OneRestart
<1>00. \A w, s : Message(w, s).what = w /\ Message(w, s).from = s
  BY DEF Message
<1>1. CASE UNCHANGED <<tbox>>
  BY <1>0, <1>1 DEF RestartOrder
<1>2. ASSUME NEW c \in Callers, CallTopicsSup(c)
      PROVE  RestartOrder'
  <2>1. UNCHANGED tbox \/ Sent(tbox, Message("which_children", c), tbox')
    BY <1>2, <1>0, TopicsBox
  <2> QED
    BY <2>1, <1>0, <1>00, SentRestartOrder
<1>3. ASSUME HandleStartProducer \/ HandleStopProducer \/ CannotConnect \/ HandleStop \/
             StopProducerFailed
      PROVE  RestartOrder'
  <2>1. \/ UNCHANGED tbox
        \/ \E w \in {"start_child", "terminate_child"} : Sent(tbox, Message(w, Sup), tbox')
        \/ Sent(tbox, Message("shutdown", Nobody), tbox')
    BY <1>3, <1>0, TopicsBox
  <2> QED
    BY <2>1, <1>0, <1>00, SentRestartOrder
<1>4. ASSUME HandleStartChild \/ HandleDeleteChild \/ TopicsSupWhichChildren \/
             TopicsSupExit \/ TopicsSupDelayedRestart \/ TopicsSupShutdown
      PROVE  RestartOrder'
  <2>1. Took(tbox, tbox')
    BY <1>4, <1>0, TopicsBox
  <2> QED
    BY <2>1, <1>0, TookRestartOrder
<1>5. ASSUME HandleTerminateChild
      PROVE  RestartOrder'
  <2>1. CASE Took(tbox, tbox')
    BY <2>1, <1>0, TookRestartOrder
  <2>2. CASE Cut(tbox, tbox')
    <3>1. tbox[1].what = "terminate_child"
      BY <1>5, <2>2 DEF HandleTerminateChild, TopicsSupTakes, Cut
    <3>2. PICK f \in [1..(Len(tbox') - 1) -> 2..Len(tbox)] :
            /\ \A i \in 1..(Len(tbox') - 1) : tbox'[i] = tbox[f[i]] /\ tbox'[i].what # "EXIT"
            /\ \A i, j \in 1..(Len(tbox') - 1) : i < j => f[i] < f[j]
      BY <2>2 DEF Cut
    <3>3. /\ Len(tbox) \in Nat /\ Len(tbox') \in Nat \ {0} /\ 1 \in 1..Len(tbox)
          /\ tbox'[Len(tbox')].what = "delete_child"
      BY <2>2, <1>00 DEF Cut
    <3>4. ASSUME NEW i \in 1..(Len(tbox') - 1)
          PROVE  tbox'[i].what \notin {"delete_child", "EXIT"}
      <4>1. f[i] \in 1..Len(tbox) /\ f[i] # 1
        BY <3>2, <3>3
      <4>2. tbox[f[i]].what \notin ClientWaits
        BY <3>1, <3>3, <4>1, <1>0 DEF CallOfClient, ClientWaits
      <4> QED
        BY <3>2, <4>2 DEF ClientWaits
    <3>5. ASSUME NEW i \in 1..(Len(tbox') - 1), NEW j \in 1..(Len(tbox') - 1),
                 tbox'[i].what = "delayed_restart", tbox'[j].what = "delayed_restart"
          PROVE  i = j
      <4>0. \A h \in 2..Len(tbox) : h \in 1..Len(tbox)
        BY <3>3
      <4>1. f[i] \in 1..Len(tbox) /\ f[j] \in 1..Len(tbox)
        BY <3>2, <4>0
      <4>2. f[i] = f[j]
        BY <3>2, <3>5, <4>1, <1>0 DEF RestartOrder
      <4>3. ~(f[i] < f[j]) /\ ~(f[j] < f[i])
        BY <3>3, <4>1, <4>2
      <4>4. ~(i < j) /\ ~(j < i)
        BY <3>2, <4>3
      <4> QED
        BY <3>3, <4>4
    <3>6. \A i \in 1..Len(tbox') : i = Len(tbox') \/ (i \in 1..(Len(tbox') - 1) /\ i < Len(tbox'))
      BY <3>3
    <3> QED
      BY <3>3, <3>4, <3>5, <3>6 DEF RestartOrder
  <2> QED
    BY <1>5, <2>1, <2>2, <1>0, TopicsBox
<1>6. ASSUME ChildIsDown \/ PartitionsSupEnds \/
             (\E t \in Partitions \cup {Topic} : TimerFires(t))
      PROVE  RestartOrder'
  <2>1. \/ UNCHANGED tbox
        \/ ChildIsDown /\ Sent(tbox, Message("delete_child", Sup), tbox')
        \/ PartitionsSupEnds /\ Sent(tbox, Message("EXIT", Topic), tbox')
        \/ TimerFires(Topic) /\ Sent(tbox, Message("delayed_restart", Topic), tbox')
    BY <1>6, <1>0, TopicsBox
  <2>2. CASE UNCHANGED tbox
    BY <2>2, <1>0 DEF RestartOrder
  <2>3. CASE ChildIsDown /\ Sent(tbox, Message("delete_child", Sup), tbox')
    <3>1. \A i \in 1..Len(tbox) : tbox[i].what \notin {"EXIT", "delayed_restart"}
      BY <2>3, <1>0 DEF ChildIsDown, OneRestart, RestartState
    <3>2. \A i \in 1..Len(tbox') : tbox'[i].what \notin {"EXIT", "delayed_restart"}
      BY <2>3, <3>1, <1>00 DEF Sent
    <3> QED
      BY <3>2 DEF RestartOrder
  <2>4. CASE PartitionsSupEnds /\ Sent(tbox, Message("EXIT", Topic), tbox')
    <3>1. \A i \in 1..Len(tbox) : tbox[i].what \notin {"EXIT", "delayed_restart"}
      BY <2>4, <1>0 DEF PartitionsSupEnds, OneRestart, RestartState
    <3>2. \A i \in 1..Len(tbox') : i = Len(tbox) + 1 \/ (i \in 1..Len(tbox) /\ i < Len(tbox) + 1)
      BY <2>4 DEF Sent
    <3>3. tbox'[Len(tbox) + 1].what = "EXIT" /\ \A i \in 1..Len(tbox) : tbox'[i] = tbox[i]
      BY <2>4, <1>00 DEF Sent
    <3> QED
      BY <3>1, <3>2, <3>3 DEF RestartOrder
  <2>5. CASE TimerFires(Topic) /\ Sent(tbox, Message("delayed_restart", Topic), tbox')
    <3>1. \A i \in 1..Len(tbox) : tbox[i].what \notin {"EXIT", "delayed_restart", "delete_child"}
      BY <2>5, <1>0 DEF TimerFires, OneRestart, RestartState
    <3>2. \A i \in 1..Len(tbox') : i = Len(tbox) + 1 \/ i \in 1..Len(tbox)
      BY <2>5 DEF Sent
    <3>3. /\ tbox'[Len(tbox) + 1].what = "delayed_restart"
          /\ \A i \in 1..Len(tbox) : tbox'[i] = tbox[i]
      BY <2>5, <1>00 DEF Sent
    <3> QED
      BY <3>1, <3>2, <3>3 DEF RestartOrder
  <2> QED
    BY <2>1, <2>2, <2>3, <2>4, <2>5
<1>7. ASSUME TopicsSupEnds
      PROVE  RestartOrder'
  <2>1. Len(tbox') = 0
    BY <1>7, <1>0, TopicsBox
  <2> QED
    BY <2>1 DEF RestartOrder
<1>8. ASSUME HandleInit \/ HandleQuery \/ HandleGetMetadata \/ HandleGetLeaderConnection \/
             (\E c \in Callers : Lookup(c) \/ CheckAlive(c) \/ CallClient(c) \/ CallPartitionsSup(c)) \/
             (\E c \in Callers : \E op \in Ops[c], k \in Partitions : Begin(c, op, k))
      PROVE  UNCHANGED <<tbox>>
  BY <1>8 DEF Begin, Lookup, CheckAlive, CallClient, CallPartitionsSup, HandleInit, Takes,
       HandleQuery, HandleGetMetadata, HandleGetLeaderConnection, sups, env
<1>9. ASSUME HandleRegister \/ UnknownTopicExpires \/ HandlePostInit \/ LookupCount \/
             StartProducers \/ PartitionsSupWhichChildren \/ PartitionsSupExit \/
             PartitionsSupDelayedRestart \/ PartitionsSupShutdown
      PROVE  UNCHANGED <<tbox>>
  BY <1>9 DEF HandleRegister, Takes, UnknownTopicExpires, HandlePostInit,
       PartitionsSupTakes, LookupCount, StartProducers, Start, PartitionsSupWhichChildren,
       PartitionsSupExit, PartitionsSupDelayedRestart, PartitionsSupShutdown, sups, env
<1>10. ASSUME TerminateProducer \/ TopicMoves \/
              (\E p \in Pids : AskForConnection(p) \/ ProducerEnds(p))
      PROVE  UNCHANGED <<tbox>>
  BY <1>10 DEF TerminateProducer, Leaves, Dies, AskForConnection, ProducerEnds, TopicMoves,
       sups, env
<1>11. CASE UNCHANGED vars
  BY <1>1, <1>11 DEF vars, sups
<1> QED
  BY <1>1, <1>2, <1>3, <1>4, <1>5, <1>6, <1>7, <1>8, <1>9, <1>10, <1>11
     DEF Next, CallerNext, ClientNext, TopicsSupNext, PartitionsSupNext

\* Nothing about the child comes into the mailbox of the topics' supervisor.
QuietBox ==
  \A i \in 1..Len(tbox') :
    \/ \E j \in 1..Len(tbox) : tbox'[i] = tbox[j]
    \/ tbox'[i].what \notin {"EXIT", "delayed_restart", "delete_child"}

LEMMA SentQuietBox ==
  ASSUME \/ UNCHANGED tbox
         \/ \E m : /\ m.what \notin {"EXIT", "delayed_restart", "delete_child"}
                   /\ Sent(tbox, m, tbox')
  PROVE  QuietBox
BY DEF Sent, QuietBox

LEMMA TookQuietBox == ASSUME Took(tbox, tbox') PROVE QuietBox
BY DEF Took, QuietBox

LEMMA CutElements ==
  ASSUME Cut(tbox, tbox')
  PROVE  \A i \in 1..Len(tbox') :
           /\ tbox'[i].what # "EXIT"
           /\ tbox'[i].what = "delete_child" \/ \E j \in 1..Len(tbox) : j # 1 /\ tbox'[i] = tbox[j]
<1>1. PICK f \in [1..(Len(tbox') - 1) -> 2..Len(tbox)] :
        \A i \in 1..(Len(tbox') - 1) : tbox'[i] = tbox[f[i]] /\ tbox'[i].what # "EXIT"
  BY DEF Cut
<1>2. /\ Len(tbox) \in Nat /\ Len(tbox') \in Nat \ {0}
      /\ tbox'[Len(tbox')].what = "delete_child"
  BY DEF Cut, Message
<1>3. \A h \in 2..Len(tbox) : h \in 1..Len(tbox) /\ h # 1
  BY <1>2
<1>4. \A i \in 1..(Len(tbox') - 1) : \E j \in 1..Len(tbox) : j # 1 /\ tbox'[i] = tbox[j]
  BY <1>1, <1>3
<1>5. \A i \in 1..Len(tbox') : i = Len(tbox') \/ i \in 1..(Len(tbox') - 1)
  BY <1>2
<1> QED
  BY <1>1, <1>2, <1>4, <1>5

LEMMA QuietRestartState ==
  ASSUME RestartState, UNCHANGED child, tsup' = tsup \/ tsup' \notin {"none", "terminate_child"},
         psup' = psup \/ (psup # "down" /\ psup' # "down"),
         Topic \in timers' => Topic \in timers, QuietBox
  PROVE  RestartState'
BY DEF RestartState, QuietBox

\* A partitions' supervisor that waits for the client learns of its end.
LEMMA SupLearns ==
  ASSUME TypeOK, Mail, SupAsks, CannotConnect \/ HandleStop \/ StopProducerFailed
  PROVE  psup' = psup \/ (psup \in {"get_workers_table", "get_metadata"} /\ psup' = "failed")
<1>1. \/ psup' = psup
      \/ psup' = "failed" /\ Sup \in {cbox[i].from : i \in DOMAIN cbox} \cup {serving}
  BY DEF CannotConnect, HandleStop, StopProducerFailed, ClientEnds
<1>2. serving # Sup
  BY PidFacts DEF TypeOK
<1>3. DOMAIN cbox = 1..Len(cbox)
  BY DEF Mail, ClientMail
<1>4. CASE \E i \in 1..Len(cbox) : cbox[i].from = Sup
  <2>1. psup \notin {"up", "down", "lookup", "counted", "failed", "terminate"}
    BY <1>4, NothingAsked
  <2> QED
    BY <1>1, <2>1 DEF TypeOK
<1> QED
  BY <1>1, <1>2, <1>3, <1>4

LEMMA RestartStateStep == ClientInv /\ [Next]_vars => RestartState'
<1> SUFFICES ASSUME ClientInv, [Next]_vars PROVE RestartState'
  OBVIOUS
<1>0. TypeOK /\ Mail /\ BornInOrder /\ OneRestart /\ CallOfClient /\ RestartState
      /\ RestartOrder /\ SupAsks
  BY DEF ClientInv, OneCall, OneRestart
<1>00. \A w, s : Message(w, s).what = w /\ Message(w, s).from = s
  BY DEF Message
<1>1. CASE UNCHANGED <<child, psup, tsup, tbox, timers>>
  BY <1>0, <1>1 DEF RestartState
<1>2. ASSUME HandleStartProducer \/ HandleStopProducer \/
             (\E c \in Callers : CallTopicsSup(c))
      PROVE  RestartState'
  <2>1. UNCHANGED <<child, psup, tsup, timers>>
    BY <1>2 DEF CallTopicsSup, HandleStartProducer, HandleStopProducer
  <2>2. \/ UNCHANGED tbox
        \/ \E w \in {"which_children", "start_child", "terminate_child"} : \E s : Sent(tbox, Message(w, s), tbox')
    BY <1>2, <1>0, TopicsBox
  <2>3. QuietBox
    BY <2>2, <1>00, SentQuietBox
  <2> QED
    BY <2>1, <2>3, <1>0, QuietRestartState
<1>3. ASSUME HandleInit \/ HandlePostInit \/ LookupCount \/ StartProducers \/
             PartitionsSupShutdown
      PROVE  RestartState'
  <2>1. UNCHANGED <<child, timers, tbox>> /\ (tsup' = tsup \/ tsup' = "up")
    BY <1>3 DEF HandleInit, HandlePostInit, LookupCount, StartProducers, PartitionsSupShutdown
  <2>2. psup' = psup \/ (psup # "down" /\ psup' # "down")
    BY <1>3 DEF HandleInit, HandlePostInit, LookupCount, StartProducers, PartitionsSupShutdown,
       PartitionsSupTakes
  <2> QED
    BY <2>1, <2>2, <1>0, SentQuietBox, QuietRestartState
<1>4. ASSUME HandleQuery \/ HandleGetMetadata
      PROVE  RestartState'
  <2>1. UNCHANGED <<child, timers, tbox, tsup>>
    BY <1>4 DEF HandleQuery, HandleGetMetadata
  <2>2. psup' = psup \/ (Head(cbox).from = Sup /\ psup' # "down")
    BY <1>4 DEF HandleQuery, HandleGetMetadata
  <2>3. Took(cbox, cbox')
    BY <1>4, <1>0, ClientBox
  <2>4. Head(cbox).from = Sup => psup # "down"
    BY <2>3, <1>0, NothingAsked DEF Took
  <2> QED
    BY <2>1, <2>2, <2>4, <1>0, SentQuietBox, QuietRestartState
<1>5. ASSUME CannotConnect \/ HandleStop \/ StopProducerFailed
      PROVE  RestartState'
  <2>1. UNCHANGED <<child, timers>>
    BY <1>5 DEF CannotConnect, HandleStop, StopProducerFailed, ClientEnds
  <2>2. \/ tsup' = "down" /\ UNCHANGED tbox
        \/ tsup' = tsup /\ Sent(tbox, Message("shutdown", Nobody), tbox')
    BY <1>5, <1>0, TopicsBox
  <2>3. psup' = psup \/ (psup # "down" /\ psup' # "down")
    BY <1>5, <1>0, SupLearns
  <2>4. QuietBox
    BY <2>2, <1>00, SentQuietBox
  <2> QED
    BY <2>1, <2>2, <2>3, <2>4, <1>0, QuietRestartState
<1>6. ASSUME TopicsSupWhichChildren \/ TopicsSupShutdown
      PROVE  RestartState'
  <2>1. /\ UNCHANGED <<child, psup>> /\ tsup' \in {tsup, "terminate"}
        /\ timers' \subseteq timers
    BY <1>6 DEF TopicsSupWhichChildren, TopicsSupShutdown
  <2>2. Took(tbox, tbox')
    BY <1>6, <1>0, TopicsBox
  <2> QED
    BY <2>1, <2>2, <1>0, TookQuietBox, QuietRestartState
<1>7. ASSUME TopicsSupEnds
      PROVE  RestartState'
  <2>1. UNCHANGED <<child, psup, timers>> /\ tsup' = "down" /\ Len(tbox') = 0
    BY <1>7, <1>0, TopicsBox DEF TopicsSupEnds
  <2> QED
    BY <2>1, <1>0 DEF RestartState
<1>8. ASSUME PartitionsSupExit \/ TerminateProducer
      PROVE  RestartState'
  <2>1. UNCHANGED <<child, psup, tsup, tbox>>
    BY <1>8 DEF PartitionsSupExit, TerminateProducer
  <2>2. Topic \in timers' => Topic \in timers
    <3>1. CASE TerminateProducer
      BY <3>1 DEF TerminateProducer
    <3>2. CASE PartitionsSupExit
      <4>1. Took(pbox, pbox') /\ Head(pbox).what = "EXIT"
        BY <3>2, <1>0, PartitionsBox DEF PartitionsSupExit, PartitionsSupTakes
      <4>2. Head(pbox).from \in Pids
        BY <4>1, <1>0 DEF Took, Mail, PartitionsSupMail
      <4>3. prods[Head(pbox).from].part \in Partitions
        BY <4>2, <1>0 DEF TypeOK
      <4> QED
        BY <3>2, <4>3, PidFacts DEF PartitionsSupExit
    <3> QED
      BY <1>8, <3>1, <3>2
  <2> QED
    BY <2>1, <2>2, <1>0, SentQuietBox, QuietRestartState
<1>9. ASSUME HandleStartChild \/ TopicsSupDelayedRestart
      PROVE  RestartState'
  <2>1. /\ Took(tbox, tbox') /\ UNCHANGED <<tsup, timers>> /\ tsup = "up"
        /\ HandleStartChild => Head(tbox).what = "start_child"
        /\ TopicsSupDelayedRestart => Head(tbox).what = "delayed_restart"
    BY <1>9, <1>0, TopicsBox DEF HandleStartChild, TopicsSupDelayedRestart, TopicsSupTakes
  <2>2. CASE UNCHANGED <<child, psup>>
    BY <2>1, <2>2, <1>0, TookQuietBox, QuietRestartState
  <2>3. CASE child' = "pid" /\ psup' = "up" /\ ~UNCHANGED <<child, psup>>
    <3>1. HandleStartChild => child = "absent"
      BY <2>3 DEF HandleStartChild
    <3>2. CASE child = "absent"
      BY <2>1, <2>3, <3>2, <1>0 DEF RestartState, Took
    <3>3. CASE Head(tbox).what = "delayed_restart"
      <4>1. tbox[1].what = "delayed_restart" /\ 1 \in 1..Len(tbox)
        BY <2>1, <3>3 DEF Took
      <4>2. Topic \notin timers /\ child # "pid"
        BY <4>1, <1>0 DEF RestartState
      <4>3. ASSUME NEW i \in 1..Len(tbox') PROVE tbox'[i].what \notin {"EXIT", "delayed_restart"}
        <5>1. i + 1 \in 1..Len(tbox) /\ tbox'[i] = tbox[i + 1] /\ i + 1 # 1
          BY <2>1 DEF Took
        <5> QED
          BY <4>1, <4>2, <5>1, <1>0 DEF RestartState, RestartOrder
      <4> QED
        BY <2>1, <2>3, <4>2, <4>3 DEF RestartState
    <3> QED
      BY <1>9, <2>1, <3>1, <3>2, <3>3
  <2> QED
    BY <1>9, <2>2, <2>3, <1>0, PartitionsBox
<1>10. ASSUME HandleTerminateChild
      PROVE  RestartState'
  <2>1. tsup = "up" /\ UNCHANGED psup
    BY <1>10 DEF HandleTerminateChild, TopicsSupTakes
  <2>2. CASE child = "pid" /\ psup # "down" /\ Took(tbox, tbox')
    <3>1. tsup' = "terminate_child" /\ UNCHANGED <<child, timers>>
      BY <1>10, <2>2 DEF HandleTerminateChild
    <3> QED
      BY <2>1, <2>2, <3>1, <1>0 DEF Took, RestartState
  <2>3. CASE ~(child = "pid" /\ psup # "down") /\ Cut(tbox, tbox')
    <3>1. /\ UNCHANGED tsup /\ Topic \notin timers'
          /\ child' = IF child = "absent" THEN "absent" ELSE "undefined"
      BY <1>10, <2>3 DEF HandleTerminateChild
    <3>2. psup = "down"
      BY <2>3, <1>0 DEF RestartState
    <3>3. \A i \in 1..Len(tbox') :
            tbox'[i].what = "delayed_restart" => \E j \in 1..Len(tbox) : tbox[j].what = "delayed_restart"
      BY <2>3, CutElements
    <3>4. \A i \in 1..Len(tbox') : tbox'[i].what # "EXIT"
      BY <2>3, CutElements
    <3> QED
      BY <2>1, <3>1, <3>2, <3>3, <3>4, <1>0 DEF RestartState
  <2> QED
    BY <1>10, <2>2, <2>3, <1>0, TopicsBox
<1>11. ASSUME ChildIsDown
      PROVE  RestartState'
  <2>1. /\ tsup = "terminate_child" /\ psup = "down" /\ tsup' = "up" /\ child' = "undefined"
        /\ UNCHANGED <<psup, timers>> /\ Sent(tbox, Message("delete_child", Sup), tbox')
    BY <1>11, <1>0, TopicsBox DEF ChildIsDown
  <2> QED
    BY <2>1, <1>0, <1>00 DEF RestartState, Sent
<1>12. ASSUME HandleDeleteChild
      PROVE  RestartState'
  <2>1. /\ Took(tbox, tbox') /\ UNCHANGED <<tsup, timers, psup>> /\ tsup = "up"
        /\ Head(tbox).what = "delete_child"
        /\ child' = child \/ (child = "undefined" /\ child' = "absent")
    BY <1>12, <1>0, TopicsBox DEF HandleDeleteChild, TopicsSupTakes
  <2>2. CASE child' = child
    BY <2>1, <2>2, <1>0, TookQuietBox, QuietRestartState
  <2>3. CASE child = "undefined" /\ child' = "absent"
    <3>1. \A i \in 1..Len(tbox') : tbox'[i].what \notin {"EXIT", "delayed_restart"}
      <4>1. ASSUME NEW i \in 1..Len(tbox') PROVE tbox'[i].what # "delayed_restart"
        <5>1. /\ i + 1 \in 1..Len(tbox) /\ tbox'[i] = tbox[i + 1] /\ 1 \in 1..Len(tbox)
              /\ tbox[1].what = "delete_child" /\ ~(i + 1 < 1)
          BY <2>1 DEF Took
        <5> QED
          BY <5>1, <1>0 DEF RestartOrder
      <4>2. \A i \in 1..Len(tbox') : tbox'[i].what # "EXIT"
        BY <2>1, <2>3, <1>0 DEF Took, RestartState
      <4> QED
        BY <4>1, <4>2
    <3> QED
      BY <2>1, <2>3, <3>1, <1>0 DEF RestartState
  <2> QED
    BY <2>1, <2>2, <2>3
<1>13. ASSUME TopicsSupExit
      PROVE  RestartState'
  <2>1. /\ Took(tbox, tbox') /\ UNCHANGED <<tsup, psup>> /\ tsup = "up"
        /\ Head(tbox).what = "EXIT" /\ child' = "restarting"
    BY <1>13, <1>0, TopicsBox DEF TopicsSupExit, TopicsSupTakes
  <2>2. psup = "down" /\ child = "pid"
    BY <2>1, <1>0 DEF Took, RestartState
  <2>3. ASSUME NEW i \in 1..Len(tbox')
        PROVE  tbox'[i].what \notin {"EXIT", "delayed_restart", "delete_child"}
    <3>1. /\ i + 1 \in 1..Len(tbox) /\ tbox'[i] = tbox[i + 1] /\ 1 \in 1..Len(tbox)
          /\ tbox[1].what = "EXIT" /\ ~(i + 1 < 1) /\ i + 1 # 1
      BY <2>1 DEF Took
    <3> QED
      BY <2>2, <3>1, <1>0 DEF RestartOrder, RestartState
  <2> QED
    BY <2>1, <2>2, <2>3 DEF RestartState
<1>14. ASSUME PartitionsSupEnds
      PROVE  RestartState'
  <2>1. psup # "down" /\ psup' = "down" /\ UNCHANGED <<tsup, child, timers>>
    BY <1>14 DEF PartitionsSupEnds
  <2>2. \/ tsup # "up" /\ UNCHANGED tbox
        \/ tsup = "up" /\ Sent(tbox, Message("EXIT", Topic), tbox')
    BY <1>14, <1>0, TopicsBox
  <2>3. child = "pid"
    BY <2>1, <1>0 DEF RestartState
  <2> QED
    BY <2>1, <2>2, <2>3, <1>0, <1>00 DEF RestartState, Sent
<1>15. ASSUME NEW t \in Partitions \cup {Topic}, TimerFires(t)
      PROVE  RestartState'
  <2>1. UNCHANGED <<tsup, child, psup>> /\ timers' = timers \ {t} /\ t \in timers
    BY <1>15 DEF TimerFires
  <2>2. CASE t \in Partitions
    <3>1. UNCHANGED tbox
      BY <1>15, <2>2, <1>0, TopicsBox
    <3> QED
      BY <2>1, <3>1, <1>0, SentQuietBox, QuietRestartState
  <2>3. CASE t = Topic
    <3>1. Sent(tbox, Message("delayed_restart", Topic), tbox')
      BY <1>15, <2>3, <1>0, TopicsBox
    <3> QED
      BY <2>1, <2>3, <3>1, <1>0, <1>00 DEF RestartState, Sent
  <2> QED
    BY <2>2, <2>3
<1>16. ASSUME HandleGetLeaderConnection \/ HandleRegister \/ UnknownTopicExpires \/
              PartitionsSupWhichChildren \/
              (\E c \in Callers : Lookup(c) \/ CheckAlive(c) \/ CallClient(c) \/ CallPartitionsSup(c)) \/
              (\E c \in Callers : \E op \in Ops[c], k \in Partitions : Begin(c, op, k))
      PROVE  UNCHANGED <<child, psup, tsup, tbox, timers>>
  BY <1>16 DEF Begin, Lookup, CheckAlive, CallClient, CallPartitionsSup,
       HandleGetLeaderConnection, Takes, HandleRegister, UnknownTopicExpires,
       PartitionsSupWhichChildren, PartitionsSupTakes, sups, env
<1>17. ASSUME PartitionsSupDelayedRestart \/ TopicMoves \/
              (\E p \in Pids : AskForConnection(p) \/ ProducerEnds(p))
      PROVE  UNCHANGED <<child, psup, tsup, tbox, timers>>
  BY <1>17 DEF PartitionsSupDelayedRestart, Start, PartitionsSupTakes, AskForConnection,
       ProducerEnds, Leaves, Dies, TopicMoves, sups, env
<1>18. CASE UNCHANGED vars
  BY <1>1, <1>18 DEF vars, sups
<1> QED
  BY <1>1, <1>2, <1>3, <1>4, <1>5, <1>6, <1>7, <1>8, <1>9, <1>10, <1>11, <1>12, <1>13,
     <1>14, <1>15, <1>16, <1>17, <1>18
     DEF Next, CallerNext, ClientNext, TopicsSupNext, PartitionsSupNext

LEMMA OneRestartStep == ClientInv /\ [Next]_vars => OneRestart'
BY RestartStateStep, RestartOrderStep DEF OneRestart

-----------------------------------------------------------------------------
LEMMA ShutDownStep == ClientInv /\ [Next]_vars => ShutDown' /\ NoShutDownLeft'
<1> SUFFICES ASSUME ClientInv, [Next]_vars PROVE ShutDown' /\ NoShutDownLeft'
  OBVIOUS
<1>0. TypeOK /\ Mail /\ BornInOrder /\ OneRestart /\ SupAsks /\ ShutDown /\ NoShutDownLeft
  BY DEF ClientInv
<1>00. \A w, s : Message(w, s).what = w /\ Message(w, s).from = s
  BY DEF Message
<1>1. CASE UNCHANGED <<psup, tsup, pbox>>
  BY <1>0, <1>1 DEF ShutDown, NoShutDownLeft
<1>2. ASSUME (\E c \in Callers : CallPartitionsSup(c)) \/
             (\E p \in Pids : ProducerEnds(p)) \/
             (\E t \in Partitions \cup {Topic} : TimerFires(t))
      PROVE  ShutDown' /\ NoShutDownLeft'
  <2>1. UNCHANGED <<psup, tsup>>
    BY <1>2 DEF CallPartitionsSup, ProducerEnds, TimerFires
  <2>2. \/ UNCHANGED pbox
        \/ \E w \in {"which_children", "EXIT", "delayed_restart"} : \E s : Sent(pbox, Message(w, s), pbox')
    BY <1>2, <1>0, PartitionsBox
  <2>3. \A i \in 1..Len(pbox') : pbox'[i].what = "shutdown" => i \in 1..Len(pbox) /\ pbox'[i] = pbox[i]
    BY <2>2, <1>00 DEF Sent
  <2> QED
    BY <2>1, <2>3, <1>0 DEF ShutDown, NoShutDownLeft
<1>3. ASSUME HandleInit \/ HandleQuery \/ HandleGetMetadata \/ CannotConnect \/
             HandleStop \/ StopProducerFailed
      PROVE  ShutDown' /\ NoShutDownLeft'
  <2>1. UNCHANGED pbox /\ (psup' = psup \/ psup' \in {"lookup", "counted", "failed"})
    BY <1>3 DEF HandleInit, HandleQuery, HandleGetMetadata, CannotConnect, HandleStop,
       StopProducerFailed, ClientEnds
  <2>2. tsup' = tsup \/ tsup = "none"
    <3>1. CASE HandleInit
      <4>1. Took(cbox, cbox') /\ Head(cbox).what = "init"
        BY <3>1, <1>0, ClientBox DEF HandleInit, Takes
      <4> QED
        BY <4>1, <1>0 DEF Took, Mail, ClientMail
    <3> QED
      BY <1>3, <3>1 DEF HandleQuery, HandleGetMetadata, CannotConnect, HandleStop,
         StopProducerFailed, ClientEnds
  <2> QED
    BY <2>1, <2>2, <1>0 DEF ShutDown, NoShutDownLeft
<1>4. ASSUME HandleStartChild \/ TopicsSupDelayedRestart
      PROVE  ShutDown' /\ NoShutDownLeft'
  <2>1. UNCHANGED tsup
    BY <1>4 DEF HandleStartChild, TopicsSupDelayedRestart
  <2>2. CASE UNCHANGED <<pbox, psup>>
    BY <2>1, <2>2, <1>0 DEF ShutDown, NoShutDownLeft
  <2>3. CASE Len(pbox') = 1 /\ pbox'[1] = Message("post_init", Topic) /\ psup' = "up"
    BY <2>1, <2>3, <1>00 DEF ShutDown, NoShutDownLeft
  <2> QED
    BY <1>4, <2>2, <2>3, <1>0, PartitionsBox
<1>5. ASSUME HandleTerminateChild \/ TopicsSupShutdown
      PROVE  ShutDown' /\ NoShutDownLeft'
  <2>1. UNCHANGED psup /\ tsup = "up"
    BY <1>5 DEF HandleTerminateChild, TopicsSupShutdown, TopicsSupTakes
  <2>2. TopicsSupShutdown => tsup' = "terminate"
    BY DEF TopicsSupShutdown
  <2>3. HandleTerminateChild =>
          tsup' = IF child = "pid" /\ psup # "down" THEN "terminate_child" ELSE tsup
    BY DEF HandleTerminateChild
  <2>4. psup = "down" => UNCHANGED pbox
    BY <1>5, <1>0, PartitionsBox
  <2>5. HandleTerminateChild /\ ~(child = "pid" /\ psup # "down") => UNCHANGED pbox
    BY <1>0, PartitionsBox
  <2> QED
    BY <1>5, <2>1, <2>2, <2>3, <2>4, <2>5, <1>0 DEF ShutDown, NoShutDownLeft
<1>6. ASSUME ChildIsDown \/ TopicsSupEnds
      PROVE  ShutDown' /\ NoShutDownLeft'
  BY <1>6, <1>0 DEF ChildIsDown, TopicsSupEnds, ShutDown, NoShutDownLeft
<1>7. ASSUME HandlePostInit \/ PartitionsSupWhichChildren \/ PartitionsSupExit \/
             PartitionsSupDelayedRestart \/ PartitionsSupShutdown
      PROVE  ShutDown' /\ NoShutDownLeft'
  <2>1. /\ UNCHANGED tsup /\ psup = "up"
        /\ psup' \in {psup, "failed", "get_workers_table"}
           \/ (PartitionsSupShutdown /\ psup' = "terminate" /\ Head(pbox).what = "shutdown")
    BY <1>7 DEF HandlePostInit, PartitionsSupWhichChildren, PartitionsSupExit,
       PartitionsSupDelayedRestart, PartitionsSupShutdown, PartitionsSupTakes
  <2>2. Took(pbox, pbox')
    BY <1>7, <1>0, PartitionsBox
  <2> QED
    BY <2>1, <2>2, <1>0 DEF Took, ShutDown, NoShutDownLeft
<1>8. ASSUME LookupCount \/ StartProducers
      PROVE  ShutDown' /\ NoShutDownLeft'
  <2>1. UNCHANGED <<tsup, pbox>> /\ psup' \notin {"down", "terminate"}
    BY <1>8 DEF LookupCount, StartProducers
  <2> QED
    BY <2>1, <1>0 DEF ShutDown, NoShutDownLeft
<1>9. ASSUME PartitionsSupEnds
      PROVE  ShutDown' /\ NoShutDownLeft'
  <2>1. psup' = "down" /\ Len(pbox') = 0
    BY <1>9, <1>0, PartitionsBox DEF PartitionsSupEnds
  <2> QED
    BY <2>1 DEF ShutDown, NoShutDownLeft
<1>10. ASSUME HandleStartProducer \/ HandleStopProducer \/ HandleGetLeaderConnection \/
              HandleRegister \/
              (\E c \in Callers : Lookup(c) \/ CheckAlive(c) \/ CallClient(c) \/ CallTopicsSup(c)) \/
              (\E c \in Callers : \E op \in Ops[c], k \in Partitions : Begin(c, op, k))
      PROVE  UNCHANGED <<psup, tsup, pbox>>
  BY <1>10 DEF Begin, Lookup, CheckAlive, CallClient, CallTopicsSup, HandleStartProducer,
       Takes, HandleStopProducer, HandleGetLeaderConnection, HandleRegister, sups, env
<1>11. ASSUME UnknownTopicExpires \/ HandleDeleteChild \/ TopicsSupWhichChildren \/
              TopicsSupExit \/ TerminateProducer \/ TopicMoves \/
              (\E p \in Pids : AskForConnection(p))
      PROVE  UNCHANGED <<psup, tsup, pbox>>
  BY <1>11 DEF UnknownTopicExpires, HandleDeleteChild, TopicsSupTakes,
       TopicsSupWhichChildren, TopicsSupExit, TerminateProducer, Leaves, Dies,
       AskForConnection, TopicMoves, sups, env
<1>12. CASE UNCHANGED vars
  BY <1>1, <1>12 DEF vars, sups
<1> QED
  BY <1>1, <1>2, <1>3, <1>4, <1>5, <1>6, <1>7, <1>8, <1>9, <1>10, <1>11, <1>12
     DEF Next, CallerNext, ClientNext, TopicsSupNext, PartitionsSupNext

LEMMA FirstPostInitStep == ClientInv /\ [Next]_vars => FirstPostInit'
<1> SUFFICES ASSUME ClientInv, [Next]_vars PROVE FirstPostInit'
  OBVIOUS
<1>0. TypeOK /\ Mail /\ BornInOrder /\ OneRestart /\ SupAsks /\ OneProducer /\ FirstPostInit
  BY DEF ClientInv, Family
<1>00. \A w, s : Message(w, s).what = w /\ Message(w, s).from = s
  BY DEF Message
<1>1. CASE UNCHANGED <<psup, pbox, kids>>
  BY <1>0, <1>1 DEF FirstPostInit
<1>2. ASSUME HandleTerminateChild \/ TopicsSupShutdown \/
             (\E c \in Callers : CallPartitionsSup(c)) \/
             (\E p \in Pids : ProducerEnds(p)) \/
             (\E t \in Partitions \cup {Topic} : TimerFires(t))
      PROVE  FirstPostInit'
  <2>1. UNCHANGED <<psup, kids>>
    BY <1>2 DEF CallPartitionsSup, ProducerEnds, TimerFires, HandleTerminateChild, TopicsSupShutdown
  <2>2. \/ UNCHANGED pbox
        \/ \E w \in {"which_children", "EXIT", "delayed_restart", "shutdown"} : \E s : Sent(pbox, Message(w, s), pbox')
    BY <1>2, <1>0, PartitionsBox
  <2>3. \/ UNCHANGED pbox
        \/ /\ 1 \in 1..Len(pbox) => 1 \in 1..Len(pbox') /\ pbox'[1] = pbox[1]
           /\ \A i \in 1..Len(pbox') : pbox'[i].what = "post_init" => i \in 1..Len(pbox) /\ pbox'[i] = pbox[i]
    BY <2>2, <1>00 DEF Sent
  <2> QED
    BY <2>1, <2>3, <1>0 DEF FirstPostInit
<1>3. ASSUME HandleQuery \/ HandleGetMetadata
      PROVE  FirstPostInit'
  <2>1. UNCHANGED <<pbox, kids>>
    BY <1>3 DEF HandleQuery, HandleGetMetadata
  <2>2. \/ psup' = psup
        \/ Head(cbox).from = Sup /\ psup' \in {"lookup", "counted", "failed"}
    BY <1>3 DEF HandleQuery, HandleGetMetadata
  <2>3. Took(cbox, cbox')
    BY <1>3, <1>0, ClientBox
  <2>4. Head(cbox).from = Sup => psup \notin {"up", "terminate"}
    BY <2>3, <1>0, NothingAsked DEF Took
  <2> QED
    BY <2>1, <2>2, <2>4, <1>0 DEF FirstPostInit
<1>4. ASSUME CannotConnect \/ HandleStop \/ StopProducerFailed
      PROVE  FirstPostInit'
  <2>1. UNCHANGED <<pbox, kids>>
    BY <1>4 DEF CannotConnect, HandleStop, StopProducerFailed, ClientEnds
  <2>2. psup' = psup \/ (psup \in {"get_workers_table", "get_metadata"} /\ psup' = "failed")
    BY <1>4, <1>0, SupLearns
  <2> QED
    BY <2>1, <2>2, <1>0 DEF FirstPostInit
<1>5. ASSUME HandleStartChild \/ TopicsSupDelayedRestart
      PROVE  FirstPostInit'
  <2>1. CASE UNCHANGED <<pbox, psup, kids>>
    BY <2>1, <1>0 DEF FirstPostInit
  <2>2. CASE /\ Len(pbox') = 1 /\ pbox'[1] = Message("post_init", Topic)
             /\ psup' = "up" /\ kids' = <<>>
    BY <2>2, <1>00 DEF FirstPostInit
  <2> QED
    BY <1>5, <2>1, <2>2, <1>0, PartitionsBox
<1>6. ASSUME HandlePostInit
      PROVE  FirstPostInit'
  <2>1. /\ Head(pbox).what = "post_init" /\ psup' \in {"failed", "get_workers_table"}
        /\ UNCHANGED kids
    BY <1>6 DEF HandlePostInit, PartitionsSupTakes
  <2>2. Took(pbox, pbox')
    BY <1>6, <1>0, PartitionsBox
  <2>3. kids = <<>>
    BY <2>1, <2>2, <1>0 DEF FirstPostInit, Took
  <2>4. \A i \in 1..Len(pbox') : i + 1 # 1
    BY <2>2 DEF Took
  <2> QED
    BY <2>1, <2>2, <2>3, <2>4, <1>0 DEF FirstPostInit, Took
<1>7. ASSUME PartitionsSupWhichChildren \/ PartitionsSupExit \/
             PartitionsSupDelayedRestart \/ PartitionsSupShutdown
      PROVE  FirstPostInit'
  <2>1. /\ Head(pbox).what # "post_init" /\ psup = "up" /\ psup' \in {"up", "terminate"}
    BY <1>7 DEF PartitionsSupWhichChildren, PartitionsSupExit,
       PartitionsSupDelayedRestart, PartitionsSupShutdown, PartitionsSupTakes
  <2>2. Took(pbox, pbox')
    BY <1>7, <1>0, PartitionsBox
  <2>3. kids # <<>>
    BY <2>1, <2>2, <1>0 DEF FirstPostInit, Took
  <2>4. \A i \in 1..Len(pbox') : pbox'[i].what # "post_init"
    BY <2>2, <2>3, <1>0 DEF FirstPostInit, Took
  <2>5. kids' # <<>>
    <3>1. kids \in [Partitions -> Pids \cup {Nobody, Restarting}]
      BY <2>3, <1>0 DEF TypeOK
    <3>2. CASE UNCHANGED kids
      BY <2>3, <3>2
    <3>3. CASE \E k : kids' = [kids EXCEPT ![k] = Restarting]
      BY <3>1, <3>3, PidFacts
    <3>4. CASE PartitionsSupDelayedRestart
      <4>1. PICK n \in 0..LastPid :
              kids' = [k \in Partitions |-> IF k = Head(pbox).from THEN n + 1 ELSE kids[k]]
        BY <3>4, <1>0, OneStarted
      <4>2. 1 \in DOMAIN kids'
        BY <4>1, PidFacts
      <4> QED
        BY <4>2
    <3> QED
      BY <1>7, <3>2, <3>3, <3>4 DEF PartitionsSupWhichChildren, PartitionsSupExit,
         PartitionsSupShutdown
  <2> QED
    BY <2>1, <2>4, <2>5 DEF FirstPostInit
<1>8. ASSUME LookupCount
      PROVE  FirstPostInit'
  <2>1. psup = "lookup" /\ psup' \in {"failed", "counted", "get_metadata"} /\ UNCHANGED <<pbox, kids>>
    BY <1>8 DEF LookupCount
  <2> QED
    BY <2>1, <1>0 DEF FirstPostInit
<1>9. ASSUME StartProducers
      PROVE  FirstPostInit'
  <2>1. psup = "counted" /\ psup' = "up" /\ UNCHANGED pbox
    BY <1>9 DEF StartProducers
  <2>2. PICK n \in 0..LastPid : kids' = [k \in Partitions |-> n + k]
    BY <1>9, <1>0, AllStarted
  <2>3. 1 \in DOMAIN kids'
    BY <2>2, PidFacts
  <2>4. kids' # <<>>
    BY <2>3
  <2> QED
    BY <2>1, <2>4, <1>0 DEF FirstPostInit
<1>10. ASSUME TerminateProducer
      PROVE  FirstPostInit'
  <2>1. psup = "terminate" /\ UNCHANGED <<psup, pbox>>
    BY <1>10 DEF TerminateProducer
  <2> QED
    BY <2>1, <1>0 DEF FirstPostInit
<1>11. ASSUME PartitionsSupEnds
      PROVE  FirstPostInit'
  <2>1. psup' = "down" /\ Len(pbox') = 0 /\ kids' = <<>>
    BY <1>11, <1>0, PartitionsBox DEF PartitionsSupEnds
  <2> QED
    BY <2>1 DEF FirstPostInit
<1>12. ASSUME HandleInit \/ HandleStartProducer \/ HandleStopProducer \/
              HandleGetLeaderConnection \/
              (\E c \in Callers : Lookup(c) \/ CheckAlive(c) \/ CallClient(c) \/ CallTopicsSup(c)) \/
              (\E c \in Callers : \E op \in Ops[c], k \in Partitions : Begin(c, op, k))
      PROVE  UNCHANGED <<psup, pbox, kids>>
  BY <1>12 DEF Begin, Lookup, CheckAlive, CallClient, CallTopicsSup, HandleInit, Takes,
       HandleStartProducer, HandleStopProducer, HandleGetLeaderConnection, sups, env
<1>13. ASSUME HandleRegister \/ UnknownTopicExpires \/ ChildIsDown \/ HandleDeleteChild \/
              TopicsSupWhichChildren \/ TopicsSupExit \/ TopicsSupEnds \/ TopicMoves \/
              (\E p \in Pids : AskForConnection(p))
      PROVE  UNCHANGED <<psup, pbox, kids>>
  BY <1>13 DEF HandleRegister, Takes, UnknownTopicExpires, ChildIsDown, Terminated,
       HandleDeleteChild, TopicsSupTakes, TopicsSupWhichChildren, TopicsSupExit,
       TopicsSupEnds, AskForConnection, TopicMoves, sups, env
<1>14. CASE UNCHANGED vars
  BY <1>1, <1>14 DEF vars, sups
<1> QED
  BY <1>1, <1>2, <1>3, <1>4, <1>5, <1>6, <1>7, <1>8, <1>9, <1>10, <1>11, <1>12, <1>13, <1>14
     DEF Next, CallerNext, ClientNext, TopicsSupNext, PartitionsSupNext

LEMMA KidsAreBornStep == ClientInv /\ [Next]_vars => KidsAreBorn'
<1> SUFFICES ASSUME ClientInv, [Next]_vars PROVE KidsAreBorn'
  OBVIOUS
<1>0. TypeOK /\ Mail /\ BornInOrder /\ OneRestart /\ SupAsks /\ OneProducer /\ KidsAreBorn
  BY DEF ClientInv, Family
<1>00. LivesGoOn
  BY TypeStep
<1>1. CASE UNCHANGED <<kids, prods>>
  BY <1>0, <1>1 DEF KidsAreBorn, Born
<1>2. ASSUME HandleStartChild \/ TopicsSupDelayedRestart \/ PartitionsSupEnds
      PROVE  KidsAreBorn'
  <2>1. kids' = <<>> \/ UNCHANGED <<kids, prods>>
    BY <1>2 DEF HandleStartChild, TopicsSupDelayedRestart, PartitionsSupEnds, StartPartitionsSup
  <2> QED
    BY <2>1, <1>0 DEF KidsAreBorn, Born
<1>3. ASSUME CannotConnect \/ HandleStop \/ StopProducerFailed \/
             HandleGetLeaderConnection \/
             (\E p \in Pids : AskForConnection(p) \/ ProducerEnds(p))
      PROVE  KidsAreBorn'
  <2>1. UNCHANGED kids
    BY <1>3 DEF CannotConnect, HandleStop, StopProducerFailed, ClientEnds, HandleGetLeaderConnection,
       AskForConnection, ProducerEnds, sups
  <2> QED
    BY <2>1, <1>0, <1>00 DEF KidsAreBorn, LivesGoOn, Born
<1>4. ASSUME StartProducers \/ PartitionsSupDelayedRestart
      PROVE  KidsAreBorn'
  <2>1. ASSUME NEW k \in Partitions, kids'[k] \in Pids, kids' # <<>>
        PROVE  prods'[kids'[k]].st # "unborn" /\ prods'[kids'[k]].part = k
    <3>1. CASE Newborn(kids'[k]) /\ prods'[kids'[k]].part = k
      BY <3>1 DEF Newborn
    <3>2. CASE PartitionsSupDelayedRestart /\ kids'[k] = kids[k]
      <4>1. kids # <<>>
        <5>1. Took(pbox, pbox') /\ Head(pbox).what = "delayed_restart" /\ psup = "up"
          BY <3>2, <1>0, PartitionsBox DEF PartitionsSupDelayedRestart, PartitionsSupTakes
        <5> QED
          BY <5>1, <1>0 DEF Took, OneProducer, TokensStand
      <4>2. Born(kids[k]) /\ prods[kids[k]].part = k /\ kids[k] \in Pids
        BY <2>1, <3>2, <4>1, <1>0 DEF KidsAreBorn
      <4> QED
        BY <3>2, <4>2, <1>00 DEF LivesGoOn, Born
    <3> QED
      BY <1>4, <3>1, <3>2, <1>0, Newborns
  <2> QED
    BY <2>1 DEF KidsAreBorn, Born
<1>5. ASSUME PartitionsSupExit \/ TerminateProducer
      PROVE  KidsAreBorn'
  <2>1. PICK k, v : v \notin Pids /\ kids' = [kids EXCEPT ![k] = v]
    BY <1>5, PidFacts DEF PartitionsSupExit, TerminateProducer
  <2>2. kids # <<>> => kids \in [Partitions -> Pids \cup {Nobody, Restarting}]
    BY <1>0 DEF TypeOK
  <2>3. kids' # <<>> => kids # <<>>
    BY <2>1
  <2>4. ASSUME NEW j \in Partitions, kids' # <<>>, kids'[j] \in Pids
        PROVE  kids'[j] = kids[j] /\ kids # <<>>
    BY <2>1, <2>2, <2>3, <2>4
  <2> QED
    BY <2>4, <1>0, <1>00 DEF KidsAreBorn, LivesGoOn, Born
<1>6. ASSUME HandleInit \/ HandleQuery \/ HandleStartProducer \/
             (\E c \in Callers : Lookup(c) \/ CheckAlive(c) \/ CallClient(c) \/ CallTopicsSup(c) \/ CallPartitionsSup(c)) \/
             (\E c \in Callers : \E op \in Ops[c], k \in Partitions : Begin(c, op, k))
      PROVE  UNCHANGED <<kids, prods>>
  BY <1>6 DEF Begin, Lookup, CheckAlive, CallClient, CallTopicsSup, CallPartitionsSup,
       HandleInit, Takes, HandleQuery, HandleStartProducer, sups, env
<1>7. ASSUME HandleStopProducer \/ HandleGetMetadata \/ HandleRegister \/
             UnknownTopicExpires \/ HandleTerminateChild \/ ChildIsDown \/
             HandleDeleteChild \/ TopicsSupWhichChildren \/ TopicsSupExit
      PROVE  UNCHANGED <<kids, prods>>
  BY <1>7 DEF HandleStopProducer, Takes, HandleGetMetadata, HandleRegister,
       UnknownTopicExpires, HandleTerminateChild, Terminated, TopicsSupTakes, ChildIsDown,
       HandleDeleteChild, TopicsSupWhichChildren, TopicsSupExit, sups, env
<1>8. ASSUME TopicsSupShutdown \/ TopicsSupEnds \/ HandlePostInit \/ LookupCount \/
             PartitionsSupWhichChildren \/ PartitionsSupShutdown \/ TopicMoves \/
             (\E t \in Partitions \cup {Topic} : TimerFires(t))
      PROVE  UNCHANGED <<kids, prods>>
  BY <1>8 DEF TopicsSupShutdown, TopicsSupTakes, TopicsSupEnds, HandlePostInit,
       PartitionsSupTakes, LookupCount, PartitionsSupWhichChildren, PartitionsSupShutdown,
       TimerFires, TopicMoves, sups, env
<1>9. CASE UNCHANGED vars
  BY <1>1, <1>9 DEF vars, sups
<1> QED
  BY <1>1, <1>2, <1>3, <1>4, <1>5, <1>6, <1>7, <1>8, <1>9
     DEF Next, CallerNext, ClientNext, TopicsSupNext, PartitionsSupNext

LEMMA FamilyStep == ClientInv /\ [Next]_vars => Family'
BY FirstPostInitStep, KidsAreBornStep DEF Family

-----------------------------------------------------------------------------
\* The mailbox of the partitions' supervisor has the restarts it had, or fewer.
SameTokens ==
  /\ \A i \in 1..Len(pbox') : pbox'[i].what \in {"delayed_restart", "EXIT"} =>
       \E j \in 1..Len(pbox) : pbox[j] = pbox'[i]
  /\ BoxOnce => BoxOnce'

LEMMA SentSameTokens ==
  ASSUME \/ UNCHANGED pbox
         \/ \E m : m.what \notin {"delayed_restart", "EXIT"} /\ Sent(pbox, m, pbox')
  PROVE  SameTokens
<1>1. CASE UNCHANGED pbox
  BY <1>1 DEF SameTokens, BoxOnce
<1>2. ASSUME NEW m, m.what \notin {"delayed_restart", "EXIT"}, Sent(pbox, m, pbox')
      PROVE  SameTokens
  <2>1. \A i \in 1..Len(pbox') : pbox'[i].what \in {"delayed_restart", "EXIT"} =>
          i \in 1..Len(pbox) /\ pbox[i] = pbox'[i]
    BY <1>2 DEF Sent
  <2> QED
    BY <2>1 DEF SameTokens, BoxOnce
<1> QED
  BY <1>1, <1>2

LEMMA TookSameTokens == ASSUME Took(pbox, pbox') PROVE SameTokens
<1>1. \A i \in 1..Len(pbox') : \E j \in 1..Len(pbox) : pbox[j] = pbox'[i]
  BY DEF Took
<1>2. ASSUME BoxOnce, NEW i \in 1..Len(pbox'), NEW j \in 1..Len(pbox'),
             pbox'[i].what \in {"delayed_restart", "EXIT"},
             pbox'[j].what = pbox'[i].what, pbox'[j].from = pbox'[i].from
      PROVE  i = j
  <2>1. /\ pbox'[i] = pbox[i + 1] /\ i + 1 \in 1..Len(pbox)
        /\ pbox'[j] = pbox[j + 1] /\ j + 1 \in 1..Len(pbox)
    BY DEF Took
  <2>2. i + 1 = j + 1
    BY <1>2, <2>1 DEF BoxOnce
  <2>3. i \in Int /\ j \in Int
    BY DEF Took
  <2> QED
    BY <2>2, <2>3
<1> QED
  BY <1>1, <1>2 DEF SameTokens, BoxOnce

LEMMA TheSameLives == ASSUME TypeOK, UNCHANGED prods PROVE SameLives
BY DEF SameLives, TypeOK, ProdType

LEMMA QuietOneProducer ==
  ASSUME TimersWait, TokensStand, TokensOnce, AliveKnown, Mail, SameLives, SameTokens,
         UNCHANGED kids, \A k \in Partitions : k \in timers' <=> k \in timers,
         psup' = psup \/ (psup \notin {"up", "terminate"} /\ psup' # "terminate")
  PROVE  OneProducer'
<1>1. \A p \in Pids : /\ prods'[p].part = prods[p].part
                      /\ prods'[p].st \in {"idle", "busy"} <=> prods[p].st \in {"idle", "busy"}
                      /\ prods'[p].st = "unborn" <=> prods[p].st = "unborn"
  BY DEF SameLives
<1>2. TimersWait' /\ TokensOnce'
  BY DEF TimersWait, TokensOnce, SameTokens
<1>3. AliveKnown'
  BY <1>1 DEF AliveKnown, Alive
<1>4. TokensStand'
  <2>1. ASSUME psup' # "terminate", NEW i \in 1..Len(pbox'),
               pbox'[i].what \in {"delayed_restart", "EXIT"}
        PROVE  /\ pbox'[i].what = "delayed_restart" =>
                    kids # <<>> /\ kids[pbox'[i].from] = Restarting /\ pbox'[i].from \notin timers'
               /\ pbox'[i].what = "EXIT" =>
                    /\ kids # <<>> /\ kids[prods'[pbox'[i].from].part] = pbox'[i].from
                    /\ prods'[pbox'[i].from].st \notin {"unborn", "idle", "busy"}
    <3>1. PICK j \in 1..Len(pbox) : pbox[j] = pbox'[i]
      BY <2>1 DEF SameTokens
    <3>2. psup # "terminate"
      BY <2>1
    <3>3. /\ pbox[j].what = "EXIT" => pbox[j].from \in Pids
          /\ pbox[j].what = "delayed_restart" => pbox[j].from \in Partitions
      BY DEF Mail, PartitionsSupMail
    <3> QED
      BY <1>1, <3>1, <3>2, <3>3 DEF TokensStand, Born, Alive
  <2> QED
    BY <2>1 DEF TokensStand, Born, Alive
<1> QED
  BY <1>2, <1>3, <1>4 DEF OneProducer

\* A partition has one live producer or one token for its restart.
LEMMA OneProducerStep == ClientInv /\ [Next]_vars => OneProducer'
<1> SUFFICES ASSUME ClientInv, [Next]_vars PROVE OneProducer'
  OBVIOUS
<1>0. TypeOK /\ Mail /\ BornInOrder /\ OneRestart /\ SupAsks /\ FirstPostInit /\ KidsAreBorn
      /\ TimersWait /\ TokensStand /\ TokensOnce /\ AliveKnown
  BY DEF ClientInv, Family, OneProducer
<1>00. \A w, s : Message(w, s).what = w /\ Message(w, s).from = s
  BY DEF Message
<1>1. CASE UNCHANGED <<timers, kids, pbox, psup, prods>>
  BY <1>0, <1>1, SentSameTokens, TheSameLives, QuietOneProducer
<1>2. ASSUME HandleTerminateChild \/ TopicsSupShutdown \/ TopicsSupExit \/
             (\E c \in Callers : CallPartitionsSup(c))
      PROVE  OneProducer'
  <2>1. UNCHANGED <<psup, kids, prods>>
    BY <1>2 DEF CallPartitionsSup, HandleTerminateChild, TopicsSupShutdown, TopicsSupExit
  <2>2. \A k \in Partitions : k \in timers' <=> k \in timers
    BY <1>2, PidFacts DEF CallPartitionsSup, HandleTerminateChild, TopicsSupShutdown, TopicsSupExit
  <2>3. \/ UNCHANGED pbox
        \/ \E w \in {"which_children", "shutdown"} : \E s : Sent(pbox, Message(w, s), pbox')
    BY <1>2, <1>0, PartitionsBox DEF TopicsSupExit
  <2>4. SameTokens
    BY <2>3, <1>00, SentSameTokens
  <2> QED
    BY <2>1, <2>2, <2>4, <1>0, TheSameLives, QuietOneProducer
<1>3. ASSUME HandleQuery \/ HandleGetMetadata
      PROVE  OneProducer'
  <2>1. UNCHANGED <<pbox, kids, timers, prods>>
    BY <1>3 DEF HandleQuery, HandleGetMetadata
  <2>2. \/ psup' = psup
        \/ Head(cbox).from = Sup /\ psup' \in {"lookup", "counted", "failed"}
    BY <1>3 DEF HandleQuery, HandleGetMetadata
  <2>3. Took(cbox, cbox')
    BY <1>3, <1>0, ClientBox
  <2>4. Head(cbox).from = Sup => psup \notin {"up", "terminate"}
    BY <2>3, <1>0, NothingAsked DEF Took
  <2> QED
    BY <2>1, <2>2, <2>4, <1>0, SentSameTokens, TheSameLives, QuietOneProducer
<1>4. ASSUME CannotConnect \/ HandleStop \/ StopProducerFailed
      PROVE  OneProducer'
  <2>1. UNCHANGED <<pbox, kids, timers>>
    BY <1>4 DEF CannotConnect, HandleStop, StopProducerFailed, ClientEnds
  <2>2. psup' = psup \/ (psup \in {"get_workers_table", "get_metadata"} /\ psup' = "failed")
    BY <1>4, <1>0, SupLearns
  <2>3. SameLives
    BY <1>4, <1>0, ClientEndsLives
  <2> QED
    BY <2>1, <2>2, <2>3, <1>0, SentSameTokens, QuietOneProducer
<1>5. ASSUME HandleGetLeaderConnection \/ (\E p \in Pids : AskForConnection(p))
      PROVE  OneProducer'
  <2>1. UNCHANGED <<pbox, kids, timers, psup>>
    BY <1>5 DEF HandleGetLeaderConnection, AskForConnection, sups
  <2>2. SameLives
    BY <1>5, <1>0, ConnectionLives
  <2> QED
    BY <2>1, <2>2, <1>0, SentSameTokens, QuietOneProducer
<1>6. ASSUME HandleStartChild \/ TopicsSupDelayedRestart
      PROVE  OneProducer'
  <2>1. UNCHANGED <<timers, prods>>
    BY <1>6 DEF HandleStartChild, TopicsSupDelayedRestart
  <2>2. CASE UNCHANGED <<pbox, psup, kids>>
    BY <2>1, <2>2, <1>0, SentSameTokens, TheSameLives, QuietOneProducer
  <2>3. CASE /\ Len(pbox') = 1 /\ pbox'[1] = Message("post_init", Topic)
             /\ psup' = "up" /\ kids' = <<>> /\ child' = "pid" /\ ~UNCHANGED <<child, pbox, psup, kids>>
    <3>1. psup = "down"
      <4>1. Took(tbox, tbox')
        BY <1>6, <1>0, TopicsBox
      <4>2. HandleStartChild => child # "pid"
        BY <2>3 DEF HandleStartChild
      <4>3. TopicsSupDelayedRestart => Head(tbox).what = "delayed_restart"
        BY DEF TopicsSupDelayedRestart, TopicsSupTakes
      <4> QED
        BY <1>6, <4>1, <4>2, <4>3, <1>0 DEF Took, OneRestart, RestartState
    <3>2. kids = <<>> /\ \A p \in Pids : ~Alive(p)
      BY <3>1, <1>0 DEF FirstPostInit, AliveKnown
    <3>3. \A i \in 1..Len(pbox') : pbox'[i].what = "post_init"
      BY <2>3, <1>00
    <3> QED
      BY <2>1, <2>3, <3>2, <3>3, <1>0 DEF OneProducer, TimersWait, TokensStand, TokensOnce, BoxOnce,
         AliveKnown, Alive
  <2> QED
    BY <1>6, <2>2, <2>3, <1>0, PartitionsBox
<1>7. ASSUME HandlePostInit
      PROVE  OneProducer'
  <2>1. /\ UNCHANGED <<kids, prods, timers>> /\ psup' # "terminate"
        /\ Head(pbox).what = "post_init" /\ psup = "up"
    BY <1>7 DEF HandlePostInit, PartitionsSupTakes
  <2>2. Took(pbox, pbox')
    BY <1>7, <1>0, PartitionsBox
  <2>3. kids = <<>>
    BY <2>1, <2>2, <1>0 DEF Took, FirstPostInit
  <2>4. \A i \in 1..Len(pbox') : pbox'[i].what \notin {"EXIT", "delayed_restart"}
    BY <2>1, <2>2, <2>3, <1>0 DEF Took, TokensStand
  <2> QED
    BY <2>1, <2>3, <2>4, <1>0 DEF OneProducer, TimersWait, TokensStand, TokensOnce, BoxOnce, AliveKnown, Alive
<1>8. ASSUME LookupCount
      PROVE  OneProducer'
  <2>1. /\ UNCHANGED <<kids, prods, timers, pbox>> /\ psup' # "terminate" /\ psup = "lookup"
    BY <1>8 DEF LookupCount
  <2> QED
    BY <2>1, <1>0, SentSameTokens, TheSameLives, QuietOneProducer
<1>9. ASSUME PartitionsSupWhichChildren
      PROVE  OneProducer'
  <2>1. UNCHANGED <<kids, prods, timers, psup>>
    BY <1>9 DEF PartitionsSupWhichChildren
  <2>2. Took(pbox, pbox')
    BY <1>9, <1>0, PartitionsBox
  <2> QED
    BY <2>1, <2>2, <1>0, TookSameTokens, TheSameLives, QuietOneProducer
<1>10. ASSUME PartitionsSupShutdown
      PROVE  OneProducer'
  <2>1. UNCHANGED <<kids, prods, timers>> /\ psup' = "terminate"
    BY <1>10 DEF PartitionsSupShutdown
  <2> QED
    BY <2>1, <1>0 DEF OneProducer, TimersWait, TokensStand, TokensOnce, BoxOnce, AliveKnown, Alive
<1>11. ASSUME PartitionsSupEnds
      PROVE  OneProducer'
  <2>1. /\ psup = "failed" \/ (psup = "terminate" /\ Range(kids) \subseteq {Nobody})
        /\ psup' = "down" /\ kids' = <<>> /\ Len(pbox') = 0 /\ UNCHANGED <<prods, timers>>
    BY <1>11, <1>0, PartitionsBox DEF PartitionsSupEnds
  <2>2. kids = <<>> \/ \A k \in Partitions : kids[k] = Nobody
    BY <2>1, <1>0 DEF FirstPostInit, TypeOK, Range
  <2>3. /\ \A k \in Partitions : k \notin timers
        /\ \A p \in Pids : ~Alive(p)
    <3>1. \A p \in Pids : prods[p].part \in Partitions
      BY <1>0 DEF TypeOK
    <3> QED
      BY <2>2, <3>1, <1>0, PidFacts DEF TimersWait, AliveKnown
  <2> QED
    BY <2>1, <2>3 DEF OneProducer, TimersWait, TokensStand, TokensOnce, BoxOnce, AliveKnown, Alive
<1>12. ASSUME PartitionsSupExit
      PROVE  OneProducer'
  <2> DEFINE p == Head(pbox).from
             k == prods[p].part
  <2>1. /\ Took(pbox, pbox') /\ Head(pbox).what = "EXIT" /\ psup = "up"
        /\ kids' = [kids EXCEPT ![k] = Restarting] /\ timers' = timers \cup {k}
        /\ UNCHANGED <<prods, psup>>
    BY <1>12, <1>0, PartitionsBox DEF PartitionsSupExit, PartitionsSupTakes
  <2>2. /\ pbox[1].what = "EXIT" /\ pbox[1].from = p /\ 1 \in 1..Len(pbox) /\ p \in Pids
        /\ kids # <<>> /\ kids[k] = p /\ ~Alive(p)
    BY <2>1, <1>0 DEF Took, TokensStand, Mail, PartitionsSupMail
  <2>3. k \in Partitions /\ p # Restarting
    BY <2>2, <1>0, PidFacts DEF TypeOK
  <2> HIDE DEF p, k
  <2>4. kids \in [Partitions -> Pids \cup {Nobody, Restarting}]
    BY <2>2, <1>0 DEF TypeOK
  <2>5. kids'[k] = Restarting /\ (\A j \in Partitions : j # k => kids'[j] = kids[j]) /\ kids' # <<>>
    BY <2>1, <2>3, <2>4
  <2>6. TimersWait'
    BY <2>1, <2>2, <2>5, <1>0 DEF TimersWait
  <2>7. AliveKnown'
    <3>1. ASSUME NEW q \in Pids, Alive(q) PROVE kids'[prods[q].part] = q
      <4>1. kids[prods[q].part] = q /\ prods[q].part \in Partitions
        BY <3>1, <1>0 DEF AliveKnown, TypeOK
      <4>2. q # p
        BY <3>1, <2>2
      <4> QED
        BY <2>2, <2>5, <4>1, <4>2
    <3> QED
      BY <2>1, <2>5, <3>1 DEF AliveKnown, Alive
  <2>8. ASSUME NEW i \in 1..Len(pbox')
        PROVE  /\ pbox'[i].what = "delayed_restart" =>
                    kids'[pbox'[i].from] = Restarting /\ pbox'[i].from \notin timers'
               /\ pbox'[i].what = "EXIT" =>
                    /\ kids'[prods[pbox'[i].from].part] = pbox'[i].from
                    /\ Born(pbox'[i].from) /\ ~Alive(pbox'[i].from)
    <3>1. pbox'[i] = pbox[i + 1] /\ i + 1 \in 1..Len(pbox) /\ i + 1 # 1
      BY <2>1 DEF Took
    <3>2. CASE pbox'[i].what = "delayed_restart"
      <4>1. kids[pbox'[i].from] = Restarting /\ pbox'[i].from \notin timers
        BY <2>1, <3>1, <3>2, <1>0 DEF TokensStand
      <4>2. pbox'[i].from \in Partitions /\ pbox'[i].from # k
        BY <2>2, <2>3, <3>1, <3>2, <4>1, <1>0 DEF Mail, PartitionsSupMail
      <4> QED
        BY <2>1, <2>5, <3>2, <4>1, <4>2
    <3>3. CASE pbox'[i].what = "EXIT"
      <4> DEFINE q == pbox'[i].from
      <4>1. q \in Pids /\ kids[prods[q].part] = q /\ Born(q) /\ ~Alive(q)
        BY <2>1, <3>1, <3>3, <1>0 DEF TokensStand, Mail, PartitionsSupMail
      <4>2. q # p
        BY <2>1, <2>2, <3>1, <3>3, <1>0 DEF TokensOnce, BoxOnce
      <4>3. prods[q].part \in Partitions
        BY <4>1, <1>0 DEF TypeOK
      <4> QED
        BY <2>2, <2>5, <3>3, <4>1, <4>2, <4>3
    <3> QED
      BY <3>2, <3>3
  <2>9. TokensStand'
    BY <2>1, <2>5, <2>8 DEF TokensStand, Born, Alive
  <2>10. TokensOnce'
    BY <2>1, <1>0, TookSameTokens DEF SameTokens, TokensOnce
  <2> QED
    BY <2>6, <2>7, <2>9, <2>10 DEF OneProducer
<1>13. ASSUME StartProducers
      PROVE  OneProducer'
  <2>1. psup = "counted" /\ psup' = "up" /\ UNCHANGED <<pbox, timers>>
    BY <1>13 DEF StartProducers
  <2>2. kids = <<>>
    BY <2>1, <1>0 DEF FirstPostInit
  <2>3. /\ \A k \in Partitions : k \notin timers
        /\ \A p \in Pids : ~Alive(p)
        /\ \A i \in 1..Len(pbox) : pbox[i].what \notin {"EXIT", "delayed_restart"}
    BY <2>1, <2>2, <1>0 DEF TimersWait, AliveKnown, TokensStand
  <2>4. ASSUME NEW p \in Pids, prods'[p].st \in {"idle", "busy"}
        PROVE  kids' # <<>> /\ kids'[prods'[p].part] = p
    <3>1. Newborn(p)
      BY <1>13, <2>3, <2>4, <1>0, Newborns DEF Alive
    <3>2. PICK n \in 0..LastPid : kids' = [k \in Partitions |-> n + k]
      BY <1>13, <1>0, AllStarted
    <3>3. 1 \in DOMAIN kids'
      BY <3>2, PidFacts
    <3> QED
      BY <3>1, <3>3 DEF Newborn
  <2> QED
    BY <2>1, <2>3, <2>4 DEF OneProducer, TimersWait, TokensStand, TokensOnce, BoxOnce, AliveKnown, Alive
<1>14. ASSUME PartitionsSupDelayedRestart
      PROVE  OneProducer'
  <2> DEFINE t == Head(pbox).from
  <2>1. /\ Took(pbox, pbox') /\ Head(pbox).what = "delayed_restart" /\ psup = "up"
        /\ UNCHANGED <<timers, psup>>
    BY <1>14, <1>0, PartitionsBox DEF PartitionsSupDelayedRestart, PartitionsSupTakes
  <2>2. /\ pbox[1].what = "delayed_restart" /\ pbox[1].from = t /\ 1 \in 1..Len(pbox)
        /\ t \in Partitions /\ kids # <<>> /\ kids[t] = Restarting /\ t \notin timers
    BY <2>1, <1>0 DEF Took, TokensStand, Mail, PartitionsSupMail
  <2>3. \A k \in Partitions : k # t => kids'[k] = kids[k]
    <3>1. PICK n \in 0..LastPid :
              kids' = [k \in Partitions |-> IF k = Head(pbox).from THEN n + 1 ELSE kids[k]]
      BY <1>14, <1>0, OneStarted
    <3> QED
      BY <3>1
  <2>4. kids' # <<>>
    <3>1. PICK n \in 0..LastPid :
              kids' = [k \in Partitions |-> IF k = Head(pbox).from THEN n + 1 ELSE kids[k]]
      BY <1>14, <1>0, OneStarted
    <3>2. 1 \in DOMAIN kids'
      BY <3>1, PidFacts
    <3> QED
      BY <3>2
  <2>5. \A p \in Pids : prods'[p] = prods[p] \/ Newborn(p)
    BY <1>14, <1>0, Newborns
  <2> HIDE DEF t
  <2>6. TimersWait'
    BY <2>1, <2>2, <2>3, <2>4, <1>0 DEF TimersWait
  <2>7. AliveKnown'
    <3>1. ASSUME NEW q \in Pids, prods'[q].st \in {"idle", "busy"}, prods'[q] = prods[q]
          PROVE  kids'[prods[q].part] = q
      <4>1. kids[prods[q].part] = q /\ prods[q].part \in Partitions
        BY <3>1, <1>0 DEF AliveKnown, TypeOK, Alive
      <4>2. prods[q].part # t
        BY <2>2, <4>1, PidFacts
      <4> QED
        BY <2>3, <4>1, <4>2
    <3> QED
      BY <2>1, <2>4, <2>5, <3>1 DEF AliveKnown, Alive, Newborn
  <2>8. ASSUME NEW i \in 1..Len(pbox')
        PROVE  /\ pbox'[i].what = "delayed_restart" =>
                    kids'[pbox'[i].from] = Restarting /\ pbox'[i].from \notin timers
               /\ pbox'[i].what = "EXIT" =>
                    /\ prods'[pbox'[i].from] = prods[pbox'[i].from]
                    /\ kids'[prods[pbox'[i].from].part] = pbox'[i].from
                    /\ Born(pbox'[i].from) /\ ~Alive(pbox'[i].from)
    <3>1. pbox'[i] = pbox[i + 1] /\ i + 1 \in 1..Len(pbox) /\ i + 1 # 1
      BY <2>1 DEF Took
    <3>2. CASE pbox'[i].what = "delayed_restart"
      <4>1. kids[pbox'[i].from] = Restarting /\ pbox'[i].from \notin timers
        BY <2>1, <3>1, <3>2, <1>0 DEF TokensStand
      <4>2. pbox'[i].from \in Partitions
        BY <3>1, <3>2, <1>0 DEF Mail, PartitionsSupMail
      <4>3. pbox'[i].from # t
        BY <2>1, <2>2, <3>1, <3>2, <1>0 DEF TokensOnce, BoxOnce
      <4> QED
        BY <2>3, <3>2, <4>1, <4>2, <4>3
    <3>3. CASE pbox'[i].what = "EXIT"
      <4> DEFINE q == pbox'[i].from
      <4>1. q \in Pids /\ kids[prods[q].part] = q /\ Born(q) /\ ~Alive(q)
        BY <2>1, <3>1, <3>3, <1>0 DEF TokensStand, Mail, PartitionsSupMail
      <4>2. prods[q].part \in Partitions /\ prods[q].part # t
        BY <2>2, <4>1, <1>0, PidFacts DEF TypeOK
      <4>3. prods'[q] = prods[q]
        BY <2>5, <4>1 DEF Newborn
      <4> QED
        BY <2>3, <3>3, <4>1, <4>2, <4>3
    <3> QED
      BY <3>2, <3>3
  <2>9. TokensStand'
    BY <2>1, <2>4, <2>8 DEF TokensStand, Born, Alive
  <2>10. TokensOnce'
    BY <2>1, <1>0, TookSameTokens DEF SameTokens, TokensOnce
  <2> QED
    BY <2>6, <2>7, <2>9, <2>10 DEF OneProducer
<1>15. ASSUME TerminateProducer
      PROVE  OneProducer'
  <2>1. PICK k \in DOMAIN kids :
          /\ kids' = [kids EXCEPT ![k] = Nobody] /\ timers' = timers \ {k}
          /\ IF kids[k] \in Pids /\ Alive(kids[k])
             THEN IF prods[kids[k]].st = "idle" THEN Leaves(kids[k]) ELSE Dies(kids[k])
             ELSE UNCHANGED <<prods, cbox>>
    BY <1>15 DEF TerminateProducer
  <2>2. psup = "terminate" /\ UNCHANGED psup
    BY <1>15 DEF TerminateProducer
  <2>3. kids # <<>> /\ kids \in [Partitions -> Pids \cup {Nobody, Restarting}]
    BY <2>1, <1>0 DEF TypeOK
  <2>4. k \in Partitions /\ kids' # <<>> /\ \A j \in Partitions : j # k => kids'[j] = kids[j]
    BY <2>1, <2>3
  <2>5. \A p \in Pids : prods'[p].part = prods[p].part /\ (prods'[p].st \in {"idle", "busy"} => Alive(p) /\ p # kids[k])
    <3>1. CASE kids[k] \in Pids /\ Alive(kids[k])
      BY <2>1, <3>1, <1>0 DEF Leaves, Dies, Alive, TypeOK
    <3>2. CASE ~(kids[k] \in Pids /\ Alive(kids[k]))
      BY <2>1, <3>2 DEF Alive
    <3> QED
      BY <3>1, <3>2
  <2>6. TimersWait'
    BY <2>1, <2>4, <1>0 DEF TimersWait
  <2>7. AliveKnown'
    <3>1. ASSUME NEW q \in Pids, prods'[q].st \in {"idle", "busy"}
          PROVE  kids'[prods'[q].part] = q
      <4>1. kids[prods[q].part] = q /\ prods[q].part \in Partitions /\ q # kids[k]
        BY <3>1, <2>5, <1>0 DEF AliveKnown, TypeOK
      <4> QED
        BY <2>4, <2>5, <4>1
    <3> QED
      BY <2>2, <2>4, <3>1 DEF AliveKnown, Alive
  <2> QED
    BY <2>2, <2>6, <2>7 DEF OneProducer, TokensStand, TokensOnce
<1>16. ASSUME NEW p \in Pids, ProducerEnds(p)
      PROVE  OneProducer'
  <2>1. /\ OneEnds(p) /\ Sent(pbox, Message("EXIT", p), pbox')
        /\ UNCHANGED <<psup, kids, timers>>
    BY <1>16, <1>0, EndLives, PartitionsBox DEF ProducerEnds
  <2>2. /\ Alive(p) /\ LivesGoOn /\ prods'[p].st \notin {"unborn", "idle", "busy"}
        /\ \A q \in Pids : q # p => prods'[q] = prods[q]
        /\ \A q \in Pids : prods'[q].part = prods[q].part
    BY <2>1, <1>0, EndLives DEF OneEnds, Alive, Born
  <2>3. kids # <<>> /\ kids[prods[p].part] = p
    BY <2>2, <1>0 DEF AliveKnown
  <2>4. TimersWait'
    BY <2>1, <1>0 DEF TimersWait
  <2>5. AliveKnown'
    BY <2>1, <2>2, <1>0 DEF AliveKnown, Alive
  <2>6. ASSUME psup # "terminate", NEW i \in 1..Len(pbox'), i \in 1..Len(pbox)
        PROVE  /\ pbox'[i] = pbox[i]
               /\ pbox[i].what = "EXIT" =>
                    /\ pbox[i].from \in Pids /\ pbox[i].from # p /\ kids[prods'[pbox[i].from].part] = pbox[i].from
                    /\ prods'[pbox[i].from].st \notin {"unborn", "idle", "busy"}
    <3>1. pbox'[i] = pbox[i]
      BY <2>1, <2>6 DEF Sent
    <3>2. pbox[i].what = "EXIT" =>
            /\ pbox[i].from \in Pids /\ kids[prods[pbox[i].from].part] = pbox[i].from
            /\ prods[pbox[i].from].st \notin {"unborn", "idle", "busy"}
      BY <2>6, <1>0 DEF TokensStand, Mail, PartitionsSupMail, Alive, Born
    <3> QED
      BY <2>2, <3>1, <3>2 DEF Alive
  <2>7. /\ pbox'[Len(pbox) + 1].what = "EXIT" /\ pbox'[Len(pbox) + 1].from = p
        /\ \A i \in 1..Len(pbox') : i \in 1..Len(pbox) \/ i = Len(pbox) + 1
    BY <2>1, <1>00 DEF Sent
  <2>8. TokensStand'
    <3>1. ASSUME psup # "terminate", NEW i \in 1..Len(pbox')
          PROVE  /\ pbox'[i].what = "delayed_restart" =>
                      kids[pbox'[i].from] = Restarting /\ pbox'[i].from \notin timers
                 /\ pbox'[i].what = "EXIT" =>
                      /\ kids[prods'[pbox'[i].from].part] = pbox'[i].from
                      /\ prods'[pbox'[i].from].st \notin {"unborn", "idle", "busy"}
      <4>1. CASE i \in 1..Len(pbox)
        BY <2>6, <3>1, <4>1, <1>0 DEF TokensStand
      <4>2. CASE i = Len(pbox) + 1
        BY <2>2, <2>3, <2>7, <4>2
      <4> QED
        BY <2>7, <4>1, <4>2
    <3> QED
      BY <2>1, <2>3, <3>1 DEF TokensStand, Born, Alive
  <2>9. TokensOnce'
    <3>1. ASSUME psup # "terminate", NEW i \in 1..Len(pbox'), NEW j \in 1..Len(pbox'),
                 pbox'[i].what \in {"delayed_restart", "EXIT"},
                 pbox'[j].what = pbox'[i].what, pbox'[j].from = pbox'[i].from
          PROVE  i = j
      <4>1. CASE i \in 1..Len(pbox) /\ j \in 1..Len(pbox)
        BY <2>6, <3>1, <4>1, <1>0 DEF TokensOnce, BoxOnce
      <4>2. CASE i = Len(pbox) + 1 /\ j \in 1..Len(pbox)
        BY <2>6, <2>7, <3>1, <4>2
      <4>3. CASE j = Len(pbox) + 1 /\ i \in 1..Len(pbox)
        BY <2>6, <2>7, <3>1, <4>3
      <4> QED
        BY <2>7, <4>1, <4>2, <4>3
    <3> QED
      BY <2>1, <3>1 DEF TokensOnce, BoxOnce
  <2> QED
    BY <2>4, <2>5, <2>8, <2>9 DEF OneProducer
<1>17. ASSUME NEW t \in Partitions \cup {Topic}, TimerFires(t)
      PROVE  OneProducer'
  <2>1. UNCHANGED <<psup, kids, prods>> /\ t \in timers /\ timers' = timers \ {t}
    BY <1>17 DEF TimerFires
  <2>2. CASE t = Topic
    <3>1. UNCHANGED pbox
      BY <1>17, <2>2, <1>0, PartitionsBox
    <3>2. \A k \in Partitions : k \in timers' <=> k \in timers
      BY <2>1, <2>2, PidFacts
    <3> QED
      BY <2>1, <3>1, <3>2, <1>0, SentSameTokens, TheSameLives, QuietOneProducer
  <2>3. CASE t \in Partitions
    <3>1. Sent(pbox, Message("delayed_restart", t), pbox')
      BY <1>17, <2>3, <1>0, PartitionsBox
    <3>2. kids # <<>> /\ kids[t] = Restarting
      BY <2>1, <2>3, <1>0 DEF TimersWait
    <3>3. psup # "terminate" => \A i \in 1..Len(pbox) :
            pbox[i].what = "delayed_restart" => pbox[i].from # t
      BY <2>1, <1>0 DEF TokensStand
    <3>4. /\ pbox'[Len(pbox) + 1].what = "delayed_restart" /\ pbox'[Len(pbox) + 1].from = t
          /\ \A i \in 1..Len(pbox') : i \in 1..Len(pbox) \/ i = Len(pbox) + 1
          /\ \A i \in 1..Len(pbox) : pbox'[i] = pbox[i]
      BY <3>1, <1>00 DEF Sent
    <3>5. TimersWait' /\ AliveKnown'
      BY <2>1, <1>0 DEF TimersWait, AliveKnown, Alive
    <3>6. TokensStand'
      BY <2>1, <3>2, <3>4, <1>0 DEF TokensStand, Born, Alive
    <3>7. TokensOnce'
      BY <2>1, <3>3, <3>4, <1>0 DEF TokensOnce, BoxOnce
    <3> QED
      BY <3>5, <3>6, <3>7 DEF OneProducer
  <2> QED
    BY <2>2, <2>3
<1>18. ASSUME HandleInit \/ HandleStartProducer \/ HandleStopProducer \/ HandleRegister \/
              (\E c \in Callers : Lookup(c) \/ CheckAlive(c) \/ CallClient(c) \/ CallTopicsSup(c)) \/
              (\E c \in Callers : \E op \in Ops[c], k \in Partitions : Begin(c, op, k))
      PROVE  UNCHANGED <<timers, kids, pbox, psup, prods>>
  BY <1>18 DEF Begin, Lookup, CheckAlive, CallClient, CallTopicsSup, HandleInit, Takes,
       HandleStartProducer, HandleStopProducer, HandleRegister, sups, env
<1>19. ASSUME UnknownTopicExpires \/ ChildIsDown \/ HandleDeleteChild \/
              TopicsSupWhichChildren \/ TopicsSupEnds \/ TopicMoves
      PROVE  UNCHANGED <<timers, kids, pbox, psup, prods>>
  BY <1>19 DEF UnknownTopicExpires, ChildIsDown, Terminated, HandleDeleteChild,
       TopicsSupTakes, TopicsSupWhichChildren, TopicsSupEnds, TopicMoves, sups, env
<1>20. CASE UNCHANGED vars
  BY <1>1, <1>20 DEF vars, sups
<1> QED
  BY <1>1, <1>2, <1>3, <1>4, <1>5, <1>6, <1>7, <1>8, <1>9, <1>10, <1>11, <1>12, <1>13,
     <1>14, <1>15, <1>16, <1>17, <1>18, <1>19, <1>20
     DEF Next, CallerNext, ClientNext, TopicsSupNext, PartitionsSupNext

-----------------------------------------------------------------------------
LEMMA InitInv == Init => ClientInv
<1> SUFFICES ASSUME Init PROVE ClientInv
  OBVIOUS
<1> DEFINE m == Message("init", Nobody)
<1>1. /\ Len(cbox) = 1 /\ cbox[1] = m /\ cbox # <<>> /\ tbox = <<>> /\ pbox = <<>> /\ kids = <<>>
      /\ Len(tbox) = 0 /\ Len(pbox) = 0
  BY EmptySeq DEF Init
<1>2. m.what = "init" /\ m.from = Nobody
  BY DEF Message
<1>3. m \in [what : ClientMessages, from : Senders]
  BY DEF Message, ClientMessages, Senders
<1>4. \A p \in Pids : prods[p].st = "unborn"
  BY DEF Init
<1>5. TypeOK
  <2>1. prods \in [Pids -> [part : Partitions, st : {"unborn", "idle", "busy", "left", "lost"}]]
    BY PidFacts DEF Init
  <2>2. table \in [Partitions -> Pids \cup {Nobody}]
    BY DEF Init, EmptyTable
  <2>3. \A box \in {cbox, tbox, pbox} : \A i \in DOMAIN box :
          box[i].from \in Callers \cup Pids \cup {Nobody, Sup}
    <3>1. DOMAIN cbox = {1} /\ DOMAIN tbox = {} /\ DOMAIN pbox = {}
      BY DEF Init
    <3> QED
      BY <1>1, <1>2, <3>1
  <2> QED
    BY <2>1, <2>2, <2>3 DEF Init, TypeOK
<1>6. Mail
  <2>1. cbox \in Seq([what : ClientMessages, from : Senders])
    BY <1>3 DEF Init
  <2>2. /\ tbox \in Seq([what : TopicsSupMessages, from : Senders])
        /\ pbox \in Seq([what : PartitionsSupMessages, from : Senders])
    BY <1>1
  <2>3. 1..Len(cbox) = {1} /\ 1..Len(tbox) = {} /\ 1..Len(pbox) = {}
    BY <1>1
  <2>4. tsup = "none"
    BY DEF Init
  <2> QED
    BY <1>1, <1>2, <2>1, <2>2, <2>3, <2>4 DEF Mail, ClientMail, TopicsSupMail, PartitionsSupMail,
       ProducerMessages, ClientCalls, CallerCalls
<1>7. BornInOrder
  <2>1. 0 \in 0..LastPid /\ \A p \in Pids : Born(p) <=> p <= 0
    BY <1>4, PidFacts DEF Born
  <2> QED
    BY <2>1 DEF BornInOrder
<1> HIDE DEF m
<1>8. OneCall /\ SupAsks
  <2>1. client = "up" /\ tsup = "none"
    BY DEF Init
  <2>2. Nobody # Sup
    BY DEF Nobody, Sup
  <2> QED
    BY <1>1, <1>2, <2>1, <2>2 DEF OneCall, CallOfClient, StartAndEnd, SupAsks
<1>9. OneRestart /\ Family /\ ShutDown /\ NoShutDownLeft
  <2>1. /\ child = "absent" /\ psup = "down" /\ timers = {} /\ tsup = "none"
    BY DEF Init
  <2> QED
    BY <1>1, <2>1 DEF OneRestart, RestartState, RestartOrder, Family, FirstPostInit, KidsAreBorn,
       ShutDown, NoShutDownLeft
<1>10. OneProducer
  <2>1. timers = {}
    BY DEF Init
  <2> QED
    BY <1>1, <1>4, <2>1 DEF OneProducer, TimersWait, TokensStand, TokensOnce, BoxOnce, AliveKnown,
       Alive
<1> QED
  BY <1>5, <1>6, <1>7, <1>8, <1>9, <1>10 DEF ClientInv

LEMMA InvStep == ClientInv /\ [Next]_vars => ClientInv'
BY TypeStep, OneCallStep, SupAsksStep, OneRestartStep, ShutDownStep, FamilyStep, OneProducerStep
   DEF ClientInv

LEMMA Invariance == Spec => []ClientInv
BY InitInv, InvStep, PTL DEF Spec

\* Every variable has its type: what the processes of brod's client exchange is
\* what the receiver can handle, whatever the order of calls and failures.
THEOREM ClientTypeCorrect == Spec => []TypeOK
<1>1. ClientInv => TypeOK
  BY DEF ClientInv
<1> QED
  BY <1>1, Invariance, PTL

-----------------------------------------------------------------------------
(***************************************************************************)
(* What the client will know of the live producers.                        *)
(***************************************************************************)
SameParts ==
  \A p \in Pids : /\ prods'[p].part = prods[p].part
                  /\ prods'[p].st \in {"idle", "busy"} => Alive(p)

LEMMA SentListed ==
  ASSUME Mail, Listed, SameParts, UNCHANGED table, client' # "down" => client # "down",
         \/ UNCHANGED cbox
         \/ \E m : Sent(cbox, m, cbox') /\
              \/ m.what \notin {"register", "deregister"}
              \/ /\ m.from \in Pids
                 /\ \A q \in Pids : prods'[q].st \in {"idle", "busy"} =>
                      prods[q].part # prods[m.from].part
  PROVE  Listed'
<1> SUFFICES ASSUME client' # "down", NEW p \in Pids, prods'[p].st \in {"idle", "busy"}
             PROVE  LastWord(p)'
  BY DEF Listed, Alive
<1> DEFINE k == prods[p].part
<1>1. LastWord(p) /\ prods'[p].part = k
  BY DEF Listed, SameParts, Alive
<1>2. \A i \in 1..Len(cbox) : cbox[i].what \in {"register", "deregister"} =>
        prods'[cbox[i].from].part = prods[cbox[i].from].part
  BY DEF SameParts, Mail, ClientMail, ProducerMessages
<1>3. CASE UNCHANGED cbox
  BY <1>1, <1>2, <1>3 DEF LastWord, CastOf
<1>4. ASSUME NEW m, Sent(cbox, m, cbox'),
             m.what \in {"register", "deregister"} => prods'[m.from].part # k
      PROVE  LastWord(p)'
  <2>1. /\ Len(cbox) \in Nat /\ Len(cbox') = Len(cbox) + 1
        /\ \A i \in 1..Len(cbox) : cbox'[i] = cbox[i] /\ i \in 1..Len(cbox')
        /\ cbox'[Len(cbox) + 1] = m
        /\ \A i \in 1..Len(cbox') : i \in 1..Len(cbox) \/ i = Len(cbox) + 1
    BY <1>4 DEF Sent
  <2>2. CASE /\ table[k] = p
             /\ \A i \in 1..Len(cbox) : ~CastOf(i, k)
    <3>1. \A i \in 1..Len(cbox') :
            ~(cbox'[i].what \in {"register", "deregister"} /\ prods'[cbox'[i].from].part = k)
      BY <1>2, <1>4, <2>1, <2>2 DEF CastOf
    <3> QED
      BY <1>1, <2>2, <3>1 DEF LastWord, CastOf
  <2>3. ASSUME NEW i \in 1..Len(cbox), cbox[i].what = "register", cbox[i].from = p,
               \A j \in 1..Len(cbox) : j > i => ~CastOf(j, k)
        PROVE  LastWord(p)'
    <3>1. i \in 1..Len(cbox') /\ cbox'[i].what = "register" /\ cbox'[i].from = p
      BY <2>1, <2>3
    <3>2. \A j \in 1..Len(cbox') : j > i =>
            ~(cbox'[j].what \in {"register", "deregister"} /\ prods'[cbox'[j].from].part = k)
      BY <1>2, <1>4, <2>1, <2>3 DEF CastOf
    <3> QED
      BY <1>1, <3>1, <3>2 DEF LastWord, CastOf
  <2> QED
    BY <1>1, <2>2, <2>3 DEF LastWord
<1>5. \A m : m.from \in Pids => prods'[m.from].part = prods[m.from].part
  BY DEF SameParts
<1> QED
  BY <1>3, <1>4, <1>5

LEMMA TookListed ==
  ASSUME Mail, Listed, SameParts, client' # "down" => client # "down", Took(cbox, cbox'),
         \/ UNCHANGED table /\ Head(cbox).what \notin {"register", "deregister"}
         \/ /\ Head(cbox).what \in {"register", "deregister"}
            /\ \A k \in Partitions : k # prods[Head(cbox).from].part => table'[k] = table[k]
            /\ Head(cbox).what = "register" =>
                 table'[prods[Head(cbox).from].part] = Head(cbox).from,
         prods \in ProdType
  PROVE  Listed'
<1> SUFFICES ASSUME client' # "down", NEW p \in Pids, prods'[p].st \in {"idle", "busy"}
             PROVE  LastWord(p)'
  BY DEF Listed, Alive
<1> DEFINE k == prods[p].part
<1>1. LastWord(p) /\ prods'[p].part = k /\ k \in Partitions
  BY DEF Listed, SameParts, Alive, ProdType
<1>2. \A i \in 1..Len(cbox) : cbox[i].what \in {"register", "deregister"} =>
        prods'[cbox[i].from].part = prods[cbox[i].from].part
  BY DEF SameParts, Mail, ClientMail, ProducerMessages
<1>3. /\ Len(cbox) \in Nat /\ 1 \in 1..Len(cbox) /\ Head(cbox) = cbox[1]
      /\ Len(cbox') = Len(cbox) - 1
      /\ \A i \in 1..Len(cbox') : cbox'[i] = cbox[i + 1] /\ i + 1 \in 1..Len(cbox)
  BY DEF Took
<1>4. CASE /\ table[k] = p
           /\ \A i \in 1..Len(cbox) : ~CastOf(i, k)
  <2>1. \A i \in 1..Len(cbox') :
          ~(cbox'[i].what \in {"register", "deregister"} /\ prods'[cbox'[i].from].part = k)
    BY <1>2, <1>3, <1>4 DEF CastOf
  <2>2. ~CastOf(1, k)
    BY <1>3, <1>4
  <2>3. table'[k] = p
    BY <1>1, <1>3, <1>4, <2>2 DEF CastOf
  <2> QED
    BY <1>1, <2>1, <2>3 DEF LastWord, CastOf
<1>5. ASSUME NEW i \in 1..Len(cbox), cbox[i].what = "register", cbox[i].from = p,
             \A j \in 1..Len(cbox) : j > i => ~CastOf(j, k)
      PROVE  LastWord(p)'
  <2>1. CASE i = 1
    <3>1. \A j \in 1..Len(cbox') :
            ~(cbox'[j].what \in {"register", "deregister"} /\ prods'[cbox'[j].from].part = k)
      <4>1. ASSUME NEW j \in 1..Len(cbox')
            PROVE  ~(cbox'[j].what \in {"register", "deregister"} /\ prods'[cbox'[j].from].part = k)
        <5>1. cbox'[j] = cbox[j + 1] /\ j + 1 \in 1..Len(cbox) /\ j + 1 > i
          BY <1>3, <2>1
        <5> QED
          BY <1>2, <1>5, <5>1 DEF CastOf
      <4> QED
        BY <4>1
    <3>2. table'[k] = p
      BY <1>1, <1>3, <1>5, <2>1
    <3> QED
      BY <1>1, <3>1, <3>2 DEF LastWord, CastOf
  <2>2. CASE i # 1
    <3> DEFINE h == i - 1
    <3>1. h \in 1..Len(cbox') /\ h + 1 = i
      BY <1>3, <2>2
    <3>2. cbox'[h].what = "register" /\ cbox'[h].from = p
      BY <1>3, <1>5, <3>1
    <3>3. ASSUME NEW j \in 1..Len(cbox'), j > h
          PROVE  ~(cbox'[j].what \in {"register", "deregister"} /\ prods'[cbox'[j].from].part = k)
      <4>1. cbox'[j] = cbox[j + 1] /\ j + 1 \in 1..Len(cbox) /\ j + 1 > i
        BY <1>3, <3>1, <3>3
      <4> QED
        BY <1>2, <1>5, <4>1 DEF CastOf
    <3> HIDE DEF h
    <3> QED
      BY <1>1, <3>1, <3>2, <3>3 DEF LastWord, CastOf
  <2> QED
    BY <2>1, <2>2
<1> QED
  BY <1>1, <1>4, <1>5 DEF LastWord

\* The client's table, or what it has yet to handle, has every live producer.
LEMMA ListedStep == ClientInv /\ Listed /\ [Next]_vars => Listed'
<1> SUFFICES ASSUME ClientInv, Listed, [Next]_vars PROVE Listed'
  OBVIOUS
<1>0. /\ TypeOK /\ Mail /\ BornInOrder /\ AliveKnown /\ TokensStand
      /\ prods \in ProdType /\ SupAsks /\ FirstPostInit /\ CallOfClient
  BY DEF ClientInv, OneProducer, Family, OneCall, TypeOK, ProdType
<1>00. \A w, s : Message(w, s).what = w /\ Message(w, s).from = s
  BY DEF Message
<1>1. CASE UNCHANGED <<client, cbox, table, prods>>
  BY <1>1 DEF Listed, LastWord, CastOf, Alive
<1>2. ASSUME NEW c \in Callers, CallClient(c)
      PROVE  Listed'
  <2>1. UNCHANGED <<client, table, prods>> /\ callers[c].at \in ClientCalls
    BY <1>2 DEF CallClient
  <2>2. UNCHANGED cbox \/ Sent(cbox, Message(callers[c].at, c), cbox')
    BY <1>2, <1>0, ClientBox
  <2>3. callers[c].at \notin {"register", "deregister"}
    BY <2>1 DEF ClientCalls
  <2>4. SameParts
    BY <2>1 DEF SameParts, Alive
  <2> QED
    BY <2>1, <2>2, <2>3, <2>4, <1>0, <1>00, SentListed
<1>3. ASSUME HandleInit \/ HandleQuery \/ HandleStartProducer \/ HandleStopProducer \/
             HandleGetMetadata \/ HandleGetLeaderConnection
      PROVE  Listed'
  <2>1. UNCHANGED table /\ Head(cbox).what \notin {"register", "deregister"} /\ client = "up"
    BY <1>3 DEF HandleInit, Takes, HandleQuery, HandleStartProducer, HandleStopProducer,
       HandleGetMetadata, HandleGetLeaderConnection
  <2>2. UNCHANGED prods \/ HandleGetLeaderConnection
    BY <1>3 DEF HandleInit, HandleQuery, HandleStartProducer, HandleStopProducer, HandleGetMetadata
  <2>3. SameLives
    BY <2>2, <1>0, TheSameLives, ConnectionLives
  <2>4. SameParts
    BY <2>3 DEF SameParts, SameLives, Alive
  <2>5. Took(cbox, cbox')
    BY <1>3, <1>0, ClientBox
  <2> QED
    BY <2>1, <2>4, <2>5, <1>0, TookListed
<1>4. ASSUME HandleRegister
      PROVE  Listed'
  <2> DEFINE p == Head(cbox).from
  <2>1. /\ UNCHANGED prods /\ client = "up" /\ Head(cbox).what \in {"register", "deregister"}
        /\ table' = [table EXCEPT ![prods[p].part] = IF Takes("register") THEN p ELSE Nobody]
    BY <1>4 DEF HandleRegister, Takes
  <2>2. Head(cbox).what = "register" => Takes("register")
    BY <1>4 DEF HandleRegister, Takes
  <2>3. Took(cbox, cbox')
    BY <1>4, <1>0, ClientBox
  <2>4. p \in Pids
    BY <2>1, <2>3, <1>0 DEF Took, Mail, ClientMail, ProducerMessages
  <2>5. prods[p].part \in Partitions /\ table \in [Partitions -> Pids \cup {Nobody}]
    BY <2>4, <1>0 DEF TypeOK
  <2>6. /\ \A k \in Partitions : k # prods[p].part => table'[k] = table[k]
        /\ Head(cbox).what = "register" => table'[prods[p].part] = p
    BY <2>1, <2>2, <2>5
  <2>7. SameParts
    BY <2>1 DEF SameParts, Alive
  <2> QED
    BY <2>1, <2>3, <2>6, <2>7, <1>0, TookListed
<1>5. ASSUME CannotConnect \/ HandleStop \/ StopProducerFailed
      PROVE  Listed'
  <2>1. client' = "down"
    BY <1>5 DEF CannotConnect, HandleStop, StopProducerFailed, ClientEnds
  <2> QED
    BY <2>1 DEF Listed
<1>6. ASSUME HandleStartChild \/ HandleTerminateChild \/ ChildIsDown \/ HandleDeleteChild
      PROVE  Listed'
  <2>1. UNCHANGED <<cbox, table, prods>>
    BY <1>6 DEF HandleStartChild, HandleTerminateChild, ChildIsDown, HandleDeleteChild
  <2>2. tbox # <<>> => 1 \in 1..Len(tbox) /\ Head(tbox) = tbox[1]
    BY <1>0, TookTail DEF Mail, TopicsSupMail, Took
  <2>3. client # "down"
    BY <1>6, <1>0, <2>2 DEF HandleStartChild, HandleTerminateChild, ChildIsDown, HandleDeleteChild,
       TopicsSupTakes, CallOfClient, ClientWaits
  <2> QED
    BY <2>1, <2>3, <1>0, SentListed DEF SameParts, Alive
<1>7. ASSUME HandlePostInit \/ LookupCount
      PROVE  Listed'
  <2>1. UNCHANGED <<client, table, prods>>
    BY <1>7 DEF HandlePostInit, LookupCount
  <2>2. UNCHANGED cbox \/ \E w \in {"get_workers_table", "get_metadata"} : Sent(cbox, Message(w, Sup), cbox')
    BY <1>7, <1>0, ClientBox
  <2>3. SameParts
    BY <2>1 DEF SameParts, Alive
  <2> QED
    BY <2>1, <2>2, <2>3, <1>0, <1>00, SentListed
<1>8. ASSUME NEW p \in Pids, AskForConnection(p)
      PROVE  Listed'
  <2>1. UNCHANGED <<client, table>>
    BY <1>8 DEF AskForConnection
  <2>2. Sent(cbox, Message("get_leader_connection", p), cbox')
    BY <1>8, <1>0, ClientBox
  <2>3. SameParts
    BY <1>8, <1>0, ConnectionLives DEF SameParts, SameLives, Alive
  <2> QED
    BY <2>1, <2>2, <2>3, <1>0, <1>00, SentListed
<1>9. ASSUME TerminateProducer \/ (\E p \in Pids : ProducerEnds(p))
      PROVE  Listed'
  <2>1. UNCHANGED <<client, table>>
    BY <1>9 DEF TerminateProducer, ProducerEnds
  <2>2. UNCHANGED <<prods, cbox>> \/ \E p \in Pids : Departs(p)
    BY <1>9, <1>0, ClientBox
  <2>3. CASE UNCHANGED <<prods, cbox>>
    BY <2>1, <2>3, <1>0, SentListed DEF SameParts, Alive
  <2>4. ASSUME NEW p \in Pids, Departs(p) PROVE Listed'
    <3>1. /\ ~(prods'[p].st \in {"idle", "busy"}) /\ Alive(p)
          /\ \A q \in Pids : q # p => prods'[q] = prods[q]
          /\ \A q \in Pids : prods'[q].part = prods[q].part
      BY <2>4, <1>0, EndLives DEF Departs, Alive, OneEnds
    <3>2. SameParts
      BY <3>1 DEF SameParts, Alive
    <3>3. \A q \in Pids : prods'[q].st \in {"idle", "busy"} => prods[q].part # prods[p].part
      BY <3>1, <3>2, <1>0 DEF AliveKnown, SameParts
    <3>4. UNCHANGED cbox \/ Sent(cbox, Message("deregister", p), cbox')
      BY <2>4 DEF Departs
    <3> QED
      BY <2>1, <3>2, <3>3, <3>4, <1>0, <1>00, SentListed
  <2> QED
    BY <2>2, <2>3, <2>4
<1>10. ASSUME StartProducers \/ PartitionsSupDelayedRestart
      PROVE  Listed'
  <2>1. UNCHANGED <<client, table>>
    BY <1>10 DEF StartProducers, PartitionsSupDelayedRestart
  <2> SUFFICES ASSUME client # "down", NEW p \in Pids, prods'[p].st \in {"idle", "busy"}
               PROVE  LastWord(p)'
    BY <2>1 DEF Listed, Alive
  <2>2. /\ Len(cbox) \in Nat /\ Len(cbox') \in Nat
        /\ \A i \in 1..Len(cbox) : i \in 1..Len(cbox') /\ cbox'[i] = cbox[i]
        /\ \A i \in 1..Len(cbox') :
             \/ i \in 1..Len(cbox)
             \/ i > Len(cbox) /\ cbox'[i].what = "register" /\ Newborn(cbox'[i].from)
    BY <1>10, <1>0, Newborns
  <2>3. CASE prods'[p] = prods[p]
    <3> DEFINE k == prods[p].part
    <3>1. LastWord(p) /\ Alive(p) /\ k \in Partitions
      BY <2>3, <1>0 DEF Listed, Alive, TypeOK
    <3>2. PartitionsSupDelayedRestart /\ k # Head(pbox).from /\ kids'[k] = p
      <4>1. ~StartProducers
        BY <3>1, <1>0 DEF AliveKnown, StartProducers
      <4>2. PICK n \in 0..LastPid :
              /\ Head(pbox).from \in Partitions /\ pbox # <<>> /\ pbox[1].what = "delayed_restart"
              /\ psup = "up"
              /\ kids' = [j \in Partitions |-> IF j = Head(pbox).from THEN n + 1 ELSE kids[j]]
        BY <1>10, <4>1, <1>0, OneStarted
      <4>3. Took(pbox, pbox')
        BY <1>10, <4>1, <1>0, PartitionsBox
      <4>4. kids[Head(pbox).from] = Restarting
        BY <4>2, <4>3, <1>0 DEF TokensStand, Took
      <4>5. kids[k] = p
        BY <3>1, <1>0 DEF AliveKnown
      <4>6. k # Head(pbox).from
        BY <4>4, <4>5, PidFacts
      <4> QED
        BY <1>10, <3>1, <4>1, <4>2, <4>5, <4>6
    <3>3. ASSUME NEW i \in 1..Len(cbox'), i > Len(cbox)
          PROVE  prods'[cbox'[i].from].part # k
      <4>1. Newborn(cbox'[i].from)
        BY <2>2, <3>3
      <4>2. cbox'[i].from # p
        BY <3>1, <4>1 DEF Newborn, Born, Alive
      <4> QED
        BY <3>2, <4>1, <4>2 DEF Newborn
    <3>4. ASSUME NEW i \in 1..Len(cbox), cbox[i].what \in {"register", "deregister"}
          PROVE  prods'[cbox[i].from].part = prods[cbox[i].from].part
      <4>1. cbox[i].from \in Pids /\ Born(cbox[i].from)
        BY <3>4, <1>0 DEF Mail, ClientMail, ProducerMessages, Born
      <4>2. LivesGoOn
        BY BornStep, <1>0
      <4> QED
        BY <4>1, <4>2 DEF LivesGoOn
    <3>5. ASSUME NEW i \in 1..Len(cbox'), i \in 1..Len(cbox) => ~CastOf(i, k)
          PROVE  ~(cbox'[i].what \in {"register", "deregister"} /\ prods'[cbox'[i].from].part = k)
      <4>1. CASE i \in 1..Len(cbox)
        BY <2>2, <3>4, <3>5, <4>1 DEF CastOf
      <4>2. CASE i > Len(cbox)
        BY <3>3, <4>2
      <4> QED
        BY <2>2, <4>1, <4>2
    <3>6. CASE table[k] = p /\ \A i \in 1..Len(cbox) : ~CastOf(i, k)
      BY <2>1, <2>3, <3>5, <3>6 DEF LastWord, CastOf
    <3>7. ASSUME NEW i \in 1..Len(cbox), cbox[i].what = "register", cbox[i].from = p,
                 \A j \in 1..Len(cbox) : j > i => ~CastOf(j, k)
          PROVE  LastWord(p)'
      <4>1. i \in 1..Len(cbox') /\ cbox'[i].what = "register" /\ cbox'[i].from = p
        BY <2>2, <3>7
      <4>2. \A j \in 1..Len(cbox') : j > i =>
              ~(cbox'[j].what \in {"register", "deregister"} /\ prods'[cbox'[j].from].part = k)
        BY <3>5, <3>7
      <4> QED
        BY <2>3, <4>1, <4>2 DEF LastWord, CastOf
    <3> QED
      BY <3>1, <3>6, <3>7 DEF LastWord
  <2>4. CASE Newborn(p)
    <3>1. PICK i \in 1..Len(cbox') : i > Len(cbox) /\ cbox'[i] = Message("register", p)
      <4>1. prods'[p] # prods[p]
        BY <2>4 DEF Newborn, Born
      <4> QED
        BY <1>10, <1>0, <4>1, Newborns
    <3>2. ASSUME NEW j \in 1..Len(cbox'), j > i
          PROVE  ~(cbox'[j].what \in {"register", "deregister"}
                   /\ prods'[cbox'[j].from].part = prods'[p].part)
      <4>1. j > Len(cbox)
        BY <3>1, <3>2, <2>2
      <4>2. Newborn(cbox'[j].from)
        BY <2>2, <4>1
      <4>3. prods'[cbox'[j].from].part = prods'[p].part => cbox'[j].from = p
        BY <2>4, <4>2 DEF Newborn
      <4>4. cbox'[j].from = p => j = i
        BY <1>10, <1>0, <1>00, <3>1, <4>1, Newborns
      <4> QED
        BY <3>2, <4>3, <4>4
    <3> QED
      BY <1>00, <3>1, <3>2 DEF LastWord, CastOf
  <2> QED
    BY <1>10, <1>0, <2>3, <2>4, Newborns
<1>11. ASSUME UnknownTopicExpires \/ TopicsSupWhichChildren \/ TopicsSupExit \/
              TopicsSupDelayedRestart \/
              (\E c \in Callers : Lookup(c) \/ CheckAlive(c) \/ CallTopicsSup(c) \/ CallPartitionsSup(c)) \/
              (\E c \in Callers : \E op \in Ops[c], k \in Partitions : Begin(c, op, k))
      PROVE  UNCHANGED <<client, cbox, table, prods>>
  BY <1>11 DEF Begin, Lookup, CheckAlive, CallTopicsSup, CallPartitionsSup,
       UnknownTopicExpires, TopicsSupWhichChildren, TopicsSupTakes, TopicsSupExit,
       TopicsSupDelayedRestart, StartPartitionsSup, sups, env
<1>12. ASSUME TopicsSupShutdown \/ TopicsSupEnds \/ PartitionsSupWhichChildren \/
              PartitionsSupExit \/ PartitionsSupShutdown \/ PartitionsSupEnds \/
              TopicMoves \/ (\E t \in Partitions \cup {Topic} : TimerFires(t))
      PROVE  UNCHANGED <<client, cbox, table, prods>>
  BY <1>12 DEF TopicsSupShutdown, TopicsSupTakes, TopicsSupEnds, PartitionsSupWhichChildren,
       PartitionsSupTakes, PartitionsSupExit, PartitionsSupShutdown, PartitionsSupEnds,
       TimerFires, TopicMoves, sups, env
<1>13. CASE UNCHANGED vars
  BY <1>1, <1>13 DEF vars, sups
<1> QED
  BY <1>1, <1>2, <1>3, <1>4, <1>5, <1>6, <1>7, <1>8, <1>9, <1>10, <1>11, <1>12, <1>13
     DEF Next, CallerNext, ClientNext, TopicsSupNext, PartitionsSupNext

\* The last word is what the table will say.
LEMMA LastWordCounts ==
  ASSUME TypeOK, Mail, NEW p \in Pids, LastWord(p)
  PROVE  Registered(prods[p].part) = p
<1> DEFINE k == prods[p].part
           casts == {i \in DOMAIN cbox : /\ cbox[i].what \in {"register", "deregister"}
                                         /\ prods[cbox[i].from].part = k}
           last == CHOOSE i \in casts : \A j \in casts : j <= i
<1>1. DOMAIN cbox = 1..Len(cbox) /\ Len(cbox) \in Nat
  BY DEF Mail, ClientMail
<1>2. Registered(k) = CASE casts = {} -> table[k]
                        [] casts # {} /\ cbox[last].what = "register" -> cbox[last].from
                        [] OTHER -> Nobody
  BY DEF Registered
<1>3. \A i : i \in casts <=> i \in 1..Len(cbox) /\ CastOf(i, k)
  BY <1>1 DEF CastOf
<1> HIDE DEF casts
<1>4. CASE table[k] = p /\ \A i \in 1..Len(cbox) : ~CastOf(i, k)
  <2>1. casts = {}
    BY <1>3, <1>4
  <2> QED
    BY <1>2, <1>4, <2>1
<1>5. ASSUME NEW i \in 1..Len(cbox), cbox[i].what = "register", cbox[i].from = p,
             \A j \in 1..Len(cbox) : j > i => ~CastOf(j, k)
      PROVE  Registered(k) = p
  <2>1. i \in casts
    BY <1>3, <1>5 DEF CastOf
  <2>2. \A j \in casts : j <= i /\ j \in Int
    BY <1>1, <1>3, <1>5
  <2>3. last \in casts /\ \A j \in casts : j <= last
    BY <2>1, <2>2
  <2> HIDE DEF last
  <2>4. last = i
    <3>1. last \in Int /\ i \in Int /\ last <= i /\ i <= last
      BY <2>1, <2>2, <2>3
    <3> QED
      BY <3>1
  <2> QED
    BY <1>2, <1>5, <2>1, <2>4
<1> QED
  BY <1>4, <1>5 DEF LastWord

\* Every live producer is the one its supervisor has for the partition, so that
\* no two produce to one partition and none outlives its supervisor; and the
\* client's table has it, or will once the client has handled its mailbox:
\* brod_client:register_producer/3 and deregister_producer/3 are casts that
\* name a partition only, sent by a producer and by the next one.
THEOREM ClientKnowsLiveProducers == Spec => []LiveProducersAreKnown
<1>1. Init => Listed
  <2>1. Init => \A p \in Pids : ~Alive(p)
    BY DEF Init, Alive
  <2> QED
    BY <2>1 DEF Listed
<1>2. ClientInv /\ Listed /\ [Next]_vars => Listed'
  BY ListedStep
<1>3. ClientInv /\ Listed => LiveProducersAreKnown
  BY LastWordCounts DEF ClientInv, OneProducer, AliveKnown, Listed, LiveProducersAreKnown
<1> QED
  BY <1>1, <1>2, <1>3, Invariance, PTL DEF Spec
=============================================================================
