------------------------- MODULE KafkaPluginProofs -------------------------
(***************************************************************************)
(* Theorems about KafkaPlugin for every set of connections, topics,        *)
(* configurations and clusters, and any number of starts and outages.      *)
(*                                                                         *)
(* HookedOnlyWhenReady needs to be strengthened by how far load/1 and      *)
(* unload/0 have come: what is still hooked while the plugin stops is      *)
(* still to come in UnloadOrder.                                           *)
(*                                                                         *)
(* ProducersFoundUnlessLost needs what a callback has read to be still     *)
(* true when it calls, over a stop and the next start: while client1 lives *)
(* the producers of the run's topic do (PInv).                             *)
(***************************************************************************)
EXTENDS KafkaPlugin, TLAPS

\* The hooks there are, but for the one that unload/0 leaves.
Ours == hooks \ {"client.authorize"}

\* Hook h is one of those load/1 adds.
Loaded(h) == \E k \in 1..Len(LoadOrder) : LoadOrder[k] = h

\* Some later step of unload/0 deletes hook h.
StillToDelete(h) == \E k \in pos..Len(UnloadOrder) : UnloadOrder[k] = h

Positions ==
  /\ app \in {"stopped", "start_client", "start_producer", "hook", "running", "unhook"}
  /\ app = "hook" => pos \in 1..Len(LoadOrder)
  /\ app = "unhook" => pos \in 1..Len(UnloadOrder)
  /\ app \notin {"hook", "unhook"} => pos = 1

HInv ==
  /\ Positions
  /\ \A h \in hooks : Loaded(h)
  /\ app \in {"stopped", "start_client", "start_producer"} => Ours = {}
  /\ app \in {"hook", "running", "unhook"} => kafka.topic \in started
  /\ app = "unhook" => \A h \in Ours : StillToDelete(h)

-----------------------------------------------------------------------------
LEMMA Lengths == Len(LoadOrder) = 20 /\ Len(UnloadOrder) = 19
  BY DEF LoadOrder, UnloadOrder

\* unload/0 deletes every hook that load/1 adds, but one.
LEMMA UnloadCovers ==
  ASSUME NEW h, Loaded(h), h # "client.authorize"
  PROVE  \E k \in 1..Len(UnloadOrder) : UnloadOrder[k] = h
<1>1. PICK n \in 1..20 : LoadOrder[n] = h
  BY Lengths DEF Loaded
<1>2. n \in 1..5 => UnloadOrder[n] = LoadOrder[n]
  BY DEF LoadOrder, UnloadOrder
<1>3. n \in 7..20 => UnloadOrder[n - 1] = LoadOrder[n]
  BY DEF LoadOrder, UnloadOrder
<1>4. n # 6
  BY <1>1 DEF LoadOrder
<1>5. n \in 1..5 \/ n \in 7..20
  BY <1>4
<1>6. CASE n \in 1..5
  BY <1>1, <1>2, <1>6, Lengths
<1>7. CASE n \in 7..20
  BY <1>1, <1>3, <1>7, Lengths
<1> QED
  BY <1>5, <1>6, <1>7

\* Steps that leave the plugin where it is, and take no producer topic away.
LEMMA Elsewhere ==
  ASSUME HInv, UNCHANGED <<app, pos, hooks, kafka>>, started \subseteq started'
  PROVE  HInv'
  BY DEF HInv, Positions, Ours, StillToDelete, Loaded

LEMMA BrodStep ==
  ASSUME HInv, BrodNext \/ EditConfig \/ \E a \in Addresses : ClusterChanges(a)
  PROVE  HInv'
<1>1. UNCHANGED <<app, pos, hooks, kafka, started>>
  BY DEF BrodNext, EditConfig, ClusterChanges, ClientConnects, ClientExits,
    ClientRestarts, appVars, brodVars
<1> QED
  BY <1>1, Elsewhere

LEMMA MqttStep ==
  ASSUME HInv, MqttNext
  PROVE  HInv'
<1>1. UNCHANGED <<appVars, brodVars>>
  BY DEF MqttNext, OnClientConnected, OnClientDisconnected, OnClientSubscribe,
    OnClientUnsubscribe, OnMessagePublish, Happens, MatchTopic, GetKafkaTopic, Produce
<1> QED
  BY <1>1, Elsewhere DEF appVars, brodVars

\* brod may be stopped only while nothing forwards.
LEMMA BrodStoppedStep ==
  ASSUME HInv, BrodStopped
  PROVE  HInv'
<1>1. app = "stopped" /\ UNCHANGED <<app, pos, hooks, kafka>>
  BY DEF BrodStopped, appVars
<1> QED
  BY <1>1 DEF HInv, Positions, Ours

LEMMA StartStep ==
  ASSUME HInv, Start \/ StartClient \/ StartProducer
  PROVE  HInv'
<1>1. CASE Start
  BY <1>1 DEF Start, HInv, Positions, Ours
<1>2. CASE StartClient
  <2>1. /\ app = "start_client" /\ app' \in {"stopped", "start_producer"}
        /\ UNCHANGED <<pos, hooks>>
    BY <1>2 DEF StartClient, StartFails
  <2> QED
    BY <2>1 DEF HInv, Positions, Ours
<1>3. CASE StartProducer
  <2>1. /\ app = "start_producer" /\ UNCHANGED <<pos, hooks, kafka>>
        /\ \/ app' = "stopped"
           \/ app' = "hook" /\ kafka.topic \in started'
    BY <1>3 DEF StartProducer, StartFails
  <2> QED
    BY <2>1, Lengths DEF HInv, Positions, Ours
<1> QED
  BY <1>1, <1>2, <1>3

LEMMA AddHookStep ==
  ASSUME HInv, AddHook
  PROVE  HInv'
<1>1. /\ app = "hook" /\ pos \in 1..Len(LoadOrder) /\ kafka.topic \in started
      /\ UNCHANGED <<kafka, started>>
  BY DEF HInv, Positions, AddHook, brodVars
<1>0. \A h \in hooks' : Loaded(h)'
  BY <1>1 DEF AddHook, HInv, Loaded
<1>2. CASE pos = Len(LoadOrder)
  BY <1>1, <1>0, <1>2 DEF AddHook, HInv, Positions
<1>3. CASE pos # Len(LoadOrder)
  <2>1. pos + 1 \in 1..Len(LoadOrder)
    BY <1>1, <1>3, Lengths
  <2> QED
    BY <1>1, <1>0, <1>3, <2>1 DEF AddHook, HInv, Positions
<1> QED
  BY <1>2, <1>3

LEMMA StopStep ==
  ASSUME HInv, Stop
  PROVE  HInv'
<1>1. /\ app = "running" /\ pos = 1 /\ kafka.topic \in started
      /\ app' = "unhook" /\ UNCHANGED <<pos, hooks, kafka, started>>
  BY DEF HInv, Positions, Stop, brodVars
<1>2. \A h \in Ours' : StillToDelete(h)'
  <2> SUFFICES ASSUME NEW h \in Ours PROVE StillToDelete(h)
    BY <1>1 DEF Ours, StillToDelete
  <2>1. Loaded(h) /\ h # "client.authorize"
    BY DEF HInv, Ours
  <2> QED
    BY <1>1, <2>1, UnloadCovers DEF StillToDelete
<1> QED
  BY <1>1, <1>2, Lengths DEF HInv, Positions

LEMMA DelHookStep ==
  ASSUME HInv, DelHook
  PROVE  HInv'
<1>1. /\ app = "unhook" /\ pos \in 1..Len(UnloadOrder) /\ kafka.topic \in started
      /\ hooks' = hooks \ {UnloadOrder[pos]}
      /\ UNCHANGED <<kafka, started>>
  BY DEF HInv, Positions, DelHook, brodVars
<1>2. \A h \in Ours' : \E k \in (pos + 1)..Len(UnloadOrder) : UnloadOrder[k] = h
  <2> SUFFICES ASSUME NEW h \in Ours'
               PROVE  \E k \in (pos + 1)..Len(UnloadOrder) : UnloadOrder[k] = h
    OBVIOUS
  <2>1. h \in Ours /\ h # UnloadOrder[pos]
    BY <1>1 DEF Ours
  <2>2. PICK k \in pos..Len(UnloadOrder) : UnloadOrder[k] = h
    BY <1>1, <2>1 DEF HInv, StillToDelete
  <2>3. k \in (pos + 1)..Len(UnloadOrder)
    BY <1>1, <2>1, <2>2, Lengths
  <2> QED
    BY <2>2, <2>3
<1>3. CASE pos = Len(UnloadOrder)
  <2>1. Ours' = {}
    BY <1>2, <1>3, Lengths
  <2> QED
    BY <1>1, <1>3, <2>1 DEF DelHook, HInv, Positions
<1>4. CASE pos # Len(UnloadOrder)
  <2>1. pos + 1 \in 1..Len(UnloadOrder) /\ pos' = pos + 1 /\ app' = "unhook"
    BY <1>1, <1>4, Lengths DEF DelHook
  <2>2. \A h \in Ours' : StillToDelete(h)'
    BY <1>2, <2>1 DEF StillToDelete
  <2> QED
    BY <1>1, <2>1, <2>2 DEF HInv, Positions
<1> QED
  BY <1>3, <1>4

LEMMA Inductive == HInv /\ [Next]_vars => HInv'
<1> SUFFICES ASSUME HInv, [Next]_vars PROVE HInv'
  OBVIOUS
<1>1. CASE UNCHANGED vars
  BY <1>1, Elsewhere DEF vars, appVars, brodVars
<1>2. CASE AppNext
  BY <1>2, StartStep, AddHookStep, StopStep, DelHookStep DEF AppNext
<1>3. CASE BrodNext \/ EditConfig \/ \E a \in Addresses : ClusterChanges(a)
  BY <1>3, BrodStep
<1>4. CASE MqttNext
  BY <1>4, MqttStep
<1>5. CASE BrodStopped
  BY <1>5, BrodStoppedStep
<1> QED
  BY <1>1, <1>2, <1>3, <1>4, <1>5 DEF Next

(***************************************************************************)
(* However starts fail, configurations change and clusters come and go,    *)
(* hooks are installed only between a successful kafka_init/1 and the end  *)
(* of unload/0, and for a Kafka topic whose producers start_producer       *)
(* started.  Only client.authorize stays.                                  *)
(***************************************************************************)
THEOREM HooksReady == Spec => []HookedOnlyWhenReady
<1>1. Init => HInv
  BY DEF Init, HInv, Positions, Ours
<1>2. HInv => HookedOnlyWhenReady
  BY DEF HInv, Positions, Ours, HookedOnlyWhenReady
<1> QED
  BY <1>1, <1>2, Inductive, PTL DEF Spec

-----------------------------------------------------------------------------
(***************************************************************************)
(* Types                                                                   *)
(***************************************************************************)
CallbackRecords ==
  [stage : {"idle", "match", "get_topic", "produce"},
   event : Forwarding \cup {"none"},
   mqtt  : MqttTopics \cup {"none"},
   topic : Topics \cup {"undefined"},
   gen   : 0..gen]

\* What TypeOK needs to be inductive: the callbacks as records, none running
\* without an event, and a Kafka topic from the configuration once a start
\* has read it.
TInv ==
  /\ TypeOK
  /\ callback \in [Conns -> CallbackRecords]
  /\ \A p \in Conns : callback[p].stage # "idle" => callback[p].event \in Forwarding
  /\ app # "stopped" => kafka.topic \in Topics

LEMMA ConfigTyped ==
  ASSUME TypeOK
  PROVE  /\ GetKafkaConfig.address \in Addresses \cup {NoAddress}
         /\ GetKafkaConfig.topic \in Topics
         /\ GetKafkaConfig.mqtt_topics.kind \in {"undefined", "list", "binary"}
<1>1. file \in Files /\ osenv \in OsEnvs
  BY DEF TypeOK
<1>2. /\ FallbackConfig.address \in Addresses \cup {NoAddress}
      /\ FallbackConfig.topic \in Topics
      /\ FallbackConfig.mqtt_topics.kind \in {"undefined", "list", "binary"}
  BY <1>1, PluginAssumption DEF FallbackConfig, Topics
<1>3. CASE file.exists /\ file.kafka /\ file.address # NoAddress
  BY <1>1, <1>3, PluginAssumption DEF GetKafkaConfig, Topics
<1>4. CASE ~(file.exists /\ file.kafka /\ file.address # NoAddress)
  BY <1>2, <1>4 DEF GetKafkaConfig
<1> QED
  BY <1>3, <1>4

LEMMA TypeInit == Init => TInv
<1> SUFFICES ASSUME Init PROVE TInv
  OBVIOUS
<1>1. callback \in [Conns -> CallbackRecords]
  BY DEF Init, NoCallback, CallbackRecords
<1>2. \A p \in Conns : callback[p].stage = "idle"
  BY DEF Init, NoCallback
<1>3. /\ kafka.address = NoAddress /\ kafka.topic = "undefined"
      /\ kafka.mqtt_topics.kind = "undefined"
  BY DEF Init, NoKafka
<1>4. client \in [state : {"none", "starting", "up", "restarting"},
                  endpoints : Addresses \cup {NoAddress}]
  BY DEF Init
<1>5. pos \in 1..Len(LoadOrder) /\ gen \in 0..MaxStarts
      /\ events \in 0..MaxEvents /\ outages \in 0..MaxOutages
  BY Lengths, PluginAssumption DEF Init
<1>6. TypeOK
  BY <1>2, <1>3, <1>4, <1>5 DEF Init, TypeOK
<1> QED
  BY <1>1, <1>2, <1>6 DEF Init, TInv

LEMMA TypeAppStep ==
  ASSUME TInv, HInv, AppNext
  PROVE  TInv'
<1> USE PluginAssumption
<1>1. UNCHANGED <<file, osenv, answering, online, callback, outcomes, events, outages>>
  BY DEF AppNext, Start, StartClient, StartProducer, AddHook, Stop, DelHook,
    configVars, mqttVars
<1>2. gen' \in 0..MaxStarts /\ gen <= gen'
  BY DEF AppNext, Start, StartClient, StartProducer, AddHook, Stop, DelHook, TInv, TypeOK
<1>3. callback' \in [Conns -> CallbackRecords']
  <2>1. CallbackRecords \subseteq CallbackRecords'
    BY <1>2 DEF CallbackRecords, TInv, TypeOK
  <2> QED
    BY <1>1, <2>1 DEF TInv
<1>4. CASE Start
  BY <1>1, <1>2, <1>3, <1>4, ConfigTyped DEF Start, TInv, TypeOK, brodVars
<1>5. CASE StartClient
  <2>1. client' \in [state : {"none", "starting", "up", "restarting"},
                     endpoints : Addresses \cup {NoAddress}]
    BY <1>5 DEF StartClient, StartFails, TInv, TypeOK
  <2> QED
    BY <1>1, <1>2, <1>3, <1>5, <2>1 DEF StartClient, StartFails, TInv, TypeOK
<1>6. CASE StartProducer
  <2>1. kafka.topic \in Topics
    BY <1>6 DEF StartProducer, TInv
  <2> QED
    BY <1>1, <1>2, <1>3, <1>6, <2>1 DEF StartProducer, StartFails, TInv, TypeOK
<1>7. CASE AddHook
  <2>1. app = "hook" /\ pos \in 1..Len(LoadOrder)
    BY <1>7 DEF AddHook, HInv, Positions
  <2>2. pos' \in 1..Len(LoadOrder)
    BY <1>7, <2>1, Lengths DEF AddHook
  <2>3. hooks' \subseteq {LoadOrder[k] : k \in 1..Len(LoadOrder)}
    BY <1>7, <2>1 DEF AddHook, TInv, TypeOK
  <2> QED
    BY <1>1, <1>2, <1>3, <1>7, <2>2, <2>3 DEF AddHook, TInv, TypeOK, brodVars
<1>8. CASE Stop
  BY <1>1, <1>2, <1>3, <1>8 DEF Stop, TInv, TypeOK, brodVars
<1>9. CASE DelHook
  <2>1. app = "unhook" /\ pos \in 1..Len(UnloadOrder) /\ kafka.topic \in Topics
    BY <1>9 DEF DelHook, HInv, Positions, TInv
  <2>2. pos' \in 1..Len(LoadOrder)
    BY <1>9, <2>1, Lengths DEF DelHook
  <2> QED
    BY <1>1, <1>2, <1>3, <1>9, <2>1, <2>2 DEF DelHook, TInv, TypeOK, brodVars
<1> QED
  BY <1>4, <1>5, <1>6, <1>7, <1>8, <1>9 DEF AppNext

LEMMA TypeBrodStep ==
  ASSUME TInv, BrodNext \/ BrodStopped \/ EditConfig \/ \E a \in Addresses : ClusterChanges(a)
  PROVE  TInv'
<1> USE PluginAssumption
<1>1. UNCHANGED <<appVars, mqttVars>>
  BY DEF BrodNext, BrodStopped, EditConfig, ClusterChanges, ClientConnects, ClientExits,
    ClientRestarts
<1>2. CASE BrodNext
  BY ZenonT(60), <1>1, <1>2 DEF BrodNext, ClientConnects, ClientExits, ClientRestarts, TInv, TypeOK,
    CallbackRecords, appVars, mqttVars, configVars
<1>3. CASE BrodStopped
  BY <1>1, <1>3 DEF BrodStopped, TInv, TypeOK, CallbackRecords, appVars, mqttVars, configVars
<1>4. CASE EditConfig
  BY <1>1, <1>4 DEF EditConfig, TInv, TypeOK, CallbackRecords, appVars, mqttVars, brodVars
<1>5. ASSUME NEW a \in Addresses, ClusterChanges(a) PROVE TInv'
  BY <1>1, <1>5 DEF ClusterChanges, TInv, TypeOK, CallbackRecords, appVars, mqttVars,
    brodVars, configVars
<1> QED
  BY <1>2, <1>3, <1>4, <1>5

\* An event that reaches a callback: its record, whatever the hook.
LEMMA HappensTyped ==
  ASSUME TInv, NEW p \in Conns, NEW hook \in Forwarding,
         NEW stage \in {"match", "get_topic"}, NEW mqtt \in MqttTopics \cup {"none"},
         Happens(p, hook, stage, mqtt), online' \subseteq Conns
  PROVE  TInv'
<1> USE PluginAssumption
<1> DEFINE new == [stage |-> stage, event |-> hook, mqtt |-> mqtt,
                   topic |-> "undefined", gen |-> gen]
<1>1. new \in CallbackRecords
  BY DEF CallbackRecords, TInv, TypeOK
<1>2. \/ UNCHANGED callback
      \/ callback' = [callback EXCEPT ![p] = new]
  BY DEF Happens
<1> HIDE DEF new
<1>3. callback' \in [Conns -> CallbackRecords]
  BY <1>1, <1>2 DEF TInv
<1>4. \A q \in Conns : callback'[q] = callback[q] \/ callback'[q] = new
  BY <1>2 DEF TInv
<1>5. new.stage \in {"match", "get_topic"} /\ new.event \in Forwarding
  BY DEF new
<1>6. \A q \in Conns : /\ callback'[q].stage \in {"idle", "match", "get_topic", "produce"}
                       /\ callback'[q].stage # "idle" => callback'[q].event \in Forwarding
  BY <1>4, <1>5 DEF TInv, TypeOK
<1>7. UNCHANGED <<configVars, appVars, brodVars, answering, outcomes, outages>>
      /\ events' \in 0..MaxEvents
  BY DEF Happens, TInv, TypeOK
<1> QED
  BY <1>3, <1>6, <1>7 DEF TInv, TypeOK, CallbackRecords, configVars, appVars, brodVars

\* The end of a callback: one more outcome, and the process is free.
LEMMA EndsTyped ==
  ASSUME TInv, NEW p \in Conns, callback[p].stage # "idle", NEW what, Ends(p, what),
         UNCHANGED <<configVars, appVars, brodVars, answering, online, events, outages>>
  PROVE  TInv'
<1>1. NoCallback \in CallbackRecords /\ NoCallback.stage = "idle"
  BY PluginAssumption DEF NoCallback, CallbackRecords, TInv, TypeOK
<1>2. callback' \in [Conns -> CallbackRecords]
  BY <1>1 DEF Ends, TInv
<1>3. \A q \in Conns : callback'[q] = callback[q] \/ callback'[q].stage = "idle"
  BY <1>1 DEF Ends, TInv
<1>4. \A o \in outcomes' : o.event \in Forwarding
  BY DEF Ends, TInv, TypeOK
<1> QED
  BY <1>2, <1>3, <1>4 DEF TInv, TypeOK, CallbackRecords, configVars, appVars, brodVars

LEMMA TypeMqttStep ==
  ASSUME TInv, MqttNext
  PROVE  TInv'
<1>1. ASSUME NEW p \in Conns,
             \/ OnClientConnected(p) \/ OnClientDisconnected(p)
             \/ OnClientSubscribe(p) \/ OnClientUnsubscribe(p)
             \/ \E t \in MqttTopics : OnMessagePublish(p, t)
      PROVE  TInv'
  <2>1. \E hook \in Forwarding, stage \in {"match", "get_topic"},
           mqtt \in MqttTopics \cup {"none"} : Happens(p, hook, stage, mqtt)
    BY <1>1 DEF OnClientConnected, OnClientDisconnected, OnClientSubscribe,
      OnClientUnsubscribe, OnMessagePublish, Forwarding
  <2>2. online' \subseteq Conns
    BY <1>1 DEF OnClientConnected, OnClientDisconnected, OnClientSubscribe,
      OnClientUnsubscribe, OnMessagePublish, TInv, TypeOK
  <2> QED
    BY <2>1, <2>2, HappensTyped
<1>2. ASSUME NEW p \in Conns, MatchTopic(p)
      PROVE  TInv'
  <2>1. callback[p].stage = "match" /\ callback[p] \in CallbackRecords
    BY <1>2 DEF MatchTopic, TInv
  <2>2. CASE Ends(p, "filtered") \/ Ends(p, "crashed")
    BY <1>2, <2>1, <2>2, EndsTyped DEF MatchTopic
  <2>3. CASE /\ callback' = [callback EXCEPT ![p].stage = "get_topic"]
             /\ UNCHANGED outcomes
    <3>1. [callback[p] EXCEPT !.stage = "get_topic"] \in CallbackRecords
      BY <2>1 DEF CallbackRecords
    <3>2. callback' \in [Conns -> CallbackRecords]
      BY <2>3, <3>1 DEF TInv
    <3>3. \A q \in Conns : /\ callback'[q].stage \in {"idle", "match", "get_topic", "produce"}
                           /\ callback'[q].stage # "idle" => callback'[q].event \in Forwarding
      BY <2>1, <2>3 DEF TInv, TypeOK, CallbackRecords
    <3> QED
      BY <1>2, <2>3, <3>2, <3>3 DEF MatchTopic, TInv, TypeOK, CallbackRecords,
        configVars, appVars, brodVars
  <2> QED
    BY <1>2, <2>2, <2>3 DEF MatchTopic
<1>3. ASSUME NEW p \in Conns, GetKafkaTopic(p)
      PROVE  TInv'
  <2>1. callback[p].stage = "get_topic" /\ callback[p] \in CallbackRecords
        /\ kafka.topic \in Topics \cup {"undefined"}
    BY <1>3 DEF GetKafkaTopic, TInv, TypeOK
  <2>2. [callback[p] EXCEPT !.stage = "produce", !.topic = kafka.topic] \in CallbackRecords
    BY <2>1 DEF CallbackRecords
  <2>3. callback' \in [Conns -> CallbackRecords]
    BY <1>3, <2>2 DEF GetKafkaTopic, TInv
  <2>4. \A q \in Conns : /\ callback'[q].stage \in {"idle", "match", "get_topic", "produce"}
                         /\ callback'[q].stage # "idle" => callback'[q].event \in Forwarding
    BY <1>3, <2>1 DEF GetKafkaTopic, TInv, TypeOK, CallbackRecords
  <2> QED
    BY <1>3, <2>3, <2>4 DEF GetKafkaTopic, TInv, TypeOK, CallbackRecords,
      configVars, appVars, brodVars
<1>4. ASSUME NEW p \in Conns, Produce(p)
      PROVE  TInv'
  <2>1. callback[p].stage # "idle" /\ \E what : Ends(p, what)
    BY <1>4 DEF Produce
  <2> QED
    BY <1>4, <2>1, EndsTyped DEF Produce
<1> QED
  BY <1>1, <1>2, <1>3, <1>4 DEF MqttNext

LEMMA TypeInductive == TInv /\ HInv /\ [Next]_vars => TInv'
<1> SUFFICES ASSUME TInv, HInv, [Next]_vars PROVE TInv'
  OBVIOUS
<1>1. CASE UNCHANGED vars
  BY <1>1 DEF TInv, TypeOK, CallbackRecords, vars, configVars, appVars, brodVars, mqttVars
<1> QED
  BY <1>1, TypeAppStep, TypeBrodStep, TypeMqttStep DEF Next

(***************************************************************************)
(* The plugin's variables keep their types: hook points are those of       *)
(* load/1, a start reads a configuration that the file or the environment  *)
(* gives, and start_producer only ever succeeds for a configured topic.    *)
(***************************************************************************)
THEOREM PluginTypeCorrect == Spec => []TypeOK
<1>1. Init => HInv
  BY DEF Init, HInv, Positions, Ours
<1>2. TInv => TypeOK
  BY DEF TInv
<1> QED
  BY <1>1, <1>2, TypeInit, TypeInductive, Inductive, PTL DEF Spec

-----------------------------------------------------------------------------
(***************************************************************************)
(* Producers are found                                                     *)
(***************************************************************************)
\* client1 runs and has producers for the topic that callbacks would use.
Ready == client.state = "up" /\ kafka.topic \in producers

\* Process p runs a callback that began in this run of the plugin.
Current(p) == callback[p].stage # "idle" /\ callback[p].gen = gen

\* While client1 has not ended since the start, what a callback of this run
\* is going to ask for is there; also after stop/1, which leaves client1.
PInv ==
  ~lost =>
    /\ app \in {"hook", "running", "unhook"} => Ready
    /\ \A p \in Conns : Current(p) =>
         /\ Ready
         /\ callback[p].stage = "produce" => callback[p].topic = kafka.topic

\* A new start counts on: no callback is of that run yet.
LEMMA ProducersStart ==
  ASSUME TInv, PInv, Start
  PROVE  PInv'
<1>1. \A p \in Conns : callback[p].gen \in 0..gen
  BY DEF TInv, CallbackRecords
<1>2. gen' = gen + 1 /\ callback' = callback /\ app' = "start_client" /\ gen \in Nat
  BY DEF Start, mqttVars, TInv, TypeOK
<1>3. \A p \in Conns : ~Current(p)'
  BY <1>1, <1>2 DEF Current
<1> QED
  BY <1>2, <1>3 DEF PInv

\* start_client touches client1 only where it was not ready.
LEMMA ProducersStartClient ==
  ASSUME PInv, StartClient
  PROVE  PInv'
<1>1. UNCHANGED <<kafka, producers, lost, callback, gen>>
      /\ app' \in {"stopped", "start_producer"}
  BY DEF StartClient, StartFails, mqttVars
<1>2. client.state = "up" => client' = client
  BY DEF StartClient, StartFails
<1> QED
  BY <1>1, <1>2 DEF PInv, Ready, Current

LEMMA ProducersStartProducer ==
  ASSUME PInv, StartProducer
  PROVE  PInv'
<1>1. UNCHANGED <<kafka, lost, callback, gen, client>> /\ producers \subseteq producers'
  BY DEF StartProducer, StartFails, mqttVars
<1>2. \/ app' = "stopped"
      \/ client.state = "up" /\ kafka.topic \in producers'
  BY DEF StartProducer, StartFails
<1> QED
  BY <1>1, <1>2 DEF PInv, Ready, Current

\* Hooks come and go without a move of brod or of a callback.
LEMMA ProducersHooks ==
  ASSUME HInv, PInv, AddHook \/ Stop \/ DelHook
  PROVE  PInv'
<1>1. app \in {"hook", "running", "unhook"}
      /\ UNCHANGED <<kafka, lost, callback, gen, client, producers>>
  BY DEF AddHook, Stop, DelHook, brodVars, mqttVars
<1> QED
  BY <1>1 DEF PInv, Ready, Current

\* client1 ends, and the plugin has lost it; or it comes up, and was not ready.
LEMMA ProducersBrodStep ==
  ASSUME PInv, BrodNext \/ BrodStopped \/ EditConfig \/ \E a \in Addresses : ClusterChanges(a)
  PROVE  PInv'
<1>1. UNCHANGED <<kafka, app, callback, gen>>
  BY DEF BrodNext, BrodStopped, EditConfig, ClusterChanges, ClientConnects, ClientExits,
    ClientRestarts, appVars, mqttVars
<1>2. \/ lost'
      \/ lost' = lost /\ (Ready => Ready')
  BY <1>1 DEF BrodNext, BrodStopped, EditConfig, ClusterChanges, ClientConnects, ClientExits,
    ClientRestarts, brodVars, Ready
<1> QED
  BY <1>1, <1>2 DEF PInv, Current

\* A hook that forwards is installed only while the producers are there.
LEMMA ProducersHappen ==
  ASSUME TInv, HInv, PInv, NEW p \in Conns, NEW hook \in Forwarding,
         NEW stage \in {"match", "get_topic"}, NEW mqtt, Happens(p, hook, stage, mqtt)
  PROVE  PInv'
<1>1. UNCHANGED <<kafka, app, gen, lost, client, producers>>
  BY DEF Happens, appVars, brodVars
<1>2. CASE hook \in hooks
  <2>1. app \in {"hook", "running", "unhook"}
    BY <1>2 DEF HInv, Positions, Ours, Forwarding
  <2>2. \A q \in Conns : callback'[q] = callback[q] \/ callback'[q].stage = stage
    BY <1>2 DEF Happens, TInv
  <2> QED
    BY <1>1, <2>1, <2>2 DEF PInv, Ready, Current
<1>3. CASE hook \notin hooks
  BY <1>1, <1>3 DEF Happens, PInv, Ready, Current
<1> QED
  BY <1>2, <1>3

LEMMA ProducersEnd ==
  ASSUME TInv, PInv, NEW p \in Conns, NEW what, Ends(p, what),
         UNCHANGED <<appVars, brodVars>>
  PROVE  PInv'
<1>1. \A q \in Conns : callback'[q] = callback[q] \/ callback'[q].stage = "idle"
  BY DEF Ends, TInv, NoCallback
<1> QED
  BY <1>1 DEF PInv, Ready, Current, appVars, brodVars

LEMMA ProducersMqttStep ==
  ASSUME TInv, HInv, PInv, MqttNext
  PROVE  PInv'
<1>1. ASSUME NEW p \in Conns,
             \/ OnClientConnected(p) \/ OnClientDisconnected(p)
             \/ OnClientSubscribe(p) \/ OnClientUnsubscribe(p)
             \/ \E t \in MqttTopics : OnMessagePublish(p, t)
      PROVE  PInv'
  <2>1. \E hook \in Forwarding, stage \in {"match", "get_topic"},
           mqtt \in MqttTopics \cup {"none"} : Happens(p, hook, stage, mqtt)
    BY <1>1 DEF OnClientConnected, OnClientDisconnected, OnClientSubscribe,
      OnClientUnsubscribe, OnMessagePublish, Forwarding
  <2> QED
    BY <2>1, ProducersHappen
<1>2. ASSUME NEW p \in Conns, MatchTopic(p)
      PROVE  PInv'
  <2>1. UNCHANGED <<appVars, brodVars>> /\ callback[p].stage = "match"
    BY <1>2 DEF MatchTopic
  <2>2. CASE Ends(p, "filtered") \/ Ends(p, "crashed")
    BY <2>1, <2>2, ProducersEnd
  <2>3. CASE callback' = [callback EXCEPT ![p].stage = "get_topic"]
    <3>1. \A q \in Conns : \/ callback'[q] = callback[q]
                           \/ /\ callback'[q].stage = "get_topic"
                              /\ Current(q)' => Current(q)
      BY <2>1, <2>3 DEF TInv, CallbackRecords, Current, appVars
    <3> QED
      BY <2>1, <3>1 DEF PInv, Ready, Current, appVars, brodVars
  <2> QED
    BY <1>2, <2>2, <2>3 DEF MatchTopic
<1>3. ASSUME NEW p \in Conns, GetKafkaTopic(p)
      PROVE  PInv'
  <2>1. UNCHANGED <<appVars, brodVars>> /\ callback[p].stage = "get_topic"
    BY <1>3 DEF GetKafkaTopic
  <2>2. \A q \in Conns : \/ callback'[q] = callback[q]
                         \/ /\ callback'[q].topic = kafka.topic
                            /\ Current(q)' => Current(q)
    BY <1>3, <2>1 DEF GetKafkaTopic, TInv, CallbackRecords, Current, appVars
  <2> QED
    BY <2>1, <2>2 DEF PInv, Ready, Current, appVars, brodVars
<1>4. ASSUME NEW p \in Conns, Produce(p)
      PROVE  PInv'
  BY <1>4, ProducersEnd DEF Produce
<1> QED
  BY <1>1, <1>2, <1>3, <1>4 DEF MqttNext

LEMMA ProducersInductive == TInv /\ HInv /\ PInv /\ [Next]_vars => PInv'
<1> SUFFICES ASSUME TInv, HInv, PInv, [Next]_vars PROVE PInv'
  OBVIOUS
<1>1. CASE UNCHANGED vars
  BY <1>1 DEF PInv, Ready, Current, vars, appVars, brodVars, mqttVars
<1> QED
  BY <1>1, ProducersStart, ProducersStartClient, ProducersStartProducer, ProducersHooks,
    ProducersBrodStep, ProducersMqttStep DEF Next, AppNext

\* The outcome that a step adds is judged by the state it ends in.
LEMMA OutcomesFound ==
  ASSUME TInv, PInv, ProducersFoundUnlessLost, [Next]_vars
  PROVE  ProducersFoundUnlessLost'
<1>1. CASE outcomes' = outcomes
  BY <1>1 DEF ProducersFoundUnlessLost
<1>2. ASSUME NEW p \in Conns, NEW what, Ends(p, what), callback[p].stage # "idle",
             what \in {"producer_not_found", "client_down"} => lost \/ callback[p].gen # gen
      PROVE  ProducersFoundUnlessLost'
  <2> DEFINE new == [what |-> what, event |-> callback[p].event, mqtt |-> callback[p].mqtt,
                     topic |-> callback[p].topic, wanted |-> callback[p].mqtt \in
                       kafka.mqtt_topics.match,
                     restarted |-> callback[p].gen # gen, lost |-> lost]
  <2>1. new.what = what /\ new.lost = lost
    OBVIOUS
  <2>2. new.restarted = (callback[p].gen # gen)
    BY Zenon
  <2>3. outcomes' = outcomes \cup {new}
    BY <1>2 DEF Ends
  <2> HIDE DEF new
  <2>4. ~new.restarted /\ ~new.lost => new.what \notin {"producer_not_found", "client_down"}
    BY <1>2, <2>1, <2>2
  <2> QED
    BY <2>3, <2>4 DEF ProducersFoundUnlessLost
<1>3. ASSUME NEW p \in Conns, Produce(p)
      PROVE  ProducersFoundUnlessLost'
  <2>1. callback[p].stage = "produce"
    BY <1>3 DEF Produce
  <2>2. ~lost /\ callback[p].gen = gen =>
           client.state = "up" /\ callback[p].topic \in producers
    BY <2>1 DEF PInv, Current, Ready
  <2> QED
    BY <1>2, <1>3, <2>1, <2>2 DEF Produce
<1>4. ASSUME NEW p \in Conns, MatchTopic(p)
      PROVE  ProducersFoundUnlessLost'
  <2>1. callback[p].stage # "idle"
    BY <1>4 DEF MatchTopic
  <2>2. Ends(p, "filtered") \/ Ends(p, "crashed") \/ outcomes' = outcomes
    BY <1>4 DEF MatchTopic
  <2>3. CASE Ends(p, "filtered")
    BY <1>2, <2>1, <2>3
  <2>4. CASE Ends(p, "crashed")
    BY <1>2, <2>1, <2>4
  <2> QED
    BY <1>1, <2>2, <2>3, <2>4
<1>5. UNCHANGED outcomes \/ \E p \in Conns : Produce(p) \/ MatchTopic(p)
  BY DEF Next, AppNext, BrodNext, MqttNext, vars, mqttVars, Start, StartClient, StartProducer,
    AddHook, Stop, DelHook, ClientConnects, ClientExits, ClientRestarts, EditConfig,
    BrodStopped, ClusterChanges, OnClientConnected, OnClientDisconnected, OnClientSubscribe,
    OnClientUnsubscribe, OnMessagePublish, Happens, GetKafkaTopic
<1> QED
  BY <1>1, <1>3, <1>4, <1>5

(***************************************************************************)
(* However starts fail and are tried again, configurations change, hooks   *)
(* come and go under running callbacks and clusters answer or not: an      *)
(* event that began in this run of the plugin finds its producers, unless  *)
(* client1 ended in it.                                                    *)
(***************************************************************************)
THEOREM ProducersFound == Spec => []ProducersFoundUnlessLost
<1>1. Init => HInv
  BY DEF Init, HInv, Positions, Ours
<1>2. Init => PInv /\ ProducersFoundUnlessLost
  BY DEF Init, PInv, Current, NoCallback, ProducersFoundUnlessLost
<1> QED
  BY <1>1, <1>2, TypeInit, TypeInductive, Inductive, ProducersInductive, OutcomesFound, PTL
    DEF Spec
=============================================================================
