----------------------------- MODULE KafkaPlugin -----------------------------
(***************************************************************************)
(* The plugin itself: emqx_plugin_kafka_app.erl (start, stop, where the    *)
(* configuration comes from) and emqx_plugin_kafka.erl (hooks on and off,  *)
(* the callbacks that forward MQTT events), with the life of the brod      *)
(* client 'client1' it starts and does not stop itself (brod_sup.erl,      *)
(* brod_client.erl, brod_producers_sup.erl).                               *)
(*                                                                         *)
(* The application controller runs start/2 and stop/1; every MQTT          *)
(* connection is a process of its own that runs the callbacks; an          *)
(* administrator edits the configuration and starts and stops the plugin;  *)
(* Kafka comes and goes.  Between any two steps of one the others move.    *)
(* What a partition producer does with a request is BrodProducer's matter: *)
(* here produce_cb is accepted or refused.                                 *)
(***************************************************************************)
EXTENDS Naturals, Sequences, FiniteSets

CONSTANTS
  Conns,       \* MQTT connection processes
  MqttTopics,  \* topics messages are published to
  SysTopics,   \* those that begin with $SYS/
  Files,       \* contents /etc/emqx_kafka.conf may have
  OsEnvs,      \* values the KAFKA_* environment variables may have
  Addresses,   \* address lists that name a Kafka cluster
  MaxStarts,   \* bound: plugin starts
  MaxOutages,  \* bound: changes of which clusters answer
  MaxEvents    \* bound: MQTT events

NoAddress == "none"  \* no address list; from the environment, an empty one

ASSUME PluginAssumption ==
  /\ SysTopics \subseteq MqttTopics
  /\ NoAddress \notin Addresses
  /\ \A f \in Files : f.address \in Addresses \cup {NoAddress}
  /\ \A f \in Files : f.mqtt_topics.kind \in {"undefined", "list"}
  /\ \A e \in OsEnvs : e.address \in Addresses \cup {NoAddress}
  /\ MaxStarts \in Nat /\ MaxOutages \in Nat /\ MaxEvents \in Nat

VARIABLES
  file, osenv,  \* the configuration sources
  kafka,        \* application:get_env(emqx_plugin_kafka, kafka)
  app,          \* where start/2 or stop/1 is
  pos,          \* next hook to add or delete
  hooks,        \* hook points that call this plugin
  gen,          \* starts so far
  client,       \* client1: its state and its bootstrap endpoints
  producers,    \* Kafka topics with producers under client1
  started,      \* Kafka topics start_producer ever succeeded for
  lost,         \* client1 ended since the plugin started
  answering,    \* address lists whose cluster answers
  online,       \* MQTT connections that are connected, some before the plugin starts
  callback,     \* the callback each connection process is running
  outcomes,     \* what became of the events that reached a callback
  events, outages

configVars == <<file, osenv>>
appVars == <<kafka, app, pos, hooks, gen>>
brodVars == <<client, producers, started, lost>>
mqttVars == <<online, callback, outcomes, events>>
vars == <<configVars, appVars, brodVars, answering, mqttVars, outages>>

\* load/1, in its order.
LoadOrder == <<
  "client.connect", "client.connack", "client.connected",
  "client.disconnected", "client.authenticate", "client.authorize",
  "client.check_acl", "client.subscribe", "client.unsubscribe",
  "session.created", "session.subscribed", "session.unsubscribed",
  "session.resumed", "session.discarded", "session.takeovered",
  "session.terminated", "message.publish", "message.delivered",
  "message.acked", "message.dropped" >>

\* Mutant of UnloadOrder: on_message_publish is forgotten.
UnloadOrderForgetful == <<
  "client.connect", "client.connack", "client.connected",
  "client.disconnected", "client.authenticate", "client.check_acl",
  "client.subscribe", "client.unsubscribe", "session.created",
  "session.subscribed", "session.unsubscribed", "session.resumed",
  "session.discarded", "session.takeovered", "session.terminated",
  "message.delivered", "message.acked", "message.dropped" >>

\* unload/0, in its order.
UnloadOrder == <<
  "client.connect", "client.connack", "client.connected",
  "client.disconnected", "client.authenticate", "client.check_acl",
  "client.subscribe", "client.unsubscribe", "session.created",
  "session.subscribed", "session.unsubscribed", "session.resumed",
  "session.discarded", "session.takeovered", "session.terminated",
  "message.publish", "message.delivered", "message.acked",
  "message.dropped" >>

\* The hook points whose callback hands something to Kafka.
Forwarding == {"client.connected", "client.disconnected", "client.subscribe",
               "client.unsubscribe", "message.publish"}

NoKafka == [address |-> NoAddress, topic |-> "undefined",
            mqtt_topics |-> [kind |-> "undefined", match |-> {}]]
NoCallback == [stage |-> "idle", event |-> "none", mqtt |-> "none",
               topic |-> "undefined", gen |-> 0]

Init ==
  /\ file \in Files
  /\ osenv \in OsEnvs
  /\ kafka = NoKafka
  /\ app = "stopped"
  /\ pos = 1
  /\ hooks = {}
  /\ gen = 0
  /\ client = [state |-> "none", endpoints |-> NoAddress]
  /\ producers = {}
  /\ started = {}
  /\ lost = FALSE
  /\ answering = Addresses
  /\ online \in SUBSET Conns
  /\ callback = [p \in Conns |-> NoCallback]
  /\ outcomes = {}
  /\ events = 0
  /\ outages = 0

(***************************************************************************)
(* Starting and stopping                                                   *)
(***************************************************************************)

\* fallback_config/0: the environment variables; KAFKA_MQTT_TOPICS stays the
\* binary it is read as.
FallbackConfig ==
  [address |-> osenv.address,
   topic |-> osenv.topic,
   mqtt_topics |-> IF osenv.mqtt_topics = {}
                   THEN [kind |-> "undefined", match |-> {}]
                   ELSE [kind |-> "binary", match |-> osenv.mqtt_topics]]

\* get_kafka_config/0: the file, if it is there with a kafka section that
\* has an address list.
GetKafkaConfig ==
  IF file.exists /\ file.kafka /\ file.address # NoAddress
  THEN [address |-> file.address,
        topic |-> file.topic,
        mqtt_topics |-> file.mqtt_topics]
  ELSE FallbackConfig

EditConfig ==
  /\ app = "stopped"
  /\ file' \in Files
  /\ osenv' \in OsEnvs
  /\ UNCHANGED <<appVars, brodVars, answering, mqttVars, outages>>

\* start/2 up to kafka_init: supervisor, configuration, application env.
Start ==
  /\ app = "stopped"
  /\ gen < MaxStarts
  /\ gen' = gen + 1
  /\ kafka' = GetKafkaConfig
  /\ app' = "start_client"
  /\ lost' = FALSE
  /\ UNCHANGED <<configVars, pos, hooks, client, producers, started, answering,
                 mqttVars, outages>>

\* A failed match or an exit in kafka_init/1: start/2 fails, what was set up
\* in brod and in the application env stays.
StartFails ==
  /\ app' = "stopped"
  /\ UNCHANGED <<client, producers, started>>

(***************************************************************************)
(* brod:start_client(AddressList, client1): the supervisor knows client1   *)
(* by name only.  When it runs, already_started counts as ok whatever its  *)
(* endpoints; while its restart is delayed the answer is already_present;  *)
(* without endpoints client_spec/3 exits.                                  *)
(***************************************************************************)
StartClient ==
  /\ app = "start_client"
  /\ \/ /\ kafka.address = NoAddress \/ client.state = "restarting"
        /\ StartFails
     \/ /\ kafka.address # NoAddress
        /\ client.state \in {"starting", "up"}
        /\ app' = "start_producer"
        /\ UNCHANGED <<client, producers, started>>
     \/ /\ kafka.address # NoAddress
        /\ client.state = "none"
        /\ client' = [state |-> "starting", endpoints |-> kafka.address]
        /\ app' = "start_producer"
        /\ UNCHANGED <<producers, started>>
  /\ UNCHANGED <<configVars, kafka, pos, hooks, gen, lost, answering, mqttVars,
                 outages>>

\* Mutants of StartProducer: taken as done when any producer is there; no
\* answer when client1 is down.
StartProducerOnce ==
  /\ app = "start_producer"
  /\ \/ /\ client.state = "up"
        /\ producers' = IF producers # {} THEN producers ELSE {kafka.topic}
        /\ started' = started \cup {kafka.topic}
        /\ app' = "hook"
        /\ UNCHANGED client
     \/ client.state = "restarting" /\ StartFails
  /\ UNCHANGED <<configVars, kafka, pos, hooks, gen, lost, answering, mqttVars,
                 outages>>

StartProducerWaits ==
  /\ app = "start_producer"
  /\ client.state = "up"
  /\ producers' = producers \cup {kafka.topic}
  /\ started' = started \cup {kafka.topic}
  /\ app' = "hook"
  /\ UNCHANGED <<configVars, client, kafka, pos, hooks, gen, lost, answering,
                 mqttVars, outages>>

(***************************************************************************)
(* brod:start_producer(client1, Topic, []): the call waits while client1   *)
(* connects; client_down when it ended; metadata may be refused.           *)
(***************************************************************************)
StartProducer ==
  /\ app = "start_producer"
  /\ \/ /\ client.state = "up"
        /\ kafka.topic \in producers \/ client.endpoints \in answering
        /\ producers' = producers \cup {kafka.topic}
        /\ started' = started \cup {kafka.topic}
        /\ app' = "hook"
        /\ UNCHANGED client
     \/ /\ \/ client.state = "restarting"
           \/ client.state = "up" /\ kafka.topic \notin producers
        /\ StartFails
  /\ UNCHANGED <<configVars, kafka, pos, hooks, gen, lost, answering, mqttVars,
                 outages>>

\* Mutant of AddHook: one position too many.
AddHookPastTheEnd ==
  /\ app = "hook"
  /\ pos <= Len(LoadOrder)
  /\ hooks' = hooks \cup {LoadOrder[pos]}
  /\ pos' = pos + 1
  /\ app' = IF pos = Len(LoadOrder) THEN "running" ELSE "hook"
  /\ UNCHANGED <<configVars, kafka, gen, brodVars, answering, mqttVars, outages>>

\* load/1 adds one hook after the other; a hook already there is kept.
AddHook ==
  /\ app = "hook"
  /\ hooks' = hooks \cup {LoadOrder[pos]}
  /\ pos' = IF pos = Len(LoadOrder) THEN 1 ELSE pos + 1
  /\ app' = IF pos = Len(LoadOrder) THEN "running" ELSE "hook"
  /\ UNCHANGED <<configVars, kafka, gen, brodVars, answering, mqttVars, outages>>

\* stop/1 is unload/0.
Stop ==
  /\ app = "running"
  /\ app' = "unhook"
  /\ UNCHANGED <<configVars, kafka, pos, hooks, gen, brodVars, answering,
                 mqttVars, outages>>

DelHook ==
  /\ app = "unhook"
  /\ hooks' = hooks \ {UnloadOrder[pos]}
  /\ pos' = IF pos = Len(UnloadOrder) THEN 1 ELSE pos + 1
  /\ app' = IF pos = Len(UnloadOrder) THEN "stopped" ELSE "unhook"
  /\ UNCHANGED <<configVars, kafka, gen, brodVars, answering, mqttVars, outages>>

(***************************************************************************)
(* client1 under brod_sup                                                  *)
(***************************************************************************)

\* handle_info(init): connect to a bootstrap endpoint, start the supervisors
\* of producers and consumers, empty.
ClientConnects ==
  /\ client.state = "starting"
  /\ client.endpoints \in answering
  /\ client' = [client EXCEPT !.state = "up"]
  /\ producers' = {}
  /\ UNCHANGED <<configVars, appVars, started, lost, answering, mqttVars, outages>>

\* Mutant of ClientExits: a temporary child, not a permanent one.
ClientExitsForGood ==
  /\ client.state \in {"starting", "up"}
  /\ client.endpoints \notin answering
  /\ client' = [client EXCEPT !.state = "none"]
  /\ producers' = {}
  /\ lost' = TRUE
  /\ UNCHANGED <<configVars, appVars, started, answering, mqttVars, outages>>

\* ensure_metadata_connection/1 exits when no endpoint answers, in init or
\* when the metadata connection must be made again; terminate/2 takes the
\* producers along.
ClientExits ==
  /\ client.state \in {"starting", "up"}
  /\ client.endpoints \notin answering
  /\ client' = [client EXCEPT !.state = "restarting"]
  /\ producers' = {}
  /\ lost' = TRUE
  /\ UNCHANGED <<configVars, appVars, started, answering, mqttVars, outages>>

\* The supervisor restarts it after the delay, with the endpoints of its spec.
ClientRestarts ==
  /\ client.state = "restarting"
  /\ client' = [client EXCEPT !.state = "starting"]
  /\ UNCHANGED <<configVars, appVars, producers, started, lost, answering,
                 mqttVars, outages>>

(***************************************************************************)
(* Outside this repository: EMQX runs the plugin's applications, brod      *)
(* among them (release.json, rel_apps), and may stop brod once the plugin  *)
(* is stopped; plain application:stop/1 leaves it running.                 *)
(***************************************************************************)
BrodStopped ==
  /\ app = "stopped"
  /\ client.state # "none"
  /\ client' = [state |-> "none", endpoints |-> NoAddress]
  /\ producers' = {}
  /\ started' = {}
  /\ lost' = TRUE
  /\ UNCHANGED <<configVars, appVars, answering, mqttVars, outages>>

ClusterChanges(a) ==
  /\ outages < MaxOutages
  /\ outages' = outages + 1
  /\ answering' = IF a \in answering THEN answering \ {a} ELSE answering \cup {a}
  /\ UNCHANGED <<configVars, appVars, brodVars, mqttVars>>

(***************************************************************************)
(* MQTT events.  A connection process runs the callback of a hook that is  *)
(* installed when the event happens; the callback goes on even if the hook *)
(* is deleted meanwhile.                                                   *)
(***************************************************************************)
Happens(p, hook, stage, mqtt) ==
  /\ callback[p] = NoCallback
  /\ events < MaxEvents
  /\ events' = events + 1
  /\ callback' = IF hook \in hooks
                 THEN [callback EXCEPT ![p] =
                         [stage |-> stage, event |-> hook, mqtt |-> mqtt,
                          topic |-> "undefined", gen |-> gen]]
                 ELSE callback
  /\ UNCHANGED <<configVars, appVars, brodVars, answering, outcomes, outages>>

OnClientConnected(p) ==
  /\ p \notin online
  /\ online' = online \cup {p}
  /\ Happens(p, "client.connected", "get_topic", "none")

OnClientDisconnected(p) ==
  /\ p \in online
  /\ online' = online \ {p}
  /\ Happens(p, "client.disconnected", "get_topic", "none")

OnClientSubscribe(p) ==
  /\ p \in online
  /\ Happens(p, "client.subscribe", "get_topic", "none")
  /\ UNCHANGED online

OnClientUnsubscribe(p) ==
  /\ p \in online
  /\ Happens(p, "client.unsubscribe", "get_topic", "none")
  /\ UNCHANGED online

\* The first clause of on_message_publish/2 lets $SYS messages through.
OnMessagePublish(p, t) ==
  /\ p \in online
  /\ t \notin SysTopics
  /\ Happens(p, "message.publish", "match", t)
  /\ UNCHANGED online

\* What became of the event, and what a reader must know to judge it.
Ends(p, what) ==
  /\ outcomes' = outcomes \cup
       {[what |-> what, event |-> callback[p].event, mqtt |-> callback[p].mqtt,
         topic |-> callback[p].topic, wanted |-> callback[p].mqtt \in
           kafka.mqtt_topics.match,
         restarted |-> callback[p].gen # gen, lost |-> lost]}
  /\ callback' = [callback EXCEPT ![p] = NoCallback]

\* on_message_publish/2 reads mqtt_topics from the application env: no such
\* setting forwards everything; lists:any/2 has no clause for a binary, and
\* the hook runner catches the error.
MatchTopic(p) ==
  /\ callback[p].stage = "match"
  /\ LET topics == kafka.mqtt_topics
     IN  \/ /\ \/ topics.kind = "undefined"
               \/ topics.kind = "list" /\ callback[p].mqtt \in topics.match
            /\ callback' = [callback EXCEPT ![p].stage = "get_topic"]
            /\ UNCHANGED outcomes
         \/ /\ topics.kind = "list" /\ callback[p].mqtt \notin topics.match
            /\ Ends(p, "filtered")
         \/ /\ topics.kind = "binary"
            /\ Ends(p, "crashed")
  /\ UNCHANGED <<configVars, appVars, brodVars, answering, online, events, outages>>

\* produce_kafka_payload/2 reads the Kafka topic from the application env ...
GetKafkaTopic(p) ==
  /\ callback[p].stage = "get_topic"
  /\ callback' = [callback EXCEPT ![p].stage = "produce", ![p].topic = kafka.topic]
  /\ UNCHANGED <<configVars, appVars, brodVars, answering, online, outcomes,
                 events, outages>>

(***************************************************************************)
(* ... and calls brod:produce_cb/6, whose result nobody looks at.          *)
(* Auto-start of producers is off: without producers for the topic         *)
(* brod_client answers producer_not_found.  With them the request is       *)
(* accepted, or refused when its producer is down for the moment.          *)
(***************************************************************************)
Produce(p) ==
  /\ callback[p].stage = "produce"
  /\ client.state # "starting"
  /\ \/ client.state = "up" /\ callback[p].topic \in producers /\ Ends(p, "accepted")
     \/ client.state = "up" /\ callback[p].topic \in producers /\ Ends(p, "producer_down")
     \/ client.state = "up" /\ callback[p].topic \notin producers /\ Ends(p, "producer_not_found")
     \/ client.state \in {"none", "restarting"} /\ Ends(p, "client_down")
  /\ UNCHANGED <<configVars, appVars, brodVars, answering, online, events, outages>>

-----------------------------------------------------------------------------
AppNext == Start \/ StartClient \/ StartProducer \/ AddHook \/ Stop \/ DelHook

BrodNext == ClientConnects \/ ClientExits \/ ClientRestarts

MqttNext ==
  \E p \in Conns :
    \/ OnClientConnected(p)
    \/ OnClientDisconnected(p)
    \/ OnClientSubscribe(p)
    \/ OnClientUnsubscribe(p)
    \/ \E t \in MqttTopics : OnMessagePublish(p, t)
    \/ MatchTopic(p)
    \/ GetKafkaTopic(p)
    \/ Produce(p)

Next ==
  \/ AppNext \/ BrodNext \/ MqttNext \/ EditConfig \/ BrodStopped
  \/ \E a \in Addresses : ClusterChanges(a)

Spec == Init /\ [][Next]_vars

(***************************************************************************)
(* Fairness: start/2 and stop/1 run to their end, client1 and its          *)
(* supervisor run.  A call to client1 waits while it connects and is       *)
(* answered client_down the moment it exits, before the delayed restart:   *)
(* hence SF for StartProducer.  Nothing makes anyone start the plugin,     *)
(* edit its configuration or restore a cluster.                            *)
(***************************************************************************)
Fairness ==
  /\ WF_vars(StartClient \/ AddHook \/ DelHook)
  /\ SF_vars(StartProducer)
  /\ WF_vars(BrodNext)

FairSpec == Spec /\ Fairness

-----------------------------------------------------------------------------
(***************************************************************************)
(* Properties                                                              *)
(***************************************************************************)
Topics == {f.topic : f \in Files} \cup {e.topic : e \in OsEnvs}

TypeOK ==
  /\ file \in Files
  /\ osenv \in OsEnvs
  /\ kafka.address \in Addresses \cup {NoAddress}
  /\ kafka.topic \in Topics \cup {"undefined"}
  /\ kafka.mqtt_topics.kind \in {"undefined", "list", "binary"}
  /\ app \in {"stopped", "start_client", "start_producer", "hook", "running", "unhook"}
  /\ pos \in 1..Len(LoadOrder)
  /\ hooks \subseteq {LoadOrder[k] : k \in 1..Len(LoadOrder)}
  /\ gen \in 0..MaxStarts
  /\ client \in [state : {"none", "starting", "up", "restarting"},
                 endpoints : Addresses \cup {NoAddress}]
  /\ producers \subseteq started
  /\ started \subseteq Topics
  /\ lost \in BOOLEAN
  /\ answering \subseteq Addresses
  /\ online \subseteq Conns
  /\ \A p \in Conns : callback[p].stage \in {"idle", "match", "get_topic", "produce"}
  /\ \A o \in outcomes : o.event \in Forwarding
  /\ events \in 0..MaxEvents
  /\ outages \in 0..MaxOutages

(***************************************************************************)
(* load/1 adds the hooks only after kafka_init/1 got its producers, and    *)
(* unload/0 takes them away: however starts failed before, none is         *)
(* installed while the plugin is stopped or starting, or for a Kafka topic *)
(* that start_producer never succeeded for.  The exception is              *)
(* client.authorize, which load/1 hooks and unload/0 does not delete.      *)
(***************************************************************************)
HookedOnlyWhenReady ==
  hooks \ {"client.authorize"} # {} =>
    /\ app \in {"hook", "running", "unhook"}
    /\ kafka.topic \in started

(***************************************************************************)
(* An event whose callback began in the current run of the plugin, while   *)
(* client1 never ended in that run, finds the producers of its topic.      *)
(* Events that straddle a restart of the plugin, or an outage that takes   *)
(* client1 down, are the only ones that may miss them.                     *)
(***************************************************************************)
ProducersFoundUnlessLost ==
  \A o \in outcomes :
    ~o.restarted /\ ~o.lost => o.what \notin {"producer_not_found", "client_down"}

(***************************************************************************)
(* Whatever was configured before, and whatever client1 still runs with, a *)
(* start or a stop that began ends: the plugin is running or stopped, also *)
(* while no cluster answers.                                               *)
(***************************************************************************)
StartAndStopEnd ==
  app \notin {"stopped", "running"} ~> app \in {"stopped", "running"}

\* brod_sup restarts client1 until it is up, once its cluster stays there.
ClientComesBack ==
  <>[](client.endpoints \in answering) => <>[](client.state = "up")

(***************************************************************************)
(* "mqtt_topics defines the mqtt topics to publish to kafka", also when it *)
(* comes from KAFKA_MQTT_TOPICS: a message published to one of them gets   *)
(* as far as brod.                                                         *)
(***************************************************************************)
WantedIsForwarded ==
  \A o \in outcomes : o.event = "message.publish" /\ o.wanted => o.what # "crashed"
=============================================================================
