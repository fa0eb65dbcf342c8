# A verification development for emqx_plugin_kafka

`emqx_plugin_kafka` is an EMQX 5 plugin that hands MQTT events to Kafka.  Its own code is small
(`src/src/`, a thousand lines of Erlang); what decides whether an event reaches Kafka, how often, in which
order, and whether the broker's connection processes hang, is the Kafka client it is built on: brod
3.16.3 and its libraries, native code included, which the repository carries in full under
`src/_build/default/emqx_plugrel/emqx_plugin_kafka-5.0.0/` and `src/_build/default/lib/`.  Both are modelled here.
Below, file names without a path are under these directories.

## 1. The system

| component | source | state it keeps | operations |
|---|---|---|---|
| plugin application | `emqx_plugin_kafka_app.erl` | application env `kafka` | `start/2`, `stop/1`, `get_kafka_config/0`, `fallback_config/0` |
| hooks and forwarding | `emqx_plugin_kafka.erl` | the hook table of EMQX | `load/1`, `unload/0`, `kafka_init/1`, twenty callbacks of which five call Kafka |
| brod supervisors | `brod_sup.erl`, `brod_producers_sup.erl`, run by `supervisor3.erl` | child specs, running children, delayed restarts | start a client or the producers of a topic, restart after a delay, `start_child`, `terminate_child`, `delete_child`, `which_children`, `post_init` |
| brod client `client1` | `brod_client.erl` | bootstrap endpoints, metadata connection, payload connections, ETS table of workers and partition counts | `init`, `get_producer`, `start_producer`, `stop_producer`, `get_metadata`, `get_leader_connection`, registrations, EXIT of a connection, `stop`, `terminate` |
| partition producer | `brod_producer.erl` | connection and its monitor, `retry_tref`, `delay_send_ref`, buffer | `{produce, ..}`, produce response, `DOWN`, `retry`, `delayed_send`, `stop` |
| produce buffer | `brod_producer_buffer.erl` | `pending`, `buffer`, `buffer_count`, `onwire`, `onwire_count`, failures per request | `add`, `maybe_send`, `ack`, `nack`, `nack_all`, `is_empty` |
| Kafka connection | `kpro_connection.erl`, `kpro_sent_reqs.erl` | socket, sent requests by correlation id | `request_async`, `request_sync`, responses, request-age check, socket closed, `stop` |
| record batch | `kpro_batch.erl` with the NIFs `snappyer` (`snappy.cc` and its headers) and `crc32cer` (`crc32c.c`) | - | `encode_tx/4`: compress and put the checksum in front; `do_decode/2`: assert the checksum, then decompress |
| not reached by the plugin's own work | `brod_consumer.erl`, group coordinator, subscribers, `emqx_plugin_kafka_conf.erl`, `emqx_plugin_kafka_schema.erl`, `emqx_cli_demo.erl`, wire format, gun, sext, `asn1_erl_nif.c` | - | - |

How they interact.  The application controller runs `start/2`: it reads the configuration, starts
`client1` and the producers of one Kafka topic through brod, then adds twenty hooks one by one.  Each
MQTT connection process runs the callbacks itself; a forwarding callback reads the application env
(for a publish twice: `mqtt_topics`, then `topic`), looks the partition producer up in `client1`'s table,
or down its supervision tree, and calls `brod_producer:produce_cb/4`, which monitors the producer, sends
it the request and waits for `buffered` or `DOWN`.  The producer asks the client for the connection to
the partition leader, monitors it, sends batches through it (a call to the connection process that
returns when the bytes are written) and gets the answers as messages.  A producer or a connection that
ends is noticed by monitors and links only.

What is hard: every arrow above is a message between processes that may die at any point; the buffer
is drained, refilled and put back by nested loops with counters beside the queues; retry, linger and
reconnect timers race with answers and DOWN signals; what was on wire when a connection died may
already be in the log; the client and two levels of supervisors call each other without timeouts; ages of
requests are judged on a snapshot in another process; the plugin starts and stops over a client that it
does not own; and the native code stores more bytes than it was asked to.

What makes each part correct:

- *buffer*: no request lost, doubled or overtaken through any number of failed sends and negative
  acknowledgements; every caller answered exactly once; the counters agree with the queues; a caller
  is blocked only while the buffer is full; the retry limit holds.
- *producer*: never idle with work and nothing to wake it; an answer always meets the request it is
  for; appends in order; a caller never hangs; every request acknowledged or lost with the producer.
- *connection*: an answer goes to the request it is for, in the broker's order; a silent broker is
  noticed, in time and not before; every request is answered at most once or lost with the connection.
- *client and supervisors*: the table names the live producer of a partition; every call returns; producers
  come back after they ended, and end with the client.
- *plugin*: hooks are there only between a successful start and the end of a stop, and find producers
  that exist; a start or stop always ends; the client comes back after an outage.
- *record batch*: the consumer gets what the producer compressed, or refuses; the compressor and the
  decompressor stay inside their memory, and every writer and every cut of the input gives the same answer.

`PROJECT.json` lists the hazards, each at its line, with the properties aimed at it.

## 2. The modules

| module | models | how state and actions correspond to the code |
|---|---|---|
| `ProducerBuffer` | `brod_producer_buffer.erl` | pure operators on a record with the fields of `#buf{}`; one operator per function (`Add`, `TakeReqs`, `PutOnWire`, `Rebuffer`, `NackAll`, `Ack`, ...). The recursive loops are given in closed form. A request is its number in order of arrival; `Size` gives its bytes. `onwire` is flat: each request with its reference |
| `BufferLoops` | the same file | the loops as the code writes them (recursive, wire as a list of `{Ref, Reqs}`), compared with the closed forms on the buffer of every state of a producer's run and on every split of the requests between wire, buffer and pending, reachable or not |
| `BrodProducer` | `brod_producer.erl`, its callers, connections, one partition | one action per `handle_info` clause and outcome; `sending` is TRUE while a handler is in the loop of `maybe_send/3`, which stops at each call to a connection (`SendOk`, `SendError`, `SendLost`, `Linger`) and lets connections die and messages arrive there. `GetLeaderConnection` and `known` are `brod_client`'s connection cache as one producer sees it. `log` is the partition |
| `ProducePipe` | - | what a producer promises to its callers: a bounded pipe into the log |
| `KproConnection` | `kpro_connection.erl`, `kpro_sent_reqs.erl`, `request_sync/3` and `request_async/2` in their callers | one action per message the connection process takes (`HandleSend`, `HandleResponse`, `HandleSocketEnd`, `HandleAssertMaxReqAge`, `HandleStop`), `WriteReturns` for the end of `gen_tcp:send`, `CheckAges` for the linked process that looks at the ages; a caller is in `call/2` or in `wait_for_rsp/3` |
| `RequestChannel` | - | what a connection promises: every request answered at most once, or lost with the channel |
| `BrodClient` | `brod_client.erl`, `brod_producers_sup.erl` with the parts of `supervisor3.erl` it uses, callers of `get_producer`, `start_producer`, `stop_producer`, `get_metadata`, `stop` | one mailbox per process (`cbox`, `tbox`, `pbox`), one action per message taken; `client`, `tsup` and `psup` say which call a process waits in. A caller is at a local read of the table, a test of a pid, or a call |
| `KafkaPlugin` | the two plugin modules, `client1` under `brod_sup` | `start/2` is `Start`, `StartClient`, `StartProducer` and one `AddHook` per hook, `stop/1` one `DelHook` per hook; a callback is up to three steps (`MatchTopic`, `GetKafkaTopic`, `Produce`), one per read of shared state |
| `SnappyFormat` | the format in `snappy.cc`, `snappy-internal.h`, varints of `snappy-stubs-internal.h` | pure operators: what a tag says, what the emitters write and how far their stores reach; `Decode` is the reference |
| `SnappyCompress` | `Compress`, `CompressFragment`, `WorkingMemory` and the NIF's sink | one action per turn of the loops (`cpc`: `block`, `scan`, `match`, `remainder`, `append`); the hash of four bytes is a polynomial in any of `Multipliers`, since the properties must not depend on it |
| `SnappyCopy` | `IncrementalCopy`, with SSSE3 and without | an area of memory with the pointers, and how far stores reached |
| `SnappyWriters` | the array, iovec and scattered writers and the validator | `Append`, `AppendFromSelf`, `TryFastAppend` of each, on a list of areas; `full` is the `full_size_` of the scattered writer, and `Produced` what the writers answer when asked how much they wrote; `inside` remembers whether every store stayed in its area |
| `SnappyDecompress` | `SnappyDecompressor` on a fragmented source | one action per `RefillTag` and tag (`dpc`, scratch buffer included) |
| `Crc32c` | `crc32c.c` | machine words as sets of their one bits; `Sw` with its tables, `Hw` with its three streams and matrices, and the bit-by-bit `Reference` |
| `RecordBatch` | `kpro_batch.erl`, `crc32c_nif.c`, `snappyer.cc` | composes the above: a producer's node encodes, the network delivers or damages, a consumer's node decodes; besides, the libraries are called by themselves, snappy by each of its five entry points (`RawUncompress`, `RawUncompressToIOVec`, `IsValidCompressed`, `Uncompress`, `UncompressAsMuchAsPossible`) |
| `ProducerBufferProofs`, `BrodProducerProofs`, `BrodProducerDelivery`, `BrodProducerAlone`, `KafkaPluginProofs`, `KproConnectionProofs`, `BrodClientProofs`, `BrodClientCalls` | - | theorems (section 5) |
| `MC...` | - | constants for TLC |

`BrodProducer` extends `ProducerBuffer` and is mapped onto `ProducePipe` by `INSTANCE ... WITH`;
`KproConnection` likewise onto `RequestChannel`, which is what the connections of `BrodProducer` do.
Operators introduced by "Mutant of X" are plausible mistakes in the code X models; with one of them
in place of X the property it was written for fails, which shows that the property depends on the code.

Decisions a reader should know:

- *Mailboxes.* The producer's mailbox is split by sender (`inbox`, `responses[c]`, timers, DOWN), and any
  order between senders is allowed; the DOWN of a connection comes after what it forwarded before.
  In `BrodClient` and `KproConnection` a mailbox is one queue in the order of sending, which is what one
  node does.  What a process of brod does at the start of its life, while its parent waits in
  `start_link`, is part of the parent's step.
- *Time* exists in `KproConnection` only: a clock that ticks, each process at most `Lag` ticks late, no
  later than the request timeout, and `os:system_time` that may be set (`Jump`).
- *Correlation ids* wrap at 2^31 in the code, which keeps no guard against meeting an id that is still in use.
  `RoomForId` is the bound that stands for it: the next request is less than `CorrIds` after the oldest one
  that is written and unanswered, or still to be written.  Elsewhere a timer may fire at any moment after it was armed;
  `matured` remembers which requests are known to be older than `max_linger_ms`.
- *Crash of the producer.* All exits the code has are modelled (`reached_max_retries`, an error that is
  not retriable, `function_clause` in `ack/3` and `nack/3`, `stop/1`).  State and mailbox go; callers see `DOWN`.
- *The broker* (outside the repository) appends a batch or not, and answers `ok`, a retriable or another
  error, or nothing; a dead connection's request may be lost or be appended late.
- *Scaled constants.* `BlockSize`, the sizes of hash tables and buffers, `LONG` and `SHORT`, the number of
  correlation ids are constants, small in the runs; the code asks only what the assumptions say.
  The polynomial and the word size are the real ones.
- *Callbacks* of logging hooks, payloads and their encoding are left out; so is what Kafka does with a message.
- *Failures with retries for ever*: nothing reads the failure counts when `max_retries` is negative, so
  they are not counted then, which keeps the state finite.

## 3. What TLC checks

Bounds appear as constants: `MaxReqs` (requests), `MaxConns` (connections opened), `MaxFaults`
(connection deaths, failed lookups and requests, broker errors, ends of producers, moves of a topic),
`MaxRestarts`, `MaxOps` (calls), `MaxJumps`; `MaxStarts`, `MaxOutages`, `MaxEvents` for the plugin;
`MaxPieces` for checksums.  Deadlock is not checked: with every counter at its bound a run stops, a
producer without requests legitimately waits, and a batch that was decoded is done.

| run | question | bounds, and why they are enough | distinct states |
|---|---|---|---|
| `producer_safety` | is a producer with one Kafka request on wire right through deaths, lost answers, broker errors, exits, a restart; does it implement the pipe? | 4 requests of sizes 1, 1, 1, 3 with batches of 2 bytes (the last is larger than any batch), buffer limit 1: blocked callers, a batch of two put back over a full buffer; one retry, two faults, one restart | 759 000 |
| `producer_pipelined` | with two Kafka requests on wire, lingering, the buffer pushed over its limit and `stop/1`: is the producer always woken, do acknowledgements point into the log, do the closed forms compute what the loops do? | 4 requests, buffer limit 2, wire 2, so that both wires, the buffer and pending are occupied at once; one fault; the loops are compared on all these buffers and on every split of the four requests | 498 000 |
| `producer_liveness` | is every caller released, every request settled? | 2 requests, 2 faults, 3 connections: more connections than faults, so running out of them cannot be what stops the system | 55 000 |
| `producer_retry_forever` | with `max_retries = -1` and lingering, does every request reach the log? | the same | 95 000 |
| `connection` | do answers meet their requests, is a silent broker noticed, is the connection a channel? | 2 requests of 2 callers in four modes, 2 correlation ids starting at 1, so that they wrap at once; timeout of 2 ticks, a look every tick, lag 1, one jump of the clock by 1 | 534 000 |
| `client` | does the table agree with the supervisors, does every call return, does all come back or end? | 2 callers who use all five operations, 3 calls, one fault, one partition: a call that looks up, one that starts or stops, and the next life of the topic | 436 000 |
| `plugin` | are hooks there only when events can be forwarded; do only restarts and outages make events miss the producers; does each start and stop end, does `client1` come back? | two starts, three configuration files, two environments, two clusters, two outages, one event of each kind on a connection that was there before or comes | 922 000 |
| `record_batch` | does the native code compress, check and decompress right, inside its memory? | blocks of 64 bytes: inputs of up to three blocks, with literals, copies of all lengths, overlaps, hash collisions; 140 streams of tags, good and bad, with the right length in front or another one, blocks that end just before more comes than was promised, in one fragment or up to 30, with six writers; checksums of up to two chunks of up to 73 bytes at two alignments, on both kinds of processors | 98 000 |

`AnsweredOnce` is checked without lingering; that the delay of `maybe_send/3`, which drops a buffer it has
already answered callers for, loses no request's answer is proved for every configuration (`RepliesOnce`, section 5).

Four more runs end in a violation; section 4.

Properties, beside one type invariant for each component:

- *producer*: `NothingLostOrReordered` (wire, buffer, pending and mailbox are exactly the unsettled
  requests, in order), `AnsweredOnce`, `BlockedOnlyWhenFull`, `CountersAgree`, `RetriesBounded` (the code
  compares only the first request's failures with the limit; this says why it is enough with one request
  on wire), `AnswersMatchTheWire`, `NoDuplicateWithoutFault` and the refinement `ImplementsPipe`, which
  includes the bound on accepted requests and the order of first appends; `NoLostWakeup`,
  `AcksPointIntoLog`; `CallersReleased`, `EveryRequestSettled`, `EveryRequestLogged`.
  Callers are symmetric in the safety runs; their properties do not tell them apart.
- *connection*: `AnswersMeetTheirRequests`, `ForwardedInOrder`, `AgesAreWatched` (there is always one
  next look; a request older than it may be ends the connection; none ends before), `ImplementsChannel`,
  `EverythingSettles`.
- *client*: `LiveProducersAreKnown`, `FastCallerIsServed` (a caller faster than the registrations still
  finds its producer), `StopMeansGone`, `EveryCallReturns`, `ProducersComeBack`, `AllEndsWithTheClient`.
- *plugin*: `HookedOnlyWhenReady`, `ProducersFoundUnlessLost`, `StartAndStopEnd`, `ClientComesBack`.
- *record batch*: `TagsSayThePrefix` (what was emitted so far says exactly the input so far, in every turn
  of the compressor's loops), `StoresFit`, `RecordsArrive`, `ChecksumOfAllBytes`, `StaysInside`,
  `AnswersAgree` (of what was put into the sink; how long the library says it is, is difference 4 of section 4),
  `FormatReadsBack`.  A CRC is affine over GF(2): for one length, code made of
  shifts, exclusive ors and tables of such agrees with the reference on all inputs if it does on zero and
  on one-bit inputs, which is why the chunks are those.

**Fairness.**  *Producer*: a process that has a message handles it, a call returns, a timer fires, the
client handles an EXIT, a caller handles its reply; all weak, one per handler, as the Erlang scheduler gives
them.  The broker's answer is fair because a connection whose oldest request is not answered in time
ends itself: `EverythingSettles` of `KproConnection`, where nothing is assumed of the broker.
*Connection*: processes and the clock run (weak).  A write that has begun returns, well or not
(`WriteReturns`): this is an assumption on the network, since `gen_tcp:send` is called without
`send_timeout`, and a peer that never reads would hang the process.  *Client*: each process gets its turn and
each timer fires (weak).  *Plugin*: the application controller and the client run (weak); `StartProducer` is
strongly fair, since the call waits while the client is connecting and is answered when it either connects
or exits, which happens again and again when no cluster answers.  Nothing is assumed of faults: they may
happen or not, up to the bound.  Nobody has to call, start the plugin, edit its configuration or restore a cluster.

## 4. Where the code differs from what is written about it

1. `RetriesIndefinitely` (`producer_retry_two_on_wire`).  With `partition_onwire_limit > 1` a retriable
   error puts every request on wire back, but the answers to the others still come; `ack/3` and
   `nack/3` have no clause for them, and the producer ends with `function_clause` although
   `max_retries = -1` means "retry indefinitely".  The plugin keeps the default limit of 1, where
   `producer_retry_forever` shows that it holds.
2. `WantedIsForwarded` (`plugin_wanted`).  `KAFKA_MQTT_TOPICS` stays one binary, but
   `on_message_publish/2` gives it to `lists:any/2`: nothing is forwarded.
3. `StartedIsSupervised` (`client_started`).  A producer that crashed, or was killed, never deregisters.
   After the topic was stopped, `start_producer` finds its pid twice in the table, the second time without
   testing it, and answers ok although nothing was started.
4. `ReturnsTheBytesAdded` (`uncompress_count`).  When more comes than the length in front promised,
   `SlowAppend` (`snappy.cc:1536`) has added the filled block to `full_size_` and leaves `op_ptr_` at its end, so
   that `Produced()` counts the block twice: a length of 100 with literals of 50 and 100 bytes puts 100 bytes into the
   sink and returns 200 (with blocks of 64 kB; with those of the run the last block, which is smaller, counts twice), where `snappy.h:94` says that `UncompressAsMuchAsPossible` "returns the number of valid bytes
   added to sink".  The bytes themselves are right (`AnswersAgree`), and `snappyer` does not call this function.

Seen while modelling, without a run of their own:

- With two requests on wire the retry limit is compared with the first request's failures only, so
  others may exceed it ("any of the negative-acked requests" in the comment above `nack_all`).
- `client1` outlives a stop of the plugin; the next start takes `already_started` for success and goes on
  with the old address list.  Whether the host stops brod together with the plugin is outside the repository.
- After `client1` was restarted its producers are not started again; every later event is answered
  `producer_not_found` until the plugin is restarted.  `ProducersFoundUnlessLost` names this case.
- `Embrace` in `BrodClient`: `stop_producer` that arrives before the partitions' supervisor has asked the client
  for the partition count makes client, topics' supervisor and partitions' supervisor wait for each other,
  with timeout infinity.  `EveryCallReturns` says that it is the only way a call does not return.
- Stopping a topic that is not there fails a match in the client, and the client ends.
- The length in front of a compressed buffer is appended before the sink has been asked for room; the
  exception is written in `StoresFit`.

## 5. What is proved

For every number of requests, callers, connections, faults, restarts, ids, ticks and configurations.  The
assumptions are those of the modules, which TLC evaluates in every run: `ConfigAssumption` and
`EnvironmentAssumption` (limits are positive, sizes are naturals, `MaxRetries` is an integer),
`PluginAssumption` and `ConnectionAssumption` (there is an id, the first id is one, the look at
the ages comes every `Interval > 0` ticks, which is half the timeout but no more than a `Minute`, a process is at most a timeout late), and `ClientAssumption` (a topic has
a partition, callers are neither pids nor supervisors, and use the operations the API has).

| theorem | says |
|---|---|
| `BrodProducerProofs!Invariance` | `IInv` is an invariant |
| `BrodProducerProofs!TypeCorrect` | `Spec => []TypeOK`; no counter becomes negative |
| `BrodProducerProofs!QueueIntact` | `Spec => []NothingLostOrReordered` |
| `BrodProducerProofs!BackPressureOnlyWhenFull` | `Spec => []BlockedOnlyWhenFull` |
| `BrodProducerProofs!CountersRight` | `Spec => []CountersAgree` |
| `BrodProducerDelivery!RepliesOnce` | `Spec => []AnsweredOnce` |
| `BrodProducerDelivery!OffsetsPointIntoLog` | `Spec => []AcksPointIntoLog` |
| `BrodProducerDelivery!NoWakeupLost` | `Spec => []NoLostWakeup` |
| `BrodProducerAlone!RetriesStayBounded` | `Spec => []RetriesBounded` |
| `BrodProducerAlone!AnswersMeetTheHead` | `Spec => []AnswersMatchTheWire` |
| `BrodProducerAlone!ProducerIsPipe` | with `OnWireLimit = 1`, `Spec => ImplementsPipe`: the producer implements `ProducePipe` |
| `BrodProducerAlone!OnlyFaultsDuplicate` | `Spec => []NoDuplicateWithoutFault` |
| `KafkaPluginProofs!HooksReady` | `Spec => []HookedOnlyWhenReady` |
| `KafkaPluginProofs!PluginTypeCorrect` | `Spec => []TypeOK` |
| `KafkaPluginProofs!ProducersFound` | `Spec => []ProducersFoundUnlessLost` |
| `KproConnectionProofs!ConnectionTypeCorrect` | `Spec => []TypeOK` |
| `KproConnectionProofs!AnswersKeepTheirOrder` | `Spec => []ForwardedInOrder` |
| `KproConnectionProofs!AnswersMeetRequests` | `Spec => []AnswersMeetTheirRequests` |
| `KproConnectionProofs!ConnectionIsChannel` | `Spec => ImplementsChannel`: the connection implements `RequestChannel` |
| `KproConnectionProofs!AgesWatched` | `Spec => []AgesAreWatched` |
| `BrodClientProofs!ClientTypeCorrect` | `Spec => []TypeOK` |
| `BrodClientProofs!ClientKnowsLiveProducers` | `Spec => []LiveProducersAreKnown` |
| `BrodClientCalls!StopLeavesNobody` | `Spec => StopMeansGone`, an action property and an invariant |
| `BrodClientCalls!FastCallersServed` | `Spec => []FastCallerIsServed` |

*The producer's inductive invariant* is `IInv == TypeOK /\ Accounted /\ WellKept(buf) /\ Sendable`.

- `Accounted` says that wire, buffer, pending and mailbox, in this order, are the numbers `done + 1 .. last`.
  It is `NothingLostOrReordered` in the form in which sequences can be cut and joined.
- `WellKept(buf)` are the counters, the back-pressure, and that the references on wire are below
  `next_ref`, with the requests of one reference next to each other.  `Accounted` alone is not inductive:
  taking a batch uses `buffer_count`, which must be known to be the length of the buffer; and `onwire_count`
  counts references, so that acknowledging the head removes exactly one, and sending adds one that was not
  there.
- `Sendable` says that the loop of `maybe_send/3` goes on only while the wire has room.  Without it a
  step of the loop could exceed `partition_onwire_limit`.

`ProducerBufferProofs` has one lemma for each operation of the buffer, which says that it keeps the type,
the content and the counters (`MaybeBuffer`, `Add`, `TakeReqs`, `PutOnWire`, `Rebuffer`, `NackAll`,
`Ack`); `BrodProducerProofs` has a lemma for each action that combines them, then `Inductive`.

`BrodProducerDelivery` starts from `IInv`, written out as which request is at which place (`Standing`), and adds
what travels.

- `Replied`: whoever was accepted - is in the buffer or on wire, or settled - got one reply, nobody behind them
  got any.  Everything turns on the border between buffer and pending (`Accepted`): an operation either leaves it where
  it is, as all retries do, or moves it over requests that it answers.  `maybe_send/3` that lingers drops the buffer
  that `take_reqs/1` has just filled, with the replies sent; that this happens to no request is proved from the
  back-pressure in `WellKept`.
- `Delivered == Traced /\ AcksPointIntoLog`: what is on wire under a reference is what the packet under that reference
  carries (`Carries`), and a response without an error says where in the log those requests are.  The wire may
  shrink from the head, and be given up as a whole; as references are used once, `Carries` survives all of it, answers
  that come too late and packets of a dead connection included.
- `Awake == Wakeful /\ Answerable`: a producer that may take requests and is not in its loop has a timer, and
  everything on wire is in flight on the connection in use, in one direction or the other, or that connection is
  dead (and its DOWN still to come).  It needs two small facts of its own: nothing lies on a connection
  that was never opened (`Unopened`), or a new connection would bring an answer to somebody else's request; and what
  a producer that ended had is settled (`LostSettled`).

`BrodProducerAlone` is about one Kafka request on wire at a time, the plugin's case, except for its last part.

- `Falling`: of everything the producer holds, pending requests included, no request has failed more often than an
  older one.  Requests are put back in blocks from the front, and a block that goes back is everything on wire or
  the batch that follows an empty wire.  With two on wire a batch that cannot be sent goes back behind an older
  one that stays on wire, and this is false.
- `PacketsShaped`: a packet carries consecutive requests of one incarnation, which began where the wire
  began.  `Alone`: of the live connections only the one in use carries anything for this incarnation, and it
  carries one packet under the reference at the head of the wire, or the answer to it; a producer that waits to
  retry has nothing on wire (with two on wire that is false, see `producer_retry_two_on_wire`).  The second half is what makes the first inductive: `handle_info(retry)` may switch to a new
  connection without putting anything back twice.  It needs `Unopened` and `Unanswered` (nothing on a connection
  that is still to be opened) and `Paused` (no retry is due in the sending loop).
- The refinement has one lemma for each kind of step (`StepKinds`): a step that leaves log, made and settled alone
  accepts or stutters (`MovedInPipe`), an end gives up (`EndInPipe`), an acknowledgement settles what is in the
  log (`AckInPipe`, from `Delivered`: the offsets that come back say where), the broker appends a packet that begins at
  most where the log of this incarnation ended (`LogInPipe`, from `PacketsShaped` and `SettledLogged`).  `Room1` is
  the capacity: `nack_all/2` pushes the buffer over its limit by what was on wire, which is one batch.  That a batch has at
  most `LargestBatch` requests is a fact about the recursive sum of their sizes; it is proved by taking the
  least number at which it fails (`LeastNat`).
- `Flawless` and `LoggedOnce`, for any limit on wire: as long as no fault happened nothing is to be retried, no
  connection is dead and a producer without a connection holds nothing; so a request that left the buffer never comes
  back, and is in one packet, or in the log, or lost with an incarnation that ended.  Packets of several incarnations may
  travel on several connections in any order, which is why it says that packets have no request in common, and not
  that the log is sorted.

*The plugin's* are `HInv`: whatever is hooked beside `client.authorize` while `unload/0` runs is still to come
in its list, and the topic of the application env has producers from the moment hooks are added
(`HookedOnlyWhenReady` speaks of every hook point but `client.authorize`, which `load/1` hooks and `unload/0`
does not delete); and `PInv`: what a callback has read is still true when it calls, over a stop and the next
start, as long as neither `client1` nor its producers were lost.

*The connection's* come in three layers.

- `Numbering == Typed /\ Numbered /\ Ended`.  `TypeOK` alone is not inductive: the bound on how old a request looks
  needs that only written requests have an age, and `sent` is keyed by ids that must be free.  `Numbered` gives
  the reason: the counter moves with each request that is written, requests are written in the order they
  are made, so two requests with one id are `CorrIds` apart, which `RoomForId` rules out.  `Ended` says that
  nothing is left of a process that ended.
- `InOrder == Queued /\ Forwarded /\ Apart` and `Called`.  The code looks a request up by the id in the answer
  alone; that this is the request the broker answered is carried from the wire through the socket and the
  mailbox to the look-up, and on to the mailbox of its caller.  `Called` says what a process in
  `wait_for_rsp/3` has in its mailbox, and that the DOWN of the connection comes after all the answers.  With
  these, the refinement is one lemma for each action: the status of each request, as the callers could see
  it (`StatusNow`), changes as `RequestChannel` lets it or not at all.
- `Aged == Watching /\ Fresh /\ InTime /\ OnlyOverdue` follows the look at the ages round its loop, timer, message,
  process, timer: there is always exactly one of them, and at each place a bound on how old a request can
  look.

*The client's* are about three processes with a mailbox each, and are mostly about what those mailboxes may hold.

- `ClientInv` follows the life of the two supervisors.  `Mail` says which messages are where, and from whom.
  `OneCall` and `SupAsks`: the topics' supervisor does one call of the client at a time, and the partitions' supervisor
  waits for the answer to its only message.  `OneRestart`: while the partitions' supervisor is down at most one token - the
  EXIT, the timer, or the delayed restart - stands for its restart; with two it would be started twice, and
  `supervisor3` starts it "whatever the child's pid is by now".  The tokens overtake each other in one place only:
  `terminate_child` takes the EXIT out of the mailbox (`WithoutExit`).  `Family` and `ShutDown`
  tie the children to `post_init` and the end to its request; `OneProducer` is `OneRestart` again for the producer of each
  partition.  From it, a live producer is the child its supervisor knows.
- `Listed` is about the table.  Registrations and deregistrations name a partition, and the producer and its successor
  send them from two processes; the invariant says that the last word about a live producer's partition, in the table or
  in the client's mailbox, is that producer's own.  `LastWordCounts` turns this into `Registered`.
- `CallInv` is about the callers.  `OneAnswer`: who waits has one message in one mailbox, or is the one the client
  serves.  `EndsComeFirst`, `LeftIsCleared` and `DeadIsNoticed` say why a producer that had ended
  before a call began cannot be its answer: its deregistration, and its EXIT, are ahead of the messages of
  the call.  Every step of every caller is one of a few kinds (`Rounds`): it begins a call, rests, goes on or is answered, and
  `AnswersOk` and `AnswersNo` say what an answer tells of the state it was given in.
- `Counted`, `AllServe` and `Served` are what a caller may rely on: without a fault the supervisors know the topic
  and stay up, and all children of one that is up are alive; a call that nobody stops (`Calm`) is one during which
  nobody stops, so that nothing ends (`QuietStep`) and whoever has left had done so before it began.  A started process keeps
  this for good.

Two proofs failed for a reason.  `FastCallerIsServed` was not true of longer runs than TLC had been given: a stop
that began and ended within a call of `start_producer` left the caller with "started" set, and a producer that
`supervisor3` had killed in a stop stays in the table, where the second lookup takes it for alive (difference 3 of section 4).
`stopped` in the callers' records and the guard of the property are the result; with four calls (1.6 million states)
TLC agrees.  And `AliveKnown` could not be shown until `terminate_child` took the EXIT of its child with it, as
`monitor_child` does.

`Min` and `Max` of the library are CHOOSE expressions; that they find something is proved from the well-foundedness
of finite subsets (`MinOfNats`).  The library's induction theorems take an operator as a parameter and cannot be
used; where a proof needs induction it takes a least counterexample instead (`LeastNat`, from `NatLessThanWellFounded`
and `WFMin`).

*Model-checked only*: liveness (`CallersReleased`, `EveryRequestSettled`, `EveryRequestLogged`,
`EverythingSettles`, `EveryCallReturns`, `ProducersComeBack`, `AllEndsWithTheClient`, `StartAndStopEnd`, `ClientComesBack`), since
fairness is out of the prover's reach, and `RecordBatch`.  What recursive definitions compute for every input is proved only where a theorem above
needs it (the bytes of a batch): the loops of
`BufferLoops`, the compressor, the decompressor and the checksum are compared with their references on the instances above;
`BufferLoops`, `SnappyCopy` and `SnappyWriters` declare RECURSIVE operators, which no module with a proof
can reach.

## 6. What is not modelled

- `required_acks = 0`, produce requests with several messages, `produce/3` with a reply message,
  `produce_no_ack/3`, `sync_produce_request/2`: the plugin uses none of them.
- `brod_client`'s cool-down after a failed payload connection, `get_connection`, group coordinators,
  consumers and several topics; how a connection is made (SSL, SASL, API versions) and system messages.
- `supervisor3`'s restart intensity, other strategies and code change.
- The fields of records and batches, their varints and timestamps, the old message formats, the wire format
  of requests: encoding without state.
- `asn1_erl_nif.c`, by size the second part of the native code: it belongs to Erlang/OTP and is in the
  release for TLS certificates only; the plugin's connections are plain TCP.  The other large sources, the two
  copies of snappy and crc32c under `_build/default/emqx_plugrel` and `_build/default/rel`, are the same files as
  those under `_build/default/lib` which are modelled; their lines are mapped once.  Of snappy the
  platform variants that no build here selects (big endian, no builtin for leading zeros) are left out.
- `emqx_plugin_kafka_conf.erl` (nothing calls it), the schema, the command line demo, brod's consumers
  and other libraries.
- `now_mill_secs` adds microseconds to milliseconds; whether a publish may match with one configuration and
  be sent with the topic of another (the model lets it) - no document says what should happen.

## 7. Plan

Done: `ProducerBuffer`, `BufferLoops`, `BrodProducer`, `ProducePipe`, `KafkaPlugin`, `KproConnection`,
`RequestChannel`, `BrodClient`, the record batch with its native code, and the theorems above.  Left, in this order:

1. A composition of plugin, client and producer: what happens to one MQTT message from hook to log.
2. The payload connections of the client with their cool-down, shown to give the connection cache that
   `BrodProducer` assumes.
