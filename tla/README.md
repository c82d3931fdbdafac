# A TLA+ model of the publish-subscribe firmware

The program is an ESP-IDF (FreeRTOS) firmware: an in-memory publish-subscribe
core with a memory pool, retries and an error handler, and around it network
parts — WiFi supervision, an MQTT client, a WebSocket client, TLS set-up and a
device protocol. This directory holds TLA+ modules of its parts, configurations
for TLC, and proofs for TLAPS. Paths below are under `src/main/`.

The repository has no README and one kind of prose only, comments in Chinese. At
this commit it does not build: text follows the last function of
`topic_manager.c` (from line 117), `topics`, `topic_t` and `topics_lock` are
`static` there and used in other files, and several headers that are included
do not exist. The models take each function as it is written and the shared
table as the one object the files mean.

## 1. Inventory

| component | state | operations | runs in |
|---|---|---|---|
| publish-subscribe core: `topic_manager.c`, `subscriber_manager.c`, `publisher.c` | `topics[]` (name, subscriber list and count, message queue, mutex), `topic_count`, `topics_lock` | create, subscribe, unsubscribe, publish; `topic_task` per topic | application tasks, topic tasks |
| memory pool: `memory_pool.c` | list of block headers over a static array, mutex, `used_size`, `peak_use` | alloc, free, stats | every task |
| message handler: `message_handler.c` | pending messages, their timers and retry counts, next id, mutex | `message_publish_with_qos`, `retry_timer_callback` | application tasks, the timer task |
| error handler: `error_handler.c` | queue of reports, one static text buffer, callback | report; `error_handler_task` | every task, its own task |
| advanced topic manager: `topic_manager_advanced.c` | per slot: configuration, statistics, retained messages, mutex; a filter | create with configuration, delete, statistics | application tasks |
| network manager: `network_manager.c` | event bits, status, attempts, mutex | event handler, monitor task | event task, its own task |
| network layer: `network_layer.c` | one status, one callback, MQTT handle | WiFi and MQTT event handlers | event task, MQTT task |
| MQTT client: `mqtt/mqtt_client.c` | connection state, socket, message queue, packet ids | init, packet handling; the client task | its own task |
| MQTT codec: `mqtt/mqtt_encoder.c`, `mqtt_decoder.c` | — | encoding and decoding of packets | the client task |
| WebSocket client: `websocket/ws_client.c`, `ws_handshake.c`, `ws_frame.c` | state, queue, socket, key of the handshake | the client task; frames, handshake | its own task |
| TLS set-up: `security/security_layer.c`, `websocket/ws_ssl.c` | a configuration, mbedTLS contexts | init, create, destroy | callers |
| device protocol: `protocol/device_protocol.c` | a counter of sequence numbers | pack, unpack, CRC | callers |
| application: `main.c` | — | boot sequence, callbacks that only log | main task |

How they interact. The application and the message handler call the core; the
core takes its blocks from the pool and hands messages to topic tasks through a
queue per topic; the callbacks run in the topic task with the topic's mutex held.
A block is allocated by the publisher and freed by the topic task. Retry timers
call `pubsub_publish` from the timer task. Every part reports to the error
handler. The network parts are driven by ESP-IDF events and do not touch the core.

What is hard: two levels of mutex and a callback under the inner one; blocks that
change owner across tasks; a creation that fails half-way; a pool that must not
fragment over any sequence of calls; timers that race the call that started them;
queues and pool at their limits; a restart in the middle of reporting. The list,
line by line, is `hazards` in `PROJECT.json`.

What makes each part correct:

- core: a callback runs exactly for the messages at whose delivery it was
  subscribed, once each, critical ones first; no subscriber or payload is used
  after it was freed, or leaked; names stay distinct; every call returns, and a
  backlog is worked off.
- pool: blocks tile the pool, never overlap, are always merged; nothing is refused
  that would fit; the counters agree with the list.
- message handler: attempts are bounded; a message that should go once goes once;
  what was reported as published arrives; a failed call leaves nothing behind,
  and gives back what it has allocated.
- error handler: accepted reports are handled once and in order; a fatal one is
  the last and leads to a restart; the text belongs to the report.
- network manager: bits, attempts and status agree with the link, whatever the
  order of its events.
- network layer: every loss of the link is followed by a request to connect it;
  CONNECTED is never a left-over of a session that ended.
- MQTT client: over all losses of the connection each message is sent once and in
  order; ids are distinct; a loss is noticed and told once; the queue is served.
- WebSocket client: descriptors are closed; a loss is told once, and only of a
  connection that was told of; messages go, once and in order, to servers that
  accepted the upgrade.
- codecs and device protocol: what is encoded is what the peer decodes, whatever
  follows it, and what has not arrived as a whole is refused.
- TLS set-up: a context is freed with exactly the objects it holds, at whichever
  step its creation failed.
- advanced topic manager: the configuration of a topic stays what it was set to.

## 2. Modules

| module | what it is |
|---|---|
| `TopicBus` | abstract: what the core promises, by topic name, without locks, pool or tasks |
| `PubSub` | the core; implements `TopicBus` (`BusSpec`, by INSTANCE with a refinement mapping) |
| `MCPubSub` | `PubSub` with the symmetry set for TLC |
| `PubSubProofs` | theorems about `PubSub`, with the refinement |
| `PoolContract` | abstract: what the pool promises its clients |
| `MemoryPool` | the allocator; implements `PoolContract` (`ContractSpec`) |
| `MemoryPoolProofs` | theorems about `MemoryPool`, with the refinement |
| `MessageHandler`, `MessageHandlerProofs` | publication with a quality of service |
| `ErrorHandler`, `ErrorHandlerProofs` | reports, the handler's task, restart |
| `WifiLink` | environment: the WiFi driver and the event loop of ESP-IDF |
| `NetworkManager`, `NetworkManagerProofs` | supervision of the WiFi link; extends `WifiLink` |
| `NetworkLayer`, `NetworkLayerProofs` | link and MQTT session behind one status; extends `WifiLink` |
| `MqttClient` | the MQTT client's task |
| `WsHandshake` | key and check of a WebSocket upgrade, as operators |
| `WsClient` | the WebSocket client's task; extends `WsHandshake` |
| `TlsSetup` | the two sequences that set up mbedTLS contexts |
| `WsClientProofs` | theorems about `WsClient` and `TlsSetup` |
| `TopicAdvanced` | topic creation with a configuration |
| `ByteBuffers` | what the codecs share |
| `MqttCodec`, `WsFrame`, `DeviceProtocol` | encoders and decoders, as operators on sequences of bytes |
| `Codecs` | the codecs against each other: any messages, as sets that are parameters, and the properties |
| `MCCodecs` | `Codecs` with messages around every limit, for TLC |
| `ProtocolProofs` | theorems about `MqttClient` and `Codecs` |

The operators whose comment begins with "Mutant:" belong to no specification.
Each is a version of the definition it precedes with a plausible mistake in it,
and is named in `PROJECT.json` with the property that notices the mistake.

### PubSub

State. A slot of `topics[]` is an index of `name`, `subscribers`,
`subscriber_count`, `msg_queue`, `lock`. `used` is the set of allocated pool
blocks. `pc[t]`, `call[t]`, `block[t]` are an application task inside one
`pubsub_*` call; `worker[s]`, `msg[s]`, `current[s]` are the local variables of
the `topic_task` of slot `s`.

Steps. A call is split where another task can see or do something: entering
(`Call`), taking `topics_lock` (`TakeTopicsLock`), in `pubsub_publish` allocating
and copying (`PublishAlloc`, `PublishNoMemory`) and sending (`PublishSend`,
`PublishQueueFull`), in subscribe and unsubscribe taking `topic->lock`
(`TakeTopicLock`) and editing the list (`Subscribe`, `SubscribeRefused`,
`Unsubscribe`, `NotSubscribed`). Everything else between two locks is seen by
nobody and is part of these steps. `CreateFailed` is the creation of the queue,
the mutex or the task failing after the name was written. The topic task has
`Receive`, `StartDelivery` (takes the mutex), `RunCallback` (one callback and
`current = current->next`) and `FinishDelivery` (frees the data, gives the mutex).

Abstractions. A pool block is a member of `Cells`, and any allocation may fail.
Payloads are model values, `EMPTY` for `data_len = 0`, which allocates nothing.
What the bus promises, and what it does not. A backlog is worked off, but critical
messages are sent to the front of the queue (`publisher.c:54`): a stream of them
starves every ordinary message, and among themselves the older ones. `TopicBus`
has these behaviours, its fairness only says that something is taken, and
`BacklogWorkedOff` says what is left: ordinary messages are taken one after
another until there are none, unless critical ones are sent again and again.

A failed call also reports an error; reports are in `ErrorHandler` and not
repeated here. Calls with NULL arguments return at once and are stuttering.

### MemoryPool

`heap` maps the offset of a header to its `next`, `size` and `is_free`; `live`
maps a pointer in use to the size that was asked for. `Alloc` is the search, the
cut (`Split`) or not (`Whole`) and the counters, all with the mutex held. The
loop of `memory_pool_free` is kept as steps (`Merge`, `StepOver`) with the
cursor in the state, because it must end and must not miss a pair.

### MessageHandler

`TakeLock` takes the mutex and the id. `AllocMessage`, `AllocData` and
`AddPending` are `create_pending_message` and what its caller does with the
result: a block for the message, one for its data, then timer, list and start.
Each has its failure, `MessageFails`, `DataFails` and `TimerFails`, which gives
back what was allocated before it and returns. `Publish` calls `pubsub_publish`
and gives the mutex. `Retry(m)` is one expiry of a timer with retries left,
`RetriesExceeded(m)` any later one. Neither takes the mutex, as in the code.
`pubsub_publish` is a step that is accepted or refused, with the pool as a number
of blocks and the queue of one topic, because its own steps are in `PubSub`; it
puts a critical message in front. Of the four priorities the model has an ordinary
one and CRITICAL, which are all that `publisher.c` tells apart.
`PublishForeign` are the critical messages of everybody else, without a bound:
they overtake what these calls have published, so that `PublishedIsDelivered`
holds unless they keep coming. `xTimerStart` may fail, which the code does not look
at: then the message is pending and never retried.

`MAX_RETRY_COUNT` (`message_handler.c:10`) is used nowhere: the number of
retries is the configuration's. `message_acknowledge` and
`message_set_retry_policy` are declared and have no definition, so a pending
message is never removed; that is why `PoolConserved` counts two blocks per
pending message for ever.

### ErrorHandler

The record of a report is an id with a level; only the fatal level is told apart.
The static text buffer is two halves, so that `vsnprintf` has a middle
(`BeginFormat`, `EndFormat`); `Send`/`Dropped` is `xQueueSend` without waiting.
`Log`, `Callback`, `Restart` are the handler's task. Before `Restart` there is a
delay of a second: it is a state in which the other tasks go on. A restart resets
everything, the history too.

### NetworkManager

`WifiLink` is what the code sees of ESP-IDF, modelled from its use: `link` is
connected on request, may fail or be lost at any time, and each of these posts
to `events`, handled in order. `esp_wifi_connect` may also be refused: both
components ignore its result, and no event follows a refusal. `bits` is the event group. `wifi_event_handler` is
two steps (`SetBit`, `ClearBit`), since it is not atomic and the monitor may read
the bits in between. `network_monitor_task` is `ReadBits` (the wait, which clears
nothing), one of `Connected`, `Reconnect`, `GiveUp`, and `DelayEnds`. The branches
of its body are one step each because nothing that is defined shares
`network_manager_ctx.lock`, the status or the attempts with it. `tried` is not in
the code: it counts the connections the monitor really began.

`network_manager_start` is declared only, so nothing in the program creates this
task; the model takes it as running after `network_manager_init`.

### NetworkLayer

`wifi` is where `wifi_event_handler` is, in the task of the event loop, and
`mqtt` where `mqtt_event_handler` is, in the task of the MQTT client, or the event
it is called with. A loss of the link is three steps: `LostConnect` (asking for
the link again, after which it may come up or fail at any time), `LostRecord`
(bit and status) and `WifiCallback`. The MQTT events that only write to the log
change nothing. The session is an environment: it begins when the link is up,
may end or have an error at any time, and survives a loss of the link.

`current_status` is DISCONNECTED after a loss until the next MQTT event, even if
link and session are up: nothing says what it should be, so no property asks for
more than that CONNECTED is never a left-over (`ConnectedHasSession`).
`network_connect`, which would start WiFi and the client, is declared only.

### MqttClient

`pc` is where the task is in one round of its loop: `TakeMessage` or
`NoMessageQueued`, `SendPacket` (`get_next_packet_id`, encoding and
`mqtt_send_packet`), `SelectReadable` or `SelectTimeout`, `ReceiveSome` (one
`recv` of `mqtt_receive_packet`) until the block is full and `HandlePacket`, or
`ReceiveFails` and `TellDisconnected`. The last two are steps of their own because
the state changes before the callback is told. A `send` that fails may have sent
a part of the packet, and its connection may be over or still up (no memory, a
timeout): the task ignores the result and goes on. After such a failure on a
connection that is up, the next packet is read by the broker as the rest of this
one. Nothing in the code prevents that, so no property speaks of it, and
`SentOnceInOrder` counts what was sent or tried. A `recv` that fails with the
connection up is `ReceiveErrs`.

`inbound` is the stream from the broker in units: the beginning of a packet, or
its middle. `handle_mqtt_packet` decodes what is at the beginning of the block and
drops the rest; when a block begins in the middle of a packet, its bytes may look
like any packet. `wire` remembers what was sent or tried, with its id.
`mqtt_client_connect` and the functions that queue are declared and have no
definition: `Connect`, `Queue`, the broker and the network are an environment. A
connection may be handed over as CONNECTING or CONNECTED; in CONNECTING the task
receives nothing, so that no CONNACK would ever be read.

### WsHandshake and WsClient

Each case of the task's switch is one step or a few: a round in CONNECTED is a
send (`NothingToSend`, `DropMessage`, `SendMessage`, `SendFails`) and a receive
(`Receive`, `ReceiveEnd`, `ReceiveFails`), with the network free in between. The
case is not looked at again after the send, so a task whose send failed receives
once more in state DISCONNECTED. `socket` is a number that is never given out
twice; `open` are the descriptors not closed. A response is a record of what the
check looks for, and the server has accepted the upgrade when it answered with the
accept value of the key of this request.

`generate_websocket_key` gives the encoder 24 bytes for 24 characters and a zero:
`mbedtls_base64_encode` then writes nothing and its result is not looked at, so
the key is whatever the caller's buffer held. The model computes this
(`Base64Fits`), and lets that buffer hold anything at each handshake
(`RequestKey`), so that a server may answer to the key of an earlier request.
Verification goes by the buffer of this one. Whether the server has accepted is
decided in the model by the same comparison as in the code, which is the one the
protocol asks for.

### TlsSetup

A creation is a sequence of steps that may fail (`Steps`), each with what it
initialises and what becomes of the context when it fails: freed as it is (`free`),
destroyed, or left to the caller (`ws_ssl_init`). `held` are the objects that
are initialised and not freed, `abandoned` and `misfreed` what went wrong.
`ws_ssl_destroy` is declared only; it is taken to free what `ws_ssl_init` makes.

### TopicAdvanced

`FindSlot` (the loop of line 71, without a lock), `CopyConfig` and the call of
`pubsub_create_topic`, which is one step under `topics_lock` here because its
own steps are in `PubSub`. Whatever the call answers, nothing takes the copy back.

### MqttCodec, WsFrame, DeviceProtocol

Operators with the names of the functions; a buffer is a sequence of bytes, -1 and
the error codes are `Failed`. C's `^` is a table on half a byte (`Xor4`), from
which those on one and two bytes are put together, so that the provers can reason
about it. `Codecs` has one variable, the message under test, taken from the sets
`Lengths`, `Connects`, `TopicLists`, `Publishes`, `Frames` and `Messages`. These
are constants, and the assumptions beside them are the types of the C arguments
(a string has no zero byte and at most 65535 characters, a sequence number 32
bits) and two restrictions: packets stay below the 2 MB their decoders read, and
frames below the 16 MB for which `EncodedLength` was written. Every encoder is
given a buffer that is large enough: those of MQTT ask for two bytes and do not
look at the length again.

The payload of a device message is not bounded, as in the code:
`protocol_pack_message` takes a `size_t` and writes it to the 16 bits of
`header->length`, without an error (`HeaderLength`). `MessageUndone` says that a
message whose length fits is unpacked as it was packed, and that of a longer one
the receiver gets as many bytes as the header tells, or refuses it; because the
checksum's table is mostly zero, the cut is seldom noticed. The largest length is
the constant `MAX_LENGTH`, 65535 in the source: the theorem is for any, and TLC
takes 511 and payloads of 511 to 515 bytes, at the limit and beyond it.
`MCCodecs` gives the sets values for TLC.

## 3. Runs

| run | instance | states | what it shows |
|---|---|---|---|
| `PubSub` | 2 tasks, 2 topics, 2 callbacks, 3 blocks, queues of 2 | 102 000 (symmetry) | `LockDiscipline`, `CursorInList`, `PoolOwnership`, `ListsConsistent`, `NamesDistinct` over every interleaving of callers and topic tasks |
| `PubSubRefinement` | 2 tasks, 1 topic, 1 callback, 1 block, ordinary and critical messages with and without data | 32 000 | the core implements `TopicBus`, fairness included; a backlog is worked off; every call returns |
| `MemoryPool` | 2 clients, requests of 5 and 20 bytes, a pool of 84 bytes | 9 000 | the counters, the contract, and that the loop ends |
| `MessageHandler` | 2 tasks, 2 messages, ordinary or critical, 2 retries each, 5 blocks, a queue of 2 shared with others | 86 000 | attempts and blocks; what was published arrives; timers run out |
| `ErrorHandler` | 2 tasks, 4 reports, a queue of 2 | 150 000 | order, finality of a fatal report, restart |
| `NetworkManager` | every configuration of up to 2 attempts, 3 events | 2 700 | the bits against the link; the status settles on what the link is |
| `NetworkLayer` | 3 events | 480 | every loss of the link leads to another request for it; bits and status against link and session |
| `MqttClient` | 3 messages, 2 connections, a queue of 2, blocks of 2 bytes | 183 000 | order and ids of what is sent; losses are noticed and told once; the queue is served |
| `WsClient` | 3 messages, 3 sockets, 2 keys, frames of up to 2 bytes | 255 000 | descriptors, events, order and addressees of messages; the queue is served |
| `TlsSetup` | 2 contexts | 69 000 | what is freed after each failing step, and which steps lose objects |
| `Codecs` | 1 564 messages | 1 565 | encoding undone by decoding for the three protocols |
| `TopicAdvanced` | 2 tasks, 2 topics, 2 configurations | up to the counterexample | `ConfigKept` does NOT hold |

`TopicAdvanced` shows the code doing other than its comments say (`findings` in
`PROJECT.json` quotes the lines): `topic_create_with_config` looks for a free
slot without `topics_lock` and copies the configuration there before
`pubsub_create_topic` decides whether there will be a topic, and where. In the
counterexample two tasks ask for one name and find the same slot; the first
creates the topic, and then the second copies its own configuration there,
although `pubsub_create_topic` is going to refuse it.

Four more things the repository says of itself are not so. They are stated in
the modules, marked as no property of the code, and checked by no run (added
to the component's configuration, TLC refutes them at once):

- `ExactlyOnce` (`MessageHandler`): a message of quality EXACTLY_ONCE is
  delivered by its call and again by its timer.
- `FatalRestarts` (`ErrorHandler`): a fatal report that finds the queue full is
  dropped, and nothing restarts.
- `TextIsOwn` (`ErrorHandler`): texts share one static buffer; a report is logged
  with the text of a later one.
- `MaximumReached` (`NetworkManager`): "Maximum reconnection attempts reached" is
  reported after fewer attempts than configured. The failure bit stays set while
  an attempt is under way and is counted again after each delay.

Two more are part of what is checked: of the four priorities only CRITICAL
overtakes (`BusSpec`), and the decoder of the remaining length refuses the
lengths of four bytes that the encoder produces (`LengthUndone`).

Invariants that are proved for every instance (`TypeOK` of the components with
proofs, `Tiling`, `NoOverlap`, `Coalesced`, `FullRecovery`, `NoMemSilent`,
`IdsUnique`, `NoLostRetry`) are in no configuration: section 5.

### Bounds, and why they are enough

The bounds are the constants of the configurations and the bounds of models:
`MAX_ID` (calls in a behaviour), `MAX_REPORTS` (reports between restarts), and of
the clients `MAX_MESSAGES`, `MAX_CONNECTIONS`, `MAX_SOCKETS`, `MAX_INBOUND`,
`MAX_PACKET_SIZE` and `MAX_FRAME`.
The limits of the code (10 topics, 100 messages, ...) become small, so that they
are reached.

- Two tasks and one topic task are enough for each pair that can conflict over
  a mutex, a list or a block; two topics give a creation that races another or
  follows one that failed. Two subscribers give the cursor a node before and
  behind it. Three blocks let list, queue and the message in hand each have one,
  or the pool run out in any of them. In `PubSub` all messages have one
  priority, because priority touches nothing but the order in the queue;
  `PubSubRefinement` has the order (of the four priorities that are declared
  only CRITICAL overtakes, as `TopicBus` says; a HIGH message waits behind a LOW one).
  Its one subscriber keeps the liveness within TLC's reach with two contending
  callers; that several subscribers get each message, each once, is the theorem
  `KeepsPromise`.
- In the pool, 84 bytes hold four of the smallest blocks and 4 bytes that fit no
  block: cuts that are exact, cuts whose rest is too small, merges with either
  neighbour and with both all occur, and every sequence of calls is followed, not
  only bounded ones.
- In the message handler five blocks are two pending messages and one copy: the
  pool runs out through pending messages alone, which is the long-run behaviour
  of the code.
- In the error handler four reports fill the queue of two while one is handled
  and one is being made.

- In the MQTT client a block is two bytes, and so is the longest packet: a packet
  can be split between two blocks, share one, or leave one half full. Three
  messages and two connections let a queue outlive a loss, and packet ids up to 2
  wrap. In the WebSocket client a frame of two bytes can arrive in halves; with
  three sockets a refused one, a broken one and one in use exist together, and two
  keys are an old and a new one.
- Two contexts of the TLS set-up share nothing but the configuration.
- The codecs are checked on the lengths on either side of every limit in the code
  (127/128, 125/126/127, 255/256, 16383/16384, 65535/65536 of a frame, 2^21, and
  `MAX_LENGTH` of the device protocol, 511 in the run), on every
  combination of optional parts, and on every small prefix; the contents of a
  payload are one fixed pattern.
- In the network layer and manager three events are one being handled and two
  behind it, a failure and a recovery in either order; in the manager, with no,
  one and two attempts the monitor gives up at once, after its first, and after
  one it should not have counted.

Where the number of objects is what could matter, the theorems of section 5 drop
the bounds altogether.

### Deadlock

`PubSub`, `PubSubRefinement`, `MemoryPool`, `MessageHandler`, `NetworkLayer`,
`TlsSetup` and `Codecs` are checked for deadlock: some step can always be taken.
The error handler, the two clients and `TopicAdvanced` stop at the bounds of the
model, when no more reports, messages, connections or topics are allowed, and the
network manager stops when its first request for the link is refused, as the
program would; their configurations say so.

## 4. Fairness

- A task that can run, runs (weak fairness of the steps inside a call and of the
  handler tasks): FreeRTOS is preemptive. One task does spin: while the link is
  up the network monitor never blocks, since it leaves the bits set that it waits
  for. It has no priority yet (nothing creates it); at one above an application
  task it would starve that task, and the fairness says it is not placed so.
- A mutex reaches its waiters (strong fairness of the steps that take one):
  FreeRTOS wakes a waiter at every give, by priority and then in order of
  arrival. The guard of such a step turns false again whenever another task
  holds the mutex, so that weak fairness would say nothing.
- A started auto-reload timer expires again (weak fairness of `Retry`), and
  `vTaskDelay` ends (`Restart`, `DelayEnds`).
- The WiFi driver owes nothing: it may refuse, or never connect. `StatusSettles` speaks only
  of links that stay up or stay down.
- The tasks of the two clients run (weak fairness of `Task`): each is a loop whose
  only waits are in it, `select` with its limit of a second, `recv` without any,
  and `vTaskDelay`. Broker, server, network and application owe nothing: the
  properties except the states in which the task waits for a peer that is silent
  (`Starved`, `Silent`).
- Nothing makes an application call anything: `Call`, `AllocCall`, `BeginFormat`
  have no fairness.

## 5. Theorems

For every value of the constants that the named assumptions allow — any set of
tasks, any number of slots, blocks, retries, reports, any pool and header size —
the proofs establish, as `Spec => []P`:

- `PubSubProofs`: `TypeOK`, `LockDiscipline`, `CursorInList`, `ListsConsistent`,
  `NamesDistinct`, `PoolOwnership`. None is inductive alone. `CoreInv` adds what a call knows in
  each place (`CallOK`: its topic exists, its request has the right kind). The
  argument: `topics_lock` makes the caller past it unique (`LockDiscipline`), so
  the table of names does not change between its lookup and its later steps
  (lemma `NamesFrame`), so the slot it found stays the slot of that name; the list
  of a slot is edited only with `topic->lock`, which the topic task has while its
  cursor is in the list. `PoolOwnership` rests on `PlacesOK` besides: which places
  are empty when, and that queues and lists are within their limits. A step moves
  blocks between places, and each action has a lemma that names, for every place
  that refers to a block after the step, the place it took the block over from
  (`BlocksMoved`, `BlockAdded`). `KeepsPromise` is the safety part of the
  refinement, `Spec => Bus!BusSafety`. It adds that a queue is a run of critical
  messages followed by the others (`CriticalFirst`), so that one cut splits it
  into the two backlogs of the bus, and that a topic that exists is named. A step
  that changes one slot changes one topic of the bus (`SlotStep`,
  `BusOfSlotStep`); then each action of the core has a lemma with the action of
  the bus that it is (`SendIsAccept`, `ReceiveIsTake`, `SubscribeIsJoin`,
  `RunCallbackIsRun`, ...), and the others are stutters (`StutterStep`,
  `CreateFailedIsStutter`). `RunCallbackIsRun` is where `CursorInList` and
  `PoolOwnership` are needed: the cursor is one node of the list, no two nodes are
  one block, and so what is left of the list are the callbacks still to run.
- `MemoryPoolProofs`: `TypeOK`, `Tiling`, `NoOverlap`, `Coalesced`,
  `FullRecovery`, `Accounting`, and `KeepsContract`: `Spec => ContractSpec`. `PoolInv` adds that
  every byte belongs to a block (`Cover`), which pointers belong to which blocks
  (`Ownership`), and that pairs still to be merged lie at or behind the loop's
  cursor (`CoalescedBehind`). The shape lemmas say what `Split`, `Joined` and a
  change of mark do to the list; the rest is arithmetic on offsets. `Accounting`
  sums over the blocks in use with a fold; see below for how that is unfolded.
  `BytesBounded` says that blocks that do not overlap take no more than the space
  they lie in, which bounds `peak_use` by the pool.
- `MessageHandlerProofs`: `TypeOK`, `AttemptsBounded`, `AtMostOnce`,
  `NoMemSilent`, `PoolConserved`, `IdsUnique`. `HandlerInv` says what each call
  holds in each place (only the holder of the mutex is past it, its id is new),
  ties the attempts of an id to its retries and to whether its call has published
  yet, and counts the copies of each id in the queue; the lemmas on occurrences
  say how a message in front, one at the end and `Tail` change that count.
- `ErrorHandlerProofs`: `TypeOK`, `InOrder`, `FatalIsLast`. `ReportsInv` adds
  that only reports that were begun are anywhere in the system (so a new one does
  not change the level of an old one) and that the handler is working on the
  report it logged last.
- `NetworkManagerProofs`: `TypeOK`, `BitsMatchLink`. `LinkInv` adds that the event
  posted last says whether the link is up, that the handler between its two
  changes is at an event whose bit is set, and that until the first event is
  handled nothing else happens: so what the last handled event leaves in the bits
  is the state of the link.
- `NetworkLayerProofs`: `TypeOK`, `BitsMatch`, `ConnectedHasSession`,
  `NoLostRetry`. `LayerInv` has the same facts about the queue, and two more: a
  link that is idle (not refused) while the handler is inside a loss has another event behind
  it (`RetryInv`), and what the MQTT handler was called for is the session's state
  (`MqttInv`), because the client calls it in its own task.
- `ProtocolProofs`, first part, on `MqttClient`: `TypeOK`, `SentOnceInOrder`,
  `PacketIds`, `LossToldOnce`. `ClientInv` adds that what is in the queue are the
  last messages queued, that the packet in hand is the one before them, and how
  the last id follows from the number of packets (`PacketIds` alone says nothing of
  the next id).
- `WsClientProofs`: `TypeOK`, `ClosedUnlessFailed`, `EventsPaired`, `SentInOrder`.
  The invariant adds what the last event says of the state: which sockets it may
  be about, and that a task in CLOSING has told of its connection and not of its
  end. `SentInOrder` rests on `ws_verify_handshake_response`: the socket of a
  connected task is one whose server computed its accept value from this key.
  `FreesWhatItMade` and `LostEarlyOnly` (an action property: which steps lose an
  object) of `TlsSetup` are in the same module, for any set of contexts: a context that is being created holds what the steps before
  the present one initialised, and the mode it goes by is its own.
- `ProtocolProofs`, second part, on `Codecs`: `MessageUndone`, `FrameUndone`,
  `LengthUndone`, `PublishUndone` and `PacketsReadable`, for all messages that the
  assumptions allow: payloads of any length for the device protocol, below 2 MB
  and 16 MB for the other two.
  `Holds(b, k, p)` says that p lies behind the first k bytes of b; the layout
  lemmas (`PackedParts`, `FrameLayout`, `PacketParts`) say where the parts
  of what an encoder writes lie, `HoldsPart` and `HoldsBefore` carry this over to
  whatever the message is part of, and the reading lemmas (`Unpacked`,
  `LayoutDecoded`, `HeaderRead`, `StringRead`) compute what a decoder makes of any
  buffer with that layout. The arithmetic is on single bytes (`LowByte`), and
  `Xor8Undone` is why masking twice is nothing. For `PacketsReadable`,
  `Reads(b, at, strs, extra)` says that the strings of strs follow one another in b
  from byte at to its end: it is true of one encoded string (`ReadsOne`), of what is
  put together from such parts (`ReadsBoth`, `TopicsTogether`, `ConnectFields`), and
  `StringsRead` turns it into what the broker reads. The lengths summed up before
  writing are those of the parts (`TopicsTogether`, `ConnectFields`), and with the
  limits on strings they stay below 2 MB (`ConnectShort`).

### Folds without induction over data

`Accounting` sums over a set and the codecs read numbers and checksums with
`FoldLeft` and `FoldSet`. The community modules define these by a CHOOSE of a
function on the subsets of a finite set, and the theorems of the library that say
such functions exist take an operator as a parameter, which the provers cannot
instantiate. Two things replace them. In `MemoryPoolProofs` and `ProtocolProofs`
induction is over a SET (the set of subsets, or of lengths, for which a claim
holds), with the library's `WFMin` or a least counterexample for its step. And a
function that satisfies the recursion is shown to exist for the sets of up to m
elements, for every m, by the same induction (`FoldsUpTo`, `FoldExists`), or, where
the result is known beforehand, by writing it down (`StringsRead`). What then
remains of a fold is its value on the empty set and one equation for each further
element.

The assumptions are the `ASSUME`s of the component modules: limits are natural
numbers (or positive), `NULL` is none of the values it stands beside. TLC
evaluates them in every run.

## 6. Checked only by TLC

- All liveness: `CallsReturn`, the fairness part of `BusSpec`, `BacklogWorkedOff`,
  `PublishedIsDelivered`, `RetriesEnd`, `AcceptedFatalRestarts`, `StatusSettles`,
  `Reconnects`, `QueueServed`, `LossNoticed`. The provers here do not reason about
  ENABLED and fairness.

Where a property says less than one may expect, the `note` of its hazard in
`PROJECT.json` says so. The cases: blocks of pending messages that never come back
(`PoolConserved` counts them as spent); fatal reports that are dropped
(`AcceptedFatalRestarts` is about the accepted ones); a failure that is counted
twice (`StatusSettles` sees only the status); a late DISCONNECTED over a new
session (`ConnectedHasSession` is about CONNECTED); losses told late, or of a
failing send or recv not at all (`LossToldOnce` and `EventsPaired` are upper
limits); a rest cut off in the pool that has room for a header only
(`ContractSpec` is about what clients see).

## 7. Not modelled, and why

- Functions that are declared and have no definition: `pubsub_deinit`,
  `pubsub_delete_topic`, `message_acknowledge`, `message_set_retry_policy`,
  `network_manager_start` and its like, `network_connect` and its like,
  `mqtt_client_connect`, `_publish`, `_subscribe`, `_unsubscribe`,
  `ws_client_connect`, `ws_perform_handshake`, `ws_ssl_destroy`,
  `topic_set_filter`. Where a defined function depends on one, the model has what
  it uses as an external action. The headers `websocket/ws_compression.h`,
  `ws_heartbeat.h`, `ws_reconnect.h` and `ws_subprotocol.h` have no implementation
  at all.
- `app_main` (`main.c`): a fixed sequence of calls, each of which ends the program
  when it fails. It initialises neither the memory pool nor the message handler, so
  that the first subscription takes a mutex that is NULL, which FreeRTOS answers
  with an assertion: there is nothing behind it to check. All modules begin after
  initialisation.
- Initialisations that fail half-way: `ESP_ERROR_CHECK` ends the program. Those of
  the clients, which `app_main` does not call, leave `client_ctx` pointing to
  freed memory (`mqtt/mqtt_client.c`, lines 255, 263 and 279).
- Retained messages, the filter and the counting of statistics in
  `topic_manager_advanced.c`: nothing makes or sets them.
- The counter of `device_protocol.c`, an argument of `protocol_pack_message` in the
  model. Its checksum table has 16 of 256 entries: both sides agree on it
  (`MessageUndone`), and most corruptions pass it.
- What the MQTT encoders do with a message longer than the caller's buffer: they
  test `buf_len` only for two bytes (`mqtt_encoder.c:115`), and `mqtt_client.c:159`
  gives them 1024.
- Sends cut short on a connection that stays up: the model of the client has them,
  but no model of the broker reads what follows.
- The heap behind `strdup` and `malloc` in `mqtt_decode_publish`, which leaves the
  topic behind when it fails after copying it.
- Formatting of log lines, JSON and HTTP text, base64, SHA-1 and the cryptography
  of mbedTLS. Sizes that wrap at 2^32 in `memory_pool_alloc`.
- Callbacks that call back into the core: those of `main.c` do not. One that
  subscribed to its own topic would wait for the mutex its task holds.
