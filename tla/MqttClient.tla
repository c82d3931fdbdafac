----------------------------- MODULE MqttClient -----------------------------
(***************************************************************************)
(* mqtt_client.c: one task that takes queued messages, sends them, and     *)
(* receives from the broker in blocks of a fixed size, whatever the sizes  *)
(* of the packets in the stream are.                                       *)
(*                                                                         *)
(* The model begins with mqtt_client_init done.  The functions by which    *)
(* the application connects and queues messages are used by the task's     *)
(* protocol and are not part of the repository; they are the actions       *)
(* Connect and Queue, external.  The broker and the network are external   *)
(* too: an error of send or recv may be the end of the connection, or one  *)
(* that leaves it up (no memory for the data, a timeout).                  *)
(***************************************************************************)
EXTENDS Integers, Sequences

CONSTANTS
  MQTT_QUEUE_SIZE,           (* capacity of msg_queue                      *)
  MAX_PACKET_ID,             (* the largest packet id, 2^16 - 1 in the code *)
  BLOCK,                     (* sizeof(buf): what one receive waits for    *)
  PacketTypes,               (* what the application queues                *)
  MAX_PACKET_SIZE,           (* bounds of the environment: a packet of the *)
  MAX_INBOUND,               (* broker, what is in transit, the messages   *)
  MAX_MESSAGES,              (* queued in all, the connections made        *)
  MAX_CONNECTIONS

ASSUME ClientAssumption ==
  /\ MQTT_QUEUE_SIZE \in Nat \ {0}
  /\ MAX_PACKET_ID \in Nat \ {0}
  /\ BLOCK \in Nat \ {0}
  /\ {MAX_PACKET_SIZE, MAX_INBOUND, MAX_MESSAGES, MAX_CONNECTIONS} \subseteq Nat

MQTT_STATE_DISCONNECTED == "disconnected"
MQTT_STATE_CONNECTING   == "connecting"
MQTT_STATE_CONNECTED    == "connected"
States == {MQTT_STATE_DISCONNECTED, MQTT_STATE_CONNECTING, MQTT_STATE_CONNECTED}

\* The packet types the task encodes; any other is taken from the queue and dropped.
Encoded == {"publish", "subscribe", "unsubscribe"}

\* The stream from the broker, unit by unit: where a packet begins and how it
\* will be decoded, or the middle of one.
\* A PUBLISH ends in the callback and all others in nothing.
Packets == {"connack_ok", "connack_refused", "other"}
Middle  == "middle"
Units   == Packets \cup {Middle}

VARIABLES
  state,
  msg_queue,                 (* messages, by their number in queued        *)
  next_packet_id,
  socket,                    (* "up", "closed" by the broker, or "broken"  *)
  inbound,                   (* sent by the broker and not received yet    *)
  buf,                       (* the block, while it is received and read   *)
  pc,                        (* where mqtt_client_task is                  *)
  msg,                       (* its message, while it is sent; 0 otherwise *)
  queued,                    (* types of all messages queued so far        *)
  wire,                      (* packets sent or tried, in order            *)
  connections,               (* connections made so far                    *)
  losses                     (* MQTT_EVENT_DISCONNECTED given so far       *)

environment == <<inbound, queued, connections>>
vars == <<state, msg_queue, next_packet_id, socket, inbound, buf, pc, msg, queued,
          wire, connections, losses>>

Init ==
  /\ state = MQTT_STATE_DISCONNECTED
  /\ msg_queue = <<>>
  /\ next_packet_id = 0
  /\ socket = "closed"
  /\ inbound = <<>>
  /\ buf = <<>>
  /\ pc = "loop"
  /\ msg = 0
  /\ queued = <<>>
  /\ wire = <<>>
  /\ connections = 0
  /\ losses = 0

-----------------------------------------------------------------------------
(* The application, the broker and the network. *)

\* A connection is made when there is none; the task does nothing with it
\* unless the state says connected.
Connect ==
  /\ state # MQTT_STATE_CONNECTED
  /\ connections < MAX_CONNECTIONS
  /\ connections' = connections + 1
  /\ state' \in {MQTT_STATE_CONNECTING, MQTT_STATE_CONNECTED}
  /\ socket' = "up"
  /\ inbound' = <<>>
  /\ UNCHANGED <<msg_queue, next_packet_id, buf, pc, msg, queued, wire, losses>>

Queue ==
  /\ Len(queued) < MAX_MESSAGES
  /\ Len(msg_queue) < MQTT_QUEUE_SIZE
  /\ \E t \in PacketTypes : queued' = Append(queued, t)
  /\ msg_queue' = Append(msg_queue, Len(queued'))
  /\ UNCHANGED <<state, next_packet_id, socket, inbound, buf, pc, msg, wire, connections, losses>>

BrokerSends ==
  /\ socket = "up"
  /\ \E p \in Packets, size \in 1..MAX_PACKET_SIZE :
       /\ Len(inbound) + size <= MAX_INBOUND
       /\ inbound' = inbound \o [i \in 1..size |-> IF i = 1 THEN p ELSE Middle]
  /\ UNCHANGED <<state, msg_queue, next_packet_id, socket, buf, pc, msg, queued, wire,
                 connections, losses>>

ConnectionEnds ==
  /\ socket = "up"
  /\ socket' \in {"closed", "broken"}
  /\ UNCHANGED <<state, msg_queue, next_packet_id, buf, pc, msg, wire, losses, environment>>

Environment == Connect \/ Queue \/ BrokerSends \/ ConnectionEnds

-----------------------------------------------------------------------------
(* mqtt_client_task: the queue *)

TakeMessage ==
  /\ pc = "loop"
  /\ state = MQTT_STATE_CONNECTED
  /\ msg_queue # <<>>
  /\ msg_queue' = Tail(msg_queue)
  /\ IF queued[Head(msg_queue)] \in Encoded
       THEN msg' = Head(msg_queue) /\ pc' = "send"
       ELSE UNCHANGED msg /\ pc' = "select"
  /\ UNCHANGED <<state, next_packet_id, socket, buf, wire, losses, environment>>

NoMessageQueued ==
  /\ pc = "loop"
  /\ state = MQTT_STATE_CONNECTED
  /\ msg_queue = <<>>
  /\ pc' = "select"
  /\ UNCHANGED <<state, msg_queue, next_packet_id, socket, buf, msg, wire, losses, environment>>

\* Mutant: the id wraps to 0.
get_next_packet_id_wraps == next_packet_id' = (next_packet_id + 1) % (MAX_PACKET_ID + 1)

get_next_packet_id ==
  next_packet_id' = IF next_packet_id = MAX_PACKET_ID THEN 1 ELSE next_packet_id + 1

\* Mutant: a packet whose send failed is queued again.
SendPacketAgain ==
  /\ pc = "send"
  /\ get_next_packet_id
  /\ wire' = Append(wire, [n |-> msg, id |-> next_packet_id'])
  /\ socket' \in {socket, "broken"}
  /\ msg_queue' \in {msg_queue, Append(msg_queue, msg)}
  /\ pc' = "select"
  /\ msg' = 0
  /\ UNCHANGED <<state, buf, losses, environment>>

\* mqtt_send_packet: all of the packet is sent, or an error leaves it cut short;
\* the task looks neither at that nor at why, and goes on.  After an error the
\* connection may be over or not.
SendPacket ==
  /\ pc = "send"
  /\ get_next_packet_id
  /\ wire' = Append(wire, [n |-> msg, id |-> next_packet_id'])
  /\ socket' \in {socket, "broken"}
  /\ pc' = "select"
  /\ msg' = 0
  /\ UNCHANGED <<state, msg_queue, buf, losses, environment>>

-----------------------------------------------------------------------------
(* mqtt_client_task: receiving *)

Readable == inbound # <<>> \/ socket # "up"

SelectReadable ==
  /\ pc = "select"
  /\ Readable
  /\ pc' = "receive"
  /\ UNCHANGED <<state, msg_queue, next_packet_id, socket, buf, msg, wire, losses, environment>>

\* Mutant: select waits without a limit.
SelectForever == FALSE

SelectTimeout ==
  /\ pc = "select"
  /\ ~Readable
  /\ pc' = "loop"
  /\ UNCHANGED <<state, msg_queue, next_packet_id, socket, buf, msg, wire, losses, environment>>

Missing == BLOCK - Len(buf)

\* One recv of mqtt_receive_packet, which goes on until the block is full.
ReceiveSome ==
  /\ pc = "receive"
  /\ socket # "broken"
  /\ inbound # <<>>
  /\ LET n == IF Len(inbound) < Missing THEN Len(inbound) ELSE Missing
     IN  /\ buf' = buf \o SubSeq(inbound, 1, n)
         /\ inbound' = SubSeq(inbound, n + 1, Len(inbound))
  /\ pc' = IF Len(buf') = BLOCK THEN "handle" ELSE "receive"
  /\ UNCHANGED <<state, msg_queue, next_packet_id, socket, msg, wire, losses, queued, connections>>

\* Mutant: the end of the stream is taken for the end of a short block.
ReceiveFailsOnError ==
  /\ pc = "receive"
  /\ socket # "up" /\ (socket = "closed" => inbound = <<>>)
  /\ state' = IF socket = "broken" THEN MQTT_STATE_DISCONNECTED ELSE state
  /\ pc' = IF socket = "broken" THEN "lost" ELSE "loop"
  /\ buf' = <<>>
  /\ UNCHANGED <<msg_queue, next_packet_id, socket, msg, wire, losses, environment>>

\* Mutant: the state is left alone and only the callback is told.
ReceiveFailsTold ==
  /\ pc = "receive"
  /\ socket = "broken" \/ (socket = "closed" /\ inbound = <<>>)
  /\ pc' = "lost"
  /\ buf' = <<>>
  /\ UNCHANGED <<state, msg_queue, next_packet_id, socket, msg, wire, losses, environment>>

ReceiveFails ==
  /\ pc = "receive"
  /\ socket = "broken" \/ (socket = "closed" /\ inbound = <<>>)
  /\ state' = MQTT_STATE_DISCONNECTED
  /\ pc' = "lost"
  /\ buf' = <<>>
  /\ UNCHANGED <<msg_queue, next_packet_id, socket, msg, wire, losses, environment>>

\* recv returns an error although the connection is up.
ReceiveErrs ==
  /\ pc = "receive"
  /\ socket = "up"
  /\ state' = MQTT_STATE_DISCONNECTED
  /\ pc' = "lost"
  /\ buf' = <<>>
  /\ UNCHANGED <<msg_queue, next_packet_id, socket, msg, wire, losses, environment>>

TellDisconnected ==
  /\ pc = "lost"
  /\ losses' = losses + 1
  /\ pc' = "loop"
  /\ UNCHANGED <<state, msg_queue, next_packet_id, socket, buf, msg, wire, environment>>

\* handle_mqtt_packet decodes what is at the beginning of the block and drops
\* the rest.  The middle of a packet may look like any packet, or like none.
HandlePacket ==
  /\ pc = "handle"
  /\ \E p \in Packets :
       /\ p = Head(buf) \/ Head(buf) = Middle
       /\ state' = CASE p = "connack_ok"      -> MQTT_STATE_CONNECTED
                     [] p = "connack_refused" -> MQTT_STATE_DISCONNECTED
                     [] OTHER                 -> state
  /\ buf' = <<>>
  /\ pc' = "loop"
  /\ UNCHANGED <<msg_queue, next_packet_id, socket, msg, wire, losses, environment>>

Task ==
  \/ TakeMessage \/ NoMessageQueued \/ SendPacket
  \/ SelectReadable \/ SelectTimeout
  \/ ReceiveSome \/ ReceiveFails \/ TellDisconnected \/ HandlePacket

Next == Environment \/ Task \/ ReceiveErrs

Spec == Init /\ [][Next]_vars

\* The scheduler runs the task; nothing is promised of broker, network and
\* application, errors on a connection that is up included.
FairSpec == Spec /\ WF_vars(Task)

-----------------------------------------------------------------------------
(* Properties *)

\* Types, and queue and block within their sizes; the task is beyond its test
\* of the state only while the state says connected (mqtt_client_task).
TypeOK ==
  /\ state \in States
  /\ queued \in Seq(PacketTypes) /\ Len(queued) <= MAX_MESSAGES
  /\ msg_queue \in Seq(1..Len(queued)) /\ Len(msg_queue) <= MQTT_QUEUE_SIZE
  /\ next_packet_id \in 0..MAX_PACKET_ID
  /\ socket \in {"up", "closed", "broken"}
  /\ inbound \in Seq(Units)
  /\ buf \in Seq(Units) /\ Len(buf) <= BLOCK
  /\ pc \in {"loop", "send", "select", "receive", "handle", "lost"}
  /\ pc \notin {"loop", "lost"} => state = MQTT_STATE_CONNECTED
  /\ buf = <<>> \/ pc \in {"receive", "handle"}
  /\ pc = "receive" => Len(buf) < BLOCK
  /\ pc = "handle" => Len(buf) = BLOCK
  /\ msg \in 0..Len(queued) /\ (pc = "send" <=> msg > 0)
  /\ wire \in Seq([n : 1..Len(queued), id : 0..MAX_PACKET_ID])
  /\ connections \in 0..MAX_CONNECTIONS
  /\ losses \in Nat

Taken == 1..(Len(queued) - Len(msg_queue))

\* Over all losses of the connection, every message that left the queue was
\* sent, or tried, exactly once, in the order of the queue (MQTT_PUBLISH,
\* MQTT_SUBSCRIBE and MQTT_UNSUBSCRIBE in mqtt_client_task): none is sent again.
SentOnceInOrder ==
  /\ \A i \in DOMAIN msg_queue : msg_queue[i] = Len(queued) - Len(msg_queue) + i
  /\ \A i, j \in DOMAIN wire : i < j => wire[i].n < wire[j].n
  /\ {wire[i].n : i \in DOMAIN wire} =
       {n \in Taken : queued[n] \in Encoded /\ ~(pc = "send" /\ n = msg)}

\* No packet has id 0, and an id comes back only after all the others were used
\* (get_next_packet_id at the wrap of its 16 bits).
PacketIds ==
  /\ \A i \in DOMAIN wire : wire[i].id # 0
  /\ \A i, j \in DOMAIN wire :
       (i < j /\ j - i < MAX_PACKET_ID) => wire[i].id # wire[j].id

\* The application is told of no more losses than connections it has made that are
\* not in use any more.  The event does not say which: it may be told of one loss
\* with the next connection up already (mqtt_client_task, line 222).
LossToldOnce ==
  losses + (IF pc = "lost" THEN 1 ELSE 0) + (IF state = MQTT_STATE_CONNECTED THEN 1 ELSE 0)
    <= connections

Starved == pc = "receive" /\ socket = "up" /\ inbound = <<>>

\* A connected task sends what is queued, unless the broker has begun a block
\* of BLOCK bytes and leaves it there (mqtt_receive_packet).
QueueServed ==
  (state = MQTT_STATE_CONNECTED /\ msg_queue # <<>>) ~>
    (pc = "send" \/ state # MQTT_STATE_CONNECTED \/ Starved \/ msg_queue = <<>>)

\* A connection that ended is noticed, also in the middle of a block.
LossNoticed ==
  (state = MQTT_STATE_CONNECTED /\ socket # "up") ~> state # MQTT_STATE_CONNECTED
=============================================================================
