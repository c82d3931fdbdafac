------------------------------ MODULE WsClient ------------------------------
(***************************************************************************)
(* ws_client.c: one task that connects, performs the handshake, sends one  *)
(* queued message and receives once in every round, and closes when the    *)
(* server asks for it.                                                     *)
(*                                                                         *)
(* ws_client_connect, ws_perform_handshake, ws_send_close_frame and        *)
(* ws_send_pong_frame are called by the task and are not part of the       *)
(* repository: connecting opens a descriptor, and the handshake sends a    *)
(* request of ws_handshake.c and verifies the answer with it.  The server, *)
(* the network and the application's queueing are external too.            *)
(***************************************************************************)
EXTENDS WsHandshake, Sequences

CONSTANTS
  WS_QUEUE_SIZE,             (* capacity of msg_queue                      *)
  WS_BUFFER_SIZE,            (* what one recv may return, in units         *)
  MAX_FRAME,                 (* bounds of the environment: units of a      *)
  MAX_INBOUND,               (* frame, units in transit, messages queued   *)
  MAX_MESSAGES,              (* in all, connections made                   *)
  MAX_SOCKETS

ASSUME WsAssumption ==
  /\ WS_QUEUE_SIZE \in Nat \ {0}
  /\ WS_BUFFER_SIZE \in Nat \ {0}
  /\ {MAX_FRAME, MAX_INBOUND, MAX_MESSAGES, MAX_SOCKETS} \subseteq Nat

WS_STATE_DISCONNECTED == "disconnected"
WS_STATE_CONNECTING   == "connecting"
WS_STATE_CONNECTED    == "connected"
WS_STATE_CLOSING      == "closing"
States == {WS_STATE_DISCONNECTED, WS_STATE_CONNECTING, WS_STATE_CONNECTED, WS_STATE_CLOSING}

\* A PING is answered and any other frame but CLOSE goes to the callback.
WS_OPCODE_CLOSE == "close"
Opcodes == {WS_OPCODE_CLOSE, "other"}

\* The stream from the server: the beginning of a frame of some length, or
\* the middle of one.
Middle == [opcode |-> "middle", size |-> 0]
Units  == [opcode : Opcodes, size : 1..MAX_FRAME] \cup {Middle}

WS_EVENT_CONNECTED    == "connected"
WS_EVENT_DISCONNECTED == "disconnected"

VARIABLES
  state,
  socket,                    (* client_ctx->socket; 0 at first             *)
  open,                      (* descriptors that are open                  *)
  key,                       (* the key of the last request                *)
  msg_queue,                 (* messages, by their number                  *)
  pc,                        (* "state": at the switch, or "recv"          *)
  peer,                      (* of socket: "up", "closed" or "broken"      *)
  inbound,                   (* sent by the server and not received yet    *)
  queued,                    (* messages queued so far                     *)
  sent,                      (* messages sent, with their socket, in order *)
  upgraded,                  (* sockets whose server accepted the upgrade  *)
  failed,                    (* sockets on which send or recv failed       *)
  events                     (* what the callback was told of connections  *)

vars == <<state, socket, open, key, msg_queue, pc, peer, inbound, queued, sent,
          upgraded, failed, events>>

Init ==
  /\ state = WS_STATE_DISCONNECTED
  /\ socket = 0
  /\ open = {}
  /\ key \in Keys
  /\ msg_queue = <<>>
  /\ pc = "state"
  /\ peer = "closed"
  /\ inbound = <<>>
  /\ queued = 0
  /\ sent = <<>>
  /\ upgraded = {}
  /\ failed = {}
  /\ events = <<>>

-----------------------------------------------------------------------------
(* The application, the server and the network. *)

Queue ==
  /\ queued < MAX_MESSAGES
  /\ Len(msg_queue) < WS_QUEUE_SIZE
  /\ queued' = queued + 1
  /\ msg_queue' = Append(msg_queue, queued')
  /\ UNCHANGED <<state, socket, open, key, pc, peer, inbound, sent, upgraded, failed, events>>

ServerSends ==
  /\ peer = "up"
  /\ socket \in upgraded
  /\ \E o \in Opcodes, n \in 1..MAX_FRAME :
       /\ Len(inbound) + n <= MAX_INBOUND
       /\ inbound' = inbound \o
            [i \in 1..n |-> IF i = 1 THEN [opcode |-> o, size |-> n] ELSE Middle]
  /\ UNCHANGED <<state, socket, open, key, msg_queue, pc, peer, queued, sent, upgraded,
                 failed, events>>

ConnectionEnds ==
  /\ peer = "up"
  /\ peer' \in {"closed", "broken"}
  /\ UNCHANGED <<state, socket, open, key, msg_queue, pc, inbound, queued, sent, upgraded,
                 failed, events>>

Environment == Queue \/ ServerSends \/ ConnectionEnds

-----------------------------------------------------------------------------
(* ws_client_task: DISCONNECTED and CONNECTING *)

At(s) == pc = "state" /\ state = s

Tell(e) == events' = Append(events, [type |-> e, socket |-> socket])

\* A failing connect changes nothing and is tried again after a second.
Connect ==
  /\ At(WS_STATE_DISCONNECTED)
  /\ socket < MAX_SOCKETS
  /\ socket' = socket + 1
  /\ open' = open \cup {socket'}
  /\ peer' = "up"
  /\ inbound' = <<>>
  /\ state' = WS_STATE_CONNECTING
  /\ UNCHANGED <<key, msg_queue, pc, queued, sent, upgraded, failed, events>>

\* The key's buffer is that of ws_perform_handshake: it may hold anything before
\* ws_generate_handshake_request writes to it.
RequestKey == \E buffer \in Keys : key' \in generate_websocket_key(buffer)

\* The request carries the key; a server that upgrades answers with its accept
\* value.  Whatever came, the task goes by ws_verify_handshake_response.
Answer(response) ==
  /\ At(WS_STATE_CONNECTING)
  /\ peer = "up"
  /\ RequestKey
  /\ upgraded' = IF response = [switching |-> TRUE, upgrade |-> TRUE, connection |-> TRUE,
                                accept |-> key']
                 THEN upgraded \cup {socket} ELSE upgraded

HandshakeDone ==
  /\ \E response \in Responses :
       Answer(response) /\ ws_verify_handshake_response(response, key')
  /\ state' = WS_STATE_CONNECTED
  /\ Tell(WS_EVENT_CONNECTED)
  /\ UNCHANGED <<socket, open, msg_queue, pc, peer, inbound, queued, sent, failed>>

\* Mutant: the descriptor of a failed handshake is left open.
HandshakeRefusedOpen ==
  /\ \E response \in Responses :
       Answer(response) /\ ~ws_verify_handshake_response(response, key')
  /\ state' = WS_STATE_DISCONNECTED
  /\ UNCHANGED <<socket, open, msg_queue, pc, peer, inbound, queued, sent, failed, events>>

HandshakeRefused ==
  /\ \E response \in Responses :
       Answer(response) /\ ~ws_verify_handshake_response(response, key')
  /\ state' = WS_STATE_DISCONNECTED
  /\ open' = open \ {socket}
  /\ peer' = "closed"
  /\ UNCHANGED <<socket, msg_queue, pc, inbound, queued, sent, failed, events>>

HandshakeUnanswered ==
  /\ At(WS_STATE_CONNECTING)
  /\ peer # "up"
  /\ state' = WS_STATE_DISCONNECTED
  /\ open' = open \ {socket}
  /\ RequestKey
  /\ peer' = "closed"
  /\ UNCHANGED <<socket, msg_queue, pc, inbound, queued, sent, upgraded, failed, events>>

-----------------------------------------------------------------------------
(* ws_client_task: CONNECTED *)

NothingToSend ==
  /\ At(WS_STATE_CONNECTED)
  /\ msg_queue = <<>>
  /\ pc' = "recv"
  /\ UNCHANGED <<state, socket, open, key, msg_queue, peer, inbound, queued, sent, upgraded,
                 failed, events>>

\* A message that does not fit the buffer is taken from the queue and dropped.
DropMessage ==
  /\ At(WS_STATE_CONNECTED)
  /\ msg_queue # <<>>
  /\ msg_queue' = Tail(msg_queue)
  /\ pc' = "recv"
  /\ UNCHANGED <<state, socket, open, key, peer, inbound, queued, sent, upgraded, failed, events>>

\* send may take less than the frame; only an error is noticed.
SendMessage ==
  /\ At(WS_STATE_CONNECTED)
  /\ msg_queue # <<>>
  /\ peer # "broken"
  /\ msg_queue' = Tail(msg_queue)
  /\ sent' = Append(sent, [n |-> Head(msg_queue), socket |-> socket])
  /\ pc' = "recv"
  /\ UNCHANGED <<state, socket, open, key, peer, inbound, queued, upgraded, failed, events>>

\* Also for want of memory, with the connection up.  The task goes on to recv.
SendFails ==
  /\ At(WS_STATE_CONNECTED)
  /\ msg_queue # <<>>
  /\ msg_queue' = Tail(msg_queue)
  /\ state' = WS_STATE_DISCONNECTED
  /\ failed' = failed \cup {socket}
  /\ pc' = "recv"
  /\ UNCHANGED <<socket, open, key, peer, inbound, queued, sent, upgraded, events>>

\* ws_decode_frame reads the frame at the beginning of what was received, and
\* fails if some of it is missing or there is no memory; what is behind it is
\* dropped.  The middle of a frame may look like any frame.
Decodings(chunk) ==
  {"error"} \cup
    IF Head(chunk) = Middle THEN Opcodes
    ELSE IF Head(chunk).size <= Len(chunk) THEN {Head(chunk).opcode} ELSE {}

Receive ==
  /\ pc = "recv"
  /\ peer # "broken"
  /\ \E n \in 1..WS_BUFFER_SIZE :
       /\ n <= Len(inbound)
       /\ inbound' = SubSeq(inbound, n + 1, Len(inbound))
       /\ \E opcode \in Decodings(SubSeq(inbound, 1, n)) :
            state' = IF opcode = WS_OPCODE_CLOSE THEN WS_STATE_CLOSING ELSE state
  /\ pc' = "state"
  /\ UNCHANGED <<socket, open, key, msg_queue, peer, queued, sent, upgraded, failed, events>>

\* Mutant: recv is repeated when it returns 0.
ReceiveEndStays == FALSE

\* recv returns 0 and the task does nothing.
ReceiveEnd ==
  /\ pc = "recv"
  /\ peer = "closed"
  /\ inbound = <<>>
  /\ pc' = "state"
  /\ UNCHANGED <<state, socket, open, key, msg_queue, peer, inbound, queued, sent, upgraded,
                 failed, events>>

\* Mutant: a failed receive is told to the callback.
ReceiveFailsTold ==
  /\ pc = "recv"
  /\ peer = "broken"
  /\ state' = WS_STATE_CLOSING
  /\ failed' = failed \cup {socket}
  /\ Tell(WS_EVENT_DISCONNECTED)
  /\ pc' = "state"
  /\ UNCHANGED <<socket, open, key, msg_queue, peer, inbound, queued, sent, upgraded>>

ReceiveFails ==
  /\ pc = "recv"
  /\ peer = "broken"
  /\ state' = WS_STATE_DISCONNECTED
  /\ failed' = failed \cup {socket}
  /\ pc' = "state"
  /\ UNCHANGED <<socket, open, key, msg_queue, peer, inbound, queued, sent, upgraded, events>>

-----------------------------------------------------------------------------
(* ws_client_task: CLOSING *)

Close ==
  /\ At(WS_STATE_CLOSING)
  /\ open' = open \ {socket}
  /\ state' = WS_STATE_DISCONNECTED
  /\ peer' = "closed"
  /\ Tell(WS_EVENT_DISCONNECTED)
  /\ UNCHANGED <<socket, key, msg_queue, pc, inbound, queued, sent, upgraded, failed>>

Task ==
  \/ Connect \/ HandshakeDone \/ HandshakeRefused \/ HandshakeUnanswered
  \/ NothingToSend \/ DropMessage \/ SendMessage \/ SendFails
  \/ Receive \/ ReceiveEnd \/ ReceiveFails
  \/ Close

Next == Environment \/ Task

Spec == Init /\ [][Next]_vars

\* The scheduler runs the task; nothing is promised of the server.
FairSpec == Spec /\ WF_vars(Task)

-----------------------------------------------------------------------------
(* Properties *)

\* Types; the task receives while connected, or after a send failed.
TypeOK ==
  /\ state \in States
  /\ socket \in 0..MAX_SOCKETS
  /\ open \subseteq 1..socket
  /\ key \in Keys
  /\ queued \in 0..MAX_MESSAGES
  /\ msg_queue \in Seq(1..queued) /\ Len(msg_queue) <= WS_QUEUE_SIZE
  /\ pc \in {"state", "recv"}
  /\ pc = "recv" => \/ state = WS_STATE_CONNECTED
                    \/ (state = WS_STATE_DISCONNECTED /\ socket \in failed)
  /\ peer \in {"up", "closed", "broken"}
  /\ inbound \in Seq(Units)
  /\ sent \in Seq([n : 1..queued, socket : 1..socket])
  /\ upgraded \subseteq 1..socket
  /\ failed \subseteq 1..socket
  /\ events \in Seq([type : {WS_EVENT_CONNECTED, WS_EVENT_DISCONNECTED}, socket : 1..socket])

\* Every descriptor that is no longer used has been closed, unless send or recv
\* failed on it: refused handshakes and closed connections leave none behind
\* (ws_client_task, lines 73 and 136; lines 84 and 129 close nothing).
ClosedUnlessFailed ==
  /\ \A s \in open : (s = socket /\ state # WS_STATE_DISCONNECTED) \/ s \in failed
  /\ state # WS_STATE_DISCONNECTED => socket \in open

\* The callback is told that a connection ended at most once and only right
\* after it was told that this connection was made, also when a send fails and
\* a CLOSE is received behind it (ws_client_task, lines 84, 98 and 139).
EventsPaired ==
  /\ \A i \in DOMAIN events : events[i].type = WS_EVENT_DISCONNECTED =>
       i > 1 /\ events[i-1] = [type |-> WS_EVENT_CONNECTED, socket |-> events[i].socket]
  /\ \A i, j \in DOMAIN events : i < j =>
       \/ events[i].socket < events[j].socket
       \/ (events[i].socket = events[j].socket /\ events[i].type # events[j].type)

\* A message is sent only to a server that accepted the upgrade and answered to the
\* key of this connection's request, not to an earlier one, at most once, and in
\* the order of the queue, over all connections.
SentInOrder ==
  /\ \A i \in DOMAIN msg_queue : msg_queue[i] = queued - Len(msg_queue) + i
  /\ \A i \in DOMAIN sent : sent[i].n <= queued - Len(msg_queue)
  /\ \A i, j \in DOMAIN sent : i < j => sent[i].n < sent[j].n
  /\ \A i \in DOMAIN sent : sent[i].socket \in upgraded

Silent == pc = "recv" /\ peer = "up" /\ inbound = <<>>

\* A connected task takes what is queued, unless the server is silent: recv
\* waits without a limit, and every receipt lets one message out.
QueueServed ==
  (state = WS_STATE_CONNECTED /\ msg_queue # <<>>) ~>
    (msg_queue = <<>> \/ state # WS_STATE_CONNECTED \/ Silent)
=============================================================================
