--------------------------- MODULE WsClientProofs ---------------------------
(***************************************************************************)
(* Proofs about WsClient.tla for every size of queue and buffer and every  *)
(* bound on the environment.                                               *)
(***************************************************************************)
EXTENDS WsClient, TlsSetup, SequenceTheorems, TLAPS

-----------------------------------------------------------------------------
(* The strengthening. *)

\* The task receives on a descriptor that is open, also after a send failed.
OpenInv == pc = "recv" => socket \in open

\* Whoever is connected has been upgraded.
UpgradedInv == state = WS_STATE_CONNECTED => socket \in upgraded

InUse == state \in {WS_STATE_CONNECTED, WS_STATE_CLOSING} \/ pc = "recv"

\* While a connection is in use, or may still be closed, the last event is its
\* beginning; before its handshake there is no event of it.
LastEventInv ==
  /\ InUse => /\ events # <<>>
              /\ events[Len(events)] = [type |-> WS_EVENT_CONNECTED, socket |-> socket]
  /\ state = WS_STATE_CONNECTING => \A i \in DOMAIN events : events[i].socket < socket

ClientInv ==
  TypeOK /\ OpenInv /\ UpgradedInv /\ LastEventInv /\ ClosedUnlessFailed /\ EventsPaired
    /\ SentInOrder

-----------------------------------------------------------------------------
(* Lemmas *)

\* What appending does.
LEMMA Appended ==
  ASSUME NEW S, NEW s \in Seq(S), NEW e \in S
  PROVE  /\ Append(s, e) \in Seq(S)
         /\ Len(Append(s, e)) = Len(s) + 1
         /\ DOMAIN Append(s, e) = 1..(Len(s) + 1)
         /\ DOMAIN s = 1..Len(s) /\ Len(s) \in Nat
         /\ \A i \in 1..Len(s) : Append(s, e)[i] = s[i]
         /\ Append(s, e)[Len(s) + 1] = e
OBVIOUS

\* Sent messages and events of some message numbers and sockets are such of more.
SentBy(n, s) == [n : 1..n, socket : 1..s]
EventsOf(s)  == [type : {WS_EVENT_CONNECTED, WS_EVENT_DISCONNECTED}, socket : 1..s]

\* A set of numbers up to one bound is one up to every greater bound.
LEMMA Widens ==
  ASSUME TypeOK, NEW n \in Nat, NEW s \in Nat, n >= queued, s >= socket
  PROVE  /\ msg_queue \in Seq(1..n)
         /\ sent \in Seq(SentBy(n, s))
         /\ events \in Seq(EventsOf(s))
         /\ open \subseteq 1..s /\ upgraded \subseteq 1..s /\ failed \subseteq 1..s
<1>1. queued \in Nat /\ socket \in Nat
  BY WsAssumption DEF TypeOK
<1>2. 1..queued \subseteq 1..n /\ 1..socket \subseteq 1..s
  BY <1>1
<1>3. msg_queue \in Seq(1..queued) /\ sent \in Seq(SentBy(queued, socket))
      /\ events \in Seq(EventsOf(socket))
  BY DEF TypeOK, SentBy, EventsOf
<1>4. SentBy(queued, socket) \subseteq SentBy(n, s) /\ EventsOf(socket) \subseteq EventsOf(s)
  BY <1>2 DEF SentBy, EventsOf
<1>5. sent \in Seq(SentBy(n, s)) /\ events \in Seq(EventsOf(s)) /\ msg_queue \in Seq(1..n)
  BY <1>2, <1>3, <1>4, SeqMonotonic
<1>6. open \subseteq 1..s /\ upgraded \subseteq 1..s /\ failed \subseteq 1..s
  BY <1>2 DEF TypeOK
<1>. QED
  BY <1>5, <1>6

\* The key of a request is a key, generated or left over.
LEMMA KeyGenerated == ASSUME NEW k \in Keys PROVE generate_websocket_key(k) \subseteq Keys
BY DEF generate_websocket_key

\* A connection in use has an open descriptor.
LEMMA SocketOpen ==
  ASSUME ClientInv, state # WS_STATE_DISCONNECTED \/ pc = "recv"
  PROVE  socket \in open /\ socket \in 1..socket /\ socket \in Nat
BY WsAssumption DEF ClientInv, OpenInv, ClosedUnlessFailed, TypeOK

\* The initial state has the invariant.
LEMMA InitInv == Init => ClientInv
<1>. SUFFICES ASSUME Init PROVE ClientInv
  OBVIOUS
<1>. USE WsAssumption
<1>1. TypeOK
  BY DEF Init, TypeOK, States, WS_STATE_DISCONNECTED
<1>2. OpenInv /\ UpgradedInv /\ LastEventInv
  BY DEF Init, OpenInv, UpgradedInv, LastEventInv, InUse, WS_STATE_DISCONNECTED,
     WS_STATE_CONNECTING, WS_STATE_CONNECTED, WS_STATE_CLOSING
<1>3. ClosedUnlessFailed /\ EventsPaired /\ SentInOrder
  BY DEF Init, ClosedUnlessFailed, EventsPaired, SentInOrder
<1>. QED
  BY <1>1, <1>2, <1>3 DEF ClientInv

\* A message is queued.
LEMMA QueueStep ==
  ASSUME ClientInv, Queue
  PROVE  ClientInv'
<1>. USE DEF ClientInv
<1>1. UNCHANGED <<state, socket, open, key, pc, peer, inbound, sent, upgraded, failed, events>>
  BY DEF Queue
<1>2. queued \in Nat /\ queued' = queued + 1 /\ queued' \in 0..MAX_MESSAGES /\ socket \in Nat
  BY WsAssumption DEF Queue, TypeOK
<1>3. /\ msg_queue \in Seq(1..queued') /\ sent \in Seq(SentBy(queued', socket))
      /\ msg_queue' = Append(msg_queue, queued') /\ queued' \in 1..queued'
  <2>1. queued' \in Nat /\ queued' >= queued /\ socket >= socket
    BY <1>2
  <2>2. msg_queue \in Seq(1..queued') /\ sent \in Seq(SentBy(queued', socket))
    BY <1>2, <2>1, Widens
  <2>. QED
    BY <1>2, <2>2 DEF Queue
<1>4. /\ msg_queue' \in Seq(1..queued') /\ Len(msg_queue) \in Nat
      /\ Len(msg_queue') = Len(msg_queue) + 1
      /\ DOMAIN msg_queue' = 1..(Len(msg_queue) + 1) /\ DOMAIN msg_queue = 1..Len(msg_queue)
      /\ \A i \in 1..Len(msg_queue) : msg_queue'[i] = msg_queue[i]
      /\ msg_queue'[Len(msg_queue) + 1] = queued'
  BY <1>3, Appended
<1>5. TypeOK'
  <2>1. Len(msg_queue') <= WS_QUEUE_SIZE
    BY <1>4, WsAssumption DEF Queue
  <2>. QED
    BY <1>1, <1>2, <1>3, <1>4, <2>1 DEF TypeOK, SentBy
<1>6. SentInOrder'
  <2>1. \A i \in DOMAIN msg_queue' : msg_queue'[i] = queued' - Len(msg_queue') + i
    <3>. TAKE i \in DOMAIN msg_queue'
    <3>1. CASE i \in DOMAIN msg_queue
      <4>1. msg_queue[i] = queued - Len(msg_queue) + i
        BY <3>1 DEF SentInOrder
      <4>. QED
        BY <1>2, <1>4, <3>1, <4>1
    <3>2. CASE i = Len(msg_queue) + 1
      BY <1>2, <1>4, <3>2
    <3>. QED
      BY <1>4, <3>1, <3>2
  <2>2. queued' - Len(msg_queue') = queued - Len(msg_queue)
    BY <1>2, <1>4
  <2>. QED
    BY <1>1, <2>1, <2>2 DEF SentInOrder
<1>. QED
  BY <1>1, <1>5, <1>6 DEF OpenInv, UpgradedInv, LastEventInv, InUse, ClosedUnlessFailed, EventsPaired

\* The server sends a frame, or the connection ends.
LEMMA ServerStep ==
  ASSUME ClientInv, ServerSends \/ ConnectionEnds
  PROVE  ClientInv'
<1>. USE DEF ClientInv
<1>1. UNCHANGED <<state, socket, open, key, msg_queue, pc, queued, sent, upgraded, failed, events>>
  BY DEF ServerSends, ConnectionEnds
<1>2. inbound' \in Seq(Units) /\ peer' \in {"up", "closed", "broken"}
  <2>1. CASE ServerSends
    <3>1. PICK o \in Opcodes, n \in 1..MAX_FRAME :
            inbound' = inbound \o
              [i \in 1..n |-> IF i = 1 THEN [opcode |-> o, size |-> n] ELSE Middle]
      BY <2>1 DEF ServerSends
    <3>. DEFINE frame == [i \in 1..n |-> IF i = 1 THEN [opcode |-> o, size |-> n] ELSE Middle]
    <3>2. n \in Nat /\ [opcode |-> o, size |-> n] \in Units
      BY WsAssumption DEF Units
    <3>3. frame \in Seq(Units)
      BY <3>2, SeqDef DEF Units
    <3>. QED
      BY <2>1, <3>1, <3>3, ConcatProperties DEF TypeOK, ServerSends
  <2>2. CASE ConnectionEnds
    BY <2>2 DEF ConnectionEnds, TypeOK
  <2>. QED
    BY <2>1, <2>2
<1>3. TypeOK'
  BY <1>1, <1>2 DEF TypeOK
<1>. QED
  BY <1>1, <1>3 DEF OpenInv, UpgradedInv, LastEventInv, InUse, ClosedUnlessFailed, EventsPaired,
     SentInOrder

\* A new descriptor follows all that were used.
LEMMA ConnectStep ==
  ASSUME ClientInv, Connect
  PROVE  ClientInv'
<1>. USE DEF ClientInv
<1>1. UNCHANGED <<key, msg_queue, pc, queued, sent, upgraded, failed, events>>
  BY DEF Connect
<1>2. /\ state = WS_STATE_DISCONNECTED /\ pc = "state"
      /\ socket \in Nat /\ socket' = socket + 1 /\ socket' \in 0..MAX_SOCKETS
      /\ open' = open \cup {socket'} /\ peer' = "up" /\ inbound' = <<>>
      /\ state' = WS_STATE_CONNECTING /\ queued \in Nat
  BY WsAssumption DEF Connect, At, TypeOK
<1>3. /\ sent \in Seq(SentBy(queued, socket')) /\ events \in Seq(EventsOf(socket'))
      /\ open \subseteq 1..socket' /\ upgraded \subseteq 1..socket' /\ failed \subseteq 1..socket'
  <2>1. socket' \in Nat /\ socket' >= socket /\ queued >= queued
    BY <1>2
  <2>. QED
    BY <1>2, <2>1, Widens
<1>4. TypeOK'
  <2>1. socket' \in 1..socket' /\ <<>> \in Seq(Units)
    BY <1>2
  <2>. QED
    BY <1>1, <1>2, <1>3, <2>1 DEF TypeOK, States, SentBy, EventsOf
<1>5. (OpenInv /\ UpgradedInv)'
  BY <1>1, <1>2 DEF OpenInv, UpgradedInv, WS_STATE_CONNECTING, WS_STATE_CONNECTED
<1>6. LastEventInv'
  <2>1. \A i \in DOMAIN events : events[i].socket \in 1..socket
    <3>. TAKE i \in DOMAIN events
    <3>1. events \in Seq(EventsOf(socket))
      BY DEF TypeOK, EventsOf
    <3>2. events[i] \in EventsOf(socket)
      BY <3>1, LenProperties, ElementOfSeq
    <3>. QED
      BY <3>2 DEF EventsOf
  <2>. QED
    BY <1>1, <1>2, <2>1 DEF LastEventInv, InUse, WS_STATE_CONNECTING, WS_STATE_CONNECTED,
       WS_STATE_CLOSING
<1>7. ClosedUnlessFailed'
  BY <1>1, <1>2 DEF ClosedUnlessFailed, WS_STATE_CONNECTING, WS_STATE_DISCONNECTED
<1>. QED
  BY <1>1, <1>4, <1>5, <1>6, <1>7 DEF EventsPaired, SentInOrder

\* A handshake that was verified was accepted by the server.
LEMMA HandshakeDoneStep ==
  ASSUME ClientInv, HandshakeDone
  PROVE  ClientInv'
<1>. USE DEF ClientInv
<1>1. UNCHANGED <<socket, open, msg_queue, pc, peer, inbound, queued, sent, failed>>
  BY DEF HandshakeDone
<1>2. /\ state = WS_STATE_CONNECTING /\ pc = "state" /\ state' = WS_STATE_CONNECTED
      /\ events' = Append(events, [type |-> WS_EVENT_CONNECTED, socket |-> socket])
  BY DEF HandshakeDone, Answer, At, Tell
<1>3. key' \in Keys
  BY KeyGenerated DEF HandshakeDone, Answer, RequestKey
<1>4. upgraded' = upgraded \cup {socket}
  <2>1. PICK response \in Responses :
          Answer(response) /\ ws_verify_handshake_response(response, key')
    BY DEF HandshakeDone
  <2>2. response = [switching |-> TRUE, upgrade |-> TRUE, connection |-> TRUE, accept |-> key']
    BY <2>1 DEF Responses, ws_verify_handshake_response
  <2>. QED
    BY <2>1, <2>2 DEF Answer
<1>5. socket \in open /\ socket \in 1..socket
  BY <1>2, SocketOpen DEF WS_STATE_CONNECTING, WS_STATE_DISCONNECTED
<1>. DEFINE e == [type |-> WS_EVENT_CONNECTED, socket |-> socket]
<1>6. /\ events' \in Seq(EventsOf(socket)) /\ Len(events) \in Nat
      /\ Len(events') = Len(events) + 1
      /\ DOMAIN events' = 1..(Len(events) + 1) /\ DOMAIN events = 1..Len(events)
      /\ \A i \in 1..Len(events) : events'[i] = events[i]
      /\ events'[Len(events) + 1] = e
  <2>1. events \in Seq(EventsOf(socket)) /\ e \in EventsOf(socket)
    BY <1>5 DEF TypeOK, EventsOf
  <2>. QED
    BY <1>2, <2>1, Appended
<1>7. TypeOK'
  BY <1>1, <1>2, <1>3, <1>4, <1>5, <1>6 DEF TypeOK, States, EventsOf
<1>8. (OpenInv /\ UpgradedInv)'
  BY <1>1, <1>2, <1>4 DEF OpenInv, UpgradedInv
<1>9. LastEventInv'
  BY <1>1, <1>2, <1>6 DEF LastEventInv, WS_STATE_CONNECTED, WS_STATE_CONNECTING
<1>10. ClosedUnlessFailed'
  BY <1>1, <1>2, <1>5 DEF ClosedUnlessFailed, WS_STATE_CONNECTED, WS_STATE_CONNECTING,
     WS_STATE_DISCONNECTED
<1>11. EventsPaired'
  <2>1. \A i \in 1..Len(events) : events[i].socket < socket
    BY <1>2, <1>6 DEF LastEventInv
  <2>2. ASSUME NEW i \in DOMAIN events', events'[i].type = WS_EVENT_DISCONNECTED
        PROVE  i > 1 /\ events'[i-1] = [type |-> WS_EVENT_CONNECTED, socket |-> events'[i].socket]
    <3>1. i \in 1..Len(events)
      BY <1>6, <2>2 DEF WS_EVENT_CONNECTED, WS_EVENT_DISCONNECTED
    <3>2. i \in DOMAIN events /\ events[i].type = WS_EVENT_DISCONNECTED
      BY <1>6, <2>2, <3>1
    <3>3. i > 1 /\ events[i-1] = [type |-> WS_EVENT_CONNECTED, socket |-> events[i].socket]
      BY <3>2 DEF EventsPaired
    <3>4. i - 1 \in 1..Len(events)
      BY <1>6, <3>1, <3>3
    <3>. QED
      BY <1>6, <3>1, <3>3, <3>4
  <2>3. ASSUME NEW i \in DOMAIN events', NEW j \in DOMAIN events', i < j
        PROVE  \/ events'[i].socket < events'[j].socket
               \/ events'[i].socket = events'[j].socket /\ events'[i].type # events'[j].type
    <3>1. i \in 1..Len(events)
      BY <1>6, <2>3
    <3>2. CASE j = Len(events) + 1
      BY <1>6, <2>1, <3>1, <3>2
    <3>3. CASE j \in 1..Len(events)
      BY <1>6, <2>3, <3>1, <3>3 DEF EventsPaired
    <3>. QED
      BY <1>6, <3>2, <3>3
  <2>. QED
    BY <2>2, <2>3 DEF EventsPaired
<1>12. SentInOrder'
  BY <1>1, <1>4 DEF SentInOrder
<1>. QED
  BY <1>7, <1>8, <1>9, <1>10, <1>11, <1>12

\* A handshake that failed closes its descriptor.
LEMMA HandshakeFailsStep ==
  ASSUME ClientInv, HandshakeRefused \/ HandshakeUnanswered
  PROVE  ClientInv'
<1>. USE DEF ClientInv
<1>1. UNCHANGED <<socket, msg_queue, pc, inbound, queued, sent, failed, events>>
  BY DEF HandshakeRefused, HandshakeUnanswered
<1>2. /\ state = WS_STATE_CONNECTING /\ pc = "state" /\ state' = WS_STATE_DISCONNECTED
      /\ open' = open \ {socket} /\ peer' = "closed"
  BY DEF HandshakeRefused, HandshakeUnanswered, Answer, At
<1>3. key' \in Keys
  BY KeyGenerated DEF HandshakeRefused, HandshakeUnanswered, Answer, RequestKey
<1>4. upgraded \subseteq upgraded' /\ upgraded' \subseteq upgraded \cup {socket}
  BY DEF HandshakeRefused, HandshakeUnanswered, Answer
<1>5. socket \in 1..socket
  BY <1>2, SocketOpen DEF WS_STATE_CONNECTING, WS_STATE_DISCONNECTED
<1>6. TypeOK'
  BY <1>1, <1>2, <1>3, <1>4, <1>5 DEF TypeOK, States
<1>7. (OpenInv /\ UpgradedInv /\ LastEventInv)'
  BY <1>1, <1>2 DEF OpenInv, UpgradedInv, LastEventInv, InUse, WS_STATE_DISCONNECTED,
     WS_STATE_CONNECTING, WS_STATE_CONNECTED, WS_STATE_CLOSING
<1>8. ClosedUnlessFailed'
  BY <1>1, <1>2 DEF ClosedUnlessFailed
<1>. QED
  BY <1>1, <1>4, <1>6, <1>7, <1>8 DEF EventsPaired, SentInOrder

\* What is left of the queue when its first message has been taken.
LEMMA QueueTaken ==
  ASSUME ClientInv, msg_queue # <<>>, queued' = queued, msg_queue' = Tail(msg_queue)
  PROVE  /\ msg_queue' \in Seq(1..queued) /\ Len(msg_queue') <= WS_QUEUE_SIZE
         /\ Len(msg_queue') = Len(msg_queue) - 1 /\ Len(msg_queue) \in Nat
         /\ queued \in Nat /\ Head(msg_queue) \in 1..queued
         /\ Head(msg_queue) = queued - Len(msg_queue')
         /\ \A i \in DOMAIN msg_queue' : msg_queue'[i] = queued' - Len(msg_queue') + i
<1>. USE DEF ClientInv
<1>1. /\ msg_queue \in Seq(1..queued) /\ Len(msg_queue) \in Nat \ {0} /\ queued \in Nat
      /\ Len(msg_queue) <= WS_QUEUE_SIZE /\ Head(msg_queue) = msg_queue[1]
      /\ DOMAIN msg_queue = 1..Len(msg_queue) /\ WS_QUEUE_SIZE \in Nat
  BY LenProperties, EmptySeq, WsAssumption DEF TypeOK
<1>2. /\ Head(msg_queue) \in 1..queued /\ msg_queue' \in Seq(1..queued)
      /\ Len(msg_queue') = Len(msg_queue) - 1
      /\ \A i \in 1..Len(msg_queue') : msg_queue'[i] = msg_queue[i + 1]
  BY <1>1, HeadTailProperties
<1>3. \A i \in DOMAIN msg_queue : msg_queue[i] = queued - Len(msg_queue) + i
  BY DEF SentInOrder
<1>4. Head(msg_queue) = queued - Len(msg_queue')
  <2>1. 1 \in DOMAIN msg_queue
    BY <1>1
  <2>2. msg_queue[1] = queued - Len(msg_queue) + 1
    BY <1>3, <2>1
  <2>. QED
    BY <1>1, <1>2, <2>2
<1>5. \A i \in DOMAIN msg_queue' : msg_queue'[i] = queued' - Len(msg_queue') + i
  <2>. TAKE i \in DOMAIN msg_queue'
  <2>1. i \in 1..Len(msg_queue')
    BY <1>2, LenProperties
  <2>2. i + 1 \in DOMAIN msg_queue /\ msg_queue'[i] = msg_queue[i + 1]
    BY <1>1, <1>2, <2>1
  <2>3. msg_queue[i + 1] = queued - Len(msg_queue) + (i + 1)
    BY <1>3, <2>2
  <2>. QED
    BY <1>1, <1>2, <2>1, <2>2, <2>3
<1>. QED
  BY <1>1, <1>2, <1>4, <1>5

\* The message goes to the server, which has been upgraded.
LEMMA SendMessageStep ==
  ASSUME ClientInv, SendMessage
  PROVE  ClientInv'
<1>. USE DEF ClientInv
<1>1. UNCHANGED <<state, socket, open, key, peer, inbound, queued, upgraded, failed, events>>
  BY DEF SendMessage
<1>2. /\ state = WS_STATE_CONNECTED /\ pc = "state" /\ pc' = "recv" /\ msg_queue # <<>>
      /\ msg_queue' = Tail(msg_queue)
      /\ sent' = Append(sent, [n |-> Head(msg_queue), socket |-> socket])
  BY DEF SendMessage, At
<1>3. /\ msg_queue' \in Seq(1..queued) /\ Len(msg_queue') <= WS_QUEUE_SIZE
      /\ Len(msg_queue') = Len(msg_queue) - 1 /\ Len(msg_queue) \in Nat /\ queued \in Nat
      /\ Head(msg_queue) \in 1..queued /\ Head(msg_queue) = queued - Len(msg_queue')
      /\ \A i \in DOMAIN msg_queue' : msg_queue'[i] = queued' - Len(msg_queue') + i
  BY <1>1, <1>2, QueueTaken
<1>4. socket \in open /\ socket \in 1..socket /\ socket \in upgraded
  BY <1>2, SocketOpen DEF UpgradedInv, WS_STATE_CONNECTED, WS_STATE_DISCONNECTED
<1>. DEFINE e == [n |-> Head(msg_queue), socket |-> socket]
<1>5. sent \in Seq(SentBy(queued, socket)) /\ e \in SentBy(queued, socket)
  BY <1>3, <1>4 DEF TypeOK, SentBy
<1>6. /\ sent' \in Seq(SentBy(queued, socket)) /\ Len(sent) \in Nat
      /\ DOMAIN sent' = 1..(Len(sent) + 1) /\ DOMAIN sent = 1..Len(sent)
      /\ \A i \in 1..Len(sent) : sent'[i] = sent[i]
      /\ sent'[Len(sent) + 1] = e
  BY <1>2, <1>5, Appended
<1>7. TypeOK'
  BY <1>1, <1>2, <1>3, <1>6 DEF TypeOK, SentBy
<1>8. (OpenInv /\ UpgradedInv /\ LastEventInv)'
  BY <1>1, <1>2, <1>4 DEF OpenInv, UpgradedInv, LastEventInv, InUse
<1>9. SentInOrder'
  <2>1. \A i \in 1..Len(sent) : sent[i].n \in Nat /\ sent[i].n < Head(msg_queue)
    <3>. TAKE i \in 1..Len(sent)
    <3>1. sent[i] \in SentBy(queued, socket)
      BY <1>5, ElementOfSeq
    <3>2. sent[i].n \in Nat
      BY <3>1 DEF SentBy
    <3>3. sent[i].n <= queued - Len(msg_queue)
      BY <1>6 DEF SentInOrder
    <3>. QED
      BY <1>3, <3>2, <3>3
  <2>2. \A i \in DOMAIN sent' : sent'[i].n <= queued' - Len(msg_queue')
    <3>. TAKE i \in DOMAIN sent'
    <3>1. CASE i \in 1..Len(sent)
      BY <1>1, <1>3, <1>6, <2>1, <3>1
    <3>2. CASE i = Len(sent) + 1
      BY <1>1, <1>3, <1>6, <3>2
    <3>. QED
      BY <1>6, <3>1, <3>2
  <2>3. ASSUME NEW i \in DOMAIN sent', NEW j \in DOMAIN sent', i < j
        PROVE  sent'[i].n < sent'[j].n
    <3>1. i \in 1..Len(sent)
      BY <1>6, <2>3
    <3>2. CASE j = Len(sent) + 1
      BY <1>6, <2>1, <3>1, <3>2
    <3>3. CASE j \in 1..Len(sent)
      BY <1>6, <2>3, <3>1, <3>3 DEF SentInOrder
    <3>. QED
      BY <1>6, <3>2, <3>3
  <2>4. \A i \in DOMAIN sent' : sent'[i].socket \in upgraded'
    <3>. TAKE i \in DOMAIN sent'
    <3>1. CASE i \in 1..Len(sent)
      BY <1>1, <1>6, <3>1 DEF SentInOrder
    <3>2. CASE i = Len(sent) + 1
      BY <1>1, <1>4, <1>6, <3>2
    <3>. QED
      BY <1>6, <3>1, <3>2
  <2>. QED
    BY <1>3, <2>2, <2>3, <2>4 DEF SentInOrder
<1>. QED
  BY <1>1, <1>7, <1>8, <1>9 DEF ClosedUnlessFailed, EventsPaired

\* There is nothing to send, the message is dropped, or send fails.
LEMMA SendNothingStep ==
  ASSUME ClientInv, NothingToSend \/ DropMessage \/ SendFails
  PROVE  ClientInv'
<1>. USE DEF ClientInv
<1>1. /\ UNCHANGED <<socket, open, key, peer, inbound, queued, sent, upgraded, events>>
      /\ state = WS_STATE_CONNECTED /\ pc = "state" /\ pc' = "recv"
      /\ \/ UNCHANGED <<state, failed>>
         \/ state' = WS_STATE_DISCONNECTED /\ failed' = failed \cup {socket}
      /\ \/ UNCHANGED msg_queue
         \/ msg_queue # <<>> /\ msg_queue' = Tail(msg_queue)
  BY DEF NothingToSend, DropMessage, SendFails, At
<1>2. socket \in open /\ socket \in 1..socket
  BY <1>1, SocketOpen DEF WS_STATE_CONNECTED, WS_STATE_DISCONNECTED
<1>3. /\ msg_queue' \in Seq(1..queued) /\ Len(msg_queue') <= WS_QUEUE_SIZE
      /\ queued - Len(msg_queue) <= queued' - Len(msg_queue')
      /\ Len(msg_queue) \in Nat /\ Len(msg_queue') \in Nat /\ queued \in Nat
      /\ \A i \in DOMAIN msg_queue' : msg_queue'[i] = queued' - Len(msg_queue') + i
  <2>0. msg_queue \in Seq(1..queued) /\ Len(msg_queue) <= WS_QUEUE_SIZE /\ queued \in Nat
    BY WsAssumption DEF TypeOK
  <2>1. CASE UNCHANGED msg_queue
    BY <1>1, <2>0, <2>1, LenProperties DEF SentInOrder
  <2>2. CASE msg_queue # <<>> /\ msg_queue' = Tail(msg_queue)
    <3>1. /\ msg_queue' \in Seq(1..queued) /\ Len(msg_queue') <= WS_QUEUE_SIZE
          /\ Len(msg_queue') = Len(msg_queue) - 1 /\ Len(msg_queue) \in Nat
          /\ \A i \in DOMAIN msg_queue' : msg_queue'[i] = queued' - Len(msg_queue') + i
      BY <1>1, <2>2, QueueTaken
    <3>2. Len(msg_queue') \in Nat
      BY <3>1, LenProperties
    <3>. QED
      BY <1>1, <2>0, <3>1, <3>2
  <2>. QED
    BY <1>1, <2>1, <2>2
<1>4. TypeOK'
  BY <1>1, <1>2, <1>3 DEF TypeOK, States
<1>5. (OpenInv /\ UpgradedInv /\ LastEventInv)'
  BY <1>1, <1>2 DEF OpenInv, UpgradedInv, LastEventInv, InUse, WS_STATE_DISCONNECTED,
     WS_STATE_CONNECTING, WS_STATE_CONNECTED
<1>6. ClosedUnlessFailed'
  BY <1>1, <1>2 DEF ClosedUnlessFailed
<1>7. SentInOrder'
  <2>1. \A i \in DOMAIN sent : sent[i].n <= queued' - Len(msg_queue')
    <3>. TAKE i \in DOMAIN sent
    <3>1. sent \in Seq(SentBy(queued, socket))
      BY DEF TypeOK, SentBy
    <3>2. sent[i] \in SentBy(queued, socket)
      BY <3>1, LenProperties, ElementOfSeq
    <3>3. sent[i].n \in Nat /\ sent[i].n <= queued - Len(msg_queue)
      BY <3>2 DEF SentBy, SentInOrder
    <3>. QED
      BY <1>1, <1>3, <3>3
  <2>. QED
    BY <1>1, <1>3, <2>1 DEF SentInOrder
<1>. QED
  BY <1>1, <1>4, <1>5, <1>6, <1>7 DEF EventsPaired

\* Something was received, or the end; recv may have failed.
LEMMA ReceiveStep ==
  ASSUME ClientInv, Receive \/ ReceiveEnd \/ ReceiveFails
  PROVE  ClientInv'
<1>. USE DEF ClientInv
<1>1. /\ UNCHANGED <<socket, open, key, msg_queue, peer, queued, sent, upgraded, events>>
      /\ pc = "recv" /\ pc' = "state"
      /\ \/ state' \in {state, WS_STATE_CLOSING} /\ UNCHANGED failed
         \/ state' = WS_STATE_DISCONNECTED /\ failed' = failed \cup {socket}
  BY DEF Receive, ReceiveEnd, ReceiveFails
<1>2. inbound' \in Seq(Units)
  <2>1. CASE Receive
    <3>1. PICK n \in 1..WS_BUFFER_SIZE :
            n <= Len(inbound) /\ inbound' = SubSeq(inbound, n + 1, Len(inbound))
      BY <2>1 DEF Receive
    <3>2. inbound \in Seq(Units) /\ Len(inbound) \in Nat /\ n \in Nat
      BY LenProperties, WsAssumption DEF TypeOK
    <3>3. \A i \in (n + 1)..Len(inbound) : inbound[i] \in Units
      BY <3>2, ElementOfSeq
    <3>. QED
      BY <3>1, <3>2, <3>3, SubSeqProperties
  <2>2. CASE ReceiveEnd \/ ReceiveFails
    BY <2>2 DEF ReceiveEnd, ReceiveFails, TypeOK
  <2>. QED
    BY <2>1, <2>2
<1>3. socket \in open /\ socket \in 1..socket
  BY <1>1, SocketOpen
<1>4. state \in {WS_STATE_CONNECTED, WS_STATE_DISCONNECTED}
  BY <1>1 DEF TypeOK
<1>5. TypeOK'
  BY <1>1, <1>2, <1>3, <1>4 DEF TypeOK, States
<1>6. (OpenInv /\ UpgradedInv)'
  BY <1>1 DEF OpenInv, UpgradedInv, WS_STATE_DISCONNECTED, WS_STATE_CONNECTED, WS_STATE_CLOSING
<1>7. LastEventInv'
  BY <1>1, <1>4 DEF LastEventInv, InUse, WS_STATE_DISCONNECTED, WS_STATE_CONNECTED,
     WS_STATE_CONNECTING, WS_STATE_CLOSING
<1>8. ClosedUnlessFailed'
  BY <1>1, <1>3 DEF ClosedUnlessFailed, WS_STATE_CLOSING, WS_STATE_DISCONNECTED
<1>. QED
  BY <1>1, <1>5, <1>6, <1>7, <1>8 DEF EventsPaired, SentInOrder

\* The end of a connection is told behind its beginning.
LEMMA CloseStep ==
  ASSUME ClientInv, Close
  PROVE  ClientInv'
<1>. USE DEF ClientInv
<1>1. UNCHANGED <<socket, key, msg_queue, pc, inbound, queued, sent, upgraded, failed>>
  BY DEF Close
<1>2. /\ state = WS_STATE_CLOSING /\ pc = "state" /\ state' = WS_STATE_DISCONNECTED
      /\ open' = open \ {socket} /\ peer' = "closed"
      /\ events' = Append(events, [type |-> WS_EVENT_DISCONNECTED, socket |-> socket])
  BY DEF Close, At, Tell
<1>3. socket \in open /\ socket \in 1..socket /\ socket \in Nat
  BY <1>2, SocketOpen DEF WS_STATE_CLOSING, WS_STATE_DISCONNECTED
<1>. DEFINE e == [type |-> WS_EVENT_DISCONNECTED, socket |-> socket]
            n == Len(events)
<1>4. events \in Seq(EventsOf(socket)) /\ e \in EventsOf(socket)
  BY <1>3 DEF TypeOK, EventsOf
<1>5. /\ events' \in Seq(EventsOf(socket)) /\ n \in Nat
      /\ DOMAIN events' = 1..(n + 1) /\ DOMAIN events = 1..n
      /\ \A i \in 1..n : events'[i] = events[i]
      /\ events'[n + 1] = e
  BY <1>2, <1>4, Appended
<1>6. n >= 1 /\ events[n] = [type |-> WS_EVENT_CONNECTED, socket |-> socket]
  <2>1. events # <<>> /\ events[n] = [type |-> WS_EVENT_CONNECTED, socket |-> socket]
    BY <1>2 DEF LastEventInv, InUse
  <2>. QED
    BY <1>4, <2>1, EmptySeq
<1>. HIDE DEF n
<1>7. \A i \in 1..n : events[i].socket \in Nat
  <2>. TAKE i \in 1..n
  <2>1. events[i] \in EventsOf(socket)
    BY <1>4, ElementOfSeq DEF n
  <2>. QED
    BY <2>1 DEF EventsOf
<1>8. TypeOK'
  BY <1>1, <1>2, <1>5 DEF TypeOK, States, EventsOf
<1>9. (OpenInv /\ UpgradedInv /\ LastEventInv)'
  BY <1>1, <1>2 DEF OpenInv, UpgradedInv, LastEventInv, InUse, WS_STATE_DISCONNECTED,
     WS_STATE_CONNECTING, WS_STATE_CONNECTED, WS_STATE_CLOSING
<1>10. ClosedUnlessFailed'
  BY <1>1, <1>2 DEF ClosedUnlessFailed
<1>11. EventsPaired'
  \* Whatever was told before the beginning of this connection is of an earlier one.
  <2>1. ASSUME NEW i \in 1..n, i < n
        PROVE  events[i].socket < socket
    <3>1. n \in 1..n /\ n \in DOMAIN events /\ i \in DOMAIN events
      BY <1>5, <1>6
    <3>2. \/ events[i].socket < socket
          \/ events[i].socket = socket /\ events[i].type # WS_EVENT_CONNECTED
      BY <1>6, <2>1, <3>1 DEF EventsPaired
    <3>3. CASE events[i].socket = socket /\ events[i].type # WS_EVENT_CONNECTED
      <4>1. events[i].type = WS_EVENT_DISCONNECTED
        <5>1. events[i] \in EventsOf(socket)
          BY <1>4, ElementOfSeq DEF n
        <5>. QED
          BY <3>3, <5>1 DEF EventsOf
      <4>2. i > 1 /\ events[i-1] = [type |-> WS_EVENT_CONNECTED, socket |-> socket]
        BY <3>1, <3>3, <4>1 DEF EventsPaired
      <4>3. i - 1 \in DOMAIN events /\ i - 1 < n
        BY <1>5, <2>1, <4>2
      <4>4. \/ events[i-1].socket < events[n].socket
            \/ events[i-1].type # events[n].type
        BY <3>1, <4>3 DEF EventsPaired
      <4>. QED
        BY <1>3, <1>6, <4>2, <4>4
    <3>. QED
      BY <3>2, <3>3
  <2>2. ASSUME NEW i \in DOMAIN events', events'[i].type = WS_EVENT_DISCONNECTED
        PROVE  i > 1 /\ events'[i-1] = [type |-> WS_EVENT_CONNECTED, socket |-> events'[i].socket]
    <3>1. CASE i = n + 1
      BY <1>5, <1>6, <3>1
    <3>2. CASE i \in 1..n
      <4>1. events[i].type = WS_EVENT_DISCONNECTED /\ i \in DOMAIN events
        BY <1>5, <2>2, <3>2
      <4>2. i > 1 /\ events[i-1] = [type |-> WS_EVENT_CONNECTED, socket |-> events[i].socket]
        BY <4>1 DEF EventsPaired
      <4>3. i - 1 \in 1..n
        BY <1>5, <3>2, <4>2
      <4>. QED
        BY <1>5, <3>2, <4>2, <4>3
    <3>. QED
      BY <1>5, <3>1, <3>2
  <2>3. ASSUME NEW i \in DOMAIN events', NEW j \in DOMAIN events', i < j
        PROVE  \/ events'[i].socket < events'[j].socket
               \/ events'[i].socket = events'[j].socket /\ events'[i].type # events'[j].type
    <3>1. i \in 1..n
      BY <1>5, <2>3
    <3>2. CASE j = n + 1 /\ i = n
      BY <1>5, <1>6, <3>1, <3>2 DEF WS_EVENT_CONNECTED, WS_EVENT_DISCONNECTED
    <3>3. CASE j = n + 1 /\ i < n
      BY <1>5, <2>1, <3>1, <3>3
    <3>4. CASE j \in 1..n
      BY <1>5, <2>3, <3>1, <3>4 DEF EventsPaired
    <3>. QED
      BY <1>5, <3>1, <3>2, <3>3, <3>4
  <2>. QED
    BY <2>2, <2>3 DEF EventsPaired
<1>. QED
  BY <1>1, <1>8, <1>9, <1>10, <1>11 DEF SentInOrder

\* Every step keeps the invariant.
LEMMA NextInv == ClientInv /\ [Next]_vars => ClientInv'
<1>. SUFFICES ASSUME ClientInv, [Next]_vars PROVE ClientInv'
  OBVIOUS
<1>1. CASE UNCHANGED vars
  BY <1>1 DEF vars, ClientInv, TypeOK, OpenInv, UpgradedInv, LastEventInv, InUse,
     ClosedUnlessFailed, EventsPaired, SentInOrder
<1>2. CASE Environment
  BY <1>2, QueueStep, ServerStep DEF Environment
<1>3. CASE Task
  BY <1>3, ConnectStep, HandshakeDoneStep, HandshakeFailsStep, SendNothingStep, SendMessageStep,
     ReceiveStep, CloseStep DEF Task
<1>. QED
  BY <1>1, <1>2, <1>3 DEF Next

\* The strengthening holds in every state.
LEMMA Invariance == Spec => []ClientInv
<1>. QED
  BY InitInv, NextInv, PTL DEF Spec

-----------------------------------------------------------------------------
(* The theorems. *)

\* Queue and task stay in the states ws_client_task is written for: it receives
\* only while connected or right after a send failed.
THEOREM TypeCorrect == Spec => []TypeOK
<1>1. ClientInv => TypeOK
  BY DEF ClientInv
<1>. QED
  BY <1>1, Invariance, PTL

\* A descriptor that is no longer used is closed, unless send or recv failed on
\* it (ws_client_task, lines 84 and 129).
THEOREM DescriptorsClosed == Spec => []ClosedUnlessFailed
<1>1. ClientInv => ClosedUnlessFailed
  BY DEF ClientInv
<1>. QED
  BY <1>1, Invariance, PTL

\* The callback is told of the end of a connection once, right after its
\* beginning, for any order of failing sends and CLOSE frames.
THEOREM ConnectionsPaired == Spec => []EventsPaired
<1>1. ClientInv => EventsPaired
  BY DEF ClientInv
<1>. QED
  BY <1>1, Invariance, PTL

\* Messages go out at most once, in their order, and only to a server that
\* accepted the upgrade (ws_client_task, ws_verify_handshake_response).
THEOREM MessagesSentInOrder == Spec => []SentInOrder
<1>1. ClientInv => SentInOrder
  BY DEF ClientInv
<1>. QED
  BY <1>1, Invariance, PTL
-----------------------------------------------------------------------------
(* The TLS set-up. *)

\* The objects of a context after the first n steps of its creation.
Made(k, n) ==
  IF n = 0 THEN {}
  ELSE IF k = WS_SSL THEN WsObjects
  ELSE Random \cup (IF n = 1 THEN {}
                    ELSE IF k \in AES THEN {"aes"}
                    ELSE IF k \in TLS THEN TlsObjects ELSE {})

\* A context holds what the steps behind it have made: nothing before its
\* creation, everything of its kind when it is ready, and after a failure that
\* leaves it to its caller everything, because ws_ssl_init makes it at once.
HeldInv ==
  \A c \in Contexts :
    /\ status[c] = "none"     => held[c] = {}
    /\ status[c] = "creating" => held[c] = Made(kind[c], step[c] - 1)
    /\ status[c] = "ready"    => held[c] = Made(kind[c], Len(Steps(kind[c])))
    /\ status[c] = "failed"   => held[c] = WsObjects

FailedInv == \A c \in Contexts : status[c] = "failed" => kind[c] = WS_SSL

TlsInv == TlsTypeOK /\ HeldInv /\ FailedInv /\ FreesWhatItMade

\* The steps of each kind: what they add, and that a context is destroyed only
\* where its kind's objects are all there, or freed at its first step or, for AES,
\* at its second.
LEMMA StepsShape ==
  ASSUME NEW k \in Kinds
  PROVE  /\ Len(Steps(k)) \in Nat \ {0} /\ DOMAIN Steps(k) = 1..Len(Steps(k))
         /\ k # WS_SSL => (Len(Steps(k)) = 1 <=> k \notin AES \cup TLS)
         /\ \A n \in 1..Len(Steps(k)) :
              /\ Steps(k)[n].makes \subseteq Objects
              /\ Made(k, n) = Made(k, n - 1) \cup Steps(k)[n].makes
              /\ Steps(k)[n].failure = "leave" => k = WS_SSL /\ Made(k, n) = WsObjects
              /\ Steps(k)[n].failure = "destroy" => k \in TLS /\ Made(k, n) = Random \cup TlsObjects
              /\ Steps(k)[n].failure = "free" => n = 1 \/ k \in AES
<1>1. /\ Len(TlsSteps) = 7 /\ DOMAIN TlsSteps = 1..7
      /\ TlsSteps[1] = Step(TlsObjects, "destroy")
      /\ \A n \in 2..7 : TlsSteps[n] = Step({}, "destroy")
  BY DEF TlsSteps, TlsFailures
<1>2. /\ Len(WsSteps) = 7 /\ DOMAIN WsSteps = 1..7
      /\ WsSteps[1] = Step(WsObjects, "leave")
      /\ \A n \in 2..7 : WsSteps[n] = Step({}, "leave")
  BY DEF WsSteps
<1>3. CASE k = WS_SSL
  <2>1. Steps(k) = WsSteps
    BY <1>3 DEF Steps
  <2>2. \A n \in Nat : Made(k, n) = IF n = 0 THEN {} ELSE WsObjects
    BY <1>3 DEF Made
  <2>3. \A n \in 1..7 : /\ WsSteps[n].failure = "leave"
                        /\ WsSteps[n].makes = IF n = 1 THEN WsObjects ELSE {}
    BY <1>2 DEF Step
  <2>4. WsObjects \subseteq Objects
    BY DEF Objects
  <2>5. ASSUME NEW n \in 1..7
        PROVE  /\ n - 1 \in Nat /\ Made(k, n) = WsObjects
               /\ Made(k, n - 1) = IF n = 1 THEN {} ELSE WsObjects
    BY <2>2
  <2>6. ASSUME NEW n \in 1..7
        PROVE  /\ Steps(k)[n].makes \subseteq Objects
               /\ Made(k, n) = Made(k, n - 1) \cup Steps(k)[n].makes
               /\ Steps(k)[n].failure = "leave"
    <3>1. CASE n = 1
      BY <2>1, <2>3, <2>4, <2>5, <3>1
    <3>2. CASE n # 1
      BY <2>1, <2>3, <2>4, <2>5, <3>2
    <3>. QED
      BY <3>1, <3>2
  <2>7. Len(Steps(k)) = 7 /\ DOMAIN Steps(k) = 1..7
    BY <1>2, <2>1
  <2>. QED
    BY <1>3, <2>5, <2>6, <2>7
<1>4. CASE k \in AES
  <2>1. Steps(k) = << Step(Random, "free") >> \o << Step({"aes"}, "free") >> /\ k # WS_SSL
    BY <1>4 DEF Steps, AES, SECURITY_MODE_AES_128, SECURITY_MODE_AES_256, WS_SSL
  <2>2. \A n \in Nat : Made(k, n) = IF n = 0 THEN {} ELSE IF n = 1 THEN Random
                                                       ELSE Random \cup {"aes"}
    BY <1>4, <2>1 DEF Made
  <2>3. /\ Len(Steps(k)) = 2 /\ DOMAIN Steps(k) = 1..2
        /\ Steps(k)[1].makes = Random /\ Steps(k)[1].failure = "free"
        /\ Steps(k)[2].makes = {"aes"} /\ Steps(k)[2].failure = "free"
    BY <2>1 DEF Step
  <2>4. Random \subseteq Objects /\ {"aes"} \subseteq Objects
    BY DEF Objects
  <2>5. ASSUME NEW n \in 1..2
        PROVE  /\ Made(k, n) = IF n = 1 THEN Random ELSE Random \cup {"aes"}
               /\ Made(k, n - 1) = IF n = 1 THEN {} ELSE Random
               /\ Steps(k)[n].makes = IF n = 1 THEN Random ELSE {"aes"}
               /\ Steps(k)[n].failure = "free"
    <3>1. CASE n = 1
      <4>1. Made(k, 1) = Random /\ Made(k, 0) = {}
        BY <2>2
      <4>. QED
        BY <2>3, <3>1, <4>1
    <3>2. CASE n = 2
      <4>1. Made(k, 1) = Random /\ Made(k, 2) = Random \cup {"aes"}
        BY <2>2
      <4>. QED
        BY <2>3, <3>2, <4>1
    <3>. QED
      BY <3>1, <3>2
  <2>6. ASSUME NEW n \in 1..2
        PROVE  /\ Steps(k)[n].makes \subseteq Objects
               /\ Made(k, n) = Made(k, n - 1) \cup Steps(k)[n].makes
    <3>1. n = 1 \/ n = 2
      OBVIOUS
    <3>. QED
      BY <2>4, <2>5, <3>1
  <2>. QED
    BY <1>4, <2>1, <2>3, <2>5, <2>6
<1>5. CASE k \in TLS
  <2>1. Steps(k) = << Step(Random, "free") >> \o TlsSteps /\ k # WS_SSL /\ k \notin AES
    BY <1>5 DEF Steps, AES, TLS, SECURITY_MODE_AES_128, SECURITY_MODE_AES_256,
                SECURITY_MODE_TLS_1_2, SECURITY_MODE_TLS_1_3, WS_SSL
  <2>2. \A n \in Nat : Made(k, n) = IF n = 0 THEN {} ELSE IF n = 1 THEN Random
                                                       ELSE Random \cup TlsObjects
    BY <1>5, <2>1 DEF Made
  <2>3. /\ Len(Steps(k)) = 8 /\ DOMAIN Steps(k) = 1..8
        /\ Steps(k)[1] = Step(Random, "free")
        /\ \A n \in 2..8 : Steps(k)[n] = TlsSteps[n - 1]
    <3>. DEFINE U == {Step(Random, "free")} \cup {TlsSteps[n] : n \in 1..7}
    <3>1. TlsSteps = [n \in 1..7 |-> TlsSteps[n]]
      BY <1>1 DEF TlsSteps, TlsFailures
    <3>2. TlsSteps \in Seq(U)
      BY <1>1, <3>1
    <3>3. << Step(Random, "free") >> \in Seq(U)
      OBVIOUS
    <3>. DEFINE first == << Step(Random, "free") >>
    <3>4. Len(first) = 1 /\ first[1] = Step(Random, "free") /\ Steps(k) = first \o TlsSteps
      BY <2>1
    <3>. HIDE DEF U, first
    <3>5. /\ Len(Steps(k)) = 8 /\ DOMAIN Steps(k) = 1..8
          /\ \A n \in 1..8 : Steps(k)[n] = IF n <= 1 THEN first[n] ELSE TlsSteps[n - 1]
      <4>1. first \in Seq(U)
        BY <3>3 DEF first
      <4>. QED
        <5>1. /\ first \o TlsSteps \in Seq(U) /\ Len(first \o TlsSteps) = Len(first) + Len(TlsSteps)
              /\ \A n \in 1 .. Len(first) + Len(TlsSteps) :
                   (first \o TlsSteps)[n] = IF n <= Len(first) THEN first[n] ELSE TlsSteps[n - Len(first)]
          BY <3>2, <4>1, ConcatProperties, Zenon
        <5>2. Len(first) = 1 /\ Len(TlsSteps) = 7
          BY <1>1, <3>4
        <5>. DEFINE s == first \o TlsSteps
        <5>. HIDE DEF s
        <5>3. s \in Seq(U) /\ Len(s) = 8 /\ Steps(k) = s
          BY <3>4, <5>1, <5>2 DEF s
        <5>4. DOMAIN s = 1..Len(s)
          BY <5>3, LenProperties
        <5>5. \A n \in 1..8 : s[n] = IF n <= 1 THEN first[n] ELSE TlsSteps[n - 1]
          <6>1. ASSUME NEW n \in 1..8
                PROVE  s[n] = IF n <= 1 THEN first[n] ELSE TlsSteps[n - 1]
            <7>1. n \in 1 .. Len(first) + Len(TlsSteps)
              BY <5>2
            <7>2. s[n] = IF n <= Len(first) THEN first[n] ELSE TlsSteps[n - Len(first)]
              BY <5>1, <7>1 DEF s
            <7>. QED
              BY <5>2, <7>2
          <6>. QED
            BY <6>1
        <5>. QED
          BY <5>3, <5>4, <5>5
    <3>6. Steps(k)[1] = first[1]
      BY <3>5
    <3>7. ASSUME NEW n \in 2..8
          PROVE  Steps(k)[n] = TlsSteps[n - 1]
      BY <3>5
    <3>. QED
      BY <3>4, <3>5, <3>6, <3>7
  <2>4. Steps(k)[1].makes = Random /\ Steps(k)[1].failure = "free"
    BY <2>3 DEF Step
  <2>6. ASSUME NEW n \in 2..8
        PROVE  /\ Steps(k)[n].makes = IF n = 2 THEN TlsObjects ELSE {}
               /\ Steps(k)[n].failure = "destroy"
    <3>1. CASE n = 2
      BY <1>1, <2>3, <3>1 DEF Step
    <3>2. CASE n # 2
      BY <1>1, <2>3, <3>2 DEF Step
    <3>. QED
      BY <3>1, <3>2
  <2>5. Random \subseteq Objects /\ TlsObjects \subseteq Objects
    BY DEF Objects
  <2>7. ASSUME NEW n \in 1..8
        PROVE  /\ n - 1 \in Nat
               /\ Made(k, n) = IF n = 1 THEN Random ELSE Random \cup TlsObjects
               /\ Made(k, n - 1) = IF n = 1 THEN {} ELSE IF n = 2 THEN Random
                                                        ELSE Random \cup TlsObjects
    <3>1. n \in Nat /\ n - 1 \in Nat
      OBVIOUS
    <3>2. /\ Made(k, n) = IF n = 0 THEN {} ELSE IF n = 1 THEN Random
                                              ELSE Random \cup TlsObjects
          /\ Made(k, n - 1) = IF n - 1 = 0 THEN {} ELSE IF n - 1 = 1 THEN Random
                                              ELSE Random \cup TlsObjects
      BY <2>2, <3>1
    <3>. QED
      BY <3>1, <3>2
  <2>8. ASSUME NEW n \in 1..8
        PROVE  /\ Steps(k)[n].makes \subseteq Objects
               /\ Made(k, n) = Made(k, n - 1) \cup Steps(k)[n].makes
               /\ Steps(k)[n].failure = IF n = 1 THEN "free" ELSE "destroy"
    <3>1. CASE n = 1
      BY <2>4, <2>5, <2>7, <3>1
    <3>2. CASE n = 2
      BY <2>5, <2>6, <2>7, <3>2
    <3>3. CASE n \in 3..8
      BY <2>5, <2>6, <2>7, <3>3
    <3>. QED
      BY <3>1, <3>2, <3>3
  <2>9. \A n \in 1..8 : Steps(k)[n].failure = "free" => n = 1
    BY <2>8
  <2>10. \A n \in 1..8 : Steps(k)[n].failure = "destroy" => Made(k, n) = Random \cup TlsObjects
    BY <2>7, <2>8
  <2>11. \A n \in 1..8 : Steps(k)[n].failure # "leave"
    BY <2>8
  <2>12. ASSUME NEW n \in 1..8
         PROVE  /\ Steps(k)[n].makes \subseteq Objects
                /\ Made(k, n) = Made(k, n - 1) \cup Steps(k)[n].makes
                /\ Steps(k)[n].failure = "leave" => k = WS_SSL /\ Made(k, n) = WsObjects
                /\ Steps(k)[n].failure = "destroy" => k \in TLS /\ Made(k, n) = Random \cup TlsObjects
                /\ Steps(k)[n].failure = "free" => n = 1 \/ k \in AES
    BY <1>5, <2>1, <2>8, <2>9, <2>10, <2>11
  <2>13. Len(Steps(k)) = 8 /\ k \in AES \cup TLS /\ DOMAIN Steps(k) = 1..Len(Steps(k))
    BY <1>5, <2>3
  <2>. QED
    BY <2>12, <2>13
<1>6. CASE k = SECURITY_MODE_NONE
  <2>1. Steps(k) = << Step(Random, "free") >> /\ k # WS_SSL /\ k \notin AES \cup TLS
    BY <1>6 DEF Steps, AES, TLS, SECURITY_MODE_AES_128, SECURITY_MODE_AES_256, SECURITY_MODE_NONE,
                SECURITY_MODE_TLS_1_2, SECURITY_MODE_TLS_1_3, WS_SSL
  <2>2. \A n \in Nat : Made(k, n) = IF n = 0 THEN {} ELSE Random
    BY <2>1 DEF Made
  <2>3. /\ Len(Steps(k)) = 1 /\ DOMAIN Steps(k) = 1..1
        /\ Steps(k)[1].makes = Random /\ Steps(k)[1].failure = "free"
    BY <2>1 DEF Step
  <2>4. Random \subseteq Objects
    BY DEF Objects
  <2>. QED
    BY <2>1, <2>2, <2>3, <2>4
<1>. QED
  BY <1>3, <1>4, <1>5, <1>6 DEF Kinds, Modes

\* Every step of every context keeps the invariant, and loses objects only where
\* the seed or the IV fails.
LEMMA TlsStep ==
  ASSUME TlsInv, [TlsNext]_tlsVars
  PROVE  TlsInv' /\ (abandoned' # abandoned => \E c \in Contexts : FailsEarly(c))
<1>0. TlsTypeOK /\ HeldInv /\ FailedInv /\ misfreed = {} /\ abandoned \subseteq Objects
  BY DEF TlsInv, FreesWhatItMade, TlsTypeOK
<1>1. ASSUME security_init \/ UNCHANGED tlsVars
      PROVE  TlsInv' /\ abandoned' = abandoned
  <2>1. global_mode' \in Modes /\ UNCHANGED <<status, kind, step, held, abandoned, misfreed>>
    BY <1>0, <1>1 DEF security_init, tlsVars, TlsTypeOK
  <2>. QED
    BY <1>0, <2>1 DEF TlsInv, TlsTypeOK, HeldInv, FailedInv, FreesWhatItMade
<1>2. ASSUME NEW c \in Contexts,
             Create(c) \/ Advance(c) \/ FailsAndFrees(c) \/ FailsAndDestroys(c)
               \/ FailsAndLeaves(c) \/ Destroy(c) \/ ws_ssl_destroy(c)
      PROVE  TlsInv' /\ (abandoned' # abandoned => FailsEarly(c))
  <2>. DEFINE k == kind[c]
              n == step[c]
              this == Steps(k)[n]
  <2>1. /\ status[c] \in {"none", "creating", "ready", "failed"}
        /\ k \in Kinds /\ held[c] \subseteq Objects
        /\ Len(Steps(k)) \in Nat \ {0} /\ n \in 1..Len(Steps(k))
    BY <1>0, StepsShape DEF TlsTypeOK
  <2>2. /\ this.makes \subseteq Objects
        /\ Made(k, n) = Made(k, n - 1) \cup this.makes
        /\ this.failure = "leave" => k = WS_SSL /\ Made(k, n) = WsObjects
        /\ this.failure = "destroy" => k \in TLS /\ Made(k, n) = Random \cup TlsObjects
        /\ this.failure = "free" => n = 1 \/ k \in AES
    BY <2>1, StepsShape
  <2>3. status[c] = "creating" => held[c] \cup this.makes = Made(k, n)
    BY <1>0, <2>2 DEF HeldInv
  <2>4. status[c] = "ready" => held[c] = Made(k, Len(Steps(k)))
    BY <1>0 DEF HeldInv
  <2>5. k # WS_SSL => Made(k, Len(Steps(k))) = Freed(c)
    BY <2>1, StepsShape DEF Made, Freed
  <2>. HIDE DEF this
  <2>6. \A d \in Contexts \ {c} : held'[d] = held[d] /\ status'[d] = status[d]
                                 /\ kind'[d] = kind[d] /\ step'[d] = step[d]
    BY <1>0, <1>2 DEF TlsTypeOK, Create, Advance, FailsAndFrees, FailsAndDestroys, FailsAndLeaves,
                      Destroy, ws_ssl_destroy, security_destroy_context
  <2>7. \A d \in Contexts \ {c} :
          /\ step'[d] \in DOMAIN Steps(kind'[d])
          /\ status'[d] = "none"     => held'[d] = {}
          /\ status'[d] = "creating" => held'[d] = Made(kind'[d], step'[d] - 1)
          /\ status'[d] = "ready"    => held'[d] = Made(kind'[d], Len(Steps(kind'[d])))
          /\ status'[d] = "failed"   => held'[d] = WsObjects
          /\ status'[d] = "failed" => kind'[d] = WS_SSL
    BY <1>0, <2>6 DEF TlsTypeOK, HeldInv, FailedInv
  <2>. DEFINE Right == /\ status'[c] \in {"none", "creating", "ready", "failed"}
                       /\ kind'[c] \in Kinds
                       /\ step'[c] \in DOMAIN Steps(kind'[c])
                       /\ held'[c] \subseteq Objects
                       /\ status'[c] = "none"     => held'[c] = {}
                       /\ status'[c] = "creating" => held'[c] = Made(kind'[c], step'[c] - 1)
                       /\ status'[c] = "ready"    => held'[c] = Made(kind'[c], Len(Steps(kind'[c])))
                       /\ status'[c] = "failed"   => held'[c] = WsObjects
                       /\ status'[c] = "failed" => kind'[c] = WS_SSL
                       /\ misfreed' = {} /\ abandoned' \subseteq Objects
                       /\ abandoned' # abandoned => FailsEarly(c)
  <2>. HIDE DEF k, n
  <2>8. ASSUME Create(c)
        PROVE  Right
    <3>1. PICK m \in {global_mode, WS_SSL} : kind' = [kind EXCEPT ![c] = m]
      BY <2>8 DEF Create
    <3>2. m \in Kinds /\ 1 \in DOMAIN Steps(m) /\ Made(m, 0) = {}
      BY <1>0, StepsShape DEF Kinds, TlsTypeOK, Made
    <3>3. /\ kind'[c] = m /\ status'[c] = "creating" /\ step'[c] = 1 /\ held'[c] = held[c]
          /\ status[c] = "none" /\ misfreed' = misfreed /\ abandoned' = abandoned
      BY <1>0, <2>8, <3>1 DEF Create, TlsTypeOK
    <3>4. held[c] = {}
      BY <1>0, <3>3 DEF HeldInv
    <3>. QED
      BY <1>0, <3>2, <3>3, <3>4
  <2>9. ASSUME Advance(c)
        PROVE  Right
    <3>1. /\ status[c] = "creating" /\ held'[c] = held[c] \cup this.makes /\ kind'[c] = k
          /\ misfreed' = misfreed /\ abandoned' = abandoned
      BY <1>0, <2>9 DEF Advance, Current, TlsTypeOK, this, k, n
    <3>2. held'[c] = Made(k, n) /\ held'[c] \subseteq Objects
      BY <2>1, <2>2, <2>3, <3>1
    <3>3. \/ n < Len(Steps(k)) /\ step'[c] = n + 1 /\ status'[c] = status[c]
          \/ ~(n < Len(Steps(k))) /\ step'[c] = n /\ status'[c] = "ready"
      BY <1>0, <2>9 DEF Advance, TlsTypeOK, k, n
    <3>4. CASE n < Len(Steps(k)) /\ step'[c] = n + 1 /\ status'[c] = status[c]
      <4>1. n + 1 \in DOMAIN Steps(k) /\ (n + 1) - 1 = n
        BY <2>1, <3>4, StepsShape
      <4>. QED
        BY <1>0, <2>1, <3>1, <3>2, <3>4, <4>1
    <3>5. CASE ~(n < Len(Steps(k))) /\ step'[c] = n /\ status'[c] = "ready"
      <4>1. n = Len(Steps(k)) /\ n \in DOMAIN Steps(k)
        BY <2>1, <3>5, StepsShape
      <4>. QED
        BY <1>0, <2>1, <3>1, <3>2, <3>5, <4>1
    <3>. QED
      BY <3>3, <3>4, <3>5
  <2>10. ASSUME FailsAndFrees(c)
         PROVE  Right
    <3>1. /\ status[c] = "creating" /\ this.failure = "free"
          /\ abandoned' = abandoned \cup held[c] \cup this.makes
          /\ held'[c] = {} /\ status'[c] = "none" /\ kind'[c] = k /\ step'[c] = n
          /\ misfreed' = misfreed
      BY <1>0, <2>10 DEF FailsAndFrees, Fails, Current, TlsTypeOK, this, k, n
    <3>2. held[c] \cup this.makes \subseteq Objects /\ FailsEarly(c)
      BY <2>1, <2>2, <3>1 DEF FailsEarly, k, n
    <3>3. n \in DOMAIN Steps(k)
      BY <2>1, StepsShape
    <3>. QED
      BY <1>0, <2>1, <3>1, <3>2, <3>3
  <2>11. ASSUME FailsAndDestroys(c)
         PROVE  Right
    <3>1. /\ status[c] = "creating" /\ this.failure = "destroy"
          /\ misfreed' = misfreed \cup (Freed(c) \ (held[c] \cup this.makes))
          /\ abandoned' = abandoned \cup ((held[c] \cup this.makes) \ Freed(c))
          /\ held'[c] = {} /\ status'[c] = "none" /\ kind'[c] = k /\ step'[c] = n
      BY <1>0, <2>11 DEF FailsAndDestroys, security_destroy_context, Fails, Current, TlsTypeOK,
                         this, k, n
    <3>2. held[c] \cup this.makes = Random \cup TlsObjects /\ k \in TLS
      BY <2>2, <2>3, <3>1
    <3>3. Freed(c) = Random \cup TlsObjects
      <4>1. k \notin AES
        BY <3>2 DEF AES, TLS, SECURITY_MODE_AES_128, SECURITY_MODE_AES_256,
                    SECURITY_MODE_TLS_1_2, SECURITY_MODE_TLS_1_3
      <4>. QED
        BY <3>2, <4>1 DEF Freed, k
    <3>4. n \in DOMAIN Steps(k)
      BY <2>1, StepsShape
    <3>. QED
      BY <1>0, <2>1, <3>1, <3>2, <3>3, <3>4
  <2>12. ASSUME FailsAndLeaves(c)
         PROVE  Right
    <3>1. /\ status[c] = "creating" /\ this.failure = "leave"
          /\ held'[c] = held[c] \cup this.makes /\ status'[c] = "failed"
          /\ kind'[c] = k /\ step'[c] = n /\ misfreed' = misfreed /\ abandoned' = abandoned
      BY <1>0, <2>12 DEF FailsAndLeaves, Fails, Current, TlsTypeOK, this, k, n
    <3>2. held'[c] = WsObjects /\ k = WS_SSL /\ held'[c] \subseteq Objects
      BY <2>1, <2>2, <2>3, <3>1
    <3>3. n \in DOMAIN Steps(k)
      BY <2>1, StepsShape
    <3>. QED
      BY <1>0, <2>1, <3>1, <3>2, <3>3
  <2>13. ASSUME Destroy(c)
         PROVE  Right
    <3>1. /\ status[c] = "ready" /\ k # WS_SSL
          /\ misfreed' = misfreed \cup (Freed(c) \ held[c])
          /\ abandoned' = abandoned \cup (held[c] \ Freed(c))
          /\ held'[c] = {} /\ status'[c] = "none" /\ kind'[c] = k /\ step'[c] = n
      BY <1>0, <2>13 DEF Destroy, security_destroy_context, TlsTypeOK, k, n
    <3>2. held[c] = Freed(c)
      BY <2>4, <2>5, <3>1
    <3>3. n \in DOMAIN Steps(k)
      BY <2>1, StepsShape
    <3>. QED
      BY <1>0, <2>1, <3>1, <3>2, <3>3
  <2>14. ASSUME ws_ssl_destroy(c)
         PROVE  Right
    <3>1. /\ status[c] \in {"ready", "failed"} /\ k = WS_SSL
          /\ misfreed' = misfreed \cup (WsObjects \ held[c])
          /\ abandoned' = abandoned \cup (held[c] \ WsObjects)
          /\ held'[c] = {} /\ status'[c] = "none" /\ kind'[c] = k /\ step'[c] = n
      BY <1>0, <2>14 DEF ws_ssl_destroy, TlsTypeOK, k, n
    <3>2. held[c] = WsObjects
      <4>1. status[c] = "failed" => held[c] = WsObjects
        BY <1>0 DEF HeldInv
      <4>2. Made(k, Len(Steps(k))) = WsObjects
        BY <2>1, <3>1 DEF Made
      <4>. QED
        BY <2>4, <3>1, <4>1, <4>2
    <3>3. n \in DOMAIN Steps(k)
      BY <2>1, StepsShape
    <3>. QED
      BY <1>0, <2>1, <3>1, <3>2, <3>3
  <2>15. Right
    BY <1>2, <2>8, <2>9, <2>10, <2>11, <2>12, <2>13, <2>14
  <2>16. /\ global_mode' = global_mode /\ DOMAIN status' = Contexts /\ DOMAIN kind' = Contexts
         /\ DOMAIN step' = Contexts /\ DOMAIN held' = Contexts
         /\ status' = [d \in Contexts |-> status'[d]] /\ kind' = [d \in Contexts |-> kind'[d]]
         /\ step' = [d \in Contexts |-> step'[d]] /\ held' = [d \in Contexts |-> held'[d]]
    BY <1>0, <1>2 DEF TlsTypeOK, Create, Advance, FailsAndFrees, FailsAndDestroys, FailsAndLeaves,
                      Destroy, ws_ssl_destroy, security_destroy_context
  <2>. HIDE DEF this
  <2>17. TlsTypeOK'
    <3>1. \A d \in Contexts : /\ status'[d] \in {"none", "creating", "ready", "failed"}
                              /\ kind'[d] \in Kinds /\ step'[d] \in DOMAIN Steps(kind'[d])
                              /\ held'[d] \subseteq Objects
      <4>1. \A d \in Contexts \ {c} : /\ status'[d] \in {"none", "creating", "ready", "failed"}
                                       /\ kind'[d] \in Kinds /\ held'[d] \subseteq Objects
        BY <1>0, <2>6 DEF TlsTypeOK
      <4>. QED
        BY <2>7, <2>15, <4>1
    <3>2. \A d \in Contexts : step'[d] \in Nat
      <4>1. \A d \in Contexts : DOMAIN Steps(kind'[d]) \subseteq Nat
        BY <3>1, StepsShape
      <4>. QED
        BY <3>1, <4>1
    <3>. QED
      BY <1>0, <2>15, <2>16, <3>1, <3>2 DEF TlsTypeOK
  <2>18. HeldInv' /\ FailedInv'
    BY <2>7, <2>15 DEF HeldInv, FailedInv
  <2>. QED
    BY <2>15, <2>17, <2>18 DEF TlsInv, FreesWhatItMade
<1>. QED
  BY <1>1, <1>2 DEF TlsNext

\* TlsInv holds in every reachable state.
LEMMA TlsInvariance == TlsSpec => []TlsInv /\ LostEarlyOnly
<1>1. TlsInit => TlsInv
  <2>1. SECURITY_MODE_NONE \in Kinds /\ 1 \in DOMAIN Steps(SECURITY_MODE_NONE)
    <3>1. SECURITY_MODE_NONE \in Kinds
      BY DEF Kinds, Modes
    <3>. QED
      BY <3>1, StepsShape
  <2>. QED
    BY <2>1 DEF TlsInit, TlsInv, TlsTypeOK, HeldInv, FailedInv, FreesWhatItMade
<1>2. TlsInv /\ [TlsNext]_tlsVars => [abandoned' # abandoned => \E c \in Contexts : FailsEarly(c)]_tlsVars
  BY TlsStep
<1>3. TlsInv /\ [TlsNext]_tlsVars => TlsInv'
  BY TlsStep
<1>. QED
  BY <1>1, <1>2, <1>3, PTL DEF TlsSpec, LostEarlyOnly

\* Whatever step of a creation fails and however often security_init replaces the
\* configuration meanwhile, nothing is freed that was not initialised.
THEOREM TlsFreesWhatItMade == TlsSpec => []FreesWhatItMade
<1>. QED
  BY TlsInvariance, PTL DEF TlsInv

\* Objects are lost only by a failing seed and a failing IV.
THEOREM TlsLosesEarlyOnly == TlsSpec => LostEarlyOnly
<1>. QED
  BY TlsInvariance, PTL DEF TlsInv
=============================================================================
