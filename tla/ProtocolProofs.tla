--------------------------- MODULE ProtocolProofs ---------------------------
(***************************************************************************)
(* Proofs about MqttClient.tla for every size of queue and block, every    *)
(* range of packet ids and every bound on the environment; and, behind     *)
(* them, about Codecs.tla for every set of samples that its assumptions    *)
(* allow.                                                                  *)
(***************************************************************************)
EXTENDS MqttClient, Codecs, SequenceTheorems, FiniteSetTheorems, WellFoundedInduction, TLAPS

-----------------------------------------------------------------------------
(* The MQTT client: the strengthening. *)

\* The message in the task's hand is the last that left the queue, and one that
\* is encoded: what is queued meanwhile goes behind it.
HandInv ==
  pc = "send" => msg = Len(queued) - Len(msg_queue) /\ queued[msg] \in Encoded

\* The ids of two packets are as far apart as the packets are, but for one wrap;
\* next_packet_id is the id used last.
IdsInv ==
  /\ wire = <<>> => next_packet_id = 0
  /\ wire # <<>> => next_packet_id = wire[Len(wire)].id
  /\ \A i \in DOMAIN wire : wire[i].id \in 1..MAX_PACKET_ID
  /\ \A i, j \in DOMAIN wire :
       (i <= j /\ j - i < MAX_PACKET_ID) =>
         \/ wire[j].id - wire[i].id = j - i
         \/ wire[j].id - wire[i].id = j - i - MAX_PACKET_ID

ClientInv ==
  TypeOK /\ HandInv /\ SentOnceInOrder /\ IdsInv /\ LossToldOnce

-----------------------------------------------------------------------------
(* Lemmas *)

\* What appending does.
LEMMA Appended ==
  ASSUME NEW S, NEW s \in Seq(S), NEW e \in S
  PROVE  /\ Append(s, e) \in Seq(S)
         /\ Len(Append(s, e)) = Len(s) + 1
         /\ DOMAIN Append(s, e) = 1..(Len(s) + 1)
         /\ DOMAIN s = 1..Len(s) /\ Len(s) \in Nat
         /\ \A i \in 1..Len(s) : Append(s, e)[i] = s[i]
         /\ Append(s, e)[Len(s) + 1] = e
OBVIOUS

\* The packets sent, as records, whatever has been queued since.
SentPacket == [n : Nat, id : 0..MAX_PACKET_ID]

\* What was sent and queued stays so however many messages are queued.
LEMMA WireWidens ==
  ASSUME TypeOK
  PROVE  /\ wire \in Seq(SentPacket)
         /\ \A m \in Nat : m >= Len(queued) =>
              /\ wire \in Seq([n : 1..m, id : 0..MAX_PACKET_ID])
              /\ msg_queue \in Seq(1..m)
<1>1. Len(queued) \in Nat
  BY LenProperties DEF TypeOK
<1>2. wire \in Seq(SentPacket)
  <2>1. [n : 1..Len(queued), id : 0..MAX_PACKET_ID]
          \subseteq SentPacket
    BY <1>1 DEF SentPacket
  <2>. QED
    BY <2>1, SeqMonotonic DEF TypeOK
<1>3. ASSUME NEW m \in Nat, m >= Len(queued)
      PROVE  /\ wire \in Seq([n : 1..m, id : 0..MAX_PACKET_ID])
             /\ msg_queue \in Seq(1..m)
  <2>1. 1..Len(queued) \subseteq 1..m
    BY <1>1, <1>3
  <2>2. [n : 1..Len(queued), id : 0..MAX_PACKET_ID]
          \subseteq [n : 1..m, id : 0..MAX_PACKET_ID]
    BY <2>1
  <2>3. msg_queue \in Seq(1..m)
    BY <2>1, SeqMonotonic DEF TypeOK
  <2>4. wire \in Seq([n : 1..Len(queued), id : 0..MAX_PACKET_ID])
    BY DEF TypeOK
  <2>. DEFINE Before == [n : 1..Len(queued), id : 0..MAX_PACKET_ID]
              After  == [n : 1..m, id : 0..MAX_PACKET_ID]
  <2>5. wire \in Seq(After)
    <3>1. Before \subseteq After /\ wire \in Seq(Before)
      BY <2>2, <2>4
    <3>. HIDE DEF Before, After
    <3>. QED
      BY <3>1, SeqMonotonic
  <2>. QED
    BY <2>3, <2>5
<1>. QED
  BY <1>2, <1>3

\* The initial state has the invariant.
LEMMA InitInv == Init => ClientInv
<1>. SUFFICES ASSUME Init PROVE ClientInv
  OBVIOUS
<1>. USE ClientAssumption
<1>1. TypeOK
  BY DEF Init, TypeOK, States, MQTT_STATE_DISCONNECTED, MQTT_STATE_CONNECTED
<1>2. HandInv /\ IdsInv
  BY DEF Init, HandInv, IdsInv
<1>3. SentOnceInOrder
  BY DEF Init, SentOnceInOrder, Taken
<1>4. LossToldOnce
  BY DEF Init, LossToldOnce, MQTT_STATE_DISCONNECTED, MQTT_STATE_CONNECTED
<1>. QED
  BY <1>1, <1>2, <1>3, <1>4 DEF ClientInv

\* A message is queued.
LEMMA QueueStep ==
  ASSUME ClientInv, Queue
  PROVE  ClientInv'
<1>. USE DEF ClientInv
<1>1. PICK t \in PacketTypes : queued' = Append(queued, t)
  BY DEF Queue
<1>2. /\ queued \in Seq(PacketTypes) /\ queued' \in Seq(PacketTypes)
      /\ Len(queued) \in Nat /\ Len(queued') = Len(queued) + 1
      /\ \A i \in 1..Len(queued) : queued'[i] = queued[i]
  BY <1>1, Appended DEF TypeOK
<1>3. /\ msg_queue \in Seq(1..Len(queued'))
      /\ wire \in Seq([n : 1..Len(queued'), id : 0..MAX_PACKET_ID])
  <2>1. Len(queued') \in Nat /\ Len(queued') >= Len(queued)
    BY <1>2
  <2>. QED
    BY <2>1, WireWidens
<1>4. Len(queued') \in 1..Len(queued') /\ msg_queue' = Append(msg_queue, Len(queued'))
  BY <1>2 DEF Queue
<1>5. /\ msg_queue' \in Seq(1..Len(queued'))
      /\ Len(msg_queue) \in Nat /\ Len(msg_queue') = Len(msg_queue) + 1
      /\ DOMAIN msg_queue' = 1..(Len(msg_queue) + 1) /\ DOMAIN msg_queue = 1..Len(msg_queue)
      /\ \A i \in 1..Len(msg_queue) : msg_queue'[i] = msg_queue[i]
      /\ msg_queue'[Len(msg_queue) + 1] = Len(queued) + 1
  BY <1>2, <1>3, <1>4, Appended
<1>6. UNCHANGED <<state, next_packet_id, socket, inbound, buf, pc, msg, wire, connections, losses>>
  BY DEF Queue
<1>7. TypeOK'
  <2>1. Len(queued') <= MAX_MESSAGES /\ Len(msg_queue') <= MQTT_QUEUE_SIZE
    BY <1>2, <1>5, ClientAssumption DEF Queue
  <2>2. msg' \in 0..Len(queued')
    BY <1>2, <1>6 DEF TypeOK
  <2>. QED
    BY <1>2, <1>3, <1>5, <1>6, <2>1, <2>2 DEF TypeOK
<1>8. HandInv'
  <2>1. msg \in 0..Len(queued) /\ (pc = "send" => msg \in 1..Len(queued))
    BY <1>2 DEF TypeOK
  <2>2. ASSUME pc = "send"
        PROVE  msg = Len(queued') - Len(msg_queue') /\ queued'[msg] \in Encoded
    <3>1. msg = Len(queued) - Len(msg_queue) /\ queued[msg] \in Encoded
      BY <2>2 DEF HandInv
    <3>2. queued'[msg] = queued[msg]
      BY <1>2, <2>1, <2>2
    <3>. QED
      BY <1>2, <1>5, <3>1, <3>2
  <2>. QED
    BY <1>6, <2>2 DEF HandInv
<1>9. SentOnceInOrder'
  <2>1. Taken' = Taken /\ \A n \in Taken : n \in 1..Len(queued)
    BY <1>2, <1>5 DEF Taken
  <2>2. \A i \in DOMAIN msg_queue' : msg_queue'[i] = Len(queued') - Len(msg_queue') + i
    <3>. TAKE i \in DOMAIN msg_queue'
    <3>1. CASE i \in 1..Len(msg_queue)
      <4>1. msg_queue[i] = Len(queued) - Len(msg_queue) + i
        BY <1>5, <3>1 DEF SentOnceInOrder
      <4>. QED
        BY <1>2, <1>5, <3>1, <4>1
    <3>2. CASE i = Len(msg_queue) + 1
      BY <1>2, <1>5, <3>2
    <3>. QED
      BY <1>5, <3>1, <3>2
  <2>3. \A n \in Taken : queued'[n] = queued[n]
    BY <1>2, <2>1
  <2>. QED
    BY <1>6, <2>1, <2>2, <2>3 DEF SentOnceInOrder
<1>10. (IdsInv /\ LossToldOnce)'
  BY <1>6 DEF IdsInv, LossToldOnce
<1>. QED
  BY <1>7, <1>8, <1>9, <1>10

\* The task takes a message, to send it or to drop it.
LEMMA TakeMessageStep ==
  ASSUME ClientInv, TakeMessage
  PROVE  ClientInv'
<1>. USE DEF ClientInv
<1>1. UNCHANGED <<state, next_packet_id, socket, buf, wire, losses, inbound, queued, connections>>
  BY DEF TakeMessage, environment
<1>2. /\ msg_queue \in Seq(1..Len(queued)) /\ msg_queue # <<>>
      /\ Len(queued) \in Nat /\ Len(msg_queue) \in Nat \ {0}
      /\ msg_queue' = Tail(msg_queue) /\ Head(msg_queue) = msg_queue[1]
  BY LenProperties, EmptySeq DEF TypeOK, TakeMessage
<1>3. /\ Head(msg_queue) \in 1..Len(queued) /\ msg_queue' \in Seq(1..Len(queued))
      /\ Len(msg_queue') = Len(msg_queue) - 1
      /\ DOMAIN msg_queue' = 1..(Len(msg_queue) - 1) /\ DOMAIN msg_queue = 1..Len(msg_queue)
      /\ \A i \in 1..Len(msg_queue') : msg_queue'[i] = msg_queue[i + 1]
  BY <1>2, HeadTailProperties, LenProperties
<1>4. Head(msg_queue) = Len(queued) - Len(msg_queue) + 1
  <2>1. 1 \in DOMAIN msg_queue
    BY <1>2, <1>3
  <2>. QED
    BY <1>2, <2>1 DEF SentOnceInOrder
<1>5. pc = "loop" /\ msg = 0 /\ buf = <<>> /\ state = MQTT_STATE_CONNECTED
  BY DEF TakeMessage, TypeOK
<1>6. \/ queued[Head(msg_queue)] \in Encoded /\ msg' = Head(msg_queue) /\ pc' = "send"
      \/ queued[Head(msg_queue)] \notin Encoded /\ msg' = 0 /\ pc' = "select"
  BY <1>5 DEF TakeMessage
<1>7. TypeOK'
  <2>1. Len(msg_queue') <= MQTT_QUEUE_SIZE
    BY <1>2, <1>3, ClientAssumption DEF TypeOK
  <2>2. msg' \in 0..Len(queued') /\ (pc' = "send" <=> msg' > 0) /\ pc' \in {"send", "select"}
    BY <1>1, <1>2, <1>3, <1>6
  <2>. QED
    BY <1>1, <1>3, <1>5, <2>1, <2>2 DEF TypeOK
<1>8. HandInv'
  BY <1>1, <1>2, <1>3, <1>4, <1>6 DEF HandInv
<1>9. SentOnceInOrder'
  <2>1. \A i \in DOMAIN msg_queue' : msg_queue'[i] = Len(queued') - Len(msg_queue') + i
    <3>. TAKE i \in DOMAIN msg_queue'
    <3>1. i + 1 \in DOMAIN msg_queue /\ i \in Nat /\ msg_queue'[i] = msg_queue[i + 1]
      BY <1>2, <1>3
    <3>2. msg_queue[i + 1] = Len(queued) - Len(msg_queue) + (i + 1)
      BY <3>1 DEF SentOnceInOrder
    <3>. QED
      BY <1>1, <1>2, <1>3, <3>1, <3>2
  <2>2. Taken' = Taken \cup {Head(msg_queue)} /\ Head(msg_queue) \notin Taken
    BY <1>1, <1>2, <1>3, <1>4 DEF Taken
  <2>3. {wire[i].n : i \in DOMAIN wire} = {n \in Taken : queued[n] \in Encoded}
    BY <1>5 DEF SentOnceInOrder
  <2>4. {wire[i].n : i \in DOMAIN wire} =
          {n \in Taken' : queued[n] \in Encoded /\ ~(pc' = "send" /\ n = msg')}
    BY <2>2, <2>3, <1>6
  <2>. QED
    BY <1>1, <2>1, <2>4 DEF SentOnceInOrder
<1>10. LossToldOnce'
  BY <1>1, <1>5, <1>6 DEF LossToldOnce
<1>11. (IdsInv)'
  BY <1>1 DEF IdsInv
<1>. QED
  BY <1>7, <1>8, <1>9, <1>10, <1>11

\* A packet goes out, in whole or not.
LEMMA SendPacketStep ==
  ASSUME ClientInv, SendPacket
  PROVE  ClientInv'
<1>. USE DEF ClientInv
<1>. DEFINE n == Len(wire)
            id == IF next_packet_id = MAX_PACKET_ID THEN 1 ELSE next_packet_id + 1
<1>1. /\ wire' = Append(wire, [n |-> msg, id |-> id])
      /\ socket' \in {socket, "broken"}
  BY DEF SendPacket, get_next_packet_id
<1>2. UNCHANGED <<state, msg_queue, buf, losses, inbound, queued, connections>>
  BY DEF SendPacket, environment
<1>3. pc = "send" /\ pc' = "select" /\ msg' = 0 /\ next_packet_id' = id
  BY DEF SendPacket, get_next_packet_id
<1>4. /\ buf = <<>> /\ state = MQTT_STATE_CONNECTED
      /\ Len(queued) \in Nat /\ Len(msg_queue) \in Nat /\ msg \in 1..Len(queued)
      /\ connections \in Nat
  BY <1>3, LenProperties, ClientAssumption DEF TypeOK
<1>5. id \in 1..MAX_PACKET_ID
  BY ClientAssumption DEF TypeOK
<1>. DEFINE packet == [n |-> msg, id |-> id]
            Sent == [n : 1..Len(queued), id : 0..MAX_PACKET_ID]
<1>6. packet \in Sent /\ wire \in Seq(Sent)
  BY <1>4, <1>5, ClientAssumption DEF TypeOK
<1>7. /\ wire' \in Seq(Sent) /\ n \in Nat /\ Len(wire') = n + 1
      /\ DOMAIN wire' = 1..(n + 1) /\ DOMAIN wire = 1..n
      /\ \A i \in 1..n : wire'[i] = wire[i]
      /\ wire'[n + 1] = packet
  BY <1>1, <1>6, Appended
<1>. HIDE DEF id, packet, n
<1>8. packet.n = msg /\ packet.id = id
  BY DEF packet
<1>9. \A i \in 1..n : wire[i] \in Sent
  BY <1>6, <1>7, ElementOfSeq DEF n
<1>10. TypeOK'
  <2>1. socket' \in {"up", "closed", "broken"} /\ next_packet_id' \in 0..MAX_PACKET_ID
    BY <1>1, <1>3, <1>5, ClientAssumption DEF TypeOK
  <2>. QED
    BY <1>2, <1>3, <1>4, <1>7, <2>1 DEF TypeOK
<1>11. HandInv'
  BY <1>3 DEF HandInv
<1>12. SentOnceInOrder'
  <2>1. msg = Len(queued) - Len(msg_queue) /\ queued[msg] \in Encoded /\ Taken = 1..msg
    BY <1>3, <1>4 DEF HandInv, Taken
  <2>2. {wire[i].n : i \in 1..n} = {k \in 1..msg : queued[k] \in Encoded /\ k # msg}
    BY <1>3, <1>7, <2>1 DEF SentOnceInOrder
  <2>3. \A i \in 1..n : wire[i].n \in 1..msg /\ wire[i].n # msg /\ wire[i].n < msg
    <3>. TAKE i \in 1..n
    <3>1. wire[i].n \in {wire[k].n : k \in 1..n}
      OBVIOUS
    <3>2. wire[i].n \in 1..msg /\ wire[i].n # msg
      BY <2>2, <3>1
    <3>. QED
      BY <1>4, <3>2
  <2>4. \A i, j \in 1..(n + 1) : i < j => wire'[i].n < wire'[j].n
    <3>. SUFFICES ASSUME NEW i \in 1..(n + 1), NEW j \in 1..(n + 1), i < j
                  PROVE  wire'[i].n < wire'[j].n
      OBVIOUS
    <3>0. i \in 1..n /\ wire'[i] = wire[i]
      <4>1. i \in 1..n
        BY <1>7
      <4>. QED
        BY <1>7, <4>1
    <3>1. CASE j = n + 1
      BY <1>7, <1>8, <2>3, <3>0, <3>1
    <3>2. CASE j \in 1..n
      <4>1. i \in DOMAIN wire /\ j \in DOMAIN wire
        BY <1>7, <3>0, <3>2
      <4>2. wire[i].n < wire[j].n
        BY <4>1 DEF SentOnceInOrder
      <4>. QED
        BY <1>7, <3>0, <3>2, <4>2
    <3>. QED
      BY <1>7, <3>1, <3>2
  <2>5. {wire'[i].n : i \in 1..(n + 1)} = {k \in 1..msg : queued[k] \in Encoded}
    <3>1. {wire'[i].n : i \in 1..(n + 1)} = {wire[i].n : i \in 1..n} \cup {msg}
      <4>1. 1..(n + 1) = (1..n) \cup {n + 1}
        BY <1>7
      <4>2. \A i \in 1..n : wire'[i].n = wire[i].n
        BY <1>7
      <4>3. wire'[n + 1].n = msg
        BY <1>7, <1>8
      <4>. HIDE DEF n
      <4>. QED
        BY <4>1, <4>2, <4>3, Zenon
    <3>2. msg \in 1..msg
      BY <1>4
    <3>. QED
      BY <2>1, <2>2, <3>1, <3>2
  <2>. QED
    BY <1>2, <1>3, <1>7, <2>1, <2>4, <2>5 DEF SentOnceInOrder, Taken
<1>15. IdsInv'
  <2>1. MAX_PACKET_ID \in Nat \ {0}
    BY ClientAssumption
  <2>2. wire' # <<>> /\ next_packet_id' = wire'[Len(wire')].id
    BY <1>3, <1>7, <1>8
  <2>3. \A i \in DOMAIN wire' : wire'[i].id \in 1..MAX_PACKET_ID
    <3>. TAKE i \in DOMAIN wire'
    <3>1. CASE i = n + 1
      BY <1>5, <1>7, <1>8, <3>1
    <3>2. CASE i \in DOMAIN wire
      BY <1>7, <3>2 DEF IdsInv
    <3>. QED
      BY <1>7, <3>1, <3>2
  <2>4. ASSUME NEW i \in 1..(n + 1), NEW j \in 1..(n + 1), i <= j, j - i < MAX_PACKET_ID
        PROVE  \/ wire'[j].id - wire'[i].id = j - i
               \/ wire'[j].id - wire'[i].id = j - i - MAX_PACKET_ID
    <3>1. CASE i = n + 1
      <4>1. j = n + 1
        BY <1>7, <2>4, <3>1
      <4>. QED
        BY <1>5, <1>7, <1>8, <3>1, <4>1
    <3>2. CASE i \in 1..n /\ j = n + 1
      <4>1. wire # <<>> /\ n \in DOMAIN wire /\ i \in DOMAIN wire
        BY <1>7, <3>2
      <4>2. next_packet_id = wire[n].id /\ n - i < MAX_PACKET_ID /\ i <= n
        BY <1>7, <2>1, <2>4, <3>2, <4>1 DEF IdsInv, n
      <4>3. \/ wire[n].id - wire[i].id = n - i
            \/ wire[n].id - wire[i].id = n - i - MAX_PACKET_ID
        BY <4>1, <4>2 DEF IdsInv
      <4>4. wire[i].id \in 1..MAX_PACKET_ID /\ wire[n].id \in 1..MAX_PACKET_ID
        BY <4>1 DEF IdsInv
      <4>5. wire'[i].id = wire[i].id /\ wire'[j].id = id /\ n \in Nat /\ j = n + 1
        BY <1>7, <1>8, <3>2
      <4>6. CASE next_packet_id = MAX_PACKET_ID
        BY <2>1, <3>2, <4>2, <4>3, <4>4, <4>5, <4>6 DEF id
      <4>7. CASE next_packet_id # MAX_PACKET_ID
        <5>1. id = wire[n].id + 1
          BY <4>2, <4>7 DEF id
        <5>. QED
          BY <2>1, <3>2, <4>3, <4>4, <4>5, <5>1
      <4>. QED
        BY <4>6, <4>7
    <3>3. CASE i \in 1..n /\ j \in 1..n
      BY <1>7, <2>4, <3>3 DEF IdsInv
    <3>. QED
      BY <1>7, <2>4, <3>1, <3>2, <3>3
  <2>. QED
    BY <1>7, <2>2, <2>3, <2>4 DEF IdsInv
<1>16. LossToldOnce'
  BY <1>2, <1>3 DEF LossToldOnce
<1>. QED
  BY <1>10, <1>11, <1>12, <1>15, <1>16

\* Some of what is in transit fills the block, at most to its end.
LEMMA ReceiveSomeStep ==
  ASSUME ClientInv, ReceiveSome
  PROVE  ClientInv'
<1>. USE DEF ClientInv
<1>. DEFINE n == IF Len(inbound) < Missing THEN Len(inbound) ELSE Missing
<1>1. UNCHANGED <<state, msg_queue, next_packet_id, socket, msg, wire, losses, queued, connections>>
  BY DEF ReceiveSome
<1>2. /\ pc = "receive" /\ state = MQTT_STATE_CONNECTED
      /\ buf' = buf \o SubSeq(inbound, 1, n)
      /\ inbound' = SubSeq(inbound, n + 1, Len(inbound))
      /\ pc' = IF Len(buf') = BLOCK THEN "handle" ELSE "receive"
  BY DEF ReceiveSome, TypeOK
<1>3. /\ inbound \in Seq(Units) /\ inbound # <<>> /\ buf \in Seq(Units)
      /\ Len(inbound) \in Nat \ {0} /\ Len(buf) \in Nat /\ Len(buf) < BLOCK /\ BLOCK \in Nat
      /\ \A i \in 1..Len(inbound) : inbound[i] \in Units
  BY <1>2, LenProperties, EmptySeq, ElementOfSeq, ClientAssumption DEF TypeOK, ReceiveSome
<1>4. n \in 1..Len(inbound) /\ n <= BLOCK - Len(buf)
  BY <1>3 DEF Missing
<1>5. SubSeq(inbound, 1, n) \in Seq(Units) /\ Len(SubSeq(inbound, 1, n)) = n
  <2>1. \A i \in 1..n : inbound[i] \in Units
    BY <1>3, <1>4
  <2>. QED
    BY <1>4, <2>1, SubSeqProperties
<1>6. buf' \in Seq(Units) /\ Len(buf') = Len(buf) + n
  BY <1>2, <1>3, <1>5, ConcatProperties
<1>7. inbound' \in Seq(Units)
  <2>1. \A i \in (n + 1)..Len(inbound) : inbound[i] \in Units
    BY <1>3, <1>4
  <2>. QED
    BY <1>2, <1>3, <1>4, <2>1, SubSeqProperties
<1>8. TypeOK'
  <2>1. Len(buf') <= BLOCK /\ (pc' = "receive" => Len(buf') < BLOCK)
        /\ (pc' = "handle" => Len(buf') = BLOCK) /\ pc' \in {"receive", "handle"}
    <3>. HIDE DEF n
    <3>1. Len(buf') \in Nat /\ Len(buf') <= BLOCK
      BY <1>3, <1>4, <1>6
    <3>2. pc' = IF Len(buf') = BLOCK THEN "handle" ELSE "receive"
      BY <1>2
    <3>. QED
      BY <1>3, <3>1, <3>2
  <2>. QED
    BY <1>1, <1>2, <1>6, <1>7, <2>1 DEF TypeOK
<1>9. (HandInv /\ SentOnceInOrder)'
  BY <1>1, <1>2 DEF HandInv, SentOnceInOrder, Taken
<1>10. (IdsInv /\ LossToldOnce)'
  BY <1>1, <1>2 DEF IdsInv, LossToldOnce
<1>. QED
  BY <1>8, <1>9, <1>10

\* The broker sends a packet.
LEMMA BrokerSendsStep ==
  ASSUME ClientInv, BrokerSends
  PROVE  ClientInv'
<1>. USE DEF ClientInv
<1>1. UNCHANGED <<state, msg_queue, next_packet_id, socket, buf, pc, msg, queued, wire,
                  connections, losses>>
  BY DEF BrokerSends
<1>2. PICK p \in Packets, size \in 1..MAX_PACKET_SIZE :
        inbound' = inbound \o [i \in 1..size |-> IF i = 1 THEN p ELSE Middle]
  BY DEF BrokerSends
<1>3. inbound' \in Seq(Units)
  <2>. DEFINE sent == [i \in 1..size |-> IF i = 1 THEN p ELSE Middle]
  <2>1. size \in Nat
    BY ClientAssumption
  <2>2. sent \in Seq(Units)
    BY <2>1, SeqDef DEF Units
  <2>. QED
    BY <1>2, <2>2, ConcatProperties DEF TypeOK
<1>4. TypeOK'
  BY <1>1, <1>3 DEF TypeOK
<1>. QED
  BY <1>1, <1>4 DEF HandInv, SentOnceInOrder, Taken, IdsInv, LossToldOnce

\* A new connection uses up one of the losses that may be told.
LEMMA ConnectStep ==
  ASSUME ClientInv, Connect
  PROVE  ClientInv'
<1>. USE DEF ClientInv
<1>1. UNCHANGED <<msg_queue, next_packet_id, buf, pc, msg, queued, wire, losses>>
  BY DEF Connect
<1>2. /\ state # MQTT_STATE_CONNECTED /\ state' \in {MQTT_STATE_CONNECTING, MQTT_STATE_CONNECTED}
      /\ connections' = connections + 1 /\ connections' \in 0..MAX_CONNECTIONS
      /\ socket' = "up" /\ inbound' = <<>> /\ connections \in Nat
  BY ClientAssumption DEF Connect, TypeOK
<1>3. pc \in {"loop", "lost"}
  BY <1>2 DEF TypeOK
<1>4. TypeOK'
  BY <1>1, <1>2, <1>3 DEF TypeOK, States
<1>6. LossToldOnce'
  BY <1>1, <1>2, <1>3 DEF LossToldOnce, TypeOK
<1>. QED
  BY <1>1, <1>4, <1>6 DEF HandInv, SentOnceInOrder, Taken, IdsInv

\* The connection ends.
LEMMA ConnectionEndsStep ==
  ASSUME ClientInv, ConnectionEnds
  PROVE  ClientInv'
<1>. USE DEF ClientInv
<1>1. UNCHANGED <<state, msg_queue, next_packet_id, buf, pc, msg, wire, losses, inbound, queued,
                  connections>>
  BY DEF ConnectionEnds, environment
<1>2. socket = "up" /\ socket' \in {"closed", "broken"}
  BY DEF ConnectionEnds
<1>3. TypeOK'
  BY <1>1, <1>2 DEF TypeOK
<1>. QED
  BY <1>1, <1>3 DEF HandInv, SentOnceInOrder, Taken, IdsInv, LossToldOnce

\* Neither queue nor wire change: the task moves on, reads a block, or notices
\* and tells a loss.
LEMMA MoveStep ==
  ASSUME ClientInv,
         \/ NoMessageQueued \/ SelectReadable \/ SelectTimeout
         \/ ReceiveFails \/ ReceiveErrs \/ TellDisconnected \/ HandlePacket
  PROVE  ClientInv'
<1>. USE DEF ClientInv
<1>1. UNCHANGED <<msg_queue, next_packet_id, socket, msg, wire, inbound, queued, connections>>
  BY DEF NoMessageQueued, SelectReadable, SelectTimeout, ReceiveFails, ReceiveErrs, TellDisconnected,
         HandlePacket, environment
<1>2. /\ pc # "send" /\ pc' # "send" /\ msg = 0
  BY DEF TypeOK, NoMessageQueued, SelectReadable, SelectTimeout, ReceiveFails, ReceiveErrs, TellDisconnected,
         HandlePacket
<1>3. TypeOK'
  <2>1. <<>> \in Seq(Units) /\ Len(<<>>) = 0 /\ BLOCK \in Nat \ {0}
    BY ClientAssumption
  <2>2. CASE NoMessageQueued \/ SelectTimeout
    BY <1>1, <2>2 DEF TypeOK, NoMessageQueued, SelectTimeout
  <2>6. CASE SelectReadable
    BY <1>1, <2>1, <2>6 DEF TypeOK, SelectReadable
  <2>3. CASE ReceiveFails \/ ReceiveErrs
    <3>1. state' = MQTT_STATE_DISCONNECTED /\ pc' = "lost" /\ buf' = <<>> /\ losses' = losses
      BY <2>3 DEF ReceiveFails, ReceiveErrs
    <3>. QED
      BY <1>1, <1>2, <2>1, <3>1 DEF TypeOK, States
  <2>5. CASE TellDisconnected
    <3>1. losses' \in Nat /\ pc = "lost" /\ pc' = "loop" /\ buf = <<>>
          /\ UNCHANGED <<state, buf>>
      BY <2>5 DEF TypeOK, TellDisconnected
    <3>. QED
      BY <1>1, <2>1, <3>1 DEF TypeOK
  <2>4. CASE HandlePacket
    BY <1>1, <2>1, <2>4 DEF TypeOK, States, HandlePacket
  <2>. QED
    BY <2>2, <2>3, <2>4, <2>5, <2>6
<1>4. LossToldOnce'
  BY <1>1 DEF LossToldOnce, TypeOK, NoMessageQueued, SelectReadable, SelectTimeout, ReceiveFails,
     ReceiveErrs, TellDisconnected, HandlePacket, MQTT_STATE_DISCONNECTED, MQTT_STATE_CONNECTED
<1>. QED
  BY <1>1, <1>2, <1>3, <1>4 DEF HandInv, SentOnceInOrder, Taken, IdsInv

\* Every step keeps the invariant.
LEMMA NextInv == ClientInv /\ [Next]_vars => ClientInv'
<1>. SUFFICES ASSUME ClientInv, [Next]_vars PROVE ClientInv'
  OBVIOUS
<1>1. CASE UNCHANGED vars
  BY <1>1 DEF vars, ClientInv, TypeOK, HandInv, SentOnceInOrder, Taken, IdsInv,
     LossToldOnce
<1>2. CASE Environment
  BY <1>2, QueueStep, ConnectStep, BrokerSendsStep, ConnectionEndsStep DEF Environment
<1>3. CASE Task
  BY <1>3, TakeMessageStep, SendPacketStep, ReceiveSomeStep, MoveStep DEF Task
<1>4. CASE ReceiveErrs
  BY <1>4, MoveStep
<1>. QED
  BY <1>1, <1>2, <1>3, <1>4 DEF Next

\* The strengthening holds in every state.
LEMMA Invariance == Spec => []ClientInv
<1>. QED
  BY InitInv, NextInv, PTL DEF Spec

-----------------------------------------------------------------------------
(* The theorems. *)

\* Queue, block and ids stay within their sizes, and the task is beyond its test
\* of the state only while connected (mqtt_client_task).
THEOREM TypeCorrect == Spec => []TypeOK
<1>1. ClientInv => TypeOK
  BY DEF ClientInv
<1>. QED
  BY <1>1, Invariance, PTL

\* Every message that left the queue was sent, or tried, exactly once and in its
\* order, over any number of lost connections (mqtt_client_task).
THEOREM MessagesSentOnceInOrder == Spec => []SentOnceInOrder
<1>1. ClientInv => SentOnceInOrder
  BY DEF ClientInv
<1>. QED
  BY <1>1, Invariance, PTL

\* No packet has id 0, and two packets with the same id are at least
\* MAX_PACKET_ID packets apart, for every width of the id (get_next_packet_id).
THEOREM PacketIdsDistinct == Spec => []PacketIds
<1>1. ClientInv => PacketIds
  <2>. SUFFICES ASSUME ClientInv PROVE PacketIds
    OBVIOUS
  <2>1. \A i \in DOMAIN wire : wire[i].id \in 1..MAX_PACKET_ID /\ i \in Nat
    <3>. TAKE i \in DOMAIN wire
    <3>1. DOMAIN wire = 1..Len(wire) /\ Len(wire) \in Nat
      BY LenProperties DEF ClientInv, TypeOK
    <3>. QED
      BY <3>1 DEF ClientInv, IdsInv
  <2>2. MAX_PACKET_ID \in Nat
    BY ClientAssumption
  <2>. QED
    BY <2>1, <2>2 DEF ClientInv, IdsInv, PacketIds
<1>. QED
  BY <1>1, Invariance, PTL

\* The application is told of no more losses than there were connections
\* (mqtt_client_task, line 222).
THEOREM LossesToldOnce == Spec => []LossToldOnce
<1>1. ClientInv => LossToldOnce
  BY DEF ClientInv
<1>. QED
  BY <1>1, Invariance, PTL

-----------------------------------------------------------------------------
(* The codecs: induction over a set of numbers, and folds.                 *)

\* The order of the natural numbers has no infinite descent.
LEMMA NatLess == IsWellFoundedOn({ss \in Nat \X Nat : ss[1] < ss[2]}, Nat)
  BY NatLessThanWellFounded DEF OpToRel

\* A set of natural numbers has a least element.
LEMMA Smallest ==
  ASSUME NEW T, T \subseteq Nat, T # {}
  PROVE  \E x \in T : \A y \in T : x <= y
<1>1. PICK x \in T : \A y \in T : ~ (<<y, x>> \in {ss \in Nat \X Nat : ss[1] < ss[2]})
  BY NatLess, WFMin
<1>2. x \in Nat /\ \A y \in T : y \in Nat /\ <<y, x>> \in Nat \X Nat
  OBVIOUS
<1>3. \A y \in T : ~ (y < x)
  BY <1>1, <1>2
<1>. QED
  BY <1>2, <1>3

\* Induction, over a set instead of a predicate.
LEMMA Induction ==
  ASSUME NEW S, 0 \in S, \A n \in Nat : n \in S => n + 1 \in S
  PROVE  Nat \subseteq S
<1>. SUFFICES ASSUME Nat \ S # {}
              PROVE  FALSE
  OBVIOUS
<1>1. PICK x \in Nat \ S : \A y \in Nat \ S : x <= y
  BY Smallest
<1>2. x - 1 \in Nat /\ x - 1 \notin Nat \ S
  BY <1>1
<1>. QED
  BY <1>1, <1>2

\* The greatest of some numbers up to n.
LEMMA Greatest ==
  ASSUME NEW n \in Nat, NEW T \in SUBSET (1..n), T # {}
  PROVE  Max(T) \in T /\ \A y \in T : y <= Max(T)
<1>. DEFINE C == {n - x : x \in T}
<1>1. \A x \in T : x \in Nat /\ n - x \in Nat /\ x = n - (n - x)
  OBVIOUS
<1>2. C # {} /\ C \subseteq Nat
  BY <1>1
<1>3. PICK c \in C : \A y \in C : c <= y
  BY <1>2, Smallest
<1>4. PICK m \in T : c = n - m
  BY <1>3
<1>5. ASSUME NEW y \in T
      PROVE  m >= y
  <2>1. n - m <= n - y
    BY <1>3, <1>4
  <2>. QED
    BY <1>1, <2>1
<1>6. \E x \in T : \A y \in T : x >= y
  BY <1>5
<1>7. Max(T) \in T /\ \A y \in T : Max(T) >= y
  BY <1>6 DEF Max
<1>. QED
  BY <1>1, <1>7

\* Of all numbers up to k, k.
LEMMA GreatestUpTo ==
  ASSUME NEW n \in Nat, NEW k \in 1..n
  PROVE  Max(1..k) = k /\ (1..k) \ {k} = 1..(k - 1) /\ 1..k \in SUBSET (1..n) /\ 1..k # {}
<1>1. 1..k \in SUBSET (1..n) /\ k \in 1..k /\ (1..k) \ {k} = 1..(k - 1)
  OBVIOUS
<1>2. Max(1..k) \in 1..k /\ k <= Max(1..k)
  BY <1>1, Greatest
<1>. QED
  BY <1>1, <1>2

\* One more round of folding the numbers 1 to n into base.
Round(g, base, next, n) ==
  [s \in SUBSET (1..n) |-> IF s = {} THEN base ELSE next[<<g[s \ {Max(s)}], Max(s)>>]]

\* g folds every set of the numbers 1 to n.
Folds(g, V, base, next, n) == g \in [SUBSET (1..n) -> V] /\ g = Round(g, base, next, n)

\* A function that folds the sets of up to m numbers.
FoldsUpTo(m, V, base, next, n) ==
  \E g \in [SUBSET (1..n) -> V] :
    \A s \in SUBSET (1..n) : Cardinality(s) <= m => g[s] = Round(g, base, next, n)[s]

\* The recursion that defines a fold has a solution, for operations on any set
\* of values.
LEMMA FoldExists ==
  ASSUME NEW n \in Nat, NEW V, NEW base \in V, NEW next \in [V \X (1..n) -> V]
  PROVE  \E g : Folds(g, V, base, next, n)
<1>. DEFINE S == 1..n
            N == {i \in Nat : FoldsUpTo(i, V, base, next, n)}
<1>1. IsFiniteSet(S)
  BY FS_Interval
<1>2. \A s \in SUBSET S : IsFiniteSet(s) /\ Cardinality(s) \in Nat
  BY <1>1, FS_Subset, FS_CardinalityType
<1>3. ASSUME NEW s \in SUBSET S, s # {}
      PROVE  /\ Max(s) \in s /\ s \ {Max(s)} \in SUBSET S
             /\ Cardinality(s \ {Max(s)}) = Cardinality(s) - 1
  <2>1. Max(s) \in s
    BY <1>3, Greatest
  <2>. QED
    BY <2>1, <1>2, FS_RemoveElement
<1>4. ASSUME NEW g \in [SUBSET S -> V]
      PROVE  Round(g, base, next, n) \in [SUBSET S -> V]
  <2>1. ASSUME NEW s \in SUBSET S, s # {}
        PROVE  next[<<g[s \ {Max(s)}], Max(s)>>] \in V
    <3>1. Max(s) \in S /\ s \ {Max(s)} \in SUBSET S
      BY <1>3, <2>1
    <3>. QED
      BY <3>1
  <2>. QED
    BY <2>1 DEF Round
<1>5. 0 \in N
  <2>. DEFINE g == [s \in SUBSET S |-> base]
  <2>1. ASSUME NEW s \in SUBSET S, Cardinality(s) <= 0
        PROVE  g[s] = Round(g, base, next, n)[s]
    <3>1. s = {}
      BY <1>2, <2>1, FS_EmptySet
    <3>. QED
      BY <3>1 DEF Round
  <2>2. g \in [SUBSET S -> V]
    OBVIOUS
  <2>. HIDE DEF g
  <2>. QED
    BY <2>1, <2>2 DEF FoldsUpTo
<1>6. ASSUME NEW m \in Nat, m \in N
      PROVE  m + 1 \in N
  <2>1. PICK g \in [SUBSET S -> V] :
          \A s \in SUBSET S : Cardinality(s) <= m => g[s] = Round(g, base, next, n)[s]
    BY <1>6 DEF FoldsUpTo
  <2>. DEFINE h == Round(g, base, next, n)
  <2>2. ASSUME NEW s \in SUBSET S, Cardinality(s) <= m + 1
        PROVE  h[s] = Round(h, base, next, n)[s]
    <3>1. CASE s = {}
      BY <3>1 DEF Round
    <3>2. CASE s # {}
      <4>. DEFINE r == s \ {Max(s)}
      <4>1. r \in SUBSET S /\ Cardinality(r) <= m
        BY <1>2, <1>3, <2>2, <3>2
      <4>2. g[r] = h[r]
        BY <2>1, <4>1
      <4>. QED
        BY <3>2, <4>2 DEF Round
    <3>. QED
      BY <3>1, <3>2
  <2>3. h \in [SUBSET S -> V]
    BY <1>4
  <2>. HIDE DEF h
  <2>4. FoldsUpTo(m + 1, V, base, next, n)
    BY <2>2, <2>3 DEF FoldsUpTo
  <2>. QED
    BY <2>4
<1>. HIDE DEF N
<1>7. Nat \subseteq N
  BY <1>5, <1>6, Induction
<1>8. Cardinality(S) \in N /\ \A s \in SUBSET S : Cardinality(s) <= Cardinality(S)
  BY <1>1, <1>7, FS_Subset, FS_CardinalityType
<1>9. PICK g \in [SUBSET S -> V] : \A s \in SUBSET S : g[s] = Round(g, base, next, n)[s]
  BY <1>8 DEF N, FoldsUpTo
<1>10. g = Round(g, base, next, n)
  <2>1. Round(g, base, next, n) \in [SUBSET S -> V]
    BY <1>4
  <2>. QED
    BY <1>9, <2>1
<1>. QED
  BY <1>10 DEF Folds

\* Value adds up the bytes, the highest first.
LEMMA ValueRounds ==
  ASSUME NEW bytes \in Seq(Nat)
  PROVE  \E g : /\ g[{}] = 0
                /\ \A k \in 1..Len(bytes) : g[1..k] = 256 * g[1..(k - 1)] + bytes[k]
                /\ Value(bytes) = g[1..Len(bytes)]
<1>. DEFINE len == Len(bytes)
            op == [p \in Nat \X (1..len) |-> 256 * p[1] + bytes[p[2]]]
            Sum(g) == g = [s \in SUBSET (DOMAIN bytes) |->
                             IF s = {} THEN 0 ELSE 256 * g[s \ {Max(s)}] + bytes[Max(s)]]
<1>1. len \in Nat /\ DOMAIN bytes = 1..len /\ \A k \in 1..len : bytes[k] \in Nat
  BY LenProperties
<1>2. op \in [Nat \X (1..len) -> Nat]
  BY <1>1
<1>. HIDE DEF len
<1>3. PICK g : Folds(g, Nat, 0, op, len)
  <2>. HIDE DEF op
  <2>1. len \in Nat /\ 0 \in Nat
    BY <1>1
  <2>. QED
    BY <2>1, <1>2, FoldExists, Zenon
<1>4. Sum(g)
  <2>1. ASSUME NEW s \in SUBSET (1..len), s # {}
        PROVE  op[<<g[s \ {Max(s)}], Max(s)>>] = 256 * g[s \ {Max(s)}] + bytes[Max(s)]
    <3>1. Max(s) \in 1..len /\ g[s \ {Max(s)}] \in Nat
      BY <1>1, <1>3, <2>1, Greatest DEF Folds
    <3>. QED
      BY <3>1
  <2>. HIDE DEF op
  <2>2. g = [s \in SUBSET (1..len) |->
               IF s = {} THEN 0 ELSE op[<<g[s \ {Max(s)}], Max(s)>>]]
    BY <1>3 DEF Folds, Round
  <2>. QED
    BY <1>1, <2>1, <2>2
<1>5. Value(bytes) = (CHOOSE f : Sum(f))[1..len]
  BY <1>1 DEF Value, FoldLeft, MapThenFoldSet
<1>. DEFINE f == CHOOSE h : Sum(h)
<1>6. Sum(f)
  <2>. HIDE DEF Sum
  <2>. QED
    BY <1>4
<1>. HIDE DEF f
<1>7. \A s \in SUBSET (1..len) : f[s] = IF s = {} THEN 0 ELSE 256 * f[s \ {Max(s)}] + bytes[Max(s)]
  BY <1>1, <1>6
<1>8. ASSUME NEW k \in 1..len
      PROVE  f[1..k] = 256 * f[1..(k - 1)] + bytes[k]
  <2>1. 1..k \in SUBSET (1..len) /\ 1..k # {} /\ Max(1..k) = k /\ (1..k) \ {k} = 1..(k - 1)
    BY <1>1, GreatestUpTo
  <2>2. f[1..k] = 256 * f[(1..k) \ {Max(1..k)}] + bytes[Max(1..k)]
    BY <1>7, <2>1
  <2>. QED
    BY <2>1, <2>2
<1>9. f[{}] = 0
  BY <1>7
<1>. QED
  BY <1>5, <1>8, <1>9 DEF f, len

\* A byte is a number up to 255, and bytes are numbers.
LEMMA ByteNumbers ==
  /\ \A x : x \in Byte <=> x \in Nat /\ x <= 255
  /\ \A b \in Seq(Byte) : /\ Len(b) \in Nat /\ DOMAIN b = 1..Len(b) /\ b \in Seq(Nat)
                          /\ \A i \in 1..Len(b) : b[i] \in Byte /\ b[i] \in Nat /\ b[i] <= 255
<1>1. \A x : x \in Byte <=> x \in Nat /\ x <= 255
  BY DEF Byte
<1>2. ASSUME NEW b \in Seq(Byte)
      PROVE  /\ Len(b) \in Nat /\ DOMAIN b = 1..Len(b) /\ b \in Seq(Nat)
             /\ \A i \in 1..Len(b) : b[i] \in Byte
  <2>1. Byte \subseteq Nat
    BY <1>1
  <2>. QED
    BY <2>1, LenProperties, ElementOfSeq, SeqMonotonic
<1>. QED
  BY <1>1, <1>2

\* The value of two, four and eight bytes.
LEMMA ValueOf2 ==
  ASSUME NEW b \in Seq(Byte), Len(b) = 2
  PROVE  Value(b) = 256 * b[1] + b[2]
<1>1. b \in Seq(Nat) /\ b[1] \in Nat /\ b[2] \in Nat
  <2>1. b \in Seq(Nat)
    BY ByteNumbers
  <2>2. 1 \in 1..Len(b) /\ 2 \in 1..Len(b)
    OBVIOUS
  <2>. QED
    BY <2>1, <2>2, ElementOfSeq
<1>2. PICK g : /\ g[{}] = 0
               /\ \A k \in 1..Len(b) : g[1..k] = 256 * g[1..(k - 1)] + b[k]
               /\ Value(b) = g[1..Len(b)]
  BY <1>1, ValueRounds
<1>3. g[1..1] = 256 * g[1..(1 - 1)] + b[1] /\ g[1..2] = 256 * g[1..(2 - 1)] + b[2]
  BY <1>2
<1>4. 1..(1 - 1) = {} /\ 2 - 1 = 1
  OBVIOUS
<1>5. g[1..1] = 256 * g[{}] + b[1] /\ g[1..2] = 256 * g[1..1] + b[2]
  BY <1>3, <1>4
<1>6. g[1..1] = b[1]
  BY <1>1, <1>2, <1>5
<1>. QED
  BY <1>2, <1>5, <1>6

\* The value of four bytes.
LEMMA ValueOf4 ==
  ASSUME NEW b \in Seq(Byte), Len(b) = 4
  PROVE  Value(b) = 256 * (256 * (256 * b[1] + b[2]) + b[3]) + b[4]
<1>0. 1 \in 1..Len(b)
  OBVIOUS
<1>1. b \in Seq(Nat) /\ b[1] \in Nat
  BY <1>0, ByteNumbers
<1>2. PICK g : /\ g[{}] = 0
               /\ \A k \in 1..Len(b) : g[1..k] = 256 * g[1..(k - 1)] + b[k]
               /\ Value(b) = g[1..Len(b)]
  BY <1>1, ValueRounds
<1>3. /\ g[1..1] = 256 * g[1..(1 - 1)] + b[1] /\ g[1..2] = 256 * g[1..(2 - 1)] + b[2]
      /\ g[1..3] = 256 * g[1..(3 - 1)] + b[3] /\ g[1..4] = 256 * g[1..(4 - 1)] + b[4]
  BY <1>2
<1>4. 1..(1 - 1) = {} /\ 2 - 1 = 1 /\ 3 - 1 = 2 /\ 4 - 1 = 3
  OBVIOUS
<1>5. /\ g[1..1] = 256 * g[{}] + b[1] /\ g[1..2] = 256 * g[1..1] + b[2]
      /\ g[1..3] = 256 * g[1..2] + b[3] /\ g[1..4] = 256 * g[1..3] + b[4]
  BY <1>3, <1>4
<1>6. g[1..1] = b[1]
  BY <1>1, <1>2, <1>5
<1>. QED
  BY <1>2, <1>5, <1>6

\* The value of eight bytes of which the first five are zero.
LEMMA ValueOf8 ==
  ASSUME NEW b \in Seq(Byte), Len(b) = 8, \A i \in 1..5 : b[i] = 0
  PROVE  Value(b) = 256 * (256 * b[6] + b[7]) + b[8]
<1>0. 6 \in 1..Len(b)
  OBVIOUS
<1>1. b \in Seq(Nat) /\ b[6] \in Nat
  BY <1>0, ByteNumbers
<1>2. PICK g : /\ g[{}] = 0
               /\ \A k \in 1..Len(b) : g[1..k] = 256 * g[1..(k - 1)] + b[k]
               /\ Value(b) = g[1..Len(b)]
  BY <1>1, ValueRounds
<1>3. /\ g[1..1] = 256 * g[1..(1 - 1)] + 0 /\ g[1..2] = 256 * g[1..(2 - 1)] + 0
      /\ g[1..3] = 256 * g[1..(3 - 1)] + 0 /\ g[1..4] = 256 * g[1..(4 - 1)] + 0
      /\ g[1..5] = 256 * g[1..(5 - 1)] + 0 /\ g[1..6] = 256 * g[1..(6 - 1)] + b[6]
      /\ g[1..7] = 256 * g[1..(7 - 1)] + b[7] /\ g[1..8] = 256 * g[1..(8 - 1)] + b[8]
  BY <1>2
<1>4. /\ 1..(1 - 1) = {} /\ 2 - 1 = 1 /\ 3 - 1 = 2 /\ 4 - 1 = 3 /\ 5 - 1 = 4
      /\ 6 - 1 = 5 /\ 7 - 1 = 6 /\ 8 - 1 = 7
  OBVIOUS
<1>5. /\ g[1..1] = 256 * g[{}] + 0 /\ g[1..2] = 256 * g[1..1] + 0
      /\ g[1..3] = 256 * g[1..2] + 0 /\ g[1..4] = 256 * g[1..3] + 0
      /\ g[1..5] = 256 * g[1..4] + 0 /\ g[1..6] = 256 * g[1..5] + b[6]
      /\ g[1..7] = 256 * g[1..6] + b[7] /\ g[1..8] = 256 * g[1..7] + b[8]
  BY <1>3, <1>4
<1>6. g[1..5] = 0
  BY <1>2, <1>5
<1>7. g[1..6] = b[6]
  BY <1>1, <1>5, <1>6
<1>. QED
  BY <1>2, <1>5, <1>7

\* Numbers in two, three and four bytes.
LEMMA BigEndian2 ==
  ASSUME NEW m \in Nat
  PROVE  BigEndian(m, 2) = <<(m \div 256) % 256, m % 256>>
<1>1. 256^0 = 1 /\ 256^1 = 256
  BY SMT
<1>. QED
  BY <1>1, SMT DEF BigEndian

\* The three bytes of a number.
ThreeBytes(m) == <<((m \div 256) \div 256) % 256, (m \div 256) % 256, m % 256>>

\* BigEndian writes them.
LEMMA BigEndian3 ==
  ASSUME NEW m \in Nat
  PROVE  BigEndian(m, 3) = ThreeBytes(m)
<1>1. 256^0 = 1 /\ 256^1 = 256 /\ 256^2 = 65536 /\ m \div 65536 = (m \div 256) \div 256
  BY SMT
<1>. QED
  BY <1>1, SMT DEF BigEndian, ThreeBytes

\* The four bytes of a number.
LEMMA BigEndian4 ==
  ASSUME NEW m \in Nat
  PROVE  BigEndian(m, 4) = <<(((m \div 256) \div 256) \div 256) % 256,
                             ((m \div 256) \div 256) % 256, (m \div 256) % 256, m % 256>>
<1>1. /\ 256^0 = 1 /\ 256^1 = 256 /\ 256^2 = 65536 /\ 256^3 = 16777216
      /\ m \div 65536 = (m \div 256) \div 256
      /\ m \div 16777216 = ((m \div 256) \div 256) \div 256
  BY SMT
<1>. QED
  BY <1>1, SMT DEF BigEndian

\* A number's lower byte and the rest.
LEMMA LowByte ==
  ASSUME NEW m \in Nat
  PROVE  m % 256 \in Byte /\ m \div 256 \in Nat /\ m = 256 * (m \div 256) + (m % 256)
<1>. DEFINE h == m \div 256
            l == m % 256
<1>1. l \in Nat /\ l <= 255 /\ h \in Nat
  OBVIOUS
<1>2. l = m - 256 * h
  BY SMT
<1>. HIDE DEF h, l
<1>3. l \in Byte /\ h \in Nat /\ m = 256 * h + l
  BY <1>1, <1>2, ByteNumbers
<1>. QED
  BY <1>3 DEF h, l

\* A number of two bytes is read as it was written.
LEMMA InTwoBytes ==
  ASSUME NEW m \in Nat, m \div 256 <= 255
  PROVE  BigEndian(m, 2) \in Seq(Byte) /\ Len(BigEndian(m, 2)) = 2 /\ Value(BigEndian(m, 2)) = m
<1>. DEFINE h == m \div 256
            l == m % 256
<1>1. h \in Nat /\ h <= 255 /\ l \in Byte /\ m = 256 * h + l
  BY LowByte
<1>2. BigEndian(m, 2) = <<h % 256, l>>
  BY BigEndian2
<1>. HIDE DEF h, l
<1>3. h \in Byte /\ h % 256 = h
  BY <1>1 DEF Byte
<1>4. BigEndian(m, 2) = <<h, l>>
  BY <1>2, <1>3
<1>5. <<h, l>> \in Seq(Byte) /\ Len(<<h, l>>) = 2
  BY <1>1, <1>3
<1>. QED
  BY <1>1, <1>4, <1>5, ValueOf2

\* A number of four bytes is read as it was written.
LEMMA InFourBytes ==
  ASSUME NEW m \in Nat, ((m \div 256) \div 256) \div 256 <= 255
  PROVE  /\ BigEndian(m, 4) \in Seq(Byte) /\ Len(BigEndian(m, 4)) = 4
         /\ Value(BigEndian(m, 4)) = m
<1>. DEFINE a == m \div 256
            b == a \div 256
            c == b \div 256
<1>2. /\ m % 256 \in Byte /\ a \in Nat /\ m = 256 * a + (m % 256)
      /\ a % 256 \in Byte /\ b \in Nat /\ a = 256 * b + (a % 256)
      /\ b % 256 \in Byte /\ c \in Nat /\ b = 256 * c + (b % 256)
  BY LowByte
<1>3. c <= 255
  OBVIOUS
<1>4. BigEndian(m, 4) = <<c % 256, b % 256, a % 256, m % 256>>
  BY BigEndian4
<1>. HIDE DEF a, b, c
<1>5. c \in Byte /\ c % 256 = c
  BY <1>2, <1>3 DEF Byte
<1>. DEFINE x == a % 256
            y == b % 256
            z == m % 256
<1>6. BigEndian(m, 4) = <<c, y, x, z>>
  BY <1>4, <1>5
<1>7. c \in Byte /\ y \in Byte /\ x \in Byte /\ z \in Byte /\ m = 256 * (256 * (256 * c + y) + x) + z
  BY <1>2, <1>5
<1>. HIDE DEF x, y, z
<1>. DEFINE t == <<c, y, x, z>>
<1>8. t \in Seq(Byte) /\ Len(t) = 4 /\ t[1] = c /\ t[2] = y /\ t[3] = x /\ t[4] = z
  BY <1>7
<1>9. BigEndian(m, 4) = t
  BY <1>6
<1>. HIDE DEF t
<1>10. Value(t) = 256 * (256 * (256 * t[1] + t[2]) + t[3]) + t[4]
  BY <1>8, ValueOf4
<1>. QED
  BY <1>7, <1>8, <1>9, <1>10

\* Turned around twice, a sequence is what it was.
LEMMA ReverseTwice ==
  ASSUME NEW S, NEW s \in Seq(S)
  PROVE  Reverse(s) \in Seq(S) /\ Len(Reverse(s)) = Len(s) /\ Reverse(Reverse(s)) = s
<1>. DEFINE n == Len(s)
<1>1. n \in Nat /\ DOMAIN s = 1..n /\ s \in [1..n -> S]
  BY LenProperties
<1>. HIDE DEF n
<1>2. ASSUME NEW r \in [1..n -> S]
      PROVE  [i \in 1..n |-> r[(n - i) + 1]] \in [1..n -> S]
  <2>1. \A i \in 1..n : (n - i) + 1 \in 1..n
    BY <1>1
  <2>. QED
    BY <2>1
<1>3. \A r \in [1..n -> S] : r \in Seq(S) /\ Len(r) = n
  BY <1>1
<1>4. \A r \in [1..n -> S] : Reverse(r) = [i \in 1..n |-> r[(n - i) + 1]]
  BY <1>3 DEF Reverse
<1>5. Reverse(s) = [i \in 1..n |-> s[(n - i) + 1]] /\ Reverse(s) \in [1..n -> S]
  BY <1>1, <1>2, <1>4
<1>6. Reverse(Reverse(s)) = [i \in 1..n |-> Reverse(s)[(n - i) + 1]]
  BY <1>4, <1>5
<1>7. ASSUME NEW i \in 1..n
      PROVE  Reverse(s)[(n - i) + 1] = s[i]
  <2>1. (n - i) + 1 \in 1..n /\ (n - ((n - i) + 1)) + 1 = i
    BY <1>1
  <2>. QED
    BY <1>5, <2>1
<1>8. Reverse(Reverse(s)) = s
  BY <1>1, <1>6, <1>7
<1>. QED
  BY <1>3, <1>5, <1>8 DEF n

\* The lowest byte first.
LEMMA Little2 ==
  ASSUME NEW m \in Nat, m \div 256 <= 255
  PROVE  /\ LittleEndian(m, 2) \in Seq(Byte) /\ Len(LittleEndian(m, 2)) = 2
         /\ Number(LittleEndian(m, 2)) = m
  BY InTwoBytes, ReverseTwice DEF LittleEndian, Number

\* Four bytes, lowest first.
LEMMA Little4 ==
  ASSUME NEW m \in Nat, ((m \div 256) \div 256) \div 256 <= 255
  PROVE  /\ LittleEndian(m, 4) \in Seq(Byte) /\ Len(LittleEndian(m, 4)) = 4
         /\ Number(LittleEndian(m, 4)) = m
  BY InFourBytes, ReverseTwice DEF LittleEndian, Number

-----------------------------------------------------------------------------
(* The operator ^. *)

\* The four bits of half a byte.
LEMMA HalfByte ==
  ASSUME NEW p8 \in 0..1, NEW p4 \in 0..1, NEW p2 \in 0..1, NEW p1 \in 0..1,
         NEW c, c = 8 * p8 + 4 * p4 + 2 * p2 + p1
  PROVE  /\ c \in 0..15
         /\ c \div 8 = p8 /\ c \div 4 = 2 * p8 + p4 /\ c \div 2 = 2 * (2 * p8 + p4) + p2
         /\ c \div 1 = 2 * (2 * (2 * p8 + p4) + p2) + p1
<1>1. c \in 0..15
  OBVIOUS
<1>2. c \div 8 = p8
  OBVIOUS
<1>3. c \div 4 = 2 * p8 + p4
  OBVIOUS
<1>4. c \div 2 = 2 * (2 * p8 + p4) + p2
  OBVIOUS
<1>5. c \div 1 = 2 * (2 * (2 * p8 + p4) + p2) + p1
  OBVIOUS
<1>. QED
  BY <1>1, <1>2, <1>3, <1>4, <1>5

\* Half a byte has four bits.
LEMMA HalfByteBits ==
  ASSUME NEW a \in 0..15
  PROVE  \E p8 \in 0..1, p4 \in 0..1, p2 \in 0..1, p1 \in 0..1 : a = 8 * p8 + 4 * p4 + 2 * p2 + p1
<1>. DEFINE d8 == a \div 8
            d4 == a \div 4
            d2 == a \div 2
<1>1. d8 \in 0..1 /\ d4 - 2 * d8 \in 0..1 /\ d2 - 2 * d4 \in 0..1 /\ a - 2 * d2 \in 0..1
      /\ d8 \in Int /\ d4 \in Int /\ d2 \in Int
  OBVIOUS
<1>. HIDE DEF d8, d4, d2
<1>2. a = 8 * d8 + 4 * (d4 - 2 * d8) + 2 * (d2 - 2 * d4) + (a - 2 * d2)
  BY <1>1
<1>. QED
  BY <1>1, <1>2

\* The lowest bit of a sum with y, twice, is that of the first operand.
LEMMA BitTwice ==
  ASSUME NEW h \in Int, NEW k \in Int, NEW x \in 0..1, NEW y \in Int
  PROVE  /\ (2 * h + x + y) % 2 \in 0..1
         /\ (2 * k + ((2 * h + x + y) % 2) + y) % 2 = x
  BY SMT

\* On half a byte: the other operand, twice, leaves an operand unchanged.
LEMMA Xor4Undone ==
  ASSUME NEW a \in 0..15, NEW b \in 0..15
  PROVE  Xor4[a][b] \in 0..15 /\ Xor4[Xor4[a][b]][b] = a
<1>. DEFINE bit(x, n) == (x \div n + b \div n) % 2
            c == Xor4[a][b]
            e8 == bit(a, 8)
            e4 == bit(a, 4)
            e2 == bit(a, 2)
            e1 == bit(a, 1)
<1>1. \A x \in 0..15 : Xor4[x][b] = 8 * bit(x, 8) + 4 * bit(x, 4) + 2 * bit(x, 2) + bit(x, 1)
  BY DEF Xor4
<1>2. PICK p8 \in 0..1, p4 \in 0..1, p2 \in 0..1, p1 \in 0..1 : a = 8 * p8 + 4 * p4 + 2 * p2 + p1
  BY HalfByteBits
<1>3. /\ a \div 8 = 2 * 0 + p8 /\ a \div 4 = 2 * p8 + p4 /\ a \div 2 = 2 * (2 * p8 + p4) + p2
      /\ a \div 1 = 2 * (2 * (2 * p8 + p4) + p2) + p1
  BY <1>2, HalfByte
<1>4. b \div 8 \in Int /\ b \div 4 \in Int /\ b \div 2 \in Int /\ b \div 1 \in Int
  OBVIOUS
<1>5. e8 \in 0..1 /\ e4 \in 0..1 /\ e2 \in 0..1 /\ e1 \in 0..1
  OBVIOUS
<1>6. c = 8 * e8 + 4 * e4 + 2 * e2 + e1
  BY <1>1
<1>7. /\ e8 = (2 * 0 + p8 + b \div 8) % 2 /\ e4 = (2 * p8 + p4 + b \div 4) % 2
      /\ e2 = (2 * (2 * p8 + p4) + p2 + b \div 2) % 2
      /\ e1 = (2 * (2 * (2 * p8 + p4) + p2) + p1 + b \div 1) % 2
  BY <1>3, Zenon
<1>. HIDE DEF c, e8, e4, e2, e1
<1>8. /\ c \in 0..15 /\ c \div 8 = 2 * 0 + e8 /\ c \div 4 = 2 * e8 + e4
      /\ c \div 2 = 2 * (2 * e8 + e4) + e2 /\ c \div 1 = 2 * (2 * (2 * e8 + e4) + e2) + e1
  BY <1>5, <1>6, HalfByte
<1>9. bit(c, 8) = p8
  <2>1. (2 * 0 + e8 + b \div 8) % 2 = p8
    BY <1>4, <1>7, BitTwice
  <2>. QED
    BY <1>8, <2>1, Zenon
<1>10. bit(c, 4) = p4
  <2>1. (2 * e8 + e4 + b \div 4) % 2 = p4
    BY <1>4, <1>5, <1>7, BitTwice
  <2>. QED
    BY <1>8, <2>1, Zenon
<1>11. bit(c, 2) = p2
  <2>1. (2 * (2 * e8 + e4) + e2 + b \div 2) % 2 = p2
    BY <1>4, <1>5, <1>7, BitTwice
  <2>. QED
    BY <1>8, <2>1, Zenon
<1>12. bit(c, 1) = p1
  <2>1. (2 * (2 * (2 * e8 + e4) + e2) + e1 + b \div 1) % 2 = p1
    BY <1>4, <1>5, <1>7, BitTwice
  <2>. QED
    BY <1>8, <2>1, Zenon
<1>13. Xor4[c][b] = a
  <2>1. Xor4[c][b] = 8 * bit(c, 8) + 4 * bit(c, 4) + 2 * bit(c, 2) + bit(c, 1)
    BY <1>1, <1>8
  <2>. QED
    BY <1>2, <1>9, <1>10, <1>11, <1>12, <2>1, Zenon
<1>. QED
  BY <1>8, <1>13 DEF c

\* The operator ^ on bytes is its own inverse.
LEMMA Xor8Undone ==
  ASSUME NEW a \in Byte, NEW b \in Byte
  PROVE  Xor8(a, b) \in Byte /\ Xor8(Xor8(a, b), b) = a
<1>. DEFINE h == Xor4[a \div 16][b \div 16]
            l == Xor4[a % 16][b % 16]
<1>1. /\ a \div 16 \in 0..15 /\ a % 16 \in 0..15 /\ b \div 16 \in 0..15 /\ b % 16 \in 0..15
      /\ a % 16 = a - 16 * (a \div 16)
  BY SMT DEF Byte
<1>2. /\ h \in 0..15 /\ Xor4[h][b \div 16] = a \div 16
      /\ l \in 0..15 /\ Xor4[l][b % 16] = a % 16
  BY <1>1, Xor4Undone
<1>3. Xor8(a, b) = 16 * h + l
  BY DEF Xor8
<1>. HIDE DEF h, l
<1>4. /\ 16 * h + l \in Byte
      /\ (16 * h + l) \div 16 = h /\ (16 * h + l) % 16 = l
  BY <1>2, SMT DEF Byte
<1>5. Xor8(16 * h + l, b) = 16 * Xor4[h][b \div 16] + Xor4[l][b % 16]
  BY <1>4 DEF Xor8
<1>6. 16 * (a \div 16) + (a % 16) = a
  BY <1>1 DEF Byte
<1>. QED
  BY <1>2, <1>3, <1>4, <1>5, <1>6

\* On two bytes.
LEMMA Xor16Type ==
  ASSUME NEW a \in Nat, a \div 256 <= 255, NEW b \in Nat, b \div 256 <= 255
  PROVE  Xor16(a, b) \in Nat /\ Xor16(a, b) \div 256 <= 255
<1>1. a \div 256 \in Byte /\ a % 256 \in Byte /\ b \div 256 \in Byte /\ b % 256 \in Byte
  BY LowByte, ByteNumbers
<1>2. Xor8(a \div 256, b \div 256) \in Byte /\ Xor8(a % 256, b % 256) \in Byte
  BY <1>1, Xor8Undone
<1>. DEFINE h == Xor8(a \div 256, b \div 256)
            l == Xor8(a % 256, b % 256)
<1>3. Xor16(a, b) = 256 * h + l /\ h \in Byte /\ l \in Byte
  BY <1>2 DEF Xor16
<1>. HIDE DEF h, l
<1>4. \A x, y \in Byte : 256 * x + y \in Nat /\ (256 * x + y) \div 256 = x /\ x <= 255
  BY SMT DEF Byte
<1>. QED
  BY <1>3, <1>4

-----------------------------------------------------------------------------
(* Parts of a buffer. *)

\* Behind the first k bytes of b lies p.
Holds(b, k, p) == k + Len(p) <= Len(b) /\ \A i \in 1..Len(p) : b[k + i] = p[i]

\* What is put together lies in the whole, one behind the other.
LEMMA HoldsBoth ==
  ASSUME NEW S, NEW b \in Seq(S), NEW c \in Seq(S)
  PROVE  /\ b \o c \in Seq(S) /\ Len(b \o c) = Len(b) + Len(c)
         /\ Holds(b \o c, 0, b) /\ Holds(b \o c, Len(b), c)
<1>1. Len(b) \in Nat /\ Len(c) \in Nat
  BY LenProperties
<1>2. /\ b \o c \in Seq(S) /\ Len(b \o c) = Len(b) + Len(c)
      /\ \A i \in 1..(Len(b) + Len(c)) : (b \o c)[i] = IF i <= Len(b) THEN b[i] ELSE c[i - Len(b)]
  BY ConcatProperties
<1>3. \A i \in 1..Len(b) : (b \o c)[0 + i] = b[i]
  BY <1>1, <1>2
<1>4. ASSUME NEW i \in 1..Len(c)
      PROVE  (b \o c)[Len(b) + i] = c[i]
  <2>1. /\ Len(b) + i \in 1..(Len(b) + Len(c)) /\ ~(Len(b) + i <= Len(b))
        /\ (Len(b) + i) - Len(b) = i
    BY <1>1
  <2>. QED
    BY <1>2, <2>1
<1>. QED
  BY <1>1, <1>2, <1>3, <1>4 DEF Holds

\* A part of a part is a part.
LEMMA HoldsPart ==
  ASSUME NEW S, NEW b \in Seq(S), NEW c \in Seq(S), NEW p \in Seq(S), NEW k \in Nat, NEW j \in Nat,
         Holds(b, k, c), Holds(c, j, p)
  PROVE  Holds(b, k + j, p)
<1>1. Len(b) \in Nat /\ Len(c) \in Nat /\ Len(p) \in Nat
  BY LenProperties
<1>2. (k + j) + Len(p) <= Len(b)
  BY <1>1 DEF Holds
<1>3. ASSUME NEW i \in 1..Len(p)
      PROVE  b[(k + j) + i] = p[i]
  <2>1. j + i \in 1..Len(c) /\ k + (j + i) = (k + j) + i
    BY <1>1 DEF Holds
  <2>2. b[k + (j + i)] = c[j + i] /\ c[j + i] = p[i]
    BY <2>1 DEF Holds
  <2>. QED
    BY <2>1, <2>2
<1>. QED
  BY <1>2, <1>3 DEF Holds

\* SubSeq takes a part out.
LEMMA HoldsSubSeq ==
  ASSUME NEW S, NEW b \in Seq(S), NEW p \in Seq(S), NEW k \in Nat, Holds(b, k, p)
  PROVE  SubSeq(b, k + 1, k + Len(p)) = p
<1>. DEFINE q == SubSeq(b, k + 1, k + Len(p))
<1>1. /\ Len(b) \in Nat /\ DOMAIN b = 1..Len(b) /\ Len(p) \in Nat
      /\ \A i \in 1..Len(b) : b[i] \in S
  BY LenProperties, ElementOfSeq
<1>2. \A i \in (k + 1)..(k + Len(p)) : b[i] \in S
  BY <1>1 DEF Holds
<1>3. /\ q \in Seq(S)
      /\ Len(q) = IF k + 1 <= k + Len(p) THEN (k + Len(p)) - (k + 1) + 1 ELSE 0
      /\ \A i \in 1..((k + Len(p)) - (k + 1) + 1) : q[i] = b[(k + 1) + i - 1]
  BY <1>1, <1>2, SubSeqProperties
<1>. HIDE DEF q
<1>4. Len(q) = Len(p)
  BY <1>1, <1>3
<1>5. ASSUME NEW i \in 1..Len(p)
      PROVE  q[i] = p[i]
  <2>1. i \in 1..((k + Len(p)) - (k + 1) + 1) /\ (k + 1) + i - 1 = k + i
    BY <1>1
  <2>. QED
    BY <1>3, <2>1 DEF Holds
<1>6. q = p
  BY <1>3, <1>4, <1>5, SeqEqual
<1>. QED
  BY <1>6 DEF q

\* The beginning of a sequence.
LEMMA Beginning ==
  ASSUME NEW S, NEW b \in Seq(S), NEW n \in 0..Len(b)
  PROVE  /\ SubSeq(b, 1, n) \in Seq(S) /\ Len(SubSeq(b, 1, n)) = n
         /\ \A i \in 1..n : SubSeq(b, 1, n)[i] = b[i]
<1>1. Len(b) \in Nat /\ \A i \in 1..Len(b) : b[i] \in S
  BY LenProperties, ElementOfSeq
<1>2. \A i \in 1..n : b[i] \in S
  BY <1>1
<1>3. /\ SubSeq(b, 1, n) \in Seq(S) /\ Len(SubSeq(b, 1, n)) = IF 1 <= n THEN n - 1 + 1 ELSE 0
      /\ \A i \in 1..(n - 1 + 1) : SubSeq(b, 1, n)[i] = b[1 + i - 1]
  BY <1>1, <1>2, SubSeqProperties
<1>. QED
  BY <1>1, <1>3

\* What lies in a sequence still does when it goes on.
LEMMA HoldsBefore ==
  ASSUME NEW S, NEW b \in Seq(S), NEW c \in Seq(S), NEW p \in Seq(S), NEW k \in Nat, Holds(b, k, p)
  PROVE  Holds(b \o c, k, p)
<1>1. b \o c \in Seq(S) /\ Holds(b \o c, 0, b)
  BY HoldsBoth
<1>2. Holds(b \o c, 0 + k, p)
  BY <1>1, HoldsPart
<1>. QED
  BY <1>2

\* b has n bytes.
Sized(b, n) == b \in Seq(Byte) /\ Len(b) = n

\* Bytes put behind n others.
LEMMA JoinedParts ==
  ASSUME NEW b, NEW n, Sized(b, n), NEW c \in Seq(Byte)
  PROVE  /\ b \o c \in Seq(Byte) /\ Len(b \o c) = n + Len(c)
         /\ Holds(b \o c, 0, b) /\ Holds(b \o c, n, c)
<1>1. b \in Seq(Byte) /\ Len(b) = n
  BY DEF Sized
<1>2. /\ b \o c \in Seq(Byte) /\ Len(b \o c) = Len(b) + Len(c)
      /\ Holds(b \o c, 0, b) /\ Holds(b \o c, Len(b), c)
  BY <1>1, HoldsBoth
<1>. QED
  BY <1>1, <1>2

\* What the first of them hold stays where it is.
LEMMA JoinedKeeps ==
  ASSUME NEW b \in Seq(Byte), NEW c \in Seq(Byte)
  PROVE  \A k \in Nat, p \in Seq(Byte) : Holds(b, k, p) => Holds(b \o c, k, p)
  BY HoldsBefore

\* Bytes put behind n others, and what those hold.
LEMMA Joined ==
  ASSUME NEW b \in Seq(Byte), NEW c \in Seq(Byte), NEW n \in Nat, Len(b) = n
  PROVE  /\ b \o c \in Seq(Byte) /\ Len(b \o c) = n + Len(c)
         /\ Holds(b \o c, 0, b) /\ Holds(b \o c, n, c)
         /\ \A k \in Nat, p \in Seq(Byte) : Holds(b, k, p) => Holds(b \o c, k, p)
<1>1. Sized(b, n)
  BY DEF Sized
<1>. QED
  BY <1>1, JoinedParts, JoinedKeeps

\* n bytes that lie behind k others are read there.
LEMMA PartRead ==
  ASSUME NEW b \in Seq(Byte), NEW p, NEW k \in Nat, NEW n, Sized(p, n), Holds(b, k, p)
  PROVE  SubSeq(b, k + 1, k + n) = p
<1>1. p \in Seq(Byte) /\ Len(p) = n
  BY DEF Sized
<1>2. SubSeq(b, k + 1, k + Len(p)) = p
  BY <1>1, HoldsSubSeq
<1>. QED
  BY <1>1, <1>2

-----------------------------------------------------------------------------
(* The device protocol. *)

\* The numbers of two bytes.
Word == {x \in Nat : x \div 256 <= 255}

\* One step of the checksum stays within two bytes.
LEMMA StepType ==
  ASSUME NEW crc \in Word, NEW byte \in Byte
  PROVE  crc16_step[crc][byte] \in Word
<1>1. crc \in Nat /\ crc \div 256 \in Byte /\ crc % 256 \in Byte
  BY LowByte, ByteNumbers DEF Word
<1>2. Xor8(crc \div 256, byte) \in Byte
  BY <1>1, Xor8Undone
<1>3. ASSUME NEW i \in Byte
      PROVE  crc16_table[i] \in Nat /\ crc16_table[i] \div 256 <= 255
  <2>1. crc16_table[i] = IF i < 16 THEN i * 4129 ELSE 0
    BY <1>3 DEF crc16_table, Byte
  <2>2. i * 4129 \in Nat /\ i < 16 => (i * 4129) \div 256 <= 255
    BY SMT DEF Byte
  <2>3. i * 4129 \in Nat /\ 0 \div 256 <= 255
    BY SMT DEF Byte
  <2>. QED
    BY <2>1, <2>2, <2>3
<1>4. \A x \in Byte : 256 * x \in Nat /\ (256 * x) \div 256 <= 255
  BY SMT DEF Byte
<1>. DEFINE a == 256 * (crc % 256)
            t == crc16_table[Xor8(crc \div 256, byte)]
<1>5. a \in Nat /\ a \div 256 <= 255 /\ t \in Nat /\ t \div 256 <= 255
  BY <1>1, <1>2, <1>3, <1>4
<1>6. crc16_step[crc][byte] = Xor16(a, t)
  BY <1>1 DEF crc16_step
<1>. HIDE DEF a, t
<1>7. Xor16(a, t) \in Nat /\ Xor16(a, t) \div 256 <= 255
  BY <1>5, Xor16Type
<1>. QED
  BY <1>6, <1>7 DEF Word

\* Steps over all bytes, from any number of two bytes on.
LEMMA StepsType ==
  ASSUME NEW data \in Seq(Byte), NEW first \in Word
  PROVE  (CHOOSE f : f = [s \in SUBSET (DOMAIN data) |->
                            IF s = {} THEN first
                            ELSE crc16_step[f[s \ {Max(s)}]][data[Max(s)]]])[DOMAIN data] \in Word
<1>. DEFINE len == Len(data)
            op == [p \in Word \X (1..len) |-> crc16_step[p[1]][data[p[2]]]]
            Sum(g) == g = [s \in SUBSET (DOMAIN data) |->
                             IF s = {} THEN first ELSE crc16_step[g[s \ {Max(s)}]][data[Max(s)]]]
<1>1. len \in Nat /\ DOMAIN data = 1..len /\ \A k \in 1..len : data[k] \in Byte
  BY ByteNumbers
<1>2. op \in [Word \X (1..len) -> Word]
  BY <1>1, StepType
<1>. HIDE DEF len
<1>3. PICK g : Folds(g, Word, first, op, len)
  <2>. HIDE DEF op
  <2>. QED
    BY <1>1, <1>2, FoldExists, Zenon
<1>4. Sum(g)
  <2>1. ASSUME NEW s \in SUBSET (1..len), s # {}
        PROVE  op[<<g[s \ {Max(s)}], Max(s)>>] = crc16_step[g[s \ {Max(s)}]][data[Max(s)]]
    <3>1. Max(s) \in 1..len /\ g[s \ {Max(s)}] \in Word
      BY <1>1, <1>3, <2>1, Greatest DEF Folds
    <3>. QED
      BY <3>1
  <2>. HIDE DEF op
  <2>2. g = [s \in SUBSET (1..len) |->
               IF s = {} THEN first ELSE op[<<g[s \ {Max(s)}], Max(s)>>]]
    BY <1>3 DEF Folds, Round
  <2>. QED
    BY <1>1, <2>1, <2>2
<1>. DEFINE f == CHOOSE h : Sum(h)
<1>6. Sum(f)
  <2>. HIDE DEF Sum
  <2>. QED
    BY <1>4
<1>. HIDE DEF f
<1>7. f[{}] \in Word
  BY <1>6
<1>8. ASSUME NEW s \in SUBSET (1..len), s # {}
      PROVE  f[s] = crc16_step[f[s \ {Max(s)}]][data[Max(s)]]
  BY <1>1, <1>6, <1>8
<1>9. ASSUME NEW k \in 1..len, f[1..(k - 1)] \in Word
      PROVE  f[1..k] \in Word
  <2>1. 1..k \in SUBSET (1..len) /\ 1..k # {} /\ Max(1..k) = k /\ (1..k) \ {k} = 1..(k - 1)
    BY <1>1, GreatestUpTo
  <2>2. f[1..k] = crc16_step[f[(1..k) \ {Max(1..k)}]][data[Max(1..k)]]
    BY <1>8, <2>1
  <2>3. f[1..k] = crc16_step[f[1..(k - 1)]][data[k]]
    BY <2>1, <2>2
  <2>. QED
    BY <1>1, <1>9, <2>3, StepType
<1>. DEFINE N == {k \in Nat : k <= len => f[1..k] \in Word}
<1>10. Nat \subseteq N
  <2>1. 0 \in N
    <3>1. 1..0 = {}
      OBVIOUS
    <3>. QED
      BY <1>7, <3>1
  <2>2. ASSUME NEW k \in Nat, k \in N
        PROVE  k + 1 \in N
    <3>1. ASSUME k + 1 <= len
          PROVE  f[1..(k + 1)] \in Word
      <4>1. k + 1 \in 1..len /\ (k + 1) - 1 = k /\ f[1..k] \in Word
        BY <1>1, <2>2, <3>1
      <4>. QED
        BY <1>9, <4>1
    <3>. QED
      BY <3>1
  <2>. HIDE DEF N
  <2>. QED
    BY <2>1, <2>2, Induction
<1>11. f[DOMAIN data] \in Word
  BY <1>1, <1>10
<1>. QED
  BY <1>11 DEF f

\* The checksum has two bytes.
LEMMA CrcType ==
  ASSUME NEW data \in Seq(Byte)
  PROVE  calculate_crc16(data) \in Word
<1>. DEFINE first == 65535
<1>1. first \in Word
  BY SMT DEF Word
<1>2. calculate_crc16(data) =
        (CHOOSE f : f = [s \in SUBSET (DOMAIN data) |->
                           IF s = {} THEN first
                           ELSE crc16_step[f[s \ {Max(s)}]][data[Max(s)]]])[DOMAIN data]
  BY SMT DEF calculate_crc16, FoldLeft, MapThenFoldSet
<1>. HIDE DEF first
<1>. QED
  BY <1>1, <1>2, StepsType

\* The checksum of a message has two bytes.
LEMMA ChecksumType ==
  ASSUME NEW header \in Seq(Byte), NEW payload \in Seq(Byte)
  PROVE  Checksum(header, payload) \in Nat /\ Checksum(header, payload) \div 256 <= 255
<1>1. calculate_crc16(header) \in Word /\ calculate_crc16(payload) \in Word
  BY CrcType
<1>2. ASSUME NEW x \in Word, NEW y \in Word
      PROVE  Xor16(x, y) \in Word
  <2>1. x \in Nat /\ x \div 256 <= 255 /\ y \in Nat /\ y \div 256 <= 255
    BY DEF Word
  <2>2. Xor16(x, y) \in Nat /\ Xor16(x, y) \div 256 <= 255
    BY <2>1, Xor16Type
  <2>. QED
    BY <2>2 DEF Word
<1>3. Checksum(header, payload) \in Word
  BY <1>1, <1>2 DEF Checksum
<1>. QED
  BY <1>3 DEF Word

\* A number that fits two or four bytes.
LEMMA FitsBytes ==
  ASSUME NEW m
  PROVE  /\ Fits(m, 2) => m \in Nat /\ m \div 256 <= 255
         /\ Fits(m, 4) => m \in Nat /\ ((m \div 256) \div 256) \div 256 <= 255
<1>1. 256^(2 - 1) = 256 /\ 256^(4 - 1) = 16777216
  BY SMT
<1>2. m \in Nat => m \div 16777216 = ((m \div 256) \div 256) \div 256
  BY SMT
<1>. QED
  BY <1>1, <1>2, SMT DEF Fits

\* Such a number is read as it was written, lowest byte first.
LEMMA LittleFits ==
  ASSUME NEW m
  PROVE  /\ Fits(m, 2) => /\ LittleEndian(m, 2) \in Seq(Byte) /\ Len(LittleEndian(m, 2)) = 2
                          /\ Number(LittleEndian(m, 2)) = m
         /\ Fits(m, 4) => /\ LittleEndian(m, 4) \in Seq(Byte) /\ Len(LittleEndian(m, 4)) = 4
                          /\ Number(LittleEndian(m, 4)) = m
<1>1. ASSUME Fits(m, 2)
      PROVE  /\ LittleEndian(m, 2) \in Seq(Byte) /\ Len(LittleEndian(m, 2)) = 2
             /\ Number(LittleEndian(m, 2)) = m
  <2>1. m \in Nat /\ m \div 256 <= 255
    BY <1>1, FitsBytes
  <2>. QED
    BY <2>1, Little2
<1>2. ASSUME Fits(m, 4)
      PROVE  /\ LittleEndian(m, 4) \in Seq(Byte) /\ Len(LittleEndian(m, 4)) = 4
             /\ Number(LittleEndian(m, 4)) = m
  <2>1. m \in Nat /\ ((m \div 256) \div 256) \div 256 <= 255
    BY <1>2, FitsBytes
  <2>. QED
    BY <2>1, Little4
<1>. QED
  BY <1>1, <1>2

\* A length cut to the header's field fits two bytes, and is the length itself
\* as long as that fits.
LEMMA ToldLength ==
  ASSUME NEW payload \in Seq(Byte)
  PROVE  /\ HeaderLength(payload) \in 0..Len(payload) /\ Fits(HeaderLength(payload), 2)
         /\ Len(payload) <= MAX_LENGTH => HeaderLength(payload) = Len(payload)
<1>. DEFINE len == Len(payload)
            told == HeaderLength(payload)
<1>1. len \in Nat /\ MAX_LENGTH \in Nat
  BY LenProperties, MaxLengthAssumption
<1>2. told = len % (MAX_LENGTH + 1)
  BY DEF HeaderLength
<1>. HIDE DEF len, told
<1>3. told \in Nat /\ told <= MAX_LENGTH
  BY <1>1, <1>2
<1>4. len <= MAX_LENGTH => told = len
  BY <1>1, <1>2
<1>5. told <= len
  BY <1>1, <1>3, <1>4
<1>6. told \div 256 <= 255
  BY <1>1, <1>3, MaxLengthAssumption, SMT
<1>7. Fits(told, 2)
  BY <1>3, <1>6, SMT DEF Fits
<1>. QED
  BY <1>1, <1>3, <1>4, <1>5, <1>7 DEF len, told

\* What the header tells of the payload.
Told(payload) == SubSeq(payload, 1, HeaderLength(payload))

\* It is the beginning of the payload.
LEMMA ToldPart ==
  ASSUME NEW payload \in Seq(Byte)
  PROVE  /\ Told(payload) \in Seq(Byte) /\ Len(Told(payload)) = HeaderLength(payload)
         /\ Holds(payload, 0, Told(payload))
         /\ HeaderLength(payload) = Len(payload) => Told(payload) = payload
<1>. DEFINE told == HeaderLength(payload)
            part == Told(payload)
<1>1. told \in 0..Len(payload) /\ Len(payload) \in Nat
  BY ToldLength, LenProperties
<1>2. part = SubSeq(payload, 1, told)
  BY DEF Told
<1>. HIDE DEF told, part
<1>3. part \in Seq(Byte) /\ Len(part) = told /\ \A i \in 1..told : part[i] = payload[i]
  BY <1>1, <1>2, Beginning
<1>4. Holds(payload, 0, part)
  BY <1>1, <1>3 DEF Holds
<1>5. ASSUME told = Len(payload)
      PROVE  part = payload
  BY <1>1, <1>3, <1>5, SeqEqual
<1>. QED
  BY <1>3, <1>4, <1>5 DEF told, part

\* The header without the checksum.
HeaderOf(type, payload, sequence, timestamp) ==
  <<PROTOCOL_VERSION, type>> \o LittleEndian(HeaderLength(payload), 2)
    \o LittleEndian(sequence, 4) \o LittleEndian(timestamp, 4)

\* What lies where in the header of a message.
LEMMA HeaderParts ==
  ASSUME NEW type \in Byte, NEW payload \in Seq(Byte), NEW sequence, NEW timestamp,
         Fits(sequence, 4), Fits(timestamp, 4)
  PROVE  LET header == HeaderOf(type, payload, sequence, timestamp)
         IN  /\ header \in Seq(Byte) /\ Len(header) = 12
             /\ Holds(header, 0, <<PROTOCOL_VERSION, type>>)
             /\ Holds(header, 2, LittleEndian(HeaderLength(payload), 2))
             /\ Holds(header, 4, LittleEndian(sequence, 4))
             /\ Holds(header, 8, LittleEndian(timestamp, 4))
<1>. DEFINE p1 == <<PROTOCOL_VERSION, type>>
            p2 == LittleEndian(HeaderLength(payload), 2)
            p3 == LittleEndian(sequence, 4)
            p4 == LittleEndian(timestamp, 4)
            b2 == p1 \o p2
            b3 == b2 \o p3
            b4 == b3 \o p4
<1>1. p1 \in Seq(Byte) /\ Len(p1) = 2
  <2>1. PROTOCOL_VERSION \in Byte
    BY DEF PROTOCOL_VERSION, Byte
  <2>. QED
    BY <2>1
<1>2. /\ p2 \in Seq(Byte) /\ Len(p2) = 2 /\ p3 \in Seq(Byte) /\ Len(p3) = 4
      /\ p4 \in Seq(Byte) /\ Len(p4) = 4
  BY ToldLength, LittleFits
<1>3. HeaderOf(type, payload, sequence, timestamp) = b4
  BY DEF HeaderOf
<1>. HIDE DEF p1, p2, p3, p4
<1>4. b2 \in Seq(Byte) /\ Len(b2) = 2 + Len(p2) /\ Holds(b2, 0, p1) /\ Holds(b2, 2, p2)
  <2>1. Sized(p1, 2) /\ p2 \in Seq(Byte)
    BY <1>1, <1>2 DEF Sized
  <2>. QED
    BY <2>1, JoinedParts
<1>. HIDE DEF b2
<1>5. /\ b3 \in Seq(Byte) /\ Len(b3) = 4 + Len(p3)
      /\ Holds(b3, 0, p1) /\ Holds(b3, 2, p2) /\ Holds(b3, 4, p3)
  <2>1. Sized(b2, 4) /\ b2 \in Seq(Byte) /\ p3 \in Seq(Byte)
    BY <1>2, <1>4 DEF Sized
  <2>2. b3 \in Seq(Byte) /\ Len(b3) = 4 + Len(p3) /\ Holds(b3, 4, p3)
    BY <2>1, JoinedParts
  <2>3. \A k \in Nat, p \in Seq(Byte) : Holds(b2, k, p) => Holds(b3, k, p)
    BY <2>1, JoinedKeeps
  <2>. QED
    BY <1>1, <1>2, <1>4, <2>2, <2>3
<1>. HIDE DEF b3
<1>6. /\ b4 \in Seq(Byte) /\ Len(b4) = 8 + Len(p4) /\ Holds(b4, 0, p1) /\ Holds(b4, 2, p2)
      /\ Holds(b4, 4, p3) /\ Holds(b4, 8, p4)
  <2>1. Sized(b3, 8) /\ b3 \in Seq(Byte) /\ p4 \in Seq(Byte)
    BY <1>2, <1>5 DEF Sized
  <2>2. b4 \in Seq(Byte) /\ Len(b4) = 8 + Len(p4) /\ Holds(b4, 8, p4)
    BY <2>1, JoinedParts
  <2>3. \A k \in Nat, p \in Seq(Byte) : Holds(b3, k, p) => Holds(b4, k, p)
    BY <2>1, JoinedKeeps
  <2>. QED
    BY <1>1, <1>2, <1>5, <2>2, <2>3
<1>7. Len(b4) = 12
  BY <1>2, <1>6
<1>. HIDE DEF b4
<1>. QED
  BY <1>3, <1>6, <1>7 DEF p1, p2, p3, p4

\* Where the parts of a packed message lie.
LEMMA PackedParts ==
  ASSUME NEW type \in Byte, NEW payload \in Seq(Byte), NEW sequence, NEW timestamp,
         Fits(sequence, 4), Fits(timestamp, 4)
  PROVE  LET header == HeaderOf(type, payload, sequence, timestamp)
             pkt == protocol_pack_message(type, payload, sequence, timestamp, HEADER + Len(payload))
         IN  /\ pkt \in Seq(Byte) /\ Len(pkt) = HEADER + Len(payload)
             /\ Holds(pkt, 0, header)
             /\ Holds(pkt, 12, LittleEndian(Checksum(header, payload), 2))
             /\ Holds(pkt, 14, payload)
<1>. DEFINE header == HeaderOf(type, payload, sequence, timestamp)
            check  == LittleEndian(Checksum(header, payload), 2)
            head   == header \o check
            pkt    == head \o payload
<1>1. header \in Seq(Byte) /\ Len(header) = 12 /\ Len(payload) \in Nat
  BY HeaderParts, LenProperties
<1>2. check \in Seq(Byte) /\ Len(check) = 2
  <2>. HIDE DEF header
  <2>. QED
    BY <1>1, ChecksumType, Little2
<1>3. protocol_pack_message(type, payload, sequence, timestamp, HEADER + Len(payload)) = pkt
  <2>1. ~ (HEADER + Len(payload) < HEADER + Len(payload))
    BY <1>1 DEF HEADER
  <2>. QED
    BY <2>1, Zenon DEF protocol_pack_message, HeaderOf
<1>. HIDE DEF header, check
<1>4. /\ head \in Seq(Byte) /\ Len(head) = 12 + Len(check)
      /\ Holds(head, 0, header) /\ Holds(head, 12, check)
  <2>1. Sized(header, 12) /\ check \in Seq(Byte)
    BY <1>1, <1>2 DEF Sized
  <2>. QED
    BY <2>1, JoinedParts
<1>. HIDE DEF head
<1>5. /\ pkt \in Seq(Byte) /\ Len(pkt) = 14 + Len(payload) /\ Holds(pkt, 14, payload)
      /\ Holds(pkt, 0, header) /\ Holds(pkt, 12, check)
  <2>1. Len(head) = 14
    BY <1>2, <1>4
  <2>. QED
    BY <1>1, <1>2, <1>4, <2>1, Joined
<1>. HIDE DEF pkt
<1>. QED
  BY <1>3, <1>5 DEF header, check, HEADER

\* What is unpacked from a buffer that begins with a packed message.
LEMMA Unpacked ==
  ASSUME NEW type \in Byte, NEW payload \in Seq(Byte), NEW sequence, NEW timestamp,
         Fits(sequence, 4), Fits(timestamp, 4),
         NEW b \in Seq(Byte),
         Holds(b, 0, protocol_pack_message(type, payload, sequence, timestamp, HEADER + Len(payload))),
         NEW room \in Int
  PROVE  \/ /\ HeaderLength(payload) # Len(payload)
            /\ protocol_unpack_message(b, room) = Failed
         \/ protocol_unpack_message(b, room) =
              IF room < HeaderLength(payload) THEN Failed
              ELSE [type |-> type, sequence |-> sequence, timestamp |-> timestamp,
                    payload |-> Told(payload)]
<1>. DEFINE header == HeaderOf(type, payload, sequence, timestamp)
            pkt == protocol_pack_message(type, payload, sequence, timestamp, HEADER + Len(payload))
            check == LittleEndian(Checksum(header, payload), 2)
            p1 == <<PROTOCOL_VERSION, type>>
            p2 == LittleEndian(HeaderLength(payload), 2)
            p3 == LittleEndian(sequence, 4)
            p4 == LittleEndian(timestamp, 4)
            len == Len(payload)
            told == HeaderLength(payload)
            part == Told(payload)
<1>1. /\ header \in Seq(Byte) /\ Len(header) = 12
      /\ Holds(header, 0, p1) /\ Holds(header, 2, p2) /\ Holds(header, 4, p3) /\ Holds(header, 8, p4)
  BY HeaderParts
<1>2. /\ pkt \in Seq(Byte) /\ Len(pkt) = HEADER + len /\ Holds(pkt, 0, header)
      /\ Holds(pkt, 12, check) /\ Holds(pkt, 14, payload)
  BY PackedParts
<1>3. /\ p2 \in Seq(Byte) /\ Len(p2) = 2 /\ Number(p2) = told
      /\ p3 \in Seq(Byte) /\ Len(p3) = 4 /\ Number(p3) = sequence
      /\ p4 \in Seq(Byte) /\ Len(p4) = 4 /\ Number(p4) = timestamp
  BY ToldLength, LittleFits
<1>4. check \in Seq(Byte) /\ Len(check) = 2 /\ Number(check) = Checksum(header, payload)
  <2>. HIDE DEF header
  <2>. QED
    BY <1>1, ChecksumType, Little2
<1>5. p1 \in Seq(Byte) /\ Len(p1) = 2 /\ p1[1] = PROTOCOL_VERSION /\ p1[2] = type
  <2>1. PROTOCOL_VERSION \in Byte
    BY DEF PROTOCOL_VERSION, Byte
  <2>. QED
    BY <2>1
<1>6. /\ len \in Nat /\ Len(b) \in Nat /\ told \in Nat /\ told <= len
      /\ part \in Seq(Byte) /\ Len(part) = told /\ Holds(payload, 0, part)
      /\ told = len => part = payload
  <2>1. len \in Nat /\ Len(b) \in Nat
    BY LenProperties
  <2>2. told \in 0..len
    BY ToldLength
  <2>3. /\ part \in Seq(Byte) /\ Len(part) = told /\ Holds(payload, 0, part)
        /\ told = len => part = payload
    BY ToldPart
  <2>. HIDE DEF len, told, part
  <2>. QED
    BY <2>1, <2>2, <2>3
<1>7. Holds(b, 0, pkt)
  OBVIOUS
<1>. HIDE DEF header, pkt, check, p1, p2, p3, p4, len, told, part
<1>8. ASSUME NEW k \in Nat, NEW p \in Seq(Byte), Holds(pkt, k, p)
      PROVE  Holds(b, k, p)
  <2>1. Holds(b, 0 + k, p)
    BY <1>2, <1>7, <1>8, HoldsPart
  <2>. QED
    BY <2>1
<1>9. ASSUME NEW k \in Nat, NEW p \in Seq(Byte), Holds(header, k, p)
      PROVE  Holds(b, k, p)
  <2>1. Holds(pkt, 0 + k, p)
    BY <1>1, <1>2, <1>9, HoldsPart
  <2>. QED
    BY <2>1, <1>8
<1>10. /\ Holds(b, 0, header) /\ Holds(b, 12, check) /\ Holds(b, 14, payload)
       /\ Holds(b, 0, p1) /\ Holds(b, 2, p2) /\ Holds(b, 4, p3) /\ Holds(b, 8, p4)
  BY <1>1, <1>2, <1>3, <1>4, <1>5, <1>8, <1>9
<1>11. SubSeq(b, 1, 12) = header
  <2>1. header \in Seq(Byte) /\ Len(header) = 12
    BY <1>1
  <2>2. Holds(b, 0, header)
    BY <1>10
  <2>3. SubSeq(b, 0 + 1, 0 + Len(header)) = header
    BY <2>1, <2>2, HoldsSubSeq
  <2>. QED
    BY <2>1, <2>3
<1>12. SubSeq(b, 13, 14) = check
  <2>1. Sized(check, 2) /\ 12 \in Nat
    BY <1>4 DEF Sized
  <2>2. Holds(b, 12, check)
    BY <1>10
  <2>3. SubSeq(b, 12 + 1, 12 + 2) = check
    BY <2>1, <2>2, PartRead
  <2>. QED
    BY <2>3
<1>13. SubSeq(b, 15, 14 + told) = part
  <2>1. Holds(b, 14 + 0, part)
    BY <1>6, <1>10, HoldsPart
  <2>2. 14 + 0 = 14 /\ Sized(part, told)
    BY <1>6 DEF Sized
  <2>3. Holds(b, 14, part)
    BY <2>1, <2>2
  <2>4. SubSeq(b, 14 + 1, 14 + told) = part
    BY <2>2, <2>3, PartRead
  <2>. QED
    BY <2>4
<1>14. SubSeq(b, 3, 4) = p2
  <2>1. Sized(p2, 2) /\ 2 \in Nat
    BY <1>3 DEF Sized
  <2>2. Holds(b, 2, p2)
    BY <1>10
  <2>3. SubSeq(b, 2 + 1, 2 + 2) = p2
    BY <2>1, <2>2, PartRead
  <2>. QED
    BY <2>3
<1>15. SubSeq(b, 5, 8) = p3
  <2>1. Sized(p3, 4) /\ 4 \in Nat
    BY <1>3 DEF Sized
  <2>2. Holds(b, 4, p3)
    BY <1>10
  <2>3. SubSeq(b, 4 + 1, 4 + 4) = p3
    BY <2>1, <2>2, PartRead
  <2>. QED
    BY <2>3
<1>16. SubSeq(b, 9, 12) = p4
  <2>1. Sized(p4, 4) /\ 8 \in Nat
    BY <1>3 DEF Sized
  <2>2. Holds(b, 8, p4)
    BY <1>10
  <2>3. SubSeq(b, 8 + 1, 8 + 4) = p4
    BY <2>1, <2>2, PartRead
  <2>. QED
    BY <2>3
<1>17. b[1] = PROTOCOL_VERSION /\ b[2] = type
  <2>1. b[0 + 1] = p1[1] /\ b[0 + 2] = p1[2]
    BY <1>5, <1>10 DEF Holds
  <2>. QED
    BY <1>5, <2>1
<1>18. Len(b) >= 14 + len
  BY <1>2, <1>6, <1>7 DEF Holds, HEADER
<1>19. told = len => ChecksumHolds(b, part)
  <2>. SUFFICES ASSUME told = len
                PROVE  ChecksumHolds(b, payload)
    BY <1>6
  <2>1. HEADER - 2 = 12 /\ HEADER - 1 = 13 /\ HEADER = 14
    BY DEF HEADER
  <2>2. Stored(b) = Checksum(header, payload)
    BY <1>4, <1>12, <2>1 DEF Stored
  <2>. QED
    BY <1>11, <2>1, <2>2 DEF ChecksumHolds
<1>20. /\ HEADER = 14 /\ Number(SubSeq(b, 3, 4)) = told
       /\ SubSeq(b, HEADER + 1, HEADER + told) = part
       /\ Number(SubSeq(b, 5, 8)) = sequence /\ Number(SubSeq(b, 9, 12)) = timestamp
  <2>1. HEADER = 14 /\ HEADER + 1 = 15
    BY DEF HEADER
  <2>2. SubSeq(b, HEADER + 1, HEADER + told) = part
    BY <1>13, <2>1
  <2>. QED
    BY <1>3, <1>14, <1>15, <1>16, <2>1, <2>2
<1>21. ~ (Len(b) < HEADER) /\ ~ (Len(b) < HEADER + told)
  BY <1>6, <1>18, <1>20
<1>22. protocol_unpack_message(b, room) =
         IF ~ ChecksumHolds(b, part) \/ room < told THEN Failed
         ELSE [type |-> type, sequence |-> sequence, timestamp |-> timestamp, payload |-> part]
  BY <1>17, <1>20, <1>21 DEF protocol_unpack_message
<1>. QED
  BY <1>19, <1>22 DEF len, told, part

\* A buffer that ends before the message does is refused.
LEMMA CutMessage ==
  ASSUME NEW type \in Byte, NEW payload \in Seq(Byte), NEW sequence, NEW timestamp,
         Fits(sequence, 4), Fits(timestamp, 4),
         NEW n \in 0..(HEADER + HeaderLength(payload) - 1), NEW room
  PROVE  LET pkt == protocol_pack_message(type, payload, sequence, timestamp, HEADER + Len(payload))
         IN  protocol_unpack_message(SubSeq(pkt, 1, n), room) = Failed
<1>. DEFINE header == HeaderOf(type, payload, sequence, timestamp)
            pkt == protocol_pack_message(type, payload, sequence, timestamp, HEADER + Len(payload))
            p2 == LittleEndian(HeaderLength(payload), 2)
            len == Len(payload)
            told == HeaderLength(payload)
            b == SubSeq(pkt, 1, n)
<1>1. header \in Seq(Byte) /\ Len(header) = 12 /\ Holds(header, 2, p2)
  BY HeaderParts
<1>2. pkt \in Seq(Byte) /\ Len(pkt) = HEADER + len /\ Holds(pkt, 0, header)
  BY PackedParts
<1>3. p2 \in Seq(Byte) /\ Len(p2) = 2 /\ Number(p2) = told
  BY ToldLength, LittleFits
<1>4. /\ len \in Nat /\ told \in Nat /\ told <= len
      /\ n \in Nat /\ HEADER = 14 /\ n < 14 + told
  <2>1. len \in Nat /\ told \in 0..len
    BY ToldLength, LenProperties
  <2>2. n \in 0..(HEADER + told - 1)
    OBVIOUS
  <2>. HIDE DEF len, told
  <2>. QED
    BY <2>1, <2>2 DEF HEADER
<1>. HIDE DEF header, pkt, p2, len, told
<1>5. n \in 0..Len(pkt)
  BY <1>2, <1>4
<1>6. b \in Seq(Byte) /\ Len(b) = n /\ \A i \in 1..n : b[i] = pkt[i]
  BY <1>2, <1>5, Beginning
<1>7. Holds(pkt, 2, p2)
  <2>1. Holds(pkt, 0 + 2, p2)
    BY <1>1, <1>2, <1>3, HoldsPart
  <2>. QED
    BY <2>1
<1>. HIDE DEF b
<1>. SUFFICES protocol_unpack_message(b, room) = Failed
  BY DEF b, pkt
<1>8. CASE n < 14
  BY <1>4, <1>6, <1>8 DEF protocol_unpack_message
<1>9. CASE n >= 14
  <2>1. Holds(b, 2, p2)
    <3>1. \A i \in 1..2 : 2 + i \in 1..n
      BY <1>4, <1>9
    <3>2. \A i \in 1..2 : b[2 + i] = p2[i]
      BY <1>3, <1>6, <1>7, <3>1 DEF Holds
    <3>. QED
      BY <1>3, <1>4, <1>6, <1>9, <3>2 DEF Holds
  <2>2. SubSeq(b, 2 + 1, 2 + 2) = p2
    BY <1>3, <1>6, <2>1, HoldsSubSeq
  <2>3. Number(SubSeq(b, 3, 4)) = told
    <3>1. SubSeq(b, 3, 4) = p2
      BY <2>2
    <3>. QED
      BY <1>3, <3>1
  <2>4. ~ (Len(b) < HEADER) /\ Len(b) < HEADER + told
    BY <1>4, <1>6, <1>9
  <2>. QED
    BY <2>3, <2>4 DEF protocol_unpack_message
<1>. QED
  BY <1>4, <1>8, <1>9

\* What is known of a sample.
SampleType == sample \in Samples \cup {None}

\* A sample is one of the samples given, or none.
LEMMA SampleTypeCorrect == SampleSpec => []SampleType
<1>1. SampleInit => SampleType
  BY DEF SampleInit, SampleType
<1>2. SampleType /\ [SampleNext]_sampleVars => SampleType'
  BY DEF SampleType, SampleNext, sampleVars, Choose, Drop
<1>. QED
  BY <1>1, <1>2, PTL DEF SampleSpec

\* A sample of one kind is of that kind's set.
LEMMA Kinds ==
  ASSUME SampleType
  PROVE  /\ sample.kind = "length" => sample \in Lengths
         /\ sample.kind = "connect" => sample \in Connects
         /\ sample.kind = "topics" => sample \in TopicLists
         /\ sample.kind = "publish" => sample \in Publishes
         /\ sample.kind = "frame" => sample \in Frames
         /\ sample.kind = "message" => sample \in Messages
<1>1. \A m \in Lengths : m.kind = "length"
  BY LengthsAssumption
<1>2. \A m \in Connects : m.kind = "connect"
  BY ConnectsAssumption
<1>3. \A m \in TopicLists : m.kind = "topics"
  BY TopicListsAssumption
<1>4. \A m \in Publishes : m.kind = "publish"
  BY PublishesAssumption
<1>5. \A m \in Frames : m.kind = "frame"
  BY FramesAssumption
<1>6. \A m \in Messages : m.kind = "message"
  BY MessagesAssumption
<1>7. None.kind = "none"
  BY DEF None
<1>. QED
  BY <1>1, <1>2, <1>3, <1>4, <1>5, <1>6, <1>7 DEF SampleType, Samples

\* MessageUndone holds of every sample.
LEMMA MessageHolds == SampleType => MessageUndone
<1>. SUFFICES ASSUME SampleType, sample.kind = "message"
              PROVE  MessageUndone
  BY DEF MessageUndone
<1>. DEFINE len == Len(sample.payload)
            told == HeaderLength(sample.payload)
            pkt == protocol_pack_message(sample.type, sample.payload, sample.sequence,
                                         sample.timestamp, HEADER + len)
            cut == [type |-> sample.type, sequence |-> sample.sequence,
                    timestamp |-> sample.timestamp, payload |-> Told(sample.payload)]
<1>1. /\ sample.type \in Byte /\ sample.payload \in Seq(Byte)
      /\ Fits(sample.sequence, 4) /\ Fits(sample.timestamp, 4)
  BY Kinds, MessagesAssumption
<1>2. /\ pkt \in Seq(Byte) /\ Len(pkt) = HEADER + len /\ len \in Nat /\ HEADER = 14
      /\ told \in Nat /\ told <= len /\ MAX_LENGTH \in Nat
      /\ len <= MAX_LENGTH => told = len
  <2>1. pkt \in Seq(Byte) /\ Len(pkt) = HEADER + len
    BY <1>1, PackedParts
  <2>2. len \in Nat /\ MAX_LENGTH \in Nat
    BY <1>1, LenProperties, MaxLengthAssumption
  <2>3. told \in 0..len /\ (len <= MAX_LENGTH => told = len)
    BY <1>1, ToldLength
  <2>. HIDE DEF len, told, pkt
  <2>. QED
    BY <2>1, <2>2, <2>3 DEF HEADER
<1>3. ASSUME NEW b \in Seq(Byte), Holds(b, 0, pkt), NEW room \in Int
      PROVE  \/ told # len /\ protocol_unpack_message(b, room) = Failed
             \/ protocol_unpack_message(b, room) = IF room < told THEN Failed ELSE cut
  BY <1>1, <1>3, Unpacked
<1>4. ASSUME NEW rest \in Rests
      PROVE  \/ protocol_unpack_message(pkt \o rest, len) = cut
             \/ len > MAX_LENGTH /\ protocol_unpack_message(pkt \o rest, len) = Failed
  <2>1. rest \in Seq(Byte)
    BY RestsAssumption
  <2>. HIDE DEF pkt, cut, len, told
  <2>2. pkt \o rest \in Seq(Byte) /\ Holds(pkt \o rest, 0, pkt)
    BY <1>2, <2>1, HoldsBoth
  <2>3. len \in Int /\ ~ (len < told) /\ (told # len => len > MAX_LENGTH)
    BY <1>2
  <2>. QED
    BY <1>3, <2>2, <2>3
<1>5. ASSUME NEW n \in {0, 1, HEADER - 1, HEADER + told - 1}
      PROVE  protocol_unpack_message(SubSeq(pkt, 1, n), len) = Failed
  <2>1. n \in 0..(HEADER + told - 1)
    <3>. HIDE DEF pkt, len, told
    <3>. QED
      BY <1>2
  <2>. QED
    BY <1>1, <2>1, CutMessage
<1>6. ASSUME told > 0
      PROVE  protocol_unpack_message(pkt, told - 1) = Failed
  <2>. HIDE DEF pkt, cut, len, told
  <2>1. Holds(pkt, 0, pkt)
    BY <1>2 DEF Holds
  <2>2. told - 1 \in Int /\ told - 1 < told
    BY <1>2
  <2>. QED
    BY <1>2, <1>3, <2>1, <2>2
<1>. QED
  BY <1>2, <1>4, <1>5, <1>6 DEF MessageUndone, Told

\* The device protocol unpacks every message that its length field can tell of,
\* whatever follows it; of a longer one, which it packs without an error, the
\* receiver gets the beginning or nothing; and what is cut short or too long for
\* the caller is refused.
THEOREM MessagesUndone == SampleSpec => []MessageUndone
  BY SampleTypeCorrect, MessageHolds, PTL

-----------------------------------------------------------------------------
(* WebSocket frames. *)

\* f begins with the bytes first and second, the length ln and, if it is masked,
\* the key; behind these hdr bytes lies the payload as it is sent.
FrameLayout(f, hdr, masked, first, second, ln, key, data) ==
  /\ f \in Seq(Byte) /\ ln \in Seq(Byte) /\ data \in Seq(Byte) /\ masked \in BOOLEAN
  /\ first \in Byte /\ second \in Byte
  /\ (first \div 16) % 8 = 0 /\ (masked <=> second >= 128)
  /\ LengthBytes(second) = Len(ln)
  /\ Len(data) = IF Len(ln) = 0 THEN second % 128 ELSE Value(ln)
  /\ hdr = 2 + Len(ln) + (IF masked THEN 4 ELSE 0)
  /\ Len(f) = hdr + Len(data)
  /\ Holds(f, 0, <<first, second>>) /\ Holds(f, 2, ln) /\ Holds(f, hdr, data)
  /\ masked => key \in Seq(Byte) /\ Len(key) = 4 /\ Holds(f, hdr - 4, key)

\* What the receiver makes of it.
Received(f, masked, first, key, data) ==
  [is_final |-> first >= 128, opcode |-> first % 16,
   payload |-> IF masked THEN Unmask(data, key) ELSE data, frame_len |-> Len(f)]

\* A buffer that begins with such a frame is decoded to what lies in it.
LEMMA LayoutDecoded ==
  ASSUME NEW f, NEW hdr, NEW masked, NEW first, NEW second, NEW ln, NEW key, NEW data,
         FrameLayout(f, hdr, masked, first, second, ln, key, data),
         NEW b \in Seq(Byte), Holds(b, 0, f)
  PROVE  ws_decode_frame(b) = Received(f, masked, first, key, data)
<1>. DEFINE n == Len(ln)
            len == Len(data)
<1>1. /\ f \in Seq(Byte) /\ ln \in Seq(Byte) /\ data \in Seq(Byte) /\ masked \in BOOLEAN
      /\ first \in Byte /\ second \in Byte
      /\ (first \div 16) % 8 = 0 /\ (masked <=> second >= 128)
      /\ LengthBytes(second) = n
      /\ len = IF n = 0 THEN second % 128 ELSE Value(ln)
      /\ hdr = 2 + n + (IF masked THEN 4 ELSE 0)
      /\ Len(f) = hdr + len
      /\ Holds(f, 0, <<first, second>>) /\ Holds(f, 2, ln) /\ Holds(f, hdr, data)
      /\ masked => key \in Seq(Byte) /\ Len(key) = 4 /\ Holds(f, hdr - 4, key)
  BY DEF FrameLayout
<1>2. n \in Nat /\ len \in Nat /\ Len(b) \in Nat
  BY <1>1, LenProperties
<1>. HIDE DEF n, len
<1>3. /\ hdr \in Nat /\ hdr >= 2 + n /\ Len(b) >= hdr + len
      /\ masked => hdr - 4 \in Nat
  <2>1. hdr = 2 + n + (IF masked THEN 4 ELSE 0)
    BY <1>1
  <2>2. 0 + Len(f) <= Len(b) /\ Len(f) = hdr + len
    BY <1>1 DEF Holds
  <2>3. hdr \in Nat /\ hdr >= 2 + n /\ (masked => hdr - 4 \in Nat)
    BY <1>2, <2>1
  <2>. QED
    BY <1>2, <2>2, <2>3
<1>4. ASSUME NEW k \in Nat, NEW p \in Seq(Byte), Holds(f, k, p)
      PROVE  Holds(b, k, p) /\ SubSeq(b, k + 1, k + Len(p)) = p
  <2>1. Holds(b, 0 + k, p)
    BY <1>1, <1>4, HoldsPart
  <2>2. Holds(b, k, p)
    BY <2>1
  <2>. QED
    BY <2>2, HoldsSubSeq
<1>5. b[1] = first /\ b[2] = second
  <2>. DEFINE p == <<first, second>>
  <2>1. p \in Seq(Byte) /\ Len(p) = 2 /\ p[1] = first /\ p[2] = second
    BY <1>1
  <2>. HIDE DEF p
  <2>2. Holds(b, 0, p)
    BY <1>1, <1>4, <2>1 DEF p
  <2>3. b[0 + 1] = p[1] /\ b[0 + 2] = p[2]
    BY <2>1, <2>2 DEF Holds
  <2>. QED
    BY <2>1, <2>3
<1>6. SubSeq(b, 3, 2 + n) = ln
  <2>1. SubSeq(b, 2 + 1, 2 + n) = ln
    BY <1>1, <1>4 DEF n
  <2>. QED
    BY <2>1
<1>7. SubSeq(b, hdr + 1, hdr + len) = data
  BY <1>1, <1>3, <1>4 DEF len
<1>8. masked => SubSeq(b, hdr - 3, hdr) = key
  <2>1. ASSUME masked
        PROVE  SubSeq(b, hdr - 3, hdr) = key
    <3>1. hdr - 4 \in Nat /\ key \in Seq(Byte) /\ Len(key) = 4 /\ Holds(f, hdr - 4, key)
      BY <1>1, <1>3, <2>1
    <3>2. SubSeq(b, (hdr - 4) + 1, (hdr - 4) + 4) = key
      BY <3>1, <1>4
    <3>3. (hdr - 4) + 1 = hdr - 3 /\ (hdr - 4) + 4 = hdr
      BY <1>3
    <3>. QED
      BY <3>2, <3>3
  <2>. QED
    BY <2>1
<1>9. len = IF n = 0 THEN b[2] % 128 ELSE Value(SubSeq(b, 3, 2 + n))
  BY <1>1, <1>5, <1>6
<1>10. /\ ~ (Len(b) < 2) /\ (b[1] \div 16) % 8 = 0 /\ (b[2] >= 128 <=> masked)
       /\ LengthBytes(b[2]) = n /\ ~ (Len(b) < hdr) /\ ~ (Len(b) < hdr + len)
  <2>1. ~ (Len(b) < 2) /\ ~ (Len(b) < hdr) /\ ~ (Len(b) < hdr + len)
    BY <1>2, <1>3
  <2>2. (b[1] \div 16) % 8 = 0 /\ (b[2] >= 128 <=> masked) /\ LengthBytes(b[2]) = n
    BY <1>1, <1>5
  <2>. QED
    BY <2>1, <2>2
<1>. DEFINE p == IF masked THEN Unmask(data, key) ELSE data
<1>11. ws_decode_frame(b) =
         [is_final |-> b[1] >= 128, opcode |-> b[1] % 16, payload |-> p, frame_len |-> hdr + len]
  <2>1. hdr = 2 + n + (IF b[2] >= 128 THEN 4 ELSE 0)
    BY <1>1, <1>10
  <2>2. (IF b[2] >= 128 THEN Unmask(SubSeq(b, hdr + 1, hdr + len), SubSeq(b, hdr - 3, hdr))
                        ELSE SubSeq(b, hdr + 1, hdr + len)) = p
    BY <1>7, <1>8, <1>10
  <2>. HIDE DEF p
  <2>3. /\ ~ (Len(b) < 2) /\ ~ ((b[1] \div 16) % 8 # 0) /\ LengthBytes(b[2]) = n
        /\ ~ (Len(b) < hdr) /\ ~ (Len(b) < hdr + len)
    BY <1>10
  <2>. QED
    BY <1>9, <2>1, <2>2, <2>3, ZenonT(60) DEF ws_decode_frame
<1>. QED
  BY <1>1, <1>5, <1>11 DEF Received

\* A beginning of such a frame is refused.
LEMMA LayoutCut ==
  ASSUME NEW f, NEW hdr, NEW masked, NEW first, NEW second, NEW ln, NEW key, NEW data,
         FrameLayout(f, hdr, masked, first, second, ln, key, data),
         NEW m \in 0..(Len(f) - 1)
  PROVE  ws_decode_frame(SubSeq(f, 1, m)) = Failed
<1>. DEFINE n == Len(ln)
            len == Len(data)
            b == SubSeq(f, 1, m)
<1>1. /\ f \in Seq(Byte) /\ ln \in Seq(Byte) /\ data \in Seq(Byte) /\ masked \in BOOLEAN
      /\ first \in Byte /\ second \in Byte
      /\ (first \div 16) % 8 = 0 /\ (masked <=> second >= 128)
      /\ LengthBytes(second) = n
      /\ len = IF n = 0 THEN second % 128 ELSE Value(ln)
      /\ hdr = 2 + n + (IF masked THEN 4 ELSE 0)
      /\ Len(f) = hdr + len
      /\ Holds(f, 0, <<first, second>>) /\ Holds(f, 2, ln)
  BY DEF FrameLayout
<1>2. n \in Nat /\ len \in Nat /\ Len(f) \in Nat
  BY <1>1, LenProperties
<1>. HIDE DEF n, len
<1>3. hdr \in Nat /\ hdr >= 2 + n /\ m \in Nat /\ m < hdr + len /\ m \in 0..Len(f)
  <2>. DEFINE k == Len(f)
  <2>1. /\ n \in Nat /\ len \in Nat /\ k \in Nat /\ k = hdr + len
        /\ hdr = 2 + n + (IF masked THEN 4 ELSE 0) /\ m \in 0..(k - 1)
    BY <1>1, <1>2, Zenon
  <2>. HIDE DEF k
  <2>2. hdr \in Nat /\ hdr >= 2 + n
    BY <2>1
  <2>3. m \in Nat /\ m < k /\ m \in 0..k
    BY <2>1
  <2>. QED
    BY <2>1, <2>2, <2>3 DEF k
<1>4. b \in Seq(Byte) /\ Len(b) = m /\ \A i \in 1..m : b[i] = f[i]
  BY <1>1, <1>3, Beginning
<1>. HIDE DEF b
<1>. SUFFICES ws_decode_frame(b) = Failed
  BY DEF b
<1>5. CASE m < 2
  BY <1>4, <1>5 DEF ws_decode_frame
<1>6. CASE m >= 2
  <2>. DEFINE p == <<first, second>>
  <2>1. p \in Seq(Byte) /\ Len(p) = 2 /\ p[1] = first /\ p[2] = second
    BY <1>1
  <2>2. Holds(f, 0, p)
    BY <1>1
  <2>. HIDE DEF p
  <2>3. f[0 + 1] = p[1] /\ f[0 + 2] = p[2]
    BY <2>1, <2>2 DEF Holds
  <2>4. b[1] = first /\ b[2] = second
    BY <1>3, <1>4, <1>6, <2>1, <2>3
  <2>5. (b[1] \div 16) % 8 = 0 /\ (b[2] >= 128 <=> masked) /\ LengthBytes(b[2]) = n
    BY <1>1, <2>4
  <2>6. hdr = 2 + n + (IF b[2] >= 128 THEN 4 ELSE 0)
    BY <1>1, <2>5
  <2>7. CASE m < hdr
    BY <1>4, <1>6, <2>5, <2>6, <2>7 DEF ws_decode_frame
  <2>8. CASE m >= hdr
    <3>1. \A i \in 1..n : 2 + i \in 1..m
      BY <1>2, <1>3, <2>8
    <3>2. \A i \in 1..n : b[2 + i] = ln[i]
      BY <1>1, <1>4, <3>1 DEF Holds, n
    <3>3. Holds(b, 2, ln)
      <4>1. 2 + n <= Len(b)
        BY <1>2, <1>3, <1>4, <2>8
      <4>. QED
        BY <3>2, <4>1 DEF Holds, n
    <3>4. SubSeq(b, 2 + 1, 2 + n) = ln
      BY <1>1, <1>4, <3>3, HoldsSubSeq DEF n
    <3>5. SubSeq(b, 3, 2 + n) = ln
      BY <3>4
    <3>6. len = IF n = 0 THEN b[2] % 128 ELSE Value(SubSeq(b, 3, 2 + n))
      BY <1>1, <2>4, <3>5
    <3>7. ~ (Len(b) < 2) /\ ~ (Len(b) < hdr) /\ Len(b) < hdr + len
      BY <1>3, <1>4, <1>6, <2>8
    <3>. QED
      BY <2>5, <2>6, <3>6, <3>7 DEF ws_decode_frame
  <2>. QED
    BY <1>3, <2>7, <2>8
<1>. QED
  BY <1>3, <1>5, <1>6

\* The length behind the first byte of a frame, written as second and ln.
LengthPart(len, second, ln) ==
  /\ EncodedLength(len) = <<second>> \o ln
  /\ second < 128 /\ LengthBytes(second) = Len(ln) /\ LengthBytes(second + 128) = Len(ln)
  /\ len = IF Len(ln) = 0 THEN second % 128 ELSE Value(ln)
  /\ (second + 128) % 128 = second % 128

\* Lengths up to 125 take no byte of their own.
LEMMA LengthPartShort ==
  ASSUME NEW len \in Nat, len <= 125
  PROVE  len \in Byte /\ LengthPart(len, len, <<>>)
<1>1. len \in Byte /\ len < 128 /\ len % 128 = len /\ (len + 128) % 128 = len
  BY DEF Byte
<1>2. Len(<<>>) = 0
  OBVIOUS
<1>3. LengthBytes(len) = 0 /\ LengthBytes(len + 128) = 0
  BY <1>1 DEF LengthBytes
<1>4. EncodedLength(len) = <<len>>
  BY SMT DEF EncodedLength
<1>5. <<len>> \o <<>> = <<len>>
  OBVIOUS
<1>. QED
  BY <1>1, <1>2, <1>3, <1>4, <1>5 DEF LengthPart

\* Lengths of two bytes.
LEMMA LengthPartWord ==
  ASSUME NEW len \in Nat, len \div 256 <= 255,
         EncodedLength(len) = << 126 >> \o BigEndian(len, 2)
  PROVE  BigEndian(len, 2) \in Seq(Byte) /\ LengthPart(len, 126, BigEndian(len, 2))
<1>. DEFINE ln == BigEndian(len, 2)
<1>2. ln \in Seq(Byte) /\ Len(ln) = 2 /\ Value(ln) = len
  BY InTwoBytes
<1>3. EncodedLength(len) = << 126 >> \o ln
  OBVIOUS
<1>4. LengthBytes(126) = 2 /\ LengthBytes(126 + 128) = 2 /\ (126 + 128) % 128 = 126 % 128
  BY SMT DEF LengthBytes
<1>. HIDE DEF ln
<1>5. LengthPart(len, 126, ln)
  BY <1>2, <1>3, <1>4 DEF LengthPart
<1>. QED
  BY <1>2, <1>5 DEF ln

\* Five bytes of zero do not count.
LEMMA LeadingZeros ==
  ASSUME NEW b \in Byte, NEW y \in Byte, NEW x \in Byte
  PROVE  LET ln == <<0, 0, 0, 0, 0, b, y, x>>
         IN  ln \in Seq(Byte) /\ Len(ln) = 8 /\ Value(ln) = 256 * (256 * b + y) + x
<1>. DEFINE ln == <<0, 0, 0, 0, 0, b, y, x>>
<1>1. 0 \in Byte
  BY DEF Byte
<1>2. ln \in Seq(Byte) /\ Len(ln) = 8
  BY <1>1
<1>3. (\A i \in 1..5 : ln[i] = 0) /\ ln[6] = b /\ ln[7] = y /\ ln[8] = x
  OBVIOUS
<1>. HIDE DEF ln
<1>4. Value(ln) = 256 * (256 * ln[6] + ln[7]) + ln[8]
  BY <1>2, <1>3, ValueOf8
<1>. QED
  BY <1>2, <1>3, <1>4 DEF ln

\* A length of three bytes in eight.
EightBytes(len) == <<0, 0, 0, 0, 0, (len \div 256) \div 256, (len \div 256) % 256, len % 256>>

\* Lengths of eight bytes.
LEMMA LengthPartLong ==
  ASSUME NEW len \in Nat, (len \div 256) \div 256 <= 255,
         EncodedLength(len) = <<127, 0, 0, 0, 0, 0>> \o BigEndian(len, 3)
  PROVE  EightBytes(len) \in Seq(Byte) /\ LengthPart(len, 127, EightBytes(len))
<1>. DEFINE a == len \div 256
            b == a \div 256
            x == len % 256
            y == a % 256
            ln == <<0, 0, 0, 0, 0, b, y, x>>
<1>1. /\ x \in Byte /\ a \in Nat /\ len = 256 * a + x
      /\ y \in Byte /\ b \in Nat /\ a = 256 * b + y /\ b <= 255
  BY LowByte
<1>2. BigEndian(len, 3) = <<b % 256, y, x>>
  <2>1. BigEndian(len, 3) = ThreeBytes(len)
    BY BigEndian3
  <2>2. ThreeBytes(len) = <<b % 256, y, x>>
    BY DEF ThreeBytes
  <2>. QED
    BY <2>1, <2>2, Zenon
<1>3. EncodedLength(len) = <<127, 0, 0, 0, 0, 0>> \o BigEndian(len, 3)
  OBVIOUS
<1>. HIDE DEF a, b, x, y
<1>4. b % 256 = b /\ b \in Byte
  <2>1. b \in Nat /\ b <= 255
    BY <1>1
  <2>2. b \in Byte
    BY <2>1 DEF Byte
  <2>3. b % 256 = b
    BY <2>1, SMT
  <2>. QED
    BY <2>2, <2>3
<1>5. EncodedLength(len) = <<127, 0, 0, 0, 0, 0>> \o <<b, y, x>>
  <2>1. BigEndian(len, 3) = <<b, y, x>>
    BY <1>2, <1>4
  <2>. QED
    BY <1>3, <2>1
<1>6. <<127, 0, 0, 0, 0, 0>> \o <<b, y, x>> = << 127 >> \o ln
  OBVIOUS
<1>7. ln \in Seq(Byte) /\ Len(ln) = 8 /\ Value(ln) = len
  <2>1. x \in Byte /\ y \in Byte
    BY <1>1
  <2>2. ln \in Seq(Byte) /\ Len(ln) = 8 /\ Value(ln) = 256 * (256 * b + y) + x
    BY <1>4, <2>1, LeadingZeros
  <2>3. 256 * (256 * b + y) + x = len
    BY <1>1
  <2>. QED
    BY <2>2, <2>3
<1>8. LengthBytes(127) = 8 /\ LengthBytes(127 + 128) = 8 /\ (127 + 128) % 128 = 127 % 128
  BY SMT DEF LengthBytes
<1>. HIDE DEF ln
<1>9. LengthPart(len, 127, ln)
  <2>1. EncodedLength(len) = << 127 >> \o ln
    BY <1>5, <1>6
  <2>2. len = IF Len(ln) = 0 THEN 127 % 128 ELSE Value(ln)
    BY <1>7
  <2>3. 127 < 128 /\ LengthBytes(127) = Len(ln) /\ LengthBytes(127 + 128) = Len(ln)
    BY <1>7, <1>8
  <2>. QED
    BY <1>8, <2>1, <2>2, <2>3 DEF LengthPart
<1>. QED
  BY <1>7, <1>9, Zenon DEF EightBytes, ln, a, b, x, y

\* A length of up to three bytes can be read from how it is written.
LEMMA LengthParts ==
  ASSUME NEW len, Fits(len, 3)
  PROVE  \E second \in Byte, ln \in Seq(Byte) : LengthPart(len, second, ln)
<1>1. len \in Nat /\ (len \div 256) \div 256 <= 255
  <2>1. 256^(3 - 1) = 65536 /\ (len \in Nat => len \div 65536 = (len \div 256) \div 256)
    BY SMT
  <2>. QED
    BY <2>1, SMT DEF Fits
<1>2. \/ len <= 125
      \/ len \div 256 <= 255 /\ EncodedLength(len) = << 126 >> \o BigEndian(len, 2)
      \/ EncodedLength(len) = <<127, 0, 0, 0, 0, 0>> \o BigEndian(len, 3)
  BY <1>1, SMT DEF EncodedLength
<1>3. CASE len <= 125
  <2>1. <<>> \in Seq(Byte)
    OBVIOUS
  <2>2. len \in Byte /\ LengthPart(len, len, <<>>)
    BY <1>1, <1>3, LengthPartShort
  <2>. QED
    BY <2>1, <2>2, Zenon
<1>4. CASE len \div 256 <= 255 /\ EncodedLength(len) = << 126 >> \o BigEndian(len, 2)
  <2>1. 126 \in Byte
    BY DEF Byte
  <2>2. BigEndian(len, 2) \in Seq(Byte) /\ LengthPart(len, 126, BigEndian(len, 2))
    BY <1>1, <1>4, LengthPartWord
  <2>. QED
    BY <2>1, <2>2, Zenon
<1>5. CASE EncodedLength(len) = <<127, 0, 0, 0, 0, 0>> \o BigEndian(len, 3)
  <2>. DEFINE ln == EightBytes(len)
  <2>1. 127 \in Byte
    BY DEF Byte
  <2>2. ln \in Seq(Byte) /\ LengthPart(len, 127, ln)
    BY <1>1, <1>5, LengthPartLong
  <2>. HIDE DEF ln
  <2>. QED
    BY <2>1, <2>2, Zenon
<1>. QED
  BY <1>2, <1>3, <1>4, <1>5

\* Masking with the same key twice changes nothing.
LEMMA UnmaskTwice ==
  ASSUME NEW payload \in Seq(Byte), NEW key \in Seq(Byte), Len(key) = 4
  PROVE  /\ Unmask(payload, key) \in Seq(Byte) /\ Len(Unmask(payload, key)) = Len(payload)
         /\ Unmask(Unmask(payload, key), key) = payload
<1>. DEFINE n == Len(payload)
            k(i) == key[((i - 1) % 4) + 1]
            data == Unmask(payload, key)
<1>1. /\ n \in Nat /\ DOMAIN payload = 1..n /\ \A i \in 1..n : payload[i] \in Byte
      /\ payload = [i \in 1..n |-> payload[i]]
  BY LenProperties, ElementOfSeq
<1>2. ASSUME NEW i \in 1..n
      PROVE  k(i) \in Byte
  <2>1. i - 1 \in Nat
    OBVIOUS
  <2>2. (i - 1) % 4 \in 0..3
    BY <2>1, SMT
  <2>3. ((i - 1) % 4) + 1 \in 1..4
    BY <2>2
  <2>. QED
    BY <2>3, ElementOfSeq
<1>3. data = [i \in 1..n |-> Xor8(payload[i], k(i))]
  BY <1>1 DEF Unmask
<1>4. \A i \in 1..n : Xor8(payload[i], k(i)) \in Byte /\ Xor8(Xor8(payload[i], k(i)), k(i)) = payload[i]
  BY <1>1, <1>2, Xor8Undone
<1>. HIDE DEF k
<1>5. DOMAIN data = 1..n /\ \A i \in 1..n : data[i] \in Byte /\ Xor8(data[i], k(i)) = payload[i]
  BY <1>3, <1>4
<1>6. data \in [1..n -> Byte]
  BY <1>3, <1>4
<1>7. data \in Seq(Byte) /\ Len(data) = n
  BY <1>1, <1>6
<1>8. Unmask(data, key) = [i \in 1..n |-> Xor8(data[i], k(i))]
  BY <1>5 DEF Unmask, k
<1>9. Unmask(data, key) = payload
  BY <1>1, <1>5, <1>8
<1>. QED
  BY <1>7, <1>9

\* The first byte of a frame.
First(message) == (IF message.is_final THEN 128 ELSE 0) + message.opcode

\* The first byte of a frame tells its opcode and whether it is the last.
LEMMA FirstByte ==
  ASSUME NEW message, message.opcode \in 0..15, message.is_final \in BOOLEAN
  PROVE  /\ First(message) \in Byte /\ (First(message) \div 16) % 8 = 0
         /\ (First(message) >= 128) = message.is_final /\ First(message) % 16 = message.opcode
<1>. DEFINE op == message.opcode
<1>1. \A n \in 0..15 :
        /\ n \in Byte /\ (n \div 16) % 8 = 0 /\ ~ (n >= 128) /\ n % 16 = n
        /\ 128 + n \in Byte /\ ((128 + n) \div 16) % 8 = 0 /\ 128 + n >= 128 /\ (128 + n) % 16 = n
  BY SMT DEF Byte
<1>2. op \in 0..15
  OBVIOUS
<1>3. CASE message.is_final
  <2>1. First(message) = 128 + op
    BY <1>3 DEF First
  <2>. HIDE DEF op
  <2>2. First(message) >= 128
    BY <1>1, <1>2, <2>1
  <2>3. First(message) \in Byte /\ (First(message) \div 16) % 8 = 0 /\ First(message) % 16 = op
    BY <1>1, <1>2, <2>1
  <2>4. message.is_final = TRUE /\ (First(message) >= 128) = TRUE
    BY <1>3, <2>2, Zenon
  <2>. QED
    BY <2>3, <2>4, Zenon DEF op
<1>4. CASE ~ message.is_final
  <2>1. First(message) = 0 + op
    BY <1>4 DEF First
  <2>. HIDE DEF op
  <2>2. First(message) = op
    BY <1>2, <2>1
  <2>3. ~ (First(message) >= 128)
    BY <1>1, <1>2, <2>2
  <2>4. First(message) \in Byte /\ (First(message) \div 16) % 8 = 0 /\ First(message) % 16 = op
    BY <1>1, <1>2, <2>2
  <2>5. message.is_final = FALSE
    BY <1>4, Zenon
  <2>6. (First(message) >= 128) = FALSE
    BY <2>3, SMT
  <2>. QED
    BY <2>4, <2>5, <2>6, Zenon DEF op
<1>. QED
  BY <1>3, <1>4

\* Two sequences of one element.
LEMMA TwoBytes ==
  ASSUME NEW S, NEW a \in S, NEW b \in S
  PROVE  <<a>> \o <<b>> = <<a, b>>
<1>. DEFINE p == <<a>>
            q == <<b>>
            r == <<a, b>>
<1>1. p \in Seq(S) /\ Len(p) = 1 /\ p[1] = a /\ q \in Seq(S) /\ Len(q) = 1 /\ q[1] = b
  OBVIOUS
<1>2. r \in Seq(S) /\ Len(r) = 2 /\ r[1] = a /\ r[2] = b
  OBVIOUS
<1>. HIDE DEF p, q, r
<1>3. /\ p \o q \in Seq(S) /\ Len(p \o q) = Len(p) + Len(q)
      /\ \A i \in 1..(Len(p) + Len(q)) : (p \o q)[i] = IF i <= Len(p) THEN p[i] ELSE q[i - Len(p)]
  BY <1>1, ConcatProperties
<1>4. Len(p \o q) = 2 /\ (p \o q)[1] = a /\ (p \o q)[2] = b
  BY <1>1, <1>3
<1>5. \A i \in 1..2 : (p \o q)[i] = r[i]
  BY <1>2, <1>4
<1>6. p \o q = r
  BY <1>2, <1>3, <1>4, <1>5, SeqEqual
<1>. QED
  BY <1>6 DEF p, q, r

\* The beginning of a frame without a mask.
LEMMA FrameHead ==
  ASSUME NEW first \in Byte, NEW second \in Byte, NEW ln \in Seq(Byte)
  PROVE  LET head == <<first, second>> \o ln
         IN  /\ head \in Seq(Byte) /\ Len(head) = 2 + Len(ln)
             /\ Holds(head, 0, <<first, second>>) /\ Holds(head, 2, ln)
             /\ <<first>> \o (<<second>> \o ln) = head
<1>. DEFINE p == <<first, second>>
<1>1. p \in Seq(Byte) /\ Len(p) = 2 /\ <<first>> \in Seq(Byte) /\ <<second>> \in Seq(Byte)
  OBVIOUS
<1>2. <<first>> \o <<second>> = p
  BY TwoBytes
<1>3. (<<first>> \o <<second>>) \o ln = <<first>> \o (<<second>> \o ln)
  BY <1>1, ConcatAssociative
<1>. HIDE DEF p
<1>4. /\ p \o ln \in Seq(Byte) /\ Len(p \o ln) = 2 + Len(ln)
      /\ Holds(p \o ln, 0, p) /\ Holds(p \o ln, 2, ln)
  <2>1. Sized(p, 2)
    BY <1>1 DEF Sized
  <2>. QED
    BY <2>1, JoinedParts
<1>. QED
  BY <1>2, <1>3, <1>4 DEF p

\* The frame of a message as ws_encode_frame writes it.
LEMMA PlainFrame ==
  ASSUME NEW message, message.opcode \in 0..15, message.is_final \in BOOLEAN,
         message.payload \in Seq(Byte),
         NEW second \in Byte, NEW ln \in Seq(Byte), LengthPart(Len(message.payload), second, ln)
  PROVE  LET head  == <<First(message), second>> \o ln
             frame == head \o message.payload
         IN  /\ \A room : ws_encode_frame(message, room) = IF room < Len(frame) THEN Failed ELSE frame
             /\ head \in Seq(Byte) /\ Len(head) = 2 + Len(ln) /\ Holds(frame, 0, head)
             /\ FrameLayout(frame, 2 + Len(ln), FALSE, First(message), second, ln, NULL, message.payload)
<1>. DEFINE first == First(message)
            p     == <<first, second>>
            head  == p \o ln
            data  == message.payload
            frame == head \o data
            hdr   == 2 + Len(ln)
<1>1. first \in Byte /\ (first \div 16) % 8 = 0
  BY FirstByte
<1>2. data \in Seq(Byte) /\ Len(ln) \in Nat
  BY LenProperties
<1>3. /\ second < 128 /\ LengthBytes(second) = Len(ln)
      /\ Len(data) = IF Len(ln) = 0 THEN second % 128 ELSE Value(ln)
      /\ EncodedLength(Len(data)) = <<second>> \o ln
  BY DEF LengthPart
<1>. HIDE DEF first, data
<1>4. /\ head \in Seq(Byte) /\ Len(head) = hdr /\ Holds(head, 0, p) /\ Holds(head, 2, ln)
      /\ <<first>> \o (<<second>> \o ln) = head
  BY <1>1, FrameHead
<1>5. \A room : ws_encode_frame(message, room) = IF room < Len(frame) THEN Failed ELSE frame
  <2>1. <<first>> \o EncodedLength(Len(data)) = head
    BY <1>3, <1>4
  <2>. HIDE DEF head
  <2>. QED
    BY <2>1 DEF ws_encode_frame, first, First, data
<1>6. hdr \in Nat /\ 2 \in Nat /\ 0 \in Nat /\ p \in Seq(Byte)
  BY <1>1, <1>2
<1>. HIDE DEF head, hdr, p
<1>7. /\ frame \in Seq(Byte) /\ Len(frame) = hdr + Len(data)
      /\ Holds(frame, 0, head) /\ Holds(frame, hdr, data)
      /\ \A k \in Nat, q \in Seq(Byte) : Holds(head, k, q) => Holds(frame, k, q)
  BY <1>2, <1>4, <1>6, Joined
<1>. HIDE DEF frame
<1>8. Holds(frame, 0, p) /\ Holds(frame, 2, ln)
  BY <1>4, <1>6, <1>7
<1>9. hdr = 2 + Len(ln) + (IF FALSE THEN 4 ELSE 0) /\ ~ (second >= 128)
  <2>1. ~ (second >= 128)
    BY <1>3 DEF Byte
  <2>. QED
    BY <1>2, <2>1 DEF hdr
<1>10. FrameLayout(frame, hdr, FALSE, first, second, ln, NULL, data)
  BY <1>1, <1>2, <1>3, <1>7, <1>8, <1>9 DEF FrameLayout, p
<1>. QED
  BY <1>4, <1>5, <1>7, <1>10 DEF head, hdr, p, first, data, frame

\* A sequence with its second element replaced.
LEMMA SecondReplaced ==
  ASSUME NEW S, NEW a \in S, NEW b \in S, NEW c \in S, NEW ln \in Seq(S)
  PROVE  /\ (<<a, b>> \o ln)[2] = b
         /\ [(<<a, b>> \o ln) EXCEPT ![2] = c] = <<a, c>> \o ln
<1>. DEFINE p   == <<a, b>>
            q   == <<a, c>>
            n   == 2 + Len(ln)
            old == p \o ln
            new == q \o ln
<1>1. /\ p \in Seq(S) /\ Len(p) = 2 /\ p[1] = a /\ p[2] = b
      /\ q \in Seq(S) /\ Len(q) = 2 /\ q[1] = a /\ q[2] = c
      /\ Len(ln) \in Nat
  BY LenProperties
<1>2. n \in Nat /\ 1 \in 1..n /\ 2 \in 1..n
  BY <1>1
<1>. HIDE DEF p, q
<1>3. /\ old \in Seq(S) /\ Len(old) = n
      /\ \A i \in 1..n : old[i] = IF i <= 2 THEN p[i] ELSE ln[i - 2]
  <2>1. /\ p \o ln \in Seq(S) /\ Len(p \o ln) = Len(p) + Len(ln)
        /\ \A i \in 1..(Len(p) + Len(ln)) : (p \o ln)[i] = IF i <= Len(p) THEN p[i] ELSE ln[i - Len(p)]
    BY <1>1, ConcatProperties
  <2>. QED
    BY <1>1, <2>1
<1>4. /\ new \in Seq(S) /\ Len(new) = n
      /\ \A i \in 1..n : new[i] = IF i <= 2 THEN q[i] ELSE ln[i - 2]
  <2>1. /\ q \o ln \in Seq(S) /\ Len(q \o ln) = Len(q) + Len(ln)
        /\ \A i \in 1..(Len(q) + Len(ln)) : (q \o ln)[i] = IF i <= Len(q) THEN q[i] ELSE ln[i - Len(q)]
    BY <1>1, ConcatProperties
  <2>. QED
    BY <1>1, <2>1
<1>. HIDE DEF n, old, new
<1>5. old[1] = a /\ old[2] = b /\ new[1] = a /\ new[2] = c
  BY <1>1, <1>2, <1>3, <1>4
<1>6. ASSUME NEW i \in 1..n, i # 1, i # 2
      PROVE  old[i] = new[i]
  <2>1. ~ (i <= 2)
    BY <1>2, <1>6
  <2>. QED
    BY <1>3, <1>4, <2>1
<1>7. DOMAIN old = 1..n /\ old = [i \in 1..n |-> old[i]] /\ new = [i \in 1..n |-> new[i]]
  BY <1>3, <1>4
<1>8. [old EXCEPT ![2] = c] = [i \in 1..n |-> IF i = 2 THEN c ELSE old[i]]
  BY <1>7
<1>9. \A i \in 1..n : (IF i = 2 THEN c ELSE old[i]) = new[i]
  BY <1>2, <1>5, <1>6
<1>10. [old EXCEPT ![2] = c] = new
  BY <1>7, <1>8, <1>9
<1>. QED
  BY <1>5, <1>10 DEF old, new, p, q

\* The frame a client makes of it.
LEMMA MaskedFrame ==
  ASSUME NEW first \in Byte, (first \div 16) % 8 = 0,
         NEW second \in Byte, NEW ln \in Seq(Byte), NEW payload \in Seq(Byte),
         LengthPart(Len(payload), second, ln),
         NEW frame, frame = (<<first, second>> \o ln) \o payload,
         NEW key \in Seq(Byte), Len(key) = 4
  PROVE  FrameLayout(Masked(frame, payload, key), 6 + Len(ln), TRUE, first, second + 128, ln, key,
                     Unmask(payload, key))
<1>. DEFINE head == <<first, second>> \o ln
            p == <<first, second + 128>>
            top == p \o ln
            data == Unmask(payload, key)
            m == 2 + Len(ln)
<1>1. /\ second < 128 /\ LengthBytes(second + 128) = Len(ln)
      /\ Len(payload) = IF Len(ln) = 0 THEN second % 128 ELSE Value(ln)
      /\ (second + 128) % 128 = second % 128
  BY DEF LengthPart
<1>2. second + 128 \in Byte /\ second + 128 >= 128
  <2>1. second < 128
    BY <1>1
  <2>. QED
    BY <2>1, SMT DEF Byte
<1>3. Len(payload) \in Nat /\ Len(ln) \in Nat /\ m \in Nat /\ m + 4 \in Nat /\ 0 \in Nat /\ 2 \in Nat
  BY LenProperties
<1>4. head \in Seq(Byte) /\ Len(head) = m
  BY FrameHead
<1>5. /\ top \in Seq(Byte) /\ Len(top) = m /\ Holds(top, 0, p) /\ Holds(top, 2, ln)
  <2>. DEFINE other == second + 128
  <2>1. other \in Byte
    BY <1>2
  <2>. HIDE DEF other
  <2>2. LET t == <<first, other>> \o ln
        IN  t \in Seq(Byte) /\ Len(t) = 2 + Len(ln) /\ Holds(t, 0, <<first, other>>) /\ Holds(t, 2, ln)
    BY <2>1, FrameHead
  <2>. QED
    BY <2>2 DEF other
<1>6. SubSeq(frame, 1, Len(frame) - Len(payload)) = head
  <2>. HIDE DEF head, m
  <2>1. frame \in Seq(Byte) /\ Len(frame) = m + Len(payload) /\ Holds(frame, 0, head)
    BY <1>3, <1>4, Joined DEF head
  <2>2. SubSeq(frame, 0 + 1, 0 + Len(head)) = head
    BY <1>3, <1>4, <2>1, HoldsSubSeq
  <2>3. 0 + 1 = 1 /\ 0 + Len(head) = Len(frame) - Len(payload)
    BY <1>3, <1>4, <2>1
  <2>. QED
    BY <2>2, <2>3
<1>7. [head EXCEPT ![2] = head[2] + 128] = top
  <2>. DEFINE other == second + 128
  <2>1. other \in Byte
    BY <1>2
  <2>. HIDE DEF other
  <2>2. /\ (<<first, second>> \o ln)[2] = second
        /\ [(<<first, second>> \o ln) EXCEPT ![2] = other] = <<first, other>> \o ln
    BY <2>1, SecondReplaced
  <2>3. head[2] = second /\ [head EXCEPT ![2] = second + 128] = top
    BY <2>2, Zenon DEF other
  <2>. QED
    BY <2>3
<1>8. data \in Seq(Byte) /\ Len(data) = Len(payload)
  BY UnmaskTwice
<1>. DEFINE f == (top \o key) \o data
<1>9. Masked(frame, payload, key) = f
  <2>1. data = [i \in DOMAIN payload |-> Xor8(payload[i], key[((i - 1) % 4) + 1])]
    BY DEF Unmask
  <2>. HIDE DEF data, top, head
  <2>. QED
    BY <1>6, <1>7, <2>1 DEF Masked
<1>10. p \in Seq(Byte)
  BY <1>2
<1>. HIDE DEF m, p, top, data
<1>. DEFINE tk == top \o key
<1>11. /\ tk \in Seq(Byte) /\ Len(tk) = m + 4 /\ Holds(tk, m, key)
       /\ \A k \in Nat, q \in Seq(Byte) : Holds(top, k, q) => Holds(tk, k, q)
  <2>1. /\ top \o key \in Seq(Byte) /\ Len(top \o key) = m + Len(key) /\ Holds(top \o key, m, key)
        /\ \A k \in Nat, q \in Seq(Byte) : Holds(top, k, q) => Holds(top \o key, k, q)
    BY <1>3, <1>5, Joined
  <2>. QED
    BY <2>1
<1>. HIDE DEF tk
<1>12. /\ tk \o data \in Seq(Byte) /\ Len(tk \o data) = m + 4 + Len(data) /\ Holds(tk \o data, m + 4, data)
       /\ \A k \in Nat, q \in Seq(Byte) : Holds(tk, k, q) => Holds(tk \o data, k, q)
  <2>. DEFINE front == m + 4
  <2>0. tk \in Seq(Byte) /\ data \in Seq(Byte)
    BY <1>8, <1>11
  <2>1. front \in Nat /\ Len(tk) = front
    BY <1>3, <1>11
  <2>. HIDE DEF front
  <2>2. /\ tk \o data \in Seq(Byte) /\ Len(tk \o data) = front + Len(data)
        /\ Holds(tk \o data, front, data)
        /\ \A k \in Nat, q \in Seq(Byte) : Holds(tk, k, q) => Holds(tk \o data, k, q)
    BY <2>1, <2>0, Joined
  <2>. QED
    BY <2>2 DEF front
<1>13. f = tk \o data
  BY DEF tk
<1>. HIDE DEF f
<1>14. Holds(f, 0, p) /\ Holds(f, 2, ln) /\ Holds(f, m, key)
  BY <1>3, <1>5, <1>10, <1>11, <1>12, <1>13
<1>15. m + 4 = 6 + Len(ln) /\ m = (6 + Len(ln)) - 4 /\ 6 + Len(ln) = 2 + Len(ln) + (IF TRUE THEN 4 ELSE 0)
  BY <1>3 DEF m
<1>16. Len(data) = IF Len(ln) = 0 THEN (second + 128) % 128 ELSE Value(ln)
  BY <1>1, <1>8
<1>17. f \in Seq(Byte) /\ Len(f) = (6 + Len(ln)) + Len(data) /\ Holds(f, 6 + Len(ln), data)
       /\ Holds(f, (6 + Len(ln)) - 4, key)
  BY <1>12, <1>13, <1>14, <1>15
<1>18. FrameLayout(f, 6 + Len(ln), TRUE, first, second + 128, ln, key, data)
  BY <1>1, <1>2, <1>8, <1>14, <1>15, <1>16, <1>17 DEF FrameLayout, p
<1>. QED
  BY <1>9, <1>18 DEF data

\* What FrameUndone says of a frame of len bytes of payload and of room for it.
LEMMA FrameChecked ==
  ASSUME NEW whole, NEW size, NEW isMasked, NEW byte1, NEW byte2, NEW bytes, NEW mask, NEW sent,
         FrameLayout(whole, size, isMasked, byte1, byte2, bytes, mask, sent)
  PROVE  /\ \A rest \in Rests :
              ws_decode_frame(whole \o rest) = Received(whole, isMasked, byte1, mask, sent)
         /\ \A n \in 0..12 \cup {Len(whole) - 1} :
              n < Len(whole) => ws_decode_frame(SubSeq(whole, 1, n)) = Failed
<1>1. whole \in Seq(Byte) /\ Len(whole) \in Nat /\ Len(whole) >= 1
  <2>1. whole \in Seq(Byte) /\ sent \in Seq(Byte) /\ bytes \in Seq(Byte)
    BY DEF FrameLayout
  <2>2. Len(whole) \in Nat /\ Len(sent) \in Nat /\ Len(bytes) \in Nat
    BY <2>1, LenProperties
  <2>3. Len(whole) = size + Len(sent) /\ size = 2 + Len(bytes) + (IF isMasked THEN 4 ELSE 0)
    BY DEF FrameLayout
  <2>. QED
    BY <2>1, <2>2, <2>3
<1>2. ASSUME NEW rest \in Rests
      PROVE  ws_decode_frame(whole \o rest) = Received(whole, isMasked, byte1, mask, sent)
  <2>1. rest \in Seq(Byte)
    BY RestsAssumption
  <2>2. whole \o rest \in Seq(Byte) /\ Holds(whole \o rest, 0, whole)
    BY <1>1, <2>1, HoldsBoth
  <2>. DEFINE buffer == whole \o rest
  <2>3. buffer \in Seq(Byte) /\ Holds(buffer, 0, whole)
    BY <2>2
  <2>. HIDE DEF buffer
  <2>4. ws_decode_frame(buffer) = Received(whole, isMasked, byte1, mask, sent)
    BY <2>3, LayoutDecoded
  <2>. QED
    BY <2>4 DEF buffer
<1>3. ASSUME NEW n \in 0..12 \cup {Len(whole) - 1}, n < Len(whole)
      PROVE  ws_decode_frame(SubSeq(whole, 1, n)) = Failed
  <2>1. n \in 0..(Len(whole) - 1)
    BY <1>1, <1>3
  <2>. QED
    BY <2>1, LayoutCut
<1>. QED
  BY <1>2, <1>3

\* FrameUndone holds of every sample.
LEMMA FrameHolds == SampleType => FrameUndone
<1>. SUFFICES ASSUME SampleType, sample.kind = "frame"
              PROVE  FrameUndone
  BY DEF FrameUndone
<1>. DEFINE payload == sample.payload
            key     == sample.mask_key
            len     == Len(payload)
            plain   == ws_encode_frame(sample, len + 10)
            masked  == Masked(plain, payload, key)
            first   == First(sample)
<1>1. /\ sample.opcode \in 0..15 /\ sample.is_final \in BOOLEAN /\ payload \in Seq(Byte)
      /\ key = NULL \/ (key \in Seq(Byte) /\ Len(key) = 4)
      /\ Fits(len, 3) /\ len \in Nat
  BY Kinds, FramesAssumption, LenProperties
<1>2. /\ first \in Byte /\ (first \div 16) % 8 = 0
      /\ (first >= 128) = sample.is_final /\ first % 16 = sample.opcode
  BY <1>1, FirstByte
<1>3. PICK second \in Byte, ln \in Seq(Byte) : LengthPart(len, second, ln)
  BY <1>1, LengthParts
<1>. DEFINE head  == <<first, second>> \o ln
            frame == head \o payload
<1>4. /\ \A room : ws_encode_frame(sample, room) = IF room < Len(frame) THEN Failed ELSE frame
      /\ head \in Seq(Byte) /\ Len(head) = 2 + Len(ln)
      /\ FrameLayout(frame, 2 + Len(ln), FALSE, first, second, ln, NULL, payload)
  BY <1>1, <1>3, PlainFrame
<1>5. Len(ln) \in 0..8
  <2>1. second \in Nat /\ LengthBytes(second) = Len(ln)
    BY <1>3 DEF LengthPart, Byte
  <2>2. LengthBytes(second) \in {0, 2, 8}
    BY DEF LengthBytes
  <2>. QED
    BY <2>1, <2>2
<1>6. Len(frame) = 2 + Len(ln) + len
  <2>1. head \in Seq(Byte) /\ payload \in Seq(Byte)
    BY <1>1, <1>4
  <2>2. Len(head \o payload) = Len(head) + Len(payload)
    BY <2>1, HoldsBoth
  <2>. QED
    BY <1>4, <2>2
<1>7. plain = frame
  <2>. HIDE DEF frame, len
  <2>0. len \in Nat
    BY <1>1
  <2>. DEFINE n == Len(ln)
  <2>1. n \in 0..8 /\ Len(frame) = 2 + n + len
    BY <1>5, <1>6
  <2>. HIDE DEF n
  <2>2. ~ (len + 10 < Len(frame))
    BY <2>0, <2>1
  <2>. QED
    BY <1>4, <2>2
<1>. HIDE DEF frame, head, first, len
<1>8. ws_encode_frame(sample, Len(plain) - 1) = Failed
  <2>1. Len(frame) - 1 < Len(frame)
    BY <1>1, <1>5, <1>6
  <2>. QED
    BY <1>4, <1>7, <2>1
<1>9. CASE key = NULL
  <2>1. /\ \A rest \in Rests :
             ws_decode_frame(frame \o rest) = Received(frame, FALSE, first, NULL, payload)
        /\ \A n \in 0..12 \cup {Len(frame) - 1} :
             n < Len(frame) => ws_decode_frame(SubSeq(frame, 1, n)) = Failed
    BY <1>4, FrameChecked
  <2>. QED
    BY <1>2, <1>7, <1>8, <1>9, <2>1 DEF FrameUndone, len, Received
<1>10. CASE key \in Seq(Byte) /\ Len(key) = 4
  <2>1. key # NULL
    BY <1>10, ConstantsDiffer
  <2>2. frame = (<<first, second>> \o ln) \o payload
    BY DEF frame, head
  <2>. DEFINE data == Unmask(payload, key)
  <2>3. FrameLayout(masked, 6 + Len(ln), TRUE, first, second + 128, ln, key, data)
    BY <1>1, <1>2, <1>3, <1>7, <1>10, <2>2, MaskedFrame DEF len
  <2>4. Unmask(data, key) = payload
    BY <1>1, <1>10, UnmaskTwice
  <2>. HIDE DEF masked, key, payload, data
  <2>5. /\ \A rest \in Rests :
             ws_decode_frame(masked \o rest) = Received(masked, TRUE, first, key, data)
        /\ \A n \in 0..12 \cup {Len(masked) - 1} :
             n < Len(masked) => ws_decode_frame(SubSeq(masked, 1, n)) = Failed
    BY <2>3, FrameChecked
  <2>. QED
    BY <1>2, <1>8, <2>1, <2>4, <2>5 DEF Received, FrameUndone, len, masked, key, payload
<1>. QED
  BY <1>1, <1>9, <1>10

\* Every WebSocket frame, masked or not and whatever follows it, is decoded to
\* what was encoded; one not yet received as a whole is refused, as is one that
\* the buffer does not hold.
THEOREM FramesUndone == SampleSpec => []FrameUndone
  BY SampleTypeCorrect, FrameHolds, PTL

-----------------------------------------------------------------------------
(* The remaining length. *)

\* The number made of the low seven bits of the first m bytes.
LowBits(pkt, m) ==
  FoldLeft(LAMBDA sum, i : sum + (pkt[i] % 128) * 128^(i-1), 0, [i \in 1..m |-> i])

\* The same number, written out for up to three bytes.
SevenBits(pkt, m) ==
  (pkt[1] % 128) + (IF m > 1 THEN 128 * (pkt[2] % 128) ELSE 0)
                 + (IF m > 2 THEN 128 * (128 * (pkt[3] % 128)) ELSE 0)

\* LowBits adds up the bytes, the first first.
LEMMA LowBitsRounds ==
  ASSUME NEW pkt \in Seq(Byte), NEW m \in 0..3, m <= Len(pkt)
  PROVE  \E g : /\ g[{}] = 0
                /\ \A k \in 1..m : g[1..k] = g[1..(k - 1)] + (pkt[k] % 128) * 128^(k-1)
                /\ LowBits(pkt, m) = g[1..m]
<1>. DEFINE ids == [i \in 1..m |-> i]
            term == [k \in 1..m |-> (pkt[k] % 128) * 128^(k-1)]
            op == [p \in Nat \X (1..m) |-> p[1] + term[p[2]]]
            W(k) == (pkt[ids[k]] % 128) * 128^(ids[k]-1)
            Sum(g) == g = [s \in SUBSET (DOMAIN ids) |->
                             IF s = {} THEN 0 ELSE g[s \ {Max(s)}] + W(Max(s))]
<1>1. /\ DOMAIN ids = 1..m /\ Len(ids) = m /\ \A k \in 1..m : ids[k] = k
      /\ \A k \in 1..m : pkt[k] \in Byte
  <2>1. Len(pkt) \in Nat /\ \A k \in 1..Len(pkt) : pkt[k] \in Byte
    BY LenProperties, ElementOfSeq
  <2>. QED
    BY <2>1
<1>2. ASSUME NEW k \in 1..m
      PROVE  term[k] \in Nat /\ term[k] = (pkt[k] % 128) * 128^(k-1)
  <2>1. pkt[k] % 128 \in Nat
    <3>1. \A x \in Byte : x % 128 \in Nat
      BY SMT DEF Byte
    <3>. QED
      BY <1>1, <3>1
  <2>2. 128^(k-1) \in Nat
    <3>1. 128^(1-1) \in Nat /\ 128^(2-1) \in Nat /\ 128^(3-1) \in Nat
      BY SMT
    <3>2. k = 1 \/ k = 2 \/ k = 3
      OBVIOUS
    <3>. QED
      BY <3>1, <3>2
  <2>3. \A x, y \in Nat : x * y \in Nat
    BY SMT
  <2>. QED
    BY <2>1, <2>2, <2>3
<1>. HIDE DEF ids, term
<1>0. m \in Nat /\ \A k \in 1..m : W(k) = term[k]
  BY <1>1, <1>2
<1>. HIDE DEF W
<1>3. op \in [Nat \X (1..m) -> Nat]
  BY <1>2
<1>4. PICK g : Folds(g, Nat, 0, op, m)
  <2>. HIDE DEF op
  <2>1. m \in Nat /\ 0 \in Nat
    OBVIOUS
  <2>. QED
    BY <2>1, <1>3, FoldExists, Zenon
<1>5. Sum(g)
  <2>1. ASSUME NEW s \in SUBSET (1..m), s # {}
        PROVE  op[<<g[s \ {Max(s)}], Max(s)>>] = g[s \ {Max(s)}] + W(Max(s))
    <3>1. Max(s) \in 1..m /\ g[s \ {Max(s)}] \in Nat
      BY <1>0, <1>4, <2>1, Greatest DEF Folds
    <3>2. op[<<g[s \ {Max(s)}], Max(s)>>] = g[s \ {Max(s)}] + term[Max(s)]
      BY <3>1
    <3>. QED
      BY <1>0, <3>1, <3>2
  <2>. HIDE DEF op
  <2>2. g = [s \in SUBSET (1..m) |->
               IF s = {} THEN 0 ELSE op[<<g[s \ {Max(s)}], Max(s)>>]]
    BY <1>4 DEF Folds, Round
  <2>. QED
    BY <1>1, <2>1, <2>2
<1>6. LowBits(pkt, m) = (CHOOSE f : Sum(f))[1..m]
  BY <1>1 DEF LowBits, FoldLeft, MapThenFoldSet, ids, W
<1>. DEFINE f == CHOOSE h : Sum(h)
<1>7. Sum(f)
  <2>. HIDE DEF Sum
  <2>. QED
    BY <1>5
<1>. HIDE DEF f
<1>8. \A s \in SUBSET (1..m) :
        f[s] = IF s = {} THEN 0 ELSE f[s \ {Max(s)}] + W(Max(s))
  BY <1>1, <1>7
<1>9. ASSUME NEW k \in 1..m
      PROVE  f[1..k] = f[1..(k - 1)] + (pkt[k] % 128) * 128^(k-1)
  <2>1. 1..k \in SUBSET (1..m) /\ 1..k # {} /\ Max(1..k) = k /\ (1..k) \ {k} = 1..(k - 1)
    BY <1>0, GreatestUpTo
  <2>2. f[1..k] = f[(1..k) \ {Max(1..k)}] + W(Max(1..k))
    BY <1>8, <2>1
  <2>. QED
    BY <1>0, <1>2, <2>1, <2>2
<1>10. f[{}] = 0
  BY <1>8
<1>. QED
  BY <1>6, <1>9, <1>10 DEF f

\* LowBits and SevenBits are the same number.
LEMMA LowBitsOf ==
  ASSUME NEW pkt \in Seq(Byte), NEW m \in 1..3, m <= Len(pkt)
  PROVE  LowBits(pkt, m) = SevenBits(pkt, m)
<1>1. m \in 0..3 /\ \A i \in 1..m : pkt[i] \in Byte
  <2>1. Len(pkt) \in Nat /\ \A i \in 1..Len(pkt) : pkt[i] \in Byte
    BY LenProperties, ElementOfSeq
  <2>. QED
    BY <2>1
<1>2. PICK g : /\ g[{}] = 0
               /\ \A k \in 1..m : g[1..k] = g[1..(k - 1)] + (pkt[k] % 128) * 128^(k-1)
               /\ LowBits(pkt, m) = g[1..m]
  BY <1>1, LowBitsRounds
<1>3. /\ \A x \in Byte : x % 128 \in Nat
      /\ \A x \in Nat : /\ x * 128^(1-1) = x /\ x * 128^(2-1) = 128 * x
                        /\ x * 128^(3-1) = 128 * (128 * x)
  BY SMT DEF Byte
<1>4. 1..0 = {} /\ 1 - 1 = 0 /\ 2 - 1 = 1 /\ 3 - 1 = 2
  OBVIOUS
<1>. DEFINE x == pkt[1] % 128
            y == pkt[2] % 128
            z == pkt[3] % 128
<1>5. 1 \in 1..m /\ g[1..1] = x /\ x \in Nat
  <2>1. 1 \in 1..m
    OBVIOUS
  <2>2. x \in Nat
    BY <1>1, <1>3, <2>1
  <2>3. g[1..1] = g[1..(1 - 1)] + x * 128^(1-1)
    BY <1>2, <2>1, Zenon
  <2>4. g[1..(1 - 1)] = 0
    BY <1>2, <1>4
  <2>5. x * 128^(1-1) = x
    BY <1>3, <2>2
  <2>. HIDE DEF x
  <2>. QED
    BY <2>1, <2>2, <2>3, <2>4, <2>5
<1>6. m > 1 => g[1..2] = x + 128 * y /\ y \in Nat
  <2>. SUFFICES ASSUME m > 1
                PROVE  g[1..2] = x + 128 * y /\ y \in Nat
    OBVIOUS
  <2>1. 2 \in 1..m
    OBVIOUS
  <2>2. y \in Nat
    BY <1>1, <1>3, <2>1
  <2>3. g[1..2] = g[1..(2 - 1)] + y * 128^(2-1)
    BY <1>2, <2>1, Zenon
  <2>4. y * 128^(2-1) = 128 * y
    BY <1>3, <2>2
  <2>. HIDE DEF x, y
  <2>5. g[1..2] = g[1..1] + 128 * y
    BY <1>4, <2>3, <2>4
  <2>. QED
    BY <1>5, <2>2, <2>5
<1>7. m > 2 => g[1..3] = x + 128 * y + 128 * (128 * z) /\ z \in Nat
  <2>. SUFFICES ASSUME m > 2
                PROVE  g[1..3] = x + 128 * y + 128 * (128 * z) /\ z \in Nat
    OBVIOUS
  <2>1. 3 \in 1..m /\ m > 1
    OBVIOUS
  <2>2. z \in Nat
    BY <1>1, <1>3, <2>1
  <2>3. g[1..3] = g[1..(3 - 1)] + z * 128^(3-1)
    BY <1>2, <2>1, Zenon
  <2>4. z * 128^(3-1) = 128 * (128 * z)
    BY <1>3, <2>2
  <2>. HIDE DEF x, y, z
  <2>5. g[1..3] = g[1..2] + 128 * (128 * z)
    BY <1>4, <2>3, <2>4
  <2>. QED
    BY <1>6, <2>1, <2>2, <2>5
<1>8. m = 1 \/ m = 2 \/ m = 3
  OBVIOUS
<1>9. SevenBits(pkt, m) = x + (IF m > 1 THEN 128 * y ELSE 0) + (IF m > 2 THEN 128 * (128 * z) ELSE 0)
  BY DEF SevenBits
<1>10. LowBits(pkt, m) = g[1..m]
  BY <1>2
<1>. HIDE DEF x, y, z
<1>11. CASE m = 1
  BY <1>5, <1>9, <1>10, <1>11
<1>12. CASE m = 2
  BY <1>5, <1>6, <1>9, <1>10, <1>12
<1>13. CASE m = 3
  BY <1>5, <1>6, <1>7, <1>9, <1>10, <1>13
<1>. QED
  BY <1>8, <1>11, <1>12, <1>13

\* The least of some numbers.
LEMMA Least ==
  ASSUME NEW T, T \subseteq Nat, NEW k \in T, \A y \in T : k <= y
  PROVE  Min(T) = k
<1>1. \E x \in T : \A y \in T : x <= y
  OBVIOUS
<1>2. Min(T) \in T /\ \A y \in T : Min(T) <= y
  BY <1>1 DEF Min
<1>3. Min(T) \in Nat /\ k \in Nat /\ Min(T) <= k /\ k <= Min(T)
  BY <1>2
<1>. QED
  BY <1>3

\* The length ends with the first byte below 128, if that is one of three.
LEMMA LengthDecoded ==
  ASSUME NEW pkt \in Seq(Byte), NEW m \in 1..3, m <= Len(pkt), pkt[m] < 128,
         \A i \in 1..(m - 1) : pkt[i] >= 128
  PROVE  decode_remaining_length(pkt) = [decoded |-> m, value |-> SevenBits(pkt, m)]
<1>. DEFINE ends == {i \in 1..3 : i <= Len(pkt) /\ pkt[i] < 128}
<1>1. Len(pkt) \in Nat /\ \A i \in 1..Len(pkt) : pkt[i] \in Byte
  BY LenProperties, ElementOfSeq
<1>2. ends \subseteq Nat /\ m \in ends
  OBVIOUS
<1>3. ASSUME NEW i \in ends
      PROVE  m <= i
  <2>1. i \in 1..3 /\ i <= Len(pkt) /\ pkt[i] < 128
    OBVIOUS
  <2>2. pkt[i] \in Nat
    <3>1. i \in 1..Len(pkt)
      BY <1>1, <2>1
    <3>. QED
      BY <1>1, <3>1, ByteNumbers
  <2>3. i \notin 1..(m - 1)
    BY <2>1, <2>2
  <2>. QED
    BY <2>1, <2>3
<1>4. Min(ends) = m
  BY <1>2, <1>3, Least
<1>5. ends # {}
  BY <1>2
<1>6. LowBits(pkt, m) = SevenBits(pkt, m)
  BY LowBitsOf
<1>7. decode_remaining_length(pkt) = [decoded |-> Min(ends), value |-> LowBits(pkt, Min(ends))]
  <2>. HIDE DEF ends
  <2>. QED
    BY <1>5 DEF decode_remaining_length, LowBits, ends
<1>. QED
  BY <1>4, <1>6, <1>7

\* A length whose first three bytes all say that more follow is refused.
LEMMA LengthRefused ==
  ASSUME NEW pkt, \A i \in 1..3 : i <= Len(pkt) => ~ (pkt[i] < 128)
  PROVE  decode_remaining_length(pkt) = Failed
BY DEF decode_remaining_length

\* The i-th byte of a remaining length.
Digit(length, i) == ((length \div 128^(i-1)) % 128) + 128 * Bit(length \div 128^i > 0)

\* What is left of a length behind a byte, and the byte: seven bits, and whether
\* more follow.
Shift(low) == low \div 128

SevenAndMore(low) == (low % 128) + 128 * Bit(Shift(low) > 0)

\* A byte and what is left behind it make up the length.
LEMMA DigitOf ==
  ASSUME NEW low \in Nat
  PROVE  /\ SevenAndMore(low) \in Byte
         /\ SevenAndMore(low) >= 128 <=> Shift(low) > 0
         /\ low = 128 * Shift(low) + (SevenAndMore(low) % 128)
         /\ Shift(low) \in Nat
<1>. DEFINE high == Shift(low)
<1>0. high = low \div 128 /\ high \in Nat /\ SevenAndMore(low) = (low % 128) + 128 * Bit(high > 0)
  <2>1. low \div 128 \in Nat
    BY SMT
  <2>. QED
    BY <2>1 DEF Shift, SevenAndMore
<1>. DEFINE l == low % 128
<1>1. l \in 0..127 /\ low = 128 * high + l
  BY <1>0, SMT
<1>. HIDE DEF l, high
<1>2. CASE high > 0
  <2>1. 128 * Bit(high > 0) = 128
    BY <1>2 DEF Bit
  <2>2. l + 128 \in Byte /\ (l + 128) % 128 = l /\ l + 128 >= 128
    BY <1>1, SMT DEF Byte
  <2>3. SevenAndMore(low) = l + 128
    BY <1>0, <2>1 DEF l
  <2>. QED
    BY <1>0, <1>1, <1>2, <2>2, <2>3 DEF high
<1>3. CASE high = 0
  <2>1. 128 * Bit(high > 0) = 0
    BY <1>3 DEF Bit
  <2>2. l + 0 = l /\ l \in Byte /\ l % 128 = l /\ ~ (l >= 128)
    BY <1>1, SMT DEF Byte
  <2>3. SevenAndMore(low) = l
    BY <1>0, <2>1, <2>2 DEF l
  <2>. QED
    BY <1>0, <1>1, <1>3, <2>2, <2>3 DEF high
<1>. QED
  BY <1>0, <1>2, <1>3

\* The bytes of a length, a, b, c and d being what is left of it behind each.
Digits(length, a, b, c, d) ==
  /\ length \div 128^1 = a /\ length \div 128^2 = b /\ length \div 128^3 = c
  /\ \A i \in 1..4 : Digit(length, i) \in Byte
  /\ Digit(length, 1) >= 128 <=> a > 0
  /\ Digit(length, 2) >= 128 <=> b > 0
  /\ Digit(length, 3) >= 128 <=> c > 0
  /\ length = 128 * a + (Digit(length, 1) % 128)
  /\ a = 128 * b + (Digit(length, 2) % 128)
  /\ b = 128 * c + (Digit(length, 3) % 128)

\* The bytes of every length are such.
LEMMA DigitsOf ==
  ASSUME NEW length \in Nat
  PROVE  \E a, b, c, d \in Nat : Digits(length, a, b, c, d)
<1>. DEFINE q1 == length \div 128
            q2 == q1 \div 128
            q3 == q2 \div 128
            q4 == q3 \div 128
<1>1. q1 \in Nat /\ q2 \in Nat /\ q3 \in Nat /\ q4 \in Nat
  BY SMT
<1>2. length \div 128^(1-1) = length /\ length \div 128^1 = q1
  BY SMT
<1>3. length \div 128^2 = q2
  BY SMT
<1>4. length \div 128^3 = q3
  BY SMT
<1>5. length \div 128^4 = q4
  <2>1. length \div 128^4 = (length \div 128^3) \div 128
    BY SMT
  <2>. QED
    BY <1>4, <2>1
<1>6. 2 - 1 = 1 /\ 3 - 1 = 2 /\ 4 - 1 = 3
  OBVIOUS
<1>7. q1 = length \div 128 /\ q2 = q1 \div 128 /\ q3 = q2 \div 128 /\ q4 = q3 \div 128
  OBVIOUS
<1>. HIDE DEF q1, q2, q3, q4
<1>8. /\ Digit(length, 1) = (length % 128) + 128 * Bit(q1 > 0)
      /\ Digit(length, 2) = (q1 % 128) + 128 * Bit(q2 > 0)
      /\ Digit(length, 3) = (q2 % 128) + 128 * Bit(q3 > 0)
      /\ Digit(length, 4) = (q3 % 128) + 128 * Bit(q4 > 0)
  BY <1>2, <1>3, <1>4, <1>5, <1>6, ZenonT(40) DEF Digit
<1>. DEFINE x == Digit(length, 1)
            y == Digit(length, 2)
            z == Digit(length, 3)
            w == Digit(length, 4)
<1>9. x = SevenAndMore(length) /\ q1 = Shift(length)
  BY <1>7, <1>8 DEF SevenAndMore, Shift
<1>10. y = SevenAndMore(q1) /\ q2 = Shift(q1)
  BY <1>7, <1>8 DEF SevenAndMore, Shift
<1>11. z = SevenAndMore(q2) /\ q3 = Shift(q2)
  BY <1>7, <1>8 DEF SevenAndMore, Shift
<1>12. w = SevenAndMore(q3)
  BY <1>7, <1>8 DEF SevenAndMore, Shift
<1>. HIDE DEF x, y, z, w
<1>13. x \in Byte /\ (x >= 128 <=> q1 > 0) /\ length = 128 * q1 + (x % 128)
  BY <1>1, <1>9, DigitOf
<1>14. y \in Byte /\ (y >= 128 <=> q2 > 0) /\ q1 = 128 * q2 + (y % 128)
  BY <1>1, <1>10, DigitOf
<1>15. z \in Byte /\ (z >= 128 <=> q3 > 0) /\ q2 = 128 * q3 + (z % 128)
  BY <1>1, <1>11, DigitOf
<1>16. w \in Byte
  BY <1>1, <1>12, DigitOf
<1>17. \A i \in 1..4 : Digit(length, i) \in Byte
  BY <1>13, <1>14, <1>15, <1>16 DEF x, y, z, w
<1>18. Digits(length, q1, q2, q3, q4)
  BY <1>2, <1>3, <1>4, <1>13, <1>14, <1>15, <1>17, Zenon DEF Digits, x, y, z
<1>. QED
  BY <1>1, <1>18, Zenon

\* The n bytes that encode_remaining_length writes.
EncodedDigits(length, n) ==
  /\ encode_remaining_length(length) = [i \in 1..n |-> Digit(length, i)]
  /\ \A i \in 1..n : Digit(length, i) \in Byte
  /\ \A i \in 1..(n - 1) : Digit(length, i) >= 128

\* Lengths the receiver can read.
ReadableDigits(length, n) ==
  /\ EncodedDigits(length, n)
  /\ Digit(length, n) < 128
  /\ length = SevenBits([i \in 1..n |-> Digit(length, i)], n)

\* Every length has four bytes and more than 21 bits, or can be read.
LEMMA LengthEncoded ==
  ASSUME NEW length \in Nat
  PROVE  \/ length \div 128^3 > 0 /\ EncodedDigits(length, 4)
         \/ length \div 128^3 = 0 /\ \E n \in 1..3 : ReadableDigits(length, n)
<1>1. PICK a, b, c, d \in Nat : Digits(length, a, b, c, d)
  BY DigitsOf
<1>. DEFINE x == Digit(length, 1)
            y == Digit(length, 2)
            z == Digit(length, 3)
            ends == {k \in 1..4 : length \div 128^k = 0 \/ k = 4}
<1>2. \A i \in 1..4 : Digit(length, i) \in Byte
  BY <1>1, Zenon DEF Digits
<1>3. x \in Byte /\ y \in Byte /\ z \in Byte
  BY <1>2
<1>4. length \div 128^1 = a /\ length \div 128^2 = b /\ length \div 128^3 = c
  BY <1>1, Zenon DEF Digits
<1>5. (x >= 128 <=> a > 0) /\ (y >= 128 <=> b > 0) /\ (z >= 128 <=> c > 0)
  BY <1>1, Zenon DEF Digits
<1>6. length = 128 * a + (x % 128) /\ a = 128 * b + (y % 128) /\ b = 128 * c + (z % 128)
  BY <1>1, Zenon DEF Digits
<1>7. /\ 4 \in ends
      /\ 1 \in ends <=> a = 0
      /\ 2 \in ends <=> b = 0
      /\ 3 \in ends <=> c = 0
      /\ ends \subseteq {1, 2, 3, 4} /\ ends \subseteq Nat
  <2>. HIDE DEF x, y, z
  <2>1. \A k \in 1..4 : k = 1 \/ k = 2 \/ k = 3 \/ k = 4
    OBVIOUS
  <2>2. 1 \in 1..4 /\ 2 \in 1..4 /\ 3 \in 1..4 /\ 4 \in 1..4 /\ 1 # 4 /\ 2 # 4 /\ 3 # 4
    OBVIOUS
  <2>3. /\ 4 \in ends
        /\ 1 \in ends <=> a = 0
        /\ 2 \in ends <=> b = 0
        /\ 3 \in ends <=> c = 0
    BY <1>4, <2>2, Zenon
  <2>4. ends \subseteq 1..4
    OBVIOUS
  <2>. HIDE DEF ends
  <2>. QED
    BY <2>1, <2>3, <2>4
<1>8. encode_remaining_length(length) = [i \in 1..Min(ends) |-> Digit(length, i)]
  BY DEF encode_remaining_length, Digit
<1>9. x % 128 \in Nat /\ y % 128 \in Nat /\ z % 128 \in Nat
  <2>1. \A u \in Byte : u % 128 \in Nat
    BY SMT DEF Byte
  <2>. HIDE DEF x, y, z
  <2>. QED
    BY <1>3, <2>1
<1>10. /\ x \in Nat /\ y \in Nat /\ z \in Nat
  BY <1>3, ByteNumbers
<1>. HIDE DEF ends, x, y, z
<1>11. CASE a = 0
  <2>1. Min(ends) = 1
    <3>1. 1 \in ends /\ \A k \in ends : 1 <= k
      BY <1>7, <1>11
    <3>. QED
      BY <1>7, <3>1, Least
  <2>. DEFINE f == [i \in 1..1 |-> Digit(length, i)]
  <2>2. encode_remaining_length(length) = f
    BY <1>8, <2>1
  <2>3. f[1] = x
    BY DEF x
  <2>4. EncodedDigits(length, 1)
    BY <1>2, <2>2 DEF EncodedDigits
  <2>5. x < 128 /\ length = x % 128 /\ c = 0
    BY <1>5, <1>6, <1>9, <1>10, <1>11
  <2>. HIDE DEF f
  <2>6. length = SevenBits(f, 1)
    BY <1>9, <2>3, <2>5 DEF SevenBits
  <2>7. ReadableDigits(length, 1)
    BY <2>4, <2>5, <2>6 DEF ReadableDigits, x, f
  <2>. QED
    BY <1>4, <2>5, <2>7
<1>12. CASE a > 0 /\ b = 0
  <2>1. Min(ends) = 2
    <3>1. 2 \in ends /\ \A k \in ends : 2 <= k
      BY <1>7, <1>12
    <3>. QED
      BY <1>7, <3>1, Least
  <2>. DEFINE f == [i \in 1..2 |-> Digit(length, i)]
  <2>2. encode_remaining_length(length) = f
    BY <1>8, <2>1
  <2>3. f[1] = x /\ f[2] = y
    BY DEF x, y
  <2>4. EncodedDigits(length, 2)
    BY <1>2, <1>5, <1>12, <2>2 DEF EncodedDigits, x
  <2>5. y < 128 /\ length = 128 * (y % 128) + (x % 128) /\ c = 0
    BY <1>5, <1>6, <1>9, <1>10, <1>12
  <2>. HIDE DEF f
  <2>6. length = SevenBits(f, 2)
    BY <1>9, <2>3, <2>5 DEF SevenBits
  <2>7. ReadableDigits(length, 2)
    BY <2>4, <2>5, <2>6 DEF ReadableDigits, y, f
  <2>. QED
    BY <1>4, <2>5, <2>7
<1>13. CASE a > 0 /\ b > 0 /\ c = 0
  <2>1. Min(ends) = 3
    <3>1. 3 \in ends /\ \A k \in ends : 3 <= k
      BY <1>7, <1>13
    <3>. QED
      BY <1>7, <3>1, Least
  <2>. DEFINE f == [i \in 1..3 |-> Digit(length, i)]
  <2>2. encode_remaining_length(length) = f
    BY <1>8, <2>1
  <2>3. f[1] = x /\ f[2] = y /\ f[3] = z
    BY DEF x, y, z
  <2>4. EncodedDigits(length, 3)
    BY <1>2, <1>5, <1>13, <2>2 DEF EncodedDigits, x, y
  <2>. DEFINE xl == x % 128
              yl == y % 128
              zl == z % 128
  <2>5. z < 128 /\ b = zl
    BY <1>5, <1>6, <1>9, <1>10, <1>13
  <2>6. SevenBits(f, 3) = xl + 128 * yl + 128 * (128 * zl)
    <3>. HIDE DEF f
    <3>. QED
      BY <2>3 DEF SevenBits
  <2>7. length = 128 * a + xl /\ a = 128 * b + yl /\ xl \in Nat /\ yl \in Nat /\ zl \in Nat
    BY <1>6, <1>9
  <2>. HIDE DEF f, xl, yl, zl
  <2>8. length = SevenBits(f, 3)
    BY <2>5, <2>6, <2>7
  <2>9. ReadableDigits(length, 3)
    BY <2>4, <2>5, <2>8 DEF ReadableDigits, z, f
  <2>. QED
    BY <1>4, <1>13, <2>9
<1>14. CASE a > 0 /\ b > 0 /\ c > 0
  <2>1. Min(ends) = 4
    <3>1. 4 \in ends /\ \A k \in ends : 4 <= k
      BY <1>7, <1>14
    <3>. QED
      BY <1>7, <3>1, Least
  <2>2. EncodedDigits(length, 4)
    BY <1>2, <1>5, <1>8, <1>14, <2>1 DEF EncodedDigits, x, y, z
  <2>. QED
    BY <1>4, <1>14, <2>2
<1>15. a = 0 \/ (a > 0 /\ b = 0) \/ (a > 0 /\ b > 0 /\ c = 0) \/ (a > 0 /\ b > 0 /\ c > 0)
  OBVIOUS
<1>. QED
  BY <1>11, <1>12, <1>13, <1>14, <1>15

\* A length below 2 MB, read at the beginning of a buffer and of a part of it.
LEMMA LengthRead ==
  ASSUME NEW length \in Nat, length \div 128^3 = 0
  PROVE  LET pkt == encode_remaining_length(length)
         IN  /\ pkt \in Seq(Byte) /\ Len(pkt) \in 1..3
             /\ \A full \in Seq(Byte) : Holds(full, 0, pkt) =>
                  decode_remaining_length(full) = [decoded |-> Len(pkt), value |-> length]
             /\ \A k \in 0..(Len(pkt) - 1) : decode_remaining_length(SubSeq(pkt, 1, k)) = Failed
<1>. DEFINE pkt == encode_remaining_length(length)
<1>1. \E n \in 1..3 : ReadableDigits(length, n)
  <2>1. ~ (length \div 128^3 > 0)
    BY SMT
  <2>. QED
    BY <2>1, LengthEncoded, Zenon
<1>2. PICK n \in 1..3 : ReadableDigits(length, n)
  BY <1>1
<1>. DEFINE f == [i \in 1..n |-> Digit(length, i)]
<1>3. /\ pkt = f /\ \A i \in 1..n : f[i] \in Byte
      /\ \A i \in 1..(n - 1) : f[i] >= 128
      /\ f[n] < 128 /\ length = SevenBits(f, n)
  <2>1. EncodedDigits(length, n) /\ Digit(length, n) < 128 /\ length = SevenBits(f, n)
    BY <1>2 DEF ReadableDigits
  <2>2. pkt = f /\ \A i \in 1..n : Digit(length, i) \in Byte
    BY <2>1 DEF EncodedDigits
  <2>3. \A i \in 1..(n - 1) : Digit(length, i) >= 128
    BY <2>1 DEF EncodedDigits
  <2>4. n \in 1..n /\ 1..(n - 1) \subseteq 1..n /\ \A i \in 1..n : f[i] = Digit(length, i)
    OBVIOUS
  <2>. HIDE DEF f, pkt
  <2>5. (\A i \in 1..n : f[i] \in Byte) /\ (\A i \in 1..(n - 1) : f[i] >= 128) /\ f[n] < 128
    BY <2>1, <2>2, <2>3, <2>4
  <2>. QED
    BY <2>1, <2>2, <2>5
<1>4. f \in Seq(Byte) /\ Len(f) = n /\ f \in [1..n -> Byte]
  <2>1. f \in [1..n -> Byte]
    BY <1>3
  <2>2. n \in Nat
    OBVIOUS
  <2>. HIDE DEF f
  <2>. QED
    BY <2>1, <2>2
<1>. HIDE DEF f, pkt
<1>5. ASSUME NEW full \in Seq(Byte), Holds(full, 0, f)
      PROVE  decode_remaining_length(full) = [decoded |-> n, value |-> length]
  <2>1. n <= Len(full) /\ \A i \in 1..n : full[i] = f[i]
    BY <1>4, <1>5 DEF Holds
  <2>2. full[n] < 128 /\ \A i \in 1..(n - 1) : full[i] >= 128
    BY <1>3, <2>1
  <2>3. decode_remaining_length(full) = [decoded |-> n, value |-> SevenBits(full, n)]
    BY <2>1, <2>2, LengthDecoded
  <2>4. SevenBits(full, n) = SevenBits(f, n)
    <3>1. full[1] = f[1]
      BY <2>1
    <3>2. n > 1 => full[2] = f[2]
      BY <2>1
    <3>3. n > 2 => full[3] = f[3]
      BY <2>1
    <3>4. (IF n > 1 THEN 128 * (full[2] % 128) ELSE 0) = IF n > 1 THEN 128 * (f[2] % 128) ELSE 0
      BY <3>2, Zenon
    <3>5. (IF n > 2 THEN 128 * (128 * (full[3] % 128)) ELSE 0)
            = IF n > 2 THEN 128 * (128 * (f[3] % 128)) ELSE 0
      BY <3>3, Zenon
    <3>. QED
      BY <3>1, <3>4, <3>5, ZenonT(60) DEF SevenBits
  <2>. QED
    BY <1>3, <2>3, <2>4
<1>6. ASSUME NEW k \in 0..(n - 1)
      PROVE  decode_remaining_length(SubSeq(f, 1, k)) = Failed
  <2>1. k \in 0..Len(f)
    BY <1>4
  <2>2. Len(SubSeq(f, 1, k)) = k /\ \A i \in 1..k : SubSeq(f, 1, k)[i] = f[i]
    BY <1>4, <2>1, Beginning
  <2>. DEFINE part == SubSeq(f, 1, k)
  <2>. HIDE DEF part
  <2>3. ASSUME NEW i \in 1..3, i <= Len(part)
        PROVE  ~ (part[i] < 128)
    <3>1. i \in 1..k /\ i \in 1..(n - 1) /\ i \in 1..n
      BY <2>2, <2>3 DEF part
    <3>2. part[i] = f[i] /\ f[i] >= 128 /\ f[i] \in Nat
      BY <1>3, <2>2, <3>1, ByteNumbers DEF part
    <3>. QED
      BY <3>2
  <2>4. decode_remaining_length(part) = Failed
    BY <2>3, LengthRefused
  <2>. QED
    BY <2>4 DEF part
<1>. QED
  BY <1>3, <1>4, <1>5, <1>6 DEF pkt

\* LengthUndone holds of every sample.
LEMMA LengthHolds == SampleType => LengthUndone
<1>. SUFFICES ASSUME SampleType, sample.kind = "length"
              PROVE  LengthUndone
  BY DEF LengthUndone
<1>. DEFINE length == sample.length
            pkt == encode_remaining_length(length)
<1>1. length \in Nat
  BY Kinds, LengthsAssumption
<1>. HIDE DEF length
<1>2. length >= 128^3 <=> length \div 128^3 > 0
  BY <1>1, SMT
<1>3. CASE length \div 128^3 > 0
  <2>1. EncodedDigits(length, 4)
    <3>1. ~ (length \div 128^3 = 0)
      BY <1>1, <1>3, SMT
    <3>. QED
      BY <1>1, <3>1, LengthEncoded, Zenon
  <2>2. /\ pkt = [i \in 1..4 |-> Digit(length, i)]
        /\ \A i \in 1..4 : Digit(length, i) \in Byte
    BY <2>1 DEF EncodedDigits
  <2>3. \A i \in 1..(4 - 1) : Digit(length, i) >= 128
    BY <2>1 DEF EncodedDigits
  <2>4. Len(pkt) = 4 /\ \A i \in 1..3 : pkt[i] \in Byte /\ pkt[i] >= 128
    BY <2>2, <2>3
  <2>. HIDE DEF pkt
  <2>5. \A i \in 1..3 : ~ (pkt[i] < 128)
    BY <2>4, ByteNumbers
  <2>6. decode_remaining_length(pkt) = Failed
    BY <2>5, LengthRefused
  <2>. QED
    BY <1>2, <1>3, <2>4, <2>6, Zenon DEF LengthUndone, pkt, length
<1>4. CASE length \div 128^3 = 0
  <2>1. /\ pkt \in Seq(Byte) /\ Len(pkt) \in 1..3
        /\ \A full \in Seq(Byte) : Holds(full, 0, pkt) =>
             decode_remaining_length(full) = [decoded |-> Len(pkt), value |-> length]
        /\ \A k \in 0..(Len(pkt) - 1) : decode_remaining_length(SubSeq(pkt, 1, k)) = Failed
    BY <1>1, <1>4, LengthRead, Zenon
  <2>2. ~ (length >= 128^3)
    BY <1>1, <1>4, SMT
  <2>. HIDE DEF pkt
  <2>3. ASSUME NEW rest \in Rests
        PROVE  decode_remaining_length(pkt \o rest) = [decoded |-> Len(pkt), value |-> length]
    <3>1. rest \in Seq(Byte)
      BY RestsAssumption
    <3>2. pkt \o rest \in Seq(Byte) /\ Holds(pkt \o rest, 0, pkt)
      BY <2>1, <3>1, HoldsBoth
    <3>. QED
      BY <2>1, <3>2
  <2>. QED
    BY <2>1, <2>2, <2>3, Zenon DEF LengthUndone, pkt, length
<1>. QED
  <2>1. length \div 128^3 = 0 \/ length \div 128^3 > 0
    BY <1>1, SMT
  <2>. QED
    BY <1>3, <1>4, <2>1, Zenon

\* The receiver undoes the remaining length of every packet below 2 MB and
\* refuses the longer ones, which the sender still encodes.
THEOREM LengthsUndone == SampleSpec => []LengthUndone
  BY SampleTypeCorrect, LengthHolds, PTL

-----------------------------------------------------------------------------
(* MQTT packets. *)

\* What lies in a buffer lies in what is left of it behind the first k elements.
LEMMA HoldsFrom ==
  ASSUME NEW S, NEW b \in Seq(S), NEW p \in Seq(S), NEW k \in Nat, NEW j \in Nat,
         Holds(b, k + j, p)
  PROVE  From(b, k) \in Seq(S) /\ Len(From(b, k)) = Len(b) - k /\ Holds(From(b, k), j, p)
<1>. DEFINE q == From(b, k)
<1>1. /\ Len(b) \in Nat /\ Len(p) \in Nat /\ \A i \in 1..Len(b) : b[i] \in S
      /\ k + j + Len(p) <= Len(b) /\ \A i \in 1..Len(p) : b[(k + j) + i] = p[i]
  BY LenProperties, ElementOfSeq DEF Holds
<1>2. \A i \in (k + 1)..Len(b) : b[i] \in S
  BY <1>1
<1>3. q = SubSeq(b, k + 1, Len(b))
  BY DEF From
<1>4. /\ q \in Seq(S)
      /\ Len(q) = IF k + 1 <= Len(b) THEN Len(b) - (k + 1) + 1 ELSE 0
      /\ \A i \in 1..(Len(b) - (k + 1) + 1) : q[i] = b[(k + 1) + i - 1]
  BY <1>1, <1>2, <1>3, SubSeqProperties
<1>. HIDE DEF q
<1>5. Len(q) = Len(b) - k
  BY <1>1, <1>4
<1>6. ASSUME NEW i \in 1..Len(p)
      PROVE  q[j + i] = p[i]
  <2>1. j + i \in 1..(Len(b) - (k + 1) + 1) /\ (k + 1) + (j + i) - 1 = (k + j) + i
    BY <1>1
  <2>2. q[j + i] = b[(k + 1) + (j + i) - 1]
    BY <1>4, <2>1
  <2>. QED
    BY <1>1, <2>1, <2>2
<1>7. j + Len(p) <= Len(q)
  BY <1>1, <1>5
<1>8. Holds(q, j, p)
  BY <1>6, <1>7 DEF Holds
<1>. QED
  BY <1>4, <1>5, <1>8 DEF q

\* A string behind its length.
LEMMA StringEncoded ==
  ASSUME NEW str \in Seq(Byte), Fits(Len(str), 2)
  PROVE  /\ encode_string(str) = BigEndian(Len(str), 2) \o str
         /\ encode_string(str) \in Seq(Byte) /\ Len(encode_string(str)) = 2 + Len(str)
         /\ BigEndian(Len(str), 2) \in Seq(Byte) /\ Len(BigEndian(Len(str), 2)) = 2
         /\ Value(BigEndian(Len(str), 2)) = Len(str)
         /\ Holds(encode_string(str), 0, BigEndian(Len(str), 2)) /\ Holds(encode_string(str), 2, str)
<1>. DEFINE len == Len(str)
            p == BigEndian(len, 2)
<1>1. len \in Nat /\ len \div 256 <= 255
  BY FitsBytes
<1>2. p \in Seq(Byte) /\ Len(p) = 2 /\ Value(p) = len
  BY <1>1, InTwoBytes
<1>3. Len(str) % 65536 = Len(str)
  <2>1. \A x \in Nat : x \div 256 <= 255 => x % 65536 = x
    BY SMT
  <2>. QED
    BY <1>1, <2>1, SMT
<1>4. SubSeq(str, 1, len) = str
  <2>1. len \in 0..Len(str)
    BY <1>1
  <2>2. /\ SubSeq(str, 1, len) \in Seq(Byte) /\ Len(SubSeq(str, 1, len)) = len
        /\ \A i \in 1..len : SubSeq(str, 1, len)[i] = str[i]
    BY <2>1, Beginning
  <2>. QED
    BY <2>2, SeqEqual
<1>5. encode_string(str) = p \o str
  <2>1. SubSeq(str, 1, Len(str) % 65536) = str
    BY <1>3, <1>4, SMT
  <2>. QED
    BY <2>1, SMT DEF encode_string
<1>. HIDE DEF p, len
<1>6. 2 \in Nat
  OBVIOUS
<1>7. /\ p \o str \in Seq(Byte) /\ Len(p \o str) = 2 + Len(str)
      /\ Holds(p \o str, 0, p) /\ Holds(p \o str, 2, str)
  BY <1>2, <1>6, Joined
<1>. QED
  BY <1>2, <1>5, <1>7 DEF p, len

\* The string found at the beginning of a buffer.
LEMMA StringRead ==
  ASSUME NEW str \in Seq(Byte), Fits(Len(str), 2),
         NEW b \in Seq(Byte), Holds(b, 0, encode_string(str)), NEW room \in Nat
  PROVE  decode_string(b, room) = IF room <= Len(str) THEN Failed ELSE str
<1>. DEFINE p == BigEndian(Len(str), 2)
            e == encode_string(str)
            len == Len(str)
<1>1. /\ e \in Seq(Byte) /\ Len(e) = 2 + len /\ p \in Seq(Byte) /\ Len(p) = 2 /\ Value(p) = len
      /\ Holds(e, 0, p) /\ Holds(e, 2, str)
  BY StringEncoded
<1>2. len \in Nat /\ Len(b) \in Nat /\ Len(b) >= 2 + len /\ 0 \in Nat /\ 2 \in Nat
  BY <1>1, LenProperties DEF Holds
<1>3. Holds(b, 0, e)
  OBVIOUS
<1>. HIDE DEF p, e
<1>4. SubSeq(b, 1, 2) = p
  <2>1. Holds(b, 0 + 0, p)
    BY <1>1, <1>2, <1>3, HoldsPart
  <2>2. Holds(b, 0, p)
    BY <2>1
  <2>3. SubSeq(b, 0 + 1, 0 + 2) = p
    BY <1>1, <1>2, <2>2, HoldsSubSeq
  <2>. QED
    BY <2>3
<1>5. SubSeq(b, 3, len + 2) = str
  <2>1. Holds(b, 0 + 2, str)
    BY <1>1, <1>2, <1>3, HoldsPart
  <2>2. Holds(b, 2, str)
    BY <2>1
  <2>3. SubSeq(b, 2 + 1, 2 + len) = str
    BY <1>2, <2>2, HoldsSubSeq
  <2>4. 2 + 1 = 3 /\ 2 + len = len + 2
    BY <1>2
  <2>. QED
    BY <2>3, <2>4
<1>. HIDE DEF len
<1>6. Value(SubSeq(b, 1, 2)) = len
  BY <1>1, <1>4
<1>7. ~ (Len(b) < 2) /\ ~ (Len(b) < len + 2)
  BY <1>2
<1>. QED
  BY <1>5, <1>6, <1>7, Zenon DEF decode_string, len

\* The packet put together.
LEMMA PacketParts ==
  ASSUME NEW first \in Byte, NEW body \in Seq(Byte), Len(body) \div 128^3 = 0
  PROVE  LET e   == encode_remaining_length(Len(body))
             pkt == Packet(first, Len(body), body)
         IN  /\ e \in Seq(Byte) /\ Len(e) \in 1..3
             /\ pkt \in Seq(Byte) /\ Len(pkt) = 1 + Len(e) + Len(body)
             /\ Holds(pkt, 0, <<first>>) /\ Holds(pkt, 1, e) /\ Holds(pkt, 1 + Len(e), body)
<1>. DEFINE len == Len(body)
            e   == encode_remaining_length(len)
            p   == <<first>>
            pe  == p \o e
<1>1. len \in Nat /\ len \div 128^3 = 0
  BY LenProperties
<1>. HIDE DEF len
<1>2. e \in Seq(Byte) /\ Len(e) \in 1..3
  BY <1>1, LengthRead, Zenon
<1>3. p \in Seq(Byte) /\ Len(p) = 1 /\ 1 \in Nat /\ 0 \in Nat
  OBVIOUS
<1>. HIDE DEF p, e
<1>4. /\ pe \in Seq(Byte) /\ Len(pe) = 1 + Len(e) /\ Holds(pe, 0, p) /\ Holds(pe, 1, e)
  <2>1. Sized(p, 1) /\ e \in Seq(Byte)
    BY <1>2, <1>3 DEF Sized
  <2>2. /\ p \o e \in Seq(Byte) /\ Len(p \o e) = 1 + Len(e)
        /\ Holds(p \o e, 0, p) /\ Holds(p \o e, 1, e)
    BY <2>1, JoinedParts
  <2>. QED
    BY <2>2
<1>5. 1 + Len(e) \in Nat
  BY <1>2
<1>. DEFINE front == 1 + Len(e)
<1>. HIDE DEF pe, front
<1>6. front \in Nat /\ Len(pe) = front
  BY <1>4, <1>5 DEF front
<1>7. /\ pe \o body \in Seq(Byte) /\ Len(pe \o body) = front + Len(body)
      /\ Holds(pe \o body, front, body)
      /\ \A k \in Nat, q \in Seq(Byte) : Holds(pe, k, q) => Holds(pe \o body, k, q)
  BY <1>4, <1>6, Joined
<1>8. Holds(pe \o body, 0, p) /\ Holds(pe \o body, 1, e)
  BY <1>2, <1>3, <1>4, <1>7
<1>9. Packet(first, Len(body), body) = pe \o body
  BY DEF Packet, pe, p, e, len
<1>. QED
  BY <1>2, <1>7, <1>8, <1>9, Zenon DEF p, e, len, front

\* A fixed header as it is decoded.
HeaderRecord(first, length, at) ==
  [type |-> first \div 16, dup |-> (first \div 8) % 2 = 1, qos |-> (first \div 2) % 4,
   retain |-> first % 2 = 1, remaining_length |-> length, pos |-> at]

\* A fixed header is not the error code.
LEMMA HeaderDiffers ==
  ASSUME NEW first \in Byte, NEW length \in Nat, NEW at \in Nat
  PROVE  HeaderRecord(first, length, at) # Failed
<1>1. \A x \in Byte : x \div 16 \in 0..15 /\ (x \div 2) % 4 \in 0..3
  BY SMT DEF Byte
<1>2. first \div 16 \in 0..15 /\ (first \div 2) % 4 \in 0..3
  BY <1>1
<1>3. ((first \div 8) % 2 = 1) \in BOOLEAN /\ (first % 2 = 1) \in BOOLEAN
  BY Zenon
<1>. DEFINE t == first \div 16
            q == (first \div 2) % 4
            d == (first \div 8) % 2 = 1
            r == first % 2 = 1
<1>. HIDE DEF t, q, d, r
<1>4. t \in 0..15 /\ q \in 0..3 /\ d \in BOOLEAN /\ r \in BOOLEAN
  BY <1>2, <1>3, Zenon DEF t, q, d, r
<1>5. [type |-> t, dup |-> d, qos |-> q, retain |-> r, remaining_length |-> length, pos |-> at] \in Header
  BY <1>4 DEF Header
<1>6. HeaderRecord(first, length, at) \in Header
  BY <1>5 DEF HeaderRecord, t, q, d, r
<1>. QED
  BY <1>6, ConstantsDiffer, Zenon

\* A packet at the beginning of a buffer.
LEMMA HeaderRead ==
  ASSUME NEW first \in Byte, NEW body \in Seq(Byte), Len(body) \div 128^3 = 0,
         NEW full \in Seq(Byte), Holds(full, 0, Packet(first, Len(body), body))
  PROVE  LET at == 1 + Len(encode_remaining_length(Len(body)))
         IN  /\ at \in 2..4 /\ Len(full) >= at + Len(body)
             /\ Len(Packet(first, Len(body), body)) = at + Len(body)
             /\ mqtt_decode_fixed_header(full) = HeaderRecord(first, Len(body), at)
             /\ mqtt_decode_fixed_header(full) # Failed
             /\ From(full, at) \in Seq(Byte) /\ Len(From(full, at)) = Len(full) - at
             /\ Holds(From(full, at), 0, body)
<1>. DEFINE len == Len(body)
            e   == encode_remaining_length(len)
            p   == <<first>>
            pkt == Packet(first, len, body)
            at  == 1 + Len(e)
            t   == Tail(full)
<1>1. /\ e \in Seq(Byte) /\ Len(e) \in 1..3
      /\ pkt \in Seq(Byte) /\ Len(pkt) = 1 + Len(e) + len
      /\ Holds(pkt, 0, p) /\ Holds(pkt, 1, e) /\ Holds(pkt, at, body)
  BY PacketParts, Zenon
<1>2. len \in Nat /\ len \div 128^3 = 0 /\ Holds(full, 0, pkt) /\ Len(full) \in Nat
  BY LenProperties
<1>3. p \in Seq(Byte) /\ Len(p) = 1 /\ p[1] = first
  OBVIOUS
<1>. HIDE DEF len
<1>4. \A rest \in Seq(Byte) : Holds(rest, 0, e) =>
        decode_remaining_length(rest) = [decoded |-> Len(e), value |-> len]
  BY <1>2, LengthRead, Zenon
<1>. HIDE DEF p, e, pkt
<1>5. at \in Nat /\ at \in 2..4 /\ Len(pkt) = at + len /\ Len(full) >= at + len /\ 0 \in Nat /\ 1 \in Nat
  <2>1. len \in Nat /\ Len(full) \in Nat /\ Len(e) \in 1..3 /\ Len(pkt) = 1 + Len(e) + len
    BY <1>1, <1>2, Zenon
  <2>2. 0 + Len(pkt) <= Len(full)
    BY <1>2, Zenon DEF Holds
  <2>. DEFINE n == Len(e)
              m == Len(pkt)
              k == Len(full)
  <2>3. n \in 1..3 /\ m = 1 + n + len /\ 0 + m <= k /\ k \in Nat /\ len \in Nat
    BY <2>1, <2>2, Zenon
  <2>. HIDE DEF n, m, k
  <2>4. 1 + n \in Nat /\ 1 + n \in 2..4 /\ m = 1 + n + len /\ k >= 1 + n + len /\ 0 \in Nat /\ 1 \in Nat
    BY <2>3
  <2>. QED
    BY <2>4, Zenon DEF n, m, k
<1>. HIDE DEF at
<1>6. Holds(full, 0 + 0, p) /\ Holds(full, 0 + 1, e) /\ Holds(full, 0 + at, body)
  BY <1>1, <1>2, <1>3, <1>5, HoldsPart
<1>7. Holds(full, 0, p) /\ Holds(full, 1 + 0, e) /\ Holds(full, at + 0, body)
  BY <1>5, <1>6
<1>8. full[1] = first
  <2>1. full[0 + 1] = p[1]
    BY <1>3, <1>7 DEF Holds
  <2>. QED
    BY <1>3, <2>1
<1>9. t \in Seq(Byte) /\ Holds(t, 0, e)
  <2>1. From(full, 1) \in Seq(Byte) /\ Holds(From(full, 1), 0, e)
    BY <1>1, <1>5, <1>7, HoldsFrom
  <2>2. full # <<>>
    BY <1>2, <1>5
  <2>3. Tail(full) = SubSeq(full, 2, Len(full)) /\ 1 + 1 = 2
    BY <2>2, TailIsSubSeq
  <2>. QED
    BY <2>1, <2>3 DEF From
<1>10. /\ From(full, at) \in Seq(Byte) /\ Len(From(full, at)) = Len(full) - at
       /\ Holds(From(full, at), 0, body)
  BY <1>5, <1>7, HoldsFrom
<1>. DEFINE d == decode_remaining_length(t)
<1>11. d = [decoded |-> Len(e), value |-> len]
  BY <1>4, <1>9
<1>12. d # Failed
  <2>1. Len(e) \in Nat
    BY <1>1
  <2>2. [decoded |-> Len(e), value |-> len] \in [decoded : Nat, value : Nat]
    BY <1>2, <2>1
  <2>. QED
    BY <1>11, <2>2, ConstantsDiffer, Zenon
<1>13. d.decoded + 1 = at /\ d.value = len
  <2>1. d.decoded = Len(e) /\ d.value = len
    BY <1>11
  <2>. HIDE DEF d
  <2>. QED
    BY <1>1, <2>1 DEF at
<1>14. mqtt_decode_fixed_header(full) = HeaderRecord(first, len, at)
  <2>1. ~ (Len(full) < 2)
    BY <1>2, <1>5
  <2>. HIDE DEF d
  <2>2. ~ (Len(full) < 2 \/ d = Failed)
    BY <1>12, <2>1
  <2>. QED
    BY <1>8, <1>13, <2>2, Zenon DEF mqtt_decode_fixed_header, HeaderRecord, d, t
<1>15. HeaderRecord(first, len, at) # Failed
  BY <1>2, <1>5, HeaderDiffers
<1>. QED
  BY <1>5, <1>10, <1>14, <1>15, Zenon DEF at, len, e, pkt

\* Bit tells what it was made of.
LEMMA BitTells ==
  ASSUME NEW b \in BOOLEAN
  PROVE  (Bit(b) = 1) = b
<1>1. CASE b
  <2>1. Bit(b) = 1
    BY <1>1 DEF Bit
  <2>. QED
    BY <1>1, <2>1, Zenon
<1>2. CASE ~ b
  <2>1. Bit(b) # 1
    BY <1>2 DEF Bit
  <2>. QED
    BY <1>2, <2>1, Zenon
<1>. QED
  BY <1>1, <1>2

\* The first byte of a PUBLISH packet.
PublishFirst(message) ==
  16 * MQTT_PUBLISH + 8 * Bit(message.dup) + 2 * message.qos + Bit(message.retain)

\* The first byte of a PUBLISH packet tells its flags.
LEMMA PublishFlags ==
  ASSUME NEW message, message.qos \in 0..2, message.dup \in BOOLEAN, message.retain \in BOOLEAN
  PROVE  LET first == PublishFirst(message)
         IN  /\ first \in Byte /\ first \div 16 = MQTT_PUBLISH
             /\ ((first \div 8) % 2 = 1) = message.dup
             /\ (first \div 2) % 4 = message.qos
             /\ (first % 2 = 1) = message.retain
<1>. DEFINE d == Bit(message.dup)
            r == Bit(message.retain)
            q == message.qos
<1>1. \A x, z \in 0..1, y \in 0..2 :
        LET first == 48 + 8 * x + 2 * y + z
        IN  /\ first \in Byte /\ first \div 16 = 3 /\ (first \div 8) % 2 = x
            /\ (first \div 2) % 4 = y /\ first % 2 = z
  BY SMT DEF Byte
<1>2. d \in 0..1 /\ r \in 0..1 /\ q \in 0..2
  BY DEF Bit
<1>3. PublishFirst(message) = 48 + 8 * d + 2 * q + r /\ MQTT_PUBLISH = 3
  <2>1. 16 * MQTT_PUBLISH = 48 /\ MQTT_PUBLISH = 3
    BY DEF MQTT_PUBLISH
  <2>. HIDE DEF d, q, r
  <2>2. PublishFirst(message) = 16 * MQTT_PUBLISH + 8 * d + 2 * q + r
    BY DEF PublishFirst, d, q, r
  <2>. QED
    BY <2>1, <2>2
<1>4. (d = 1) = message.dup
  BY BitTells
<1>5. (r = 1) = message.retain
  BY BitTells
<1>. DEFINE first == PublishFirst(message)
<1>. HIDE DEF d, q, r, first
<1>6. /\ first \in Byte /\ first \div 16 = 3 /\ (first \div 8) % 2 = d
      /\ (first \div 2) % 4 = q /\ first % 2 = r
  BY <1>1, <1>2, <1>3 DEF first
<1>. QED
  BY <1>3, <1>4, <1>5, <1>6, Zenon DEF first, q

\* A string has no zero, so that strdup copies all of it.
LEMMA StrdupCopies ==
  ASSUME NEW str \in Seq(Char)
  PROVE  strdup(str) = str
<1>. DEFINE len == Len(str)
            ends == {i \in 1..(len + 1) : i > len \/ str[i] = 0}
<1>1. len \in Nat /\ \A i \in 1..len : str[i] \in Char
  BY LenProperties, ElementOfSeq
<1>2. ends \subseteq Nat /\ len + 1 \in ends
  BY <1>1
<1>3. ASSUME NEW i \in ends
      PROVE  len + 1 <= i
  <2>1. i \in 1..(len + 1) /\ (i > len \/ str[i] = 0)
    OBVIOUS
  <2>2. i \notin 1..len
    <3>1. ASSUME i \in 1..len
          PROVE  FALSE
      <4>1. str[i] \in Char /\ str[i] = 0
        BY <1>1, <2>1, <3>1
      <4>. QED
        BY <4>1 DEF Char
    <3>. QED
      BY <3>1
  <2>. QED
    BY <1>1, <2>1, <2>2
<1>4. Min(ends) = len + 1
  BY <1>2, <1>3, Least
<1>5. Min(ends) - 1 = len
  BY <1>1, <1>4
<1>6. SubSeq(str, 1, len) = str
  <2>1. len \in 0..Len(str)
    BY <1>1
  <2>2. /\ SubSeq(str, 1, len) \in Seq(Char) /\ Len(SubSeq(str, 1, len)) = len
        /\ \A i \in 1..len : SubSeq(str, 1, len)[i] = str[i]
    BY <2>1, Beginning
  <2>. QED
    BY <2>2, SeqEqual
<1>7. strdup(str) = SubSeq(str, 1, Min(ends) - 1)
  BY DEF strdup
<1>. QED
  BY <1>5, <1>6, <1>7, Zenon

\* What a PUBLISH packet carries behind its header.
PublishBody(message, packet_id) ==
  encode_string(message.topic)
    \o (IF message.qos > 0 THEN BigEndian(packet_id, 2) ELSE <<>>)
    \o message.payload

\* What lies where behind the header of a PUBLISH packet.
LEMMA PublishParts ==
  ASSUME NEW message, message.qos \in 0..2, message.topic \in Seq(Byte), Fits(Len(message.topic), 2),
         message.payload \in Seq(Byte), NEW packet_id, Fits(packet_id, 2)
  PROVE  LET body  == PublishBody(message, packet_id)
             taken == 2 + Len(message.topic) + 2 * Bit(message.qos > 0)
         IN  /\ body \in Seq(Byte) /\ taken \in Nat
             /\ Len(body) = 2 + Len(message.topic) + 2 * Bit(message.qos > 0) + Len(message.payload)
             /\ Len(body) <= 4 + Len(message.topic) + Len(message.payload)
             /\ Holds(body, 0, encode_string(message.topic)) /\ Holds(body, taken, message.payload)
<1>. DEFINE topic   == message.topic
            payload == message.payload
            str     == encode_string(topic)
            id      == IF message.qos > 0 THEN BigEndian(packet_id, 2) ELSE <<>>
            two     == 2 * Bit(message.qos > 0)
            both    == str \o id
            taken   == 2 + Len(topic) + two
<1>1. str \in Seq(Byte) /\ Len(str) = 2 + Len(topic) /\ Len(topic) \in Nat /\ Len(payload) \in Nat
  BY StringEncoded, LenProperties
<1>2. id \in Seq(Byte) /\ Len(id) = two /\ two \in 0..2
  <2>1. CASE message.qos > 0
    <3>1. packet_id \in Nat /\ packet_id \div 256 <= 255
      BY FitsBytes
    <3>2. BigEndian(packet_id, 2) \in Seq(Byte) /\ Len(BigEndian(packet_id, 2)) = 2
      BY <3>1, InTwoBytes
    <3>3. id = BigEndian(packet_id, 2) /\ two = 2
      BY <2>1 DEF Bit
    <3>. HIDE DEF id, two
    <3>. QED
      BY <3>2, <3>3
  <2>2. CASE ~ (message.qos > 0)
    <3>1. id = <<>> /\ two = 0
      BY <2>2 DEF Bit
    <3>2. <<>> \in Seq(Byte) /\ Len(<<>>) = 0
      OBVIOUS
    <3>. HIDE DEF id, two
    <3>. QED
      BY <3>1, <3>2
  <2>. QED
    BY <2>1, <2>2
<1>. DEFINE m == 2 + Len(topic)
<1>3. m \in Nat /\ Len(str) = m /\ 0 \in Nat
  BY <1>1
<1>4. payload \in Seq(Byte)
  OBVIOUS
<1>. HIDE DEF topic, payload, str, id, two, m
<1>5. /\ both \in Seq(Byte) /\ Len(both) = m + Len(id) /\ Holds(both, 0, str)
  BY <1>1, <1>2, <1>3, Joined
<1>6. taken \in Nat /\ Len(both) = taken
  BY <1>1, <1>2, <1>5 DEF m
<1>7. taken + Len(payload) <= 4 + Len(topic) + Len(payload)
  <2>. DEFINE tl == Len(topic)
              pl == Len(payload)
  <2>1. tl \in Nat /\ pl \in Nat
    BY <1>1
  <2>. HIDE DEF tl, pl
  <2>2. 2 + tl + two + pl <= 4 + tl + pl
    BY <1>2, <2>1
  <2>. QED
    BY <2>2 DEF tl, pl
<1>. HIDE DEF both, taken
<1>8. /\ both \o payload \in Seq(Byte) /\ Len(both \o payload) = taken + Len(payload)
      /\ Holds(both \o payload, taken, payload)
      /\ \A k \in Nat, q \in Seq(Byte) : Holds(both, k, q) => Holds(both \o payload, k, q)
  BY <1>4, <1>5, <1>6, Joined
<1>9. Holds(both \o payload, 0, str)
  BY <1>1, <1>3, <1>5, <1>8
<1>10. PublishBody(message, packet_id) = both \o payload
  BY DEF PublishBody, both, str, id, topic, payload
<1>. QED
  BY <1>6, <1>7, <1>8, <1>9, <1>10, Zenon DEF taken, two, topic, payload, str

\* What a packet of lengths below 2 MB carries is as short.
LEMMA ShortSum ==
  ASSUME NEW x \in Nat, NEW y \in Nat, 4 + x + y < 128^3
  PROVE  (4 + x + y) \div 128^3 = 0
BY SMT

\* A part of it is, too.
LEMMA ShortBody ==
  ASSUME NEW x \in Nat, NEW y \in Nat, NEW z \in Nat,
         z <= 4 + x + y, (4 + x + y) \div 128^3 = 0
  PROVE  z \div 128^3 = 0
BY SMT

\* The message a PUBLISH packet is decoded to.
PublishRecord(message) ==
  [topic |-> message.topic, qos |-> message.qos, dup |-> message.dup,
   retain |-> message.retain, payload |-> message.payload]

\* A PUBLISH packet at the beginning of a buffer is decoded.
LEMMA PublishDecoded ==
  ASSUME NEW message, message.qos \in 0..2, message.dup \in BOOLEAN, message.retain \in BOOLEAN,
         message.topic \in Text, message.payload \in Seq(Byte),
         (4 + Len(message.topic) + Len(message.payload)) \div 128^3 = 0,
         NEW packet_id, Fits(packet_id, 2),
         NEW full \in Seq(Byte), Holds(full, 0, mqtt_encode_publish(message, packet_id))
  PROVE  mqtt_decode_publish(full) = IF Len(message.topic) > 255 THEN Failed ELSE PublishRecord(message)
<1>. DEFINE topic   == message.topic
            payload == message.payload
            first   == PublishFirst(message)
            body    == PublishBody(message, packet_id)
            two     == 2 * Bit(message.qos > 0)
            taken   == 2 + Len(topic) + two
            pkt     == Packet(first, Len(body), body)
            at      == 1 + Len(encode_remaining_length(Len(body)))
            header  == mqtt_decode_fixed_header(full)
            left    == From(full, at)
<1>1. topic \in Seq(Char) /\ topic \in Seq(Byte) /\ Fits(Len(topic), 2) /\ strdup(topic) = topic
  <2>1. topic \in Seq(Char) /\ Fits(Len(topic), 2)
    BY DEF Text
  <2>2. Seq(Char) \subseteq Seq(Byte)
    BY DEF Char
  <2>. QED
    BY <2>1, <2>2, StrdupCopies
<1>2. /\ body \in Seq(Byte) /\ taken \in Nat /\ Len(body) = taken + Len(payload)
      /\ Len(body) <= 4 + Len(topic) + Len(payload)
      /\ Holds(body, 0, encode_string(topic)) /\ Holds(body, taken, payload)
  BY <1>1, PublishParts
<1>3. Len(topic) \in Nat /\ Len(payload) \in Nat /\ payload \in Seq(Byte) /\ Len(body) \in Nat
  BY <1>1, <1>2, LenProperties
<1>4. Len(body) \div 128^3 = 0
  <2>1. (4 + Len(topic) + Len(payload)) \div 128^3 = 0
    OBVIOUS
  <2>2. Len(topic) \in Nat /\ Len(payload) \in Nat /\ Len(body) \in Nat
    BY <1>3
  <2>3. Len(body) <= 4 + Len(topic) + Len(payload)
    BY <1>2
  <2>. HIDE DEF topic, payload, body
  <2>. QED
    BY <2>1, <2>2, <2>3, ShortBody, Zenon
<1>5. /\ first \in Byte /\ first \div 16 = MQTT_PUBLISH
      /\ ((first \div 8) % 2 = 1) = message.dup
      /\ (first \div 2) % 4 = message.qos
      /\ (first % 2 = 1) = message.retain
  BY PublishFlags
<1>6. mqtt_encode_publish(message, packet_id) = pkt
  BY <1>2, Zenon DEF mqtt_encode_publish, PublishFirst, PublishBody
<1>7. /\ at \in 2..4 /\ Len(full) >= at + Len(body)
      /\ header = HeaderRecord(first, Len(body), at) /\ header # Failed
      /\ left \in Seq(Byte) /\ Len(left) = Len(full) - at
      /\ Holds(left, 0, body)
  <2>1. Holds(full, 0, Packet(first, Len(body), body))
    BY <1>6, Zenon
  <2>. HIDE DEF first, body
  <2>. QED
    BY <1>2, <1>4, <1>5, <2>1, HeaderRead
<1>8. /\ header.type = MQTT_PUBLISH /\ header.dup = message.dup /\ header.qos = message.qos
      /\ header.retain = message.retain /\ header.remaining_length = Len(body) /\ header.pos = at
  <2>. HIDE DEF first, body, at, header
  <2>1. /\ header.type = first \div 16 /\ header.dup = ((first \div 8) % 2 = 1)
        /\ header.qos = (first \div 2) % 4 /\ header.retain = (first % 2 = 1)
        /\ header.remaining_length = Len(body) /\ header.pos = at
    BY <1>7 DEF HeaderRecord
  <2>. QED
    BY <1>5, <2>1, Zenon
<1>. HIDE DEF first, body, at, header, left, two, taken, pkt
<1>9. decode_string(left, 256) = IF 256 <= Len(topic) THEN Failed ELSE topic
  <2>. DEFINE e == encode_string(topic)
  <2>1. e \in Seq(Byte)
    BY <1>1, StringEncoded
  <2>2. Holds(left, 0 + 0, e)
    BY <1>2, <1>7, <2>1, HoldsPart
  <2>3. Holds(left, 0, e) /\ 256 \in Nat
    BY <2>2
  <2>. QED
    BY <1>1, <1>7, <2>3, StringRead
<1>10. SubSeq(left, taken + 1, Len(body)) = payload
  <2>1. Holds(left, 0 + taken, payload)
    BY <1>2, <1>3, <1>7, HoldsPart
  <2>2. Holds(left, taken, payload)
    BY <1>2, <2>1
  <2>3. SubSeq(left, taken + 1, taken + Len(payload)) = payload
    BY <1>2, <1>7, <2>2, HoldsSubSeq
  <2>. QED
    BY <1>2, <2>3
<1>11. ~ (Len(full) < 4) /\ ~ (taken > Len(left)) /\ taken <= Len(body)
  <2>. DEFINE n  == Len(full)
              b  == Len(body)
              l  == Len(left)
              pl == Len(payload)
              tl == Len(topic)
  <2>1. /\ at \in 2..4 /\ n >= at + b /\ l = n - at /\ b = taken + pl /\ pl \in Nat /\ taken \in Nat
        /\ n \in Nat /\ b \in Nat /\ tl \in Nat
    BY <1>2, <1>3, <1>7, LenProperties
  <2>2. taken = 2 + tl + two /\ two \in Nat
    BY <1>3 DEF taken, two, Bit
  <2>. HIDE DEF n, b, l, pl, tl
  <2>3. ~ (n < 4) /\ ~ (taken > l) /\ taken <= b
    BY <2>1, <2>2
  <2>. QED
    BY <2>3 DEF n, b, l
<1>12. CASE Len(topic) > 255
  <2>1. decode_string(left, 256) = Failed
    <3>1. 256 <= Len(topic)
      BY <1>3, <1>12
    <3>. QED
      BY <1>9, <3>1
  <2>2. decode_string(From(full, header.pos), 256) = Failed
    BY <1>8, <2>1 DEF left
  <2>3. mqtt_decode_publish(full) = Failed
    BY <2>2, Zenon DEF mqtt_decode_publish, header
  <2>. QED
    BY <1>12, <2>3
<1>13. CASE ~ (Len(topic) > 255)
  <2>1. decode_string(left, 256) = topic
    <3>1. ~ (256 <= Len(topic))
      BY <1>3, <1>13
    <3>. QED
      BY <1>9, <3>1
  <2>2. decode_string(From(full, header.pos), 256) = topic /\ left = From(full, header.pos)
    BY <1>8, <2>1 DEF left
  <2>3. topic # Failed
    BY <1>1, ConstantsDiffer
  <2>4. 2 + Len(topic) + 2 * Bit(header.qos > 0) = taken
    BY <1>8 DEF taken, two
  <2>5. ~ (Len(full) < 4 \/ header = Failed) /\ ~ (header.type # MQTT_PUBLISH \/ topic = Failed)
    BY <1>7, <1>8, <1>11, <2>3
  <2>. HIDE DEF topic
  <2>6. mqtt_decode_publish(full) =
          [topic |-> strdup(topic), qos |-> header.qos, dup |-> header.dup,
           retain |-> header.retain,
           payload |-> SubSeq(left, taken + 1, header.remaining_length)]
    BY <1>11, <2>2, <2>4, <2>5, Zenon DEF mqtt_decode_publish, header
  <2>7. mqtt_decode_publish(full) = PublishRecord(message)
    BY <1>1, <1>8, <1>10, <2>6 DEF PublishRecord, topic
  <2>. QED
    BY <1>13, <2>7 DEF topic
<1>. QED
  BY <1>12, <1>13

\* PublishUndone holds of every sample.
LEMMA PublishHolds == SampleType => PublishUndone
<1>. SUFFICES ASSUME SampleType, sample.kind = "publish"
              PROVE  PublishUndone
  BY DEF PublishUndone
<1>. DEFINE pkt == mqtt_encode_publish(sample, sample.packet_id)
<1>1. /\ sample.qos \in 0..2 /\ sample.dup \in BOOLEAN /\ sample.retain \in BOOLEAN
      /\ sample.topic \in Text /\ sample.payload \in Seq(Byte) /\ Fits(sample.packet_id, 2)
  BY Kinds, PublishesAssumption
<1>2. 4 + Len(sample.topic) + Len(sample.payload) < 128^3
  BY Kinds, PublishesAssumption, Zenon
<1>3. Len(sample.topic) \in Nat /\ Len(sample.payload) \in Nat /\ sample.topic \in Seq(Byte)
  <2>1. sample.topic \in Seq(Char) /\ Seq(Char) \subseteq Seq(Byte)
    BY <1>1 DEF Text, Char
  <2>. QED
    BY <1>1, <2>1, LenProperties
<1>4. (4 + Len(sample.topic) + Len(sample.payload)) \div 128^3 = 0
  BY <1>2, <1>3, ShortSum, Zenon
<1>5. pkt \in Seq(Byte)
  <2>. DEFINE body  == PublishBody(sample, sample.packet_id)
              first == PublishFirst(sample)
              two   == 2 * Bit(sample.qos > 0)
              ps    == Len(sample.payload)
              ts    == Len(sample.topic)
  <2>1. Fits(Len(sample.topic), 2)
    BY <1>1 DEF Text
  <2>2. /\ body \in Seq(Byte) /\ Len(body) <= 4 + Len(sample.topic) + Len(sample.payload)
        /\ Len(body) = 2 + Len(sample.topic) + two + Len(sample.payload)
    BY <1>1, <1>3, <2>1, PublishParts
  <2>3. Len(body) \div 128^3 = 0
    <3>1. Len(body) \in Nat
      BY <2>2, LenProperties
    <3>2. Len(body) <= 4 + Len(sample.topic) + Len(sample.payload)
      BY <2>2
    <3>. HIDE DEF body
    <3>. QED
      BY <1>3, <1>4, <3>1, <3>2, ShortBody, Zenon
  <2>4. first \in Byte
    BY <1>1, PublishFlags
  <2>5. Packet(first, Len(body), body) \in Seq(Byte)
    BY <2>2, <2>3, <2>4, PacketParts
  <2>6. pkt = Packet(first, Len(body), body)
    BY <2>2, Zenon DEF mqtt_encode_publish, PublishFirst, PublishBody
  <2>. QED
    BY <2>5, <2>6
<1>6. ASSUME NEW rest \in Rests
      PROVE  mqtt_decode_publish(pkt \o rest) =
               IF Len(sample.topic) > 255 THEN Failed ELSE PublishRecord(sample)
  <2>1. rest \in Seq(Byte)
    BY RestsAssumption
  <2>. DEFINE all == pkt \o rest
  <2>2. all \in Seq(Byte) /\ Holds(all, 0, pkt)
    <3>. HIDE DEF pkt
    <3>. QED
      BY <1>5, <2>1, HoldsBoth
  <2>. HIDE DEF all
  <2>3. mqtt_decode_publish(all) =
          IF Len(sample.topic) > 255 THEN Failed ELSE PublishRecord(sample)
    BY <1>1, <1>4, <2>2, PublishDecoded
  <2>. QED
    BY <2>3 DEF all
<1>. QED
  BY <1>6, Zenon DEF PublishUndone, PublishRecord

\* Every PUBLISH packet, whatever follows it, is decoded to the message encoded,
\* or refused when its topic has more than 255 bytes.
THEOREM PublishesUndone == SampleSpec => []PublishUndone
  BY SampleTypeCorrect, PublishHolds, PTL

-----------------------------------------------------------------------------
(* The packets a broker reads: strings one after the other. *)

\* The strings of strs lie in b, the first at byte at, and each, with extra
\* bytes, up to the next one; the last ends where b ends.
Stops(pos, b, at, strs, extra) ==
  /\ pos \in [0..Len(strs) -> Nat] /\ pos[0] = at /\ pos[Len(strs)] = Len(b)
  /\ \A i \in 1..Len(strs) :
       /\ pos[i] = pos[i-1] + 2 + Len(strs[i]) + extra
       /\ Holds(b, pos[i-1], encode_string(strs[i]))

\* b can be read as the strings of strs.
Reads(b, at, strs, extra) == \E pos : Stops(pos, b, at, strs, extra)

\* The strings that encode_string writes.
Strs == {str \in Seq(Byte) : Fits(Len(str), 2)}

\* Where b ends, no string is read.
LEMMA ReadsNothing ==
  ASSUME NEW b \in Seq(Byte), NEW at, Len(b) = at, NEW extra
  PROVE  Reads(b, at, <<>>, extra)
<1>. DEFINE pos == [i \in 0..0 |-> at]
<1>1. at \in Nat
  BY LenProperties
<1>2. Stops(pos, b, at, <<>>, extra)
  BY <1>1 DEF Stops
<1>. QED
  BY <1>2 DEF Reads

\* A string and the bytes to skip are read as that string.
LEMMA ReadsOne ==
  ASSUME NEW str \in Strs, NEW b \in Seq(Byte), NEW extra \in Nat,
         Len(b) = 2 + Len(str) + extra, Holds(b, 0, encode_string(str))
  PROVE  Reads(b, 0, <<str>>, extra)
<1>. DEFINE pos == [i \in 0..1 |-> IF i = 0 THEN 0 ELSE Len(b)]
            strs == <<str>>
<1>1. Len(b) \in Nat /\ Len(strs) = 1 /\ strs[1] = str
  BY LenProperties
<1>2. pos \in [0..1 -> Nat] /\ pos[0] = 0 /\ pos[1] = Len(b)
  BY <1>1
<1>. HIDE DEF pos, strs
<1>3. Len(b) = 0 + 2 + Len(str) + extra
  BY DEF Strs
<1>4. Stops(pos, b, 0, strs, extra)
  BY <1>1, <1>2, <1>3 DEF Stops
<1>. QED
  BY <1>4 DEF Reads, strs

\* Strings behind strings are read one after the other.
LEMMA ReadsBoth ==
  ASSUME NEW b \in Seq(Byte), NEW c \in Seq(Byte), NEW at, NEW extra \in Nat,
         NEW strs \in Seq(Strs), NEW more \in Seq(Strs),
         Reads(b, at, strs, extra), Reads(c, 0, more, extra)
  PROVE  Reads(b \o c, at, strs \o more, extra)
<1>1. PICK p : Stops(p, b, at, strs, extra)
  BY DEF Reads
<1>2. PICK q : Stops(q, c, 0, more, extra)
  BY DEF Reads
<1>. DEFINE n == Len(strs)
            m == Len(more)
            all == strs \o more
            bc == b \o c
            len == Len(b)
            pos == [i \in 0..(n + m) |-> IF i <= n THEN p[i] ELSE len + q[i - n]]
<1>3. /\ n \in Nat /\ m \in Nat /\ all \in Seq(Strs) /\ Len(all) = n + m
      /\ \A i \in 1..n : all[i] = strs[i]
      /\ \A i \in 1..m : all[n + i] = more[i]
      /\ \A i \in 1..n : strs[i] \in Strs
      /\ \A i \in 1..m : more[i] \in Strs
  BY LenProperties, ElementOfSeq, HoldsBoth DEF Holds
<1>4. /\ bc \in Seq(Byte) /\ Len(bc) = len + Len(c) /\ len \in Nat /\ Len(c) \in Nat
      /\ Holds(bc, len, c)
      /\ \A k \in Nat, s \in Seq(Byte) : Holds(b, k, s) => Holds(bc, k, s)
  BY LenProperties, Joined
<1>5. /\ p \in [0..n -> Nat] /\ p[0] = at /\ p[n] = len
      /\ \A i \in 1..n : /\ p[i] = p[i-1] + 2 + Len(strs[i]) + extra
                         /\ Holds(b, p[i-1], encode_string(strs[i]))
  BY <1>1 DEF Stops
<1>6. /\ q \in [0..m -> Nat] /\ q[0] = 0 /\ q[m] = Len(c)
      /\ \A i \in 1..m : /\ q[i] = q[i-1] + 2 + Len(more[i]) + extra
                         /\ Holds(c, q[i-1], encode_string(more[i]))
  BY <1>2 DEF Stops
<1>. HIDE DEF n, m, all, bc, len
<1>7. pos \in [0..(n + m) -> Nat]
  <2>1. ASSUME NEW i \in 0..(n + m)
        PROVE  (IF i <= n THEN p[i] ELSE len + q[i - n]) \in Nat
    <3>1. CASE i <= n
      BY <1>3, <1>5, <3>1
    <3>2. CASE ~ (i <= n)
      <4>1. i - n \in 0..m
        BY <1>3, <3>2
      <4>2. q[i - n] \in Nat
        BY <1>6, <4>1
      <4>. QED
        BY <1>4, <3>2, <4>2
    <3>. QED
      BY <3>1, <3>2
  <2>. QED
    BY <2>1
<1>8. /\ \A i \in 0..n : pos[i] = p[i]
      /\ \A i \in 0..m : pos[n + i] = len + q[i]
  <2>1. \A i \in 0..n : pos[i] = p[i]
    BY <1>3
  <2>2. ASSUME NEW i \in 0..m
        PROVE  pos[n + i] = len + q[i]
    <3>1. CASE i = 0
      BY <3>1, <1>3, <1>4, <1>5, <1>6
    <3>2. CASE i > 0
      <4>1. n + i \in 0..(n + m) /\ ~ (n + i <= n) /\ (n + i) - n = i
        BY <3>2, <1>3
      <4>. QED
        BY <4>1
    <3>. QED
      BY <3>1, <3>2
  <2>. QED
    BY <2>1, <2>2
<1>. HIDE DEF pos
<1>9. ASSUME NEW i \in 1..n
      PROVE  /\ pos[i] = pos[i-1] + 2 + Len(all[i]) + extra
             /\ Holds(bc, pos[i-1], encode_string(all[i]))
  <2>1. i \in 0..n /\ i - 1 \in 0..n /\ all[i] = strs[i] /\ strs[i] \in Strs
    BY <1>3
  <2>2. encode_string(strs[i]) \in Seq(Byte) /\ p[i-1] \in Nat
    BY <1>5, <2>1, StringEncoded DEF Strs
  <2>. QED
    BY <1>4, <1>5, <1>8, <2>1, <2>2
<1>10. ASSUME NEW i \in 1..m
       PROVE  /\ pos[n + i] = pos[(n + i) - 1] + 2 + Len(all[n + i]) + extra
              /\ Holds(bc, pos[(n + i) - 1], encode_string(all[n + i]))
  <2>1. i \in 0..m /\ i - 1 \in 0..m /\ all[n + i] = more[i] /\ more[i] \in Strs /\ (n + i) - 1 = n + (i - 1)
    BY <1>3
  <2>2. encode_string(more[i]) \in Seq(Byte) /\ q[i-1] \in Nat /\ q[i] \in Nat /\ Len(more[i]) \in Nat
    BY <1>6, <2>1, StringEncoded, LenProperties DEF Strs
  <2>3. Holds(bc, len + q[i-1], encode_string(more[i]))
    BY <1>4, <1>6, <2>2, HoldsPart
  <2>4. pos[n + i] = len + q[i] /\ pos[n + (i - 1)] = len + q[i-1]
    BY <1>8, <2>1
  <2>5. len + q[i] = (len + q[i-1]) + 2 + Len(more[i]) + extra
    <3>1. q[i] = q[i-1] + 2 + Len(more[i]) + extra
      BY <1>6
    <3>. DEFINE x == q[i-1]
                y == Len(more[i])
    <3>. HIDE DEF x, y
    <3>2. x \in Nat /\ y \in Nat /\ q[i] = x + 2 + y + extra
      BY <2>2, <3>1 DEF x, y
    <3>3. len + q[i] = (len + x) + 2 + y + extra
      BY <1>4, <3>2
    <3>. QED
      BY <3>3 DEF x, y
  <2>. QED
    BY <2>1, <2>3, <2>4, <2>5
<1>11. ASSUME NEW i \in 1..(n + m)
       PROVE  /\ pos[i] = pos[i-1] + 2 + Len(all[i]) + extra
              /\ Holds(bc, pos[i-1], encode_string(all[i]))
  <2>1. CASE i <= n
    BY <1>3, <1>9, <2>1
  <2>2. CASE i > n
    <3>1. i - n \in 1..m /\ n + (i - n) = i
      BY <1>3, <2>2
    <3>. QED
      BY <1>10, <3>1
  <2>. QED
    BY <1>3, <2>1, <2>2
<1>12. pos[0] = at /\ pos[n + m] = Len(bc)
  <2>1. 0 \in 0..n /\ m \in 0..m
    BY <1>3
  <2>. QED
    BY <1>4, <1>5, <1>6, <1>8, <2>1
<1>13. Stops(pos, bc, at, all, extra)
  BY <1>3, <1>7, <1>11, <1>12 DEF Stops
<1>. QED
  BY <1>13 DEF Reads, bc, all

\* The strings before the k-th, as they are read.
ReadUpTo(pos, strs, k) == [pos |-> pos[k], strings |-> SubSeq(strs, 1, k)]

\* One more string is read.
LEMMA StringStep ==
  ASSUME NEW b \in Seq(Byte), NEW pos, NEW at, NEW strs \in Seq(Strs), NEW extra \in Nat,
         Stops(pos, b, at, strs, extra), NEW full \in Seq(Byte), NEW start \in Nat,
         Holds(full, start, b), NEW k \in 1..Len(strs)
  PROVE  ReadString(full, ReadUpTo([i \in 0..Len(strs) |-> start + pos[i]], strs, k-1), extra)
           = ReadUpTo([i \in 0..Len(strs) |-> start + pos[i]], strs, k)
<1>. DEFINE n == Len(strs)
            str == strs[k]
            len == Len(str)
            old == start + pos[k-1]
            left == From(full, old)
            put == [i \in 0..n |-> start + pos[i]]
            seen == SubSeq(strs, 1, k-1)
<1>1. /\ n \in Nat /\ k \in 1..n /\ k \in 0..n /\ k - 1 \in 0..n /\ str \in Strs
      /\ len \in Nat /\ str \in Seq(Byte) /\ Fits(len, 2)
  BY LenProperties, ElementOfSeq DEF Strs
<1>2. /\ pos[k-1] \in Nat /\ pos[k] = pos[k-1] + 2 + len + extra
      /\ Holds(b, pos[k-1], encode_string(str))
  BY <1>1 DEF Stops
<1>3. encode_string(str) \in Seq(Byte)
  BY <1>1, StringEncoded
<1>4. Holds(full, old, encode_string(str))
  BY <1>2, <1>3, HoldsPart
<1>5. left \in Seq(Byte) /\ Holds(left, 0, encode_string(str))
  <2>1. old \in Nat /\ 0 \in Nat /\ old + 0 = old
    <3>1. \A x \in Nat : start + x \in Nat /\ 0 \in Nat /\ (start + x) + 0 = start + x
      OBVIOUS
    <3>. QED
      BY <1>2, <3>1, Zenon
  <2>. HIDE DEF old
  <2>. QED
    BY <1>3, <1>4, <2>1, HoldsFrom
<1>6. Append(seen, str) = SubSeq(strs, 1, k)
  <2>1. k \in 0..Len(strs) /\ k - 1 \in 0..Len(strs)
    BY <1>1
  <2>2. /\ seen \in Seq(Strs) /\ Len(seen) = k - 1
        /\ \A i \in 1..(k-1) : seen[i] = strs[i]
    BY <2>1, Beginning
  <2>3. /\ SubSeq(strs, 1, k) \in Seq(Strs) /\ Len(SubSeq(strs, 1, k)) = k
        /\ \A i \in 1..k : SubSeq(strs, 1, k)[i] = strs[i]
    BY <2>1, Beginning
  <2>. HIDE DEF seen, str
  <2>4. /\ Append(seen, str) \in Seq(Strs) /\ Len(Append(seen, str)) = Len(seen) + 1
        /\ \A i \in 1..Len(seen) : Append(seen, str)[i] = seen[i]
        /\ Append(seen, str)[Len(seen) + 1] = str
    BY <1>1, <2>2, AppendProperties
  <2>5. Len(Append(seen, str)) = k
    BY <1>1, <2>2, <2>4
  <2>6. ASSUME NEW i \in 1..k
        PROVE  Append(seen, str)[i] = SubSeq(strs, 1, k)[i]
    <3>1. CASE i = k
      BY <1>1, <2>2, <2>3, <2>4, <3>1 DEF str
    <3>2. CASE i # k
      <4>1. i \in 1..(k - 1) /\ i \in 1..Len(seen)
        BY <1>1, <2>2, <3>2
      <4>. QED
        BY <2>2, <2>3, <2>4, <4>1
    <3>. QED
      BY <3>1, <3>2
  <2>. QED
    BY <2>3, <2>4, <2>5, <2>6, SeqEqual
<1>7. put[k-1] = old /\ put[k] = start + pos[k]
  BY <1>1
<1>8. old + 2 + len + extra = put[k]
  <2>1. \A x, y \in Nat : (start + x) + 2 + y + extra = start + (x + 2 + y + extra)
    OBVIOUS
  <2>2. old + 2 + len + extra = start + (pos[k-1] + 2 + len + extra)
    BY <1>1, <1>2, <2>1, Zenon
  <2>. QED
    BY <1>2, <1>7, <2>2, Zenon
<1>. HIDE DEF left, seen, put, len, old
<1>9. decode_string(left, Room) = str
  <2>1. ~ (Room <= Len(str))
    <3>1. len \div 256 <= 255
      BY <1>1, FitsBytes, Zenon
    <3>2. ~ (65536 <= len)
      BY <1>1, <3>1, SMT
    <3>. QED
      BY <3>2, SMT DEF len, Room
  <2>2. Room \in Nat
    BY SMT DEF Room
  <2>3. Fits(Len(str), 2) /\ Holds(left, 0, encode_string(str)) /\ left \in Seq(Byte) /\ str \in Seq(Byte)
    BY <1>1, <1>5, Zenon DEF len
  <2>. HIDE DEF str
  <2>. QED
    BY <2>1, <2>2, <2>3, StringRead
<1>10. ReadString(full, [pos |-> old, strings |-> seen], extra)
         = [pos |-> old + 2 + Len(str) + extra, strings |-> Append(seen, str)]
  <2>. DEFINE read == [pos |-> old, strings |-> seen]
  <2>. HIDE DEF str
  <2>1. read.pos = old /\ read.strings = seen
    OBVIOUS
  <2>. HIDE DEF read
  <2>2. decode_string(From(full, read.pos), Room) = str
    BY <1>9, <2>1, Zenon DEF left
  <2>3. ReadString(full, read, extra)
          = [pos |-> read.pos + 2 + Len(str) + extra, strings |-> Append(read.strings, str)]
    BY <2>2, Zenon DEF ReadString
  <2>. QED
    BY <2>1, <2>3 DEF read
<1>. QED
  BY <1>6, <1>7, <1>8, <1>10 DEF ReadUpTo, seen, put, len

\* The greatest of some numbers is taken away.
LEMMA OneLess ==
  ASSUME NEW n \in Nat, NEW s \in SUBSET (1..n), s # {}
  PROVE  /\ Max(s) \in s /\ s \ {Max(s)} \in SUBSET (1..n)
         /\ Cardinality(s) \in 1..n /\ Cardinality(s \ {Max(s)}) = Cardinality(s) - 1
<1>1. IsFiniteSet(1..n) /\ Cardinality(1..n) = n
  BY FS_Interval
<1>2. IsFiniteSet(s) /\ Cardinality(s) \in Nat /\ Cardinality(s) <= n
  BY <1>1, FS_Subset, FS_CardinalityType
<1>3. Max(s) \in s
  BY Greatest
<1>4. Cardinality(s) # 0
  BY <1>2, FS_EmptySet
<1>5. Cardinality(s \ {Max(s)}) = Cardinality(s) - 1
  BY <1>2, <1>3, FS_RemoveElement
<1>6. s \ {Max(s)} \in SUBSET (1..n)
  OBVIOUS
<1>7. Cardinality(s) \in 1..n
  BY <1>2, <1>4
<1>. QED
  BY <1>3, <1>5, <1>6, <1>7

\* The strings of a part of a buffer are read.
LEMMA StringsRead ==
  ASSUME NEW b \in Seq(Byte), NEW at \in Nat, NEW strs \in Seq(Strs), NEW extra \in Nat,
         Reads(b, at, strs, extra), NEW full \in Seq(Byte), NEW start \in Nat,
         Holds(full, start, b)
  PROVE  Strings(full, start + at, Len(strs), extra) = [pos |-> start + Len(b), strings |-> strs]
<1>1. PICK pos : Stops(pos, b, at, strs, extra)
  BY DEF Reads
<1>. DEFINE n == Len(strs)
            ids == [i \in 1..n |-> i]
            put == [i \in 0..n |-> start + pos[i]]
            st == [k \in 0..n |-> ReadUpTo(put, strs, k)]
            Sum(g) == g = [s \in SUBSET (DOMAIN ids) |->
                             IF s = {} THEN [pos |-> start + at, strings |-> <<>>]
                             ELSE ReadString(full, g[s \ {Max(s)}], extra)]
            h == [s \in SUBSET (1..n) |-> st[Cardinality(s)]]
<1>2. n \in Nat /\ 0 \in 0..n /\ n \in 0..n /\ DOMAIN ids = 1..n
  BY LenProperties
<1>3. st[0] = [pos |-> start + at, strings |-> <<>>]
  <2>1. pos[0] = at
    BY <1>1 DEF Stops
  <2>2. SubSeq(strs, 1, 0) = <<>>
    OBVIOUS
  <2>. QED
    BY <1>2, <2>1, <2>2 DEF ReadUpTo
<1>4. ASSUME NEW k \in 1..n
      PROVE  ReadString(full, st[k-1], extra) = st[k]
  <2>1. k \in 0..n /\ k - 1 \in 0..n
    BY <1>2
  <2>2. st[k-1] = ReadUpTo(put, strs, k-1) /\ st[k] = ReadUpTo(put, strs, k)
    BY <2>1
  <2>3. ReadString(full, ReadUpTo(put, strs, k-1), extra) = ReadUpTo(put, strs, k)
    BY <1>1, StringStep
  <2>. QED
    BY <2>2, <2>3
<1>5. st[n] = [pos |-> start + Len(b), strings |-> strs]
  <2>1. pos[n] = Len(b)
    BY <1>1 DEF Stops
  <2>2. SubSeq(strs, 1, n) = strs
    <3>1. /\ SubSeq(strs, 1, n) \in Seq(Strs) /\ Len(SubSeq(strs, 1, n)) = n
          /\ \A i \in 1..n : SubSeq(strs, 1, n)[i] = strs[i]
      BY <1>2, Beginning
    <3>. QED
      BY <3>1, SeqEqual
  <2>. QED
    BY <1>2, <2>1, <2>2 DEF ReadUpTo
<1>. HIDE DEF st, n, ids
<1>6. Sum(h)
  <2>1. ASSUME NEW s \in SUBSET (1..n)
        PROVE  h[s] = IF s = {} THEN [pos |-> start + at, strings |-> <<>>]
                      ELSE ReadString(full, h[s \ {Max(s)}], extra)
    <3>1. CASE s = {}
      BY <1>3, <3>1, FS_EmptySet
    <3>2. CASE s # {}
      <4>1. /\ s \ {Max(s)} \in SUBSET (1..n) /\ Cardinality(s) \in 1..n
            /\ Cardinality(s \ {Max(s)}) = Cardinality(s) - 1
        BY <1>2, <3>2, OneLess
      <4>2. h[s] = st[Cardinality(s)] /\ h[s \ {Max(s)}] = st[Cardinality(s) - 1]
        BY <4>1
      <4>. QED
        BY <1>4, <3>2, <4>1, <4>2
    <3>. QED
      BY <3>1, <3>2
  <2>. QED
    BY <1>2, <2>1
<1>. DEFINE f == CHOOSE g : Sum(g)
<1>7. Sum(f)
  <2>. HIDE DEF Sum, h
  <2>. QED
    BY <1>6
<1>8. Strings(full, start + at, n, extra) = f[1..n]
  BY <1>2 DEF Strings, FoldLeft, MapThenFoldSet, ids
<1>. HIDE DEF f, h
<1>9. \A s \in SUBSET (1..n) :
        f[s] = IF s = {} THEN [pos |-> start + at, strings |-> <<>>]
               ELSE ReadString(full, f[s \ {Max(s)}], extra)
  BY <1>2, <1>7
<1>. DEFINE N == {k \in Nat : k <= n => f[1..k] = st[k]}
<1>10. 0 \in N
  <2>1. 1..0 = {} /\ {} \in SUBSET (1..n)
    OBVIOUS
  <2>. QED
    BY <1>3, <1>9, <2>1
<1>11. ASSUME NEW k \in Nat, k \in N
       PROVE  k + 1 \in N
  <2>. SUFFICES ASSUME k + 1 <= n
                PROVE  f[1..(k+1)] = st[k+1]
    OBVIOUS
  <2>1. k + 1 \in 1..n /\ k <= n /\ (k + 1) - 1 = k
    BY <1>2
  <2>2. /\ 1..(k+1) \in SUBSET (1..n) /\ 1..(k+1) # {} /\ Max(1..(k+1)) = k + 1
        /\ (1..(k+1)) \ {k+1} = 1..((k+1) - 1)
    BY <1>2, <2>1, GreatestUpTo
  <2>3. f[1..(k+1)] = ReadString(full, f[1..k], extra)
    BY <1>9, <2>1, <2>2
  <2>4. f[1..k] = st[k]
    BY <1>11, <2>1
  <2>. QED
    BY <1>4, <2>1, <2>3, <2>4
<1>. HIDE DEF N
<1>12. Nat \subseteq N
  BY <1>10, <1>11, Induction
<1>13. f[1..n] = st[n]
  BY <1>2, <1>12 DEF N
<1>. QED
  BY <1>5, <1>8, <1>13 DEF n

\* What one part after the other makes of the parts.
FlatRuns(st, parts) ==
  /\ st \in [0..Len(parts) -> Seq(Byte)] /\ st[0] = <<>>
  /\ \A k \in 1..Len(parts) : st[k] = st[k-1] \o parts[k]

\* FlattenSeq puts the parts one behind the other.
LEMMA Flattened ==
  ASSUME NEW parts \in Seq(Seq(Byte)), Len(parts) # 0
  PROVE  \E st : FlatRuns(st, parts) /\ FlattenSeq(parts) = st[Len(parts)]
<1>. DEFINE n == Len(parts)
            op == [p \in Seq(Byte) \X (1..n) |-> p[1] \o parts[p[2]]]
            Flat(g) == g = [i \in 1..n |-> IF i = 1 THEN parts[i] ELSE g[i-1] \o parts[i]]
<1>1. n \in Nat /\ n # 0 /\ \A i \in 1..n : parts[i] \in Seq(Byte)
  BY LenProperties, ElementOfSeq
<1>2. op \in [Seq(Byte) \X (1..n) -> Seq(Byte)]
  <2>1. ASSUME NEW p \in Seq(Byte) \X (1..n)
        PROVE  p[1] \o parts[p[2]] \in Seq(Byte)
    <3>1. p[1] \in Seq(Byte) /\ p[2] \in 1..n
      OBVIOUS
    <3>2. parts[p[2]] \in Seq(Byte)
      BY <1>1, <3>1
    <3>. QED
      BY <3>1, <3>2, ConcatProperties
  <2>. QED
    BY <2>1
<1>. HIDE DEF n
<1>3. <<>> \in Seq(Byte)
  OBVIOUS
<1>4. PICK g : Folds(g, Seq(Byte), <<>>, op, n)
  <2>. HIDE DEF op
  <2>. QED
    BY <1>1, <1>2, <1>3, FoldExists, Zenon
<1>. DEFINE st == [k \in 0..n |-> g[1..k]]
<1>5. /\ g \in [SUBSET (1..n) -> Seq(Byte)]
      /\ \A s \in SUBSET (1..n) : g[s] = IF s = {} THEN <<>> ELSE op[<<g[s \ {Max(s)}], Max(s)>>]
  <2>. HIDE DEF op
  <2>. QED
    BY <1>4 DEF Folds, Round
<1>6. ASSUME NEW k \in 0..n
      PROVE  1..k \in SUBSET (1..n) /\ g[1..k] \in Seq(Byte) /\ st[k] = g[1..k]
  <2>1. 1..k \in SUBSET (1..n)
    BY <1>1
  <2>. QED
    BY <1>5, <2>1
<1>7. st[0] = <<>>
  <2>1. 1..0 = {} /\ {} \in SUBSET (1..n) /\ 0 \in 0..n
    BY <1>1
  <2>2. g[{}] = <<>>
    BY <1>5, <2>1
  <2>. QED
    BY <1>6, <2>1, <2>2
<1>8. ASSUME NEW k \in 1..n
      PROVE  st[k] = st[k-1] \o parts[k]
  <2>1. /\ 1..k \in SUBSET (1..n) /\ 1..k # {} /\ Max(1..k) = k /\ (1..k) \ {k} = 1..(k-1)
    BY <1>1, GreatestUpTo
  <2>2. k \in 0..n /\ k - 1 \in 0..n
    BY <1>1
  <2>3. g[1..k] = op[<<g[1..(k-1)], k>>]
    <3>. HIDE DEF op
    <3>. QED
      BY <1>5, <2>1
  <2>4. g[1..(k-1)] \in Seq(Byte)
    BY <1>6, <2>2
  <2>5. op[<<g[1..(k-1)], k>>] = g[1..(k-1)] \o parts[k]
    BY <2>4
  <2>. QED
    BY <1>6, <2>2, <2>3, <2>5
<1>. HIDE DEF st
<1>9. st \in [0..n -> Seq(Byte)]
  BY <1>6 DEF st
<1>10. FlatRuns(st, parts)
  BY <1>7, <1>8, <1>9 DEF FlatRuns, n
<1>. DEFINE flat == [i \in 1..n |-> st[i]]
<1>11. Flat(flat)
  <2>1. ASSUME NEW i \in 1..n
        PROVE  flat[i] = IF i = 1 THEN parts[i] ELSE flat[i-1] \o parts[i]
    <3>1. CASE i = 1
      <4>1. parts[1] \in Seq(Byte) /\ 1 - 1 = 0 /\ st[1] = st[1-1] \o parts[1]
        <5>1. 1 \in 1..n /\ 1 - 1 = 0
          BY <3>1
        <5>. QED
          BY <1>1, <1>8, <5>1, Zenon
      <4>2. \A p \in Seq(Byte) : <<>> \o p = p
        OBVIOUS
      <4>3. st[1] = parts[1]
        BY <1>7, <4>1, <4>2
      <4>. QED
        BY <3>1, <4>3
    <3>2. CASE i # 1
      <4>1. i - 1 \in 1..n
        BY <1>1, <3>2
      <4>. QED
        BY <1>8, <3>2, <4>1
    <3>. QED
      BY <3>1, <3>2
  <2>. QED
    BY <2>1
<1>. DEFINE f == CHOOSE h : Flat(h)
<1>12. Flat(f)
  <2>. HIDE DEF Flat, flat
  <2>. QED
    BY <1>11
<1>13. FlattenSeq(parts) = f[n]
  BY <1>1, Zenon DEF FlattenSeq, n
<1>. HIDE DEF f, flat
<1>. DEFINE N == {k \in Nat : k \in 1..n => f[k] = st[k]}
<1>14. 0 \in N
  OBVIOUS
<1>15. ASSUME NEW k \in Nat, k \in N
       PROVE  k + 1 \in N
  <2>. SUFFICES ASSUME k + 1 \in 1..n
                PROVE  f[k+1] = st[k+1]
    OBVIOUS
  <2>1. f[k+1] = IF k + 1 = 1 THEN parts[k+1] ELSE f[(k+1)-1] \o parts[k+1]
    BY <1>12
  <2>2. flat[k+1] = IF k + 1 = 1 THEN parts[k+1] ELSE flat[(k+1)-1] \o parts[k+1]
    BY <1>11
  <2>3. \A i \in 1..n : flat[i] = st[i]
    BY DEF flat
  <2>4. CASE k + 1 = 1
    BY <2>1, <2>2, <2>3, <2>4
  <2>5. CASE k + 1 # 1
    <3>1. k \in 1..n /\ (k + 1) - 1 = k
      BY <1>1, <2>5
    <3>2. f[k] = flat[k]
      BY <1>15, <2>3, <3>1
    <3>. QED
      BY <2>1, <2>2, <2>3, <2>5, <3>1, <3>2
  <2>. QED
    BY <2>4, <2>5
<1>. HIDE DEF N
<1>16. Nat \subseteq N
  BY <1>14, <1>15, Induction
<1>17. n \in 1..n /\ n \in N
  BY <1>1, <1>16
<1>18. f[n] = st[n]
  BY <1>17 DEF N
<1>. QED
  BY <1>10, <1>13, <1>18 DEF n

\* Each part lies in the whole, where the parts before it end.
LEMMA FlatHolds ==
  ASSUME NEW parts \in Seq(Seq(Byte)), NEW st, FlatRuns(st, parts)
  PROVE  \A k \in 1..Len(parts) : Holds(st[Len(parts)], Len(st[k-1]), parts[k])
<1>. DEFINE n == Len(parts)
            N == {m \in Nat : m <= n => \A k \in 1..m : Holds(st[m], Len(st[k-1]), parts[k])}
<1>1. /\ n \in Nat /\ st \in [0..n -> Seq(Byte)] /\ \A k \in 1..n : st[k] = st[k-1] \o parts[k]
      /\ \A k \in 1..n : parts[k] \in Seq(Byte)
  BY LenProperties, ElementOfSeq DEF FlatRuns
<1>2. 0 \in N
  OBVIOUS
<1>. HIDE DEF n
<1>3. ASSUME NEW m \in Nat, m \in N
      PROVE  m + 1 \in N
  <2>. SUFFICES ASSUME m + 1 <= n, NEW k \in 1..(m + 1)
                PROVE  Holds(st[m+1], Len(st[k-1]), parts[k])
    OBVIOUS
  <2>1. m \in 0..n /\ m + 1 \in 1..n /\ (m + 1) - 1 = m /\ m <= n
    BY <1>1
  <2>2. st[m] \in Seq(Byte) /\ parts[m+1] \in Seq(Byte) /\ st[m+1] = st[m] \o parts[m+1]
    BY <1>1, <2>1
  <2>3. CASE k = m + 1
    BY <2>1, <2>2, <2>3, HoldsBoth
  <2>4. CASE k # m + 1
    <3>1. k \in 1..m /\ k \in 1..n /\ k - 1 \in 0..n
      <4>1. k \in 1..m
        BY <2>4
      <4>. QED
        BY <1>1, <2>1, <4>1
    <3>2. Holds(st[m], Len(st[k-1]), parts[k])
      BY <1>3, <2>1, <3>1
    <3>3. Len(st[k-1]) \in Nat /\ parts[k] \in Seq(Byte)
      BY <1>1, <3>1, LenProperties
    <3>. QED
      BY <2>2, <3>2, <3>3, HoldsBefore
  <2>. QED
    BY <2>3, <2>4
<1>. HIDE DEF N
<1>4. Nat \subseteq N
  BY <1>2, <1>3, Induction
<1>5. n \in N
  BY <1>1, <1>4
<1>6. \A k \in 1..n : Holds(st[n], Len(st[k-1]), parts[k])
  BY <1>1, <1>5 DEF N
<1>. QED
  BY <1>6 DEF n

\* The topics of one packet.
TopicList == Seq([topic : Text, qos : 0..2])

\* The strings of the topics.
TopicNames(topics) == [i \in DOMAIN topics |-> topics[i].topic]

\* What the encoders write for the topics: a string each, and extra bytes.
TopicParts(parts, topics, extra) ==
  /\ parts \in Seq(Seq(Byte)) /\ Len(parts) = Len(topics)
  /\ \A i \in 1..Len(topics) :
       /\ Len(parts[i]) = 2 + Len(topics[i].topic) + extra
       /\ Holds(parts[i], 0, encode_string(topics[i].topic))

\* A topic is a string.
LEMMA TopicsAreStrings ==
  ASSUME NEW topics \in TopicList
  PROVE  /\ Len(topics) \in Nat /\ DOMAIN topics = 1..Len(topics)
         /\ TopicNames(topics) \in Seq(Strs) /\ Len(TopicNames(topics)) = Len(topics)
         /\ \A i \in 1..Len(topics) :
              /\ topics[i].topic \in Strs /\ Len(topics[i].topic) \in Nat /\ topics[i].qos \in 0..2
              /\ TopicNames(topics)[i] = topics[i].topic
<1>1. Text \subseteq Strs
  <2>1. Seq(Char) \subseteq Seq(Byte)
    BY DEF Char
  <2>. QED
    BY <2>1 DEF Text, Strs
<1>2. /\ Len(topics) \in Nat /\ DOMAIN topics = 1..Len(topics)
      /\ \A i \in 1..Len(topics) : topics[i] \in [topic : Text, qos : 0..2]
  BY LenProperties, ElementOfSeq DEF TopicList
<1>3. ASSUME NEW i \in 1..Len(topics)
      PROVE  topics[i].topic \in Strs /\ Len(topics[i].topic) \in Nat /\ topics[i].qos \in 0..2
  <2>1. topics[i].topic \in Text /\ topics[i].qos \in 0..2
    BY <1>2
  <2>. DEFINE t == topics[i].topic
  <2>. HIDE DEF t
  <2>2. t \in Strs
    BY <1>1, <2>1 DEF t
  <2>3. Len(t) \in Nat
    BY <2>2, LenProperties DEF Strs
  <2>. QED
    BY <2>1, <2>2, <2>3 DEF t
<1>. DEFINE names == [i \in 1..Len(topics) |-> topics[i].topic]
<1>4. names \in Seq(Strs) /\ Len(names) = Len(topics)
  BY <1>2, <1>3
<1>5. TopicNames(topics) = names
  BY <1>2 DEF TopicNames
<1>. QED
  BY <1>2, <1>3, <1>4, <1>5

\* TopicsLength adds up the lengths.
LEMMA TopicsRounds ==
  ASSUME NEW topics \in TopicList, NEW extra \in Nat
  PROVE  \E g : /\ g[{}] = 0
                /\ \A k \in 1..Len(topics) :
                     g[1..k] = g[1..(k-1)] + 2 + Len(topics[k].topic) + extra
                /\ TopicsLength(topics, extra) = 2 + g[1..Len(topics)]
<1>. DEFINE n == Len(topics)
            W(k) == Len(topics[k].topic)
            op == [p \in Nat \X (1..n) |-> p[1] + 2 + W(p[2]) + extra]
            Sum(g) == g = [s \in SUBSET (DOMAIN topics) |->
                             IF s = {} THEN 0 ELSE g[s \ {Max(s)}] + 2 + W(Max(s)) + extra]
<1>1. n \in Nat /\ DOMAIN topics = 1..n /\ \A k \in 1..n : W(k) \in Nat
  BY TopicsAreStrings
<1>2. \A w \in Nat, x \in Nat : x + 2 + w + extra \in Nat
  OBVIOUS
<1>. HIDE DEF n, W
<1>3. op \in [Nat \X (1..n) -> Nat]
  <2>1. ASSUME NEW p \in Nat \X (1..n)
        PROVE  p[1] + 2 + W(p[2]) + extra \in Nat
    <3>1. p[1] \in Nat /\ p[2] \in 1..n
      OBVIOUS
    <3>. QED
      BY <1>1, <1>2, <3>1
  <2>. QED
    BY <2>1
<1>4. PICK g : Folds(g, Nat, 0, op, n)
  <2>. HIDE DEF op
  <2>1. n \in Nat /\ 0 \in Nat
    BY <1>1
  <2>. QED
    BY <2>1, <1>3, FoldExists, Zenon
<1>5. Sum(g)
  <2>1. ASSUME NEW s \in SUBSET (1..n), s # {}
        PROVE  op[<<g[s \ {Max(s)}], Max(s)>>] = g[s \ {Max(s)}] + 2 + W(Max(s)) + extra
    <3>1. Max(s) \in 1..n /\ g[s \ {Max(s)}] \in Nat
      BY <1>1, <1>4, <2>1, Greatest DEF Folds
    <3>. QED
      BY <3>1
  <2>. HIDE DEF op
  <2>2. g = [s \in SUBSET (1..n) |->
               IF s = {} THEN 0 ELSE op[<<g[s \ {Max(s)}], Max(s)>>]]
    BY <1>4 DEF Folds, Round
  <2>. QED
    BY <1>1, <2>1, <2>2
<1>. DEFINE f == CHOOSE h : Sum(h)
<1>6. TopicsLength(topics, extra) = 2 + f[1..n]
  BY <1>1 DEF TopicsLength, FoldLeft, MapThenFoldSet, W
<1>7. Sum(f)
  <2>. HIDE DEF Sum
  <2>. QED
    BY <1>5
<1>. HIDE DEF f
<1>8. \A s \in SUBSET (1..n) :
        f[s] = IF s = {} THEN 0 ELSE f[s \ {Max(s)}] + 2 + W(Max(s)) + extra
  BY <1>1, <1>7
<1>9. ASSUME NEW k \in 1..n
      PROVE  f[1..k] = f[1..(k-1)] + 2 + W(k) + extra
  <2>1. 1..k \in SUBSET (1..n) /\ 1..k # {} /\ Max(1..k) = k /\ (1..k) \ {k} = 1..(k-1)
    BY <1>1, GreatestUpTo
  <2>2. f[1..k] = f[(1..k) \ {Max(1..k)}] + 2 + W(Max(1..k)) + extra
    BY <1>8, <2>1
  <2>. QED
    BY <2>1, <2>2
<1>10. f[{}] = 0
  BY <1>8
<1>. QED
  BY <1>6, <1>9, <1>10 DEF n, W

\* The topics put together are read, and are as long as it was summed up.
LEMMA TopicsTogether ==
  ASSUME NEW topics \in TopicList, Len(topics) # 0, NEW extra \in Nat, NEW parts,
         TopicParts(parts, topics, extra)
  PROVE  LET flat == FlattenSeq(parts)
         IN  /\ flat \in Seq(Byte) /\ TopicsLength(topics, extra) = 2 + Len(flat)
             /\ Reads(flat, 0, TopicNames(topics), extra)
<1>. DEFINE n == Len(topics)
            names == TopicNames(topics)
<1>1. /\ parts \in Seq(Seq(Byte)) /\ Len(parts) = n
      /\ \A i \in 1..n : /\ Len(parts[i]) = 2 + Len(topics[i].topic) + extra
                         /\ Holds(parts[i], 0, encode_string(topics[i].topic))
  BY DEF TopicParts
<1>2. /\ n \in Nat /\ names \in Seq(Strs) /\ Len(names) = n
      /\ \A i \in 1..n : /\ topics[i].topic \in Strs /\ Len(topics[i].topic) \in Nat
                         /\ names[i] = topics[i].topic
  BY TopicsAreStrings
<1>3. PICK st : FlatRuns(st, parts) /\ FlattenSeq(parts) = st[n]
  BY <1>1, Flattened
<1>4. \A k \in 1..n : Holds(st[n], Len(st[k-1]), parts[k])
  BY <1>1, <1>3, FlatHolds
<1>5. PICK g : /\ g[{}] = 0
               /\ \A k \in 1..n : g[1..k] = g[1..(k-1)] + 2 + Len(topics[k].topic) + extra
               /\ TopicsLength(topics, extra) = 2 + g[1..n]
  BY TopicsRounds
<1>. HIDE DEF n, names
<1>6. st \in [0..n -> Seq(Byte)] /\ st[0] = <<>> /\ \A k \in 1..n : st[k] = st[k-1] \o parts[k]
  BY <1>1, <1>3 DEF FlatRuns
<1>7. \A k \in 1..n : parts[k] \in Seq(Byte)
  BY <1>1, ElementOfSeq
<1>. DEFINE pos == [k \in 0..n |-> Len(st[k])]
<1>8. pos \in [0..n -> Nat] /\ pos[0] = 0 /\ pos[n] = Len(st[n])
  <2>1. \A k \in 0..n : Len(st[k]) \in Nat
    BY <1>6, LenProperties
  <2>2. 0 \in 0..n /\ n \in 0..n /\ Len(<<>>) = 0
    BY <1>2
  <2>. QED
    BY <1>6, <2>1, <2>2
<1>9. \A k \in 0..n : pos[k] = Len(st[k])
  OBVIOUS
<1>. HIDE DEF pos
<1>10. ASSUME NEW k \in 1..n
       PROVE  pos[k] = pos[k-1] + 2 + Len(topics[k].topic) + extra
  <2>1. k \in 0..n /\ k - 1 \in 0..n
    BY <1>2
  <2>2. st[k-1] \in Seq(Byte) /\ parts[k] \in Seq(Byte) /\ st[k] = st[k-1] \o parts[k]
    BY <1>6, <1>7, <2>1
  <2>3. Len(st[k]) = Len(st[k-1]) + Len(parts[k])
    BY <2>2, HoldsBoth
  <2>4. pos[k] = pos[k-1] + Len(parts[k])
    BY <1>9, <2>1, <2>3
  <2>5. Len(parts[k]) = 2 + Len(topics[k].topic) + extra
    BY <1>1
  <2>. DEFINE w == Len(topics[k].topic)
              p == Len(parts[k])
  <2>6. pos[k-1] \in Nat /\ w \in Nat /\ p = 2 + w + extra /\ pos[k] = pos[k-1] + p
    BY <1>2, <1>8, <2>1, <2>4, <2>5
  <2>. HIDE DEF w, p
  <2>7. pos[k] = pos[k-1] + 2 + w + extra
    BY <2>6
  <2>. QED
    BY <2>7 DEF w
<1>11. Stops(pos, st[n], 0, names, extra)
  <2>1. ASSUME NEW k \in 1..n
        PROVE  /\ pos[k] = pos[k-1] + 2 + Len(names[k]) + extra
               /\ Holds(st[n], pos[k-1], encode_string(names[k]))
    <3>1. k \in 0..n /\ k - 1 \in 0..n /\ n \in 0..n
      BY <1>2
    <3>2. names[k] = topics[k].topic /\ names[k] \in Strs /\ encode_string(names[k]) \in Seq(Byte)
      BY <1>2, StringEncoded DEF Strs
    <3>3. Holds(st[n], pos[k-1], parts[k]) /\ pos[k-1] \in Nat
      BY <1>4, <1>8, <1>9, <3>1
    <3>4. Holds(parts[k], 0, encode_string(names[k]))
      BY <1>1, <3>2
    <3>5. Holds(st[n], pos[k-1] + 0, encode_string(names[k]))
      <4>1. st[n] \in Seq(Byte) /\ parts[k] \in Seq(Byte) /\ 0 \in Nat
        BY <1>6, <1>7, <3>1
      <4>. QED
        BY <3>2, <3>3, <3>4, <4>1, HoldsPart
    <3>6. pos[k-1] + 0 = pos[k-1]
      BY <3>3
    <3>. QED
      BY <1>10, <3>2, <3>5, <3>6
  <2>. QED
    BY <1>2, <1>8, <2>1 DEF Stops
<1>. DEFINE N == {k \in Nat : k <= n => g[1..k] = pos[k]}
<1>12. 0 \in N
  <2>1. 1..0 = {}
    OBVIOUS
  <2>. QED
    BY <1>5, <1>8, <2>1
<1>13. ASSUME NEW k \in Nat, k \in N
       PROVE  k + 1 \in N
  <2>. SUFFICES ASSUME k + 1 <= n
                PROVE  g[1..(k+1)] = pos[k+1]
    OBVIOUS
  <2>1. k + 1 \in 1..n /\ (k + 1) - 1 = k /\ k <= n
    BY <1>2
  <2>2. g[1..(k+1)] = g[1..k] + 2 + Len(topics[k+1].topic) + extra
    BY <1>5, <2>1
  <2>3. pos[k+1] = pos[k] + 2 + Len(topics[k+1].topic) + extra
    BY <1>10, <2>1
  <2>4. g[1..k] = pos[k]
    BY <1>13, <2>1
  <2>. QED
    BY <2>2, <2>3, <2>4
<1>. HIDE DEF N
<1>14. Nat \subseteq N
  BY <1>12, <1>13, Induction
<1>15. g[1..n] = pos[n]
  BY <1>2, <1>14 DEF N
<1>16. TopicsLength(topics, extra) = 2 + Len(st[n])
  BY <1>5, <1>8, <1>15
<1>17. st[n] \in Seq(Byte)
  BY <1>2, <1>6
<1>. QED
  BY <1>3, <1>11, <1>16, <1>17 DEF Reads, names

\* A packet whose strings lie behind the first skip bytes of its body is read.
LEMMA PacketRead ==
  ASSUME NEW first \in Byte, NEW body \in Seq(Byte), Len(body) \div 128^3 = 0,
         NEW skip \in Nat, NEW strs \in Seq(Strs), NEW extra \in Nat, Reads(body, skip, strs, extra)
  PROVE  LET pkt    == Packet(first, Len(body), body)
             header == mqtt_decode_fixed_header(pkt)
         IN  /\ header.type = first \div 16 /\ header.pos \in Nat
             /\ EndsAt(header, pkt) = Len(pkt)
             /\ Strings(pkt, header.pos + skip, Len(strs), extra) = [pos |-> Len(pkt), strings |-> strs]
             /\ \A i \in 1..Len(body) : pkt[header.pos + i] = body[i]
<1>. DEFINE len == Len(body)
            pkt == Packet(first, len, body)
            header == mqtt_decode_fixed_header(pkt)
            at == 1 + Len(encode_remaining_length(len))
<1>1. pkt \in Seq(Byte) /\ Holds(pkt, at, body) /\ len \in Nat
  BY PacketParts, LenProperties
<1>2. Holds(pkt, 0, pkt)
  <2>1. Len(pkt) \in Nat
    BY <1>1, LenProperties
  <2>. HIDE DEF pkt
  <2>. QED
    BY <2>1 DEF Holds
<1>3. at \in 2..4 /\ Len(pkt) = at + len /\ header = HeaderRecord(first, len, at)
  BY <1>1, <1>2, HeaderRead, Zenon
<1>. HIDE DEF at, pkt, header
<1>4. header.type = first \div 16 /\ header.pos = at /\ header.remaining_length = len
  BY <1>3 DEF HeaderRecord
<1>5. at \in Nat
  BY <1>3
<1>6. Strings(pkt, at + skip, Len(strs), extra) = [pos |-> at + Len(body), strings |-> strs]
  BY <1>1, <1>5, StringsRead
<1>7. \A i \in 1..Len(body) : pkt[at + i] = body[i]
  BY <1>1 DEF Holds
<1>8. EndsAt(header, pkt) = at + len
  BY <1>4 DEF EndsAt
<1>9. header.pos \in Nat /\ EndsAt(header, pkt) = Len(pkt)
  BY <1>3, <1>4, <1>5, <1>8
<1>10. Strings(pkt, header.pos + skip, Len(strs), extra) = [pos |-> Len(pkt), strings |-> strs]
  BY <1>3, <1>4, <1>6
<1>11. \A i \in 1..Len(body) : pkt[header.pos + i] = body[i]
  BY <1>4, <1>7
<1>. QED
  BY <1>4, <1>9, <1>10, <1>11, Zenon DEF pkt, header, len

\* A packet that carries topics can be read.
LEMMA TopicsPacket ==
  ASSUME NEW first \in Byte, NEW packet_id, Fits(packet_id, 2),
         NEW topics \in TopicList, Len(topics) # 0, NEW extra \in Nat, NEW parts,
         TopicParts(parts, topics, extra), TopicsLength(topics, extra) \div 128^3 = 0
  PROVE  TopicsReadable(
           Packet(first, TopicsLength(topics, extra), BigEndian(packet_id, 2) \o FlattenSeq(parts)),
           topics, extra)
<1>. DEFINE id == BigEndian(packet_id, 2)
            flat == FlattenSeq(parts)
            body == id \o flat
            names == TopicNames(topics)
            pkt == Packet(first, TopicsLength(topics, extra), body)
            header == mqtt_decode_fixed_header(pkt)
<1>1. id \in Seq(Byte) /\ Len(id) = 2
  <2>1. packet_id \in Nat /\ packet_id \div 256 <= 255
    BY FitsBytes
  <2>. QED
    BY <2>1, InTwoBytes
<1>2. /\ flat \in Seq(Byte) /\ TopicsLength(topics, extra) = 2 + Len(flat)
      /\ Reads(flat, 0, names, extra)
  BY TopicsTogether
<1>3. names \in Seq(Strs) /\ Len(names) = Len(topics) /\ <<>> \in Seq(Strs) /\ <<>> \o names = names
  <2>1. names \in Seq(Strs) /\ Len(names) = Len(topics)
    BY TopicsAreStrings
  <2>. HIDE DEF names
  <2>. QED
    BY <2>1
<1>. HIDE DEF id, flat, names
<1>4. Reads(id, 2, <<>>, extra)
  BY <1>1, ReadsNothing
<1>5. Reads(body, 2, <<>> \o names, extra)
  BY <1>1, <1>2, <1>3, <1>4, ReadsBoth
<1>6. body \in Seq(Byte) /\ Len(body) = TopicsLength(topics, extra)
  BY <1>1, <1>2, HoldsBoth
<1>. HIDE DEF body
<1>7. pkt = Packet(first, Len(body), body) /\ Len(body) \div 128^3 = 0
  BY <1>6, Zenon
<1>8. Reads(body, 2, names, extra) /\ 2 \in Nat
  BY <1>3, <1>5
<1>9. /\ EndsAt(header, pkt) = Len(pkt)
      /\ Strings(pkt, header.pos + 2, Len(names), extra) = [pos |-> Len(pkt), strings |-> names]
  <2>. DEFINE same == Packet(first, Len(body), body)
              its == mqtt_decode_fixed_header(same)
  <2>1. /\ EndsAt(its, same) = Len(same)
        /\ Strings(same, its.pos + 2, Len(names), extra) = [pos |-> Len(same), strings |-> names]
    BY <1>3, <1>6, <1>7, <1>8, PacketRead
  <2>2. same = pkt
    BY <1>7, Zenon
  <2>. HIDE DEF same, pkt
  <2>. QED
    BY <2>1, <2>2, Zenon
<1>. DEFINE read == Strings(pkt, header.pos + 2, Len(topics), extra)
<1>10. read.pos = Len(pkt) /\ read.strings = names
  <2>1. read = [pos |-> Len(pkt), strings |-> names]
    BY <1>3, <1>9
  <2>. HIDE DEF read, pkt
  <2>. QED
    BY <2>1
<1>. HIDE DEF pkt
<1>11. topics # <<>>
  OBVIOUS
<1>12. TopicsReadable(pkt, topics, extra)
  BY <1>9, <1>10, <1>11, Zenon DEF TopicsReadable, TopicNames, names
<1>. QED
  BY <1>12 DEF pkt, body, id, flat

\* What mqtt_encode_subscribe and mqtt_encode_unsubscribe write for the topics.
SubscribeParts(topics) == [i \in DOMAIN topics |-> Append(encode_string(topics[i].topic), topics[i].qos)]

UnsubscribeParts(topics) == [i \in DOMAIN topics |-> encode_string(topics[i].topic)]

\* They write each topic's string, and behind it one byte or none.
LEMMA PartsOf ==
  ASSUME NEW topics \in TopicList
  PROVE  /\ TopicParts(SubscribeParts(topics), topics, 1)
         /\ TopicParts(UnsubscribeParts(topics), topics, 0)
<1>. DEFINE n == Len(topics)
            str(i) == encode_string(topics[i].topic)
            sub == [i \in 1..n |-> Append(str(i), topics[i].qos)]
            uns == [i \in 1..n |-> str(i)]
<1>1. /\ n \in Nat /\ DOMAIN topics = 1..n
      /\ \A i \in 1..n : /\ topics[i].topic \in Strs /\ Len(topics[i].topic) \in Nat
                         /\ topics[i].qos \in 0..2
  BY TopicsAreStrings
<1>2. SubscribeParts(topics) = sub /\ UnsubscribeParts(topics) = uns
  BY <1>1 DEF SubscribeParts, UnsubscribeParts
<1>3. ASSUME NEW i \in 1..n
      PROVE  /\ str(i) \in Seq(Byte) /\ Len(str(i)) = 2 + Len(topics[i].topic)
             /\ Holds(str(i), 0, str(i))
             /\ Append(str(i), topics[i].qos) \in Seq(Byte)
             /\ Len(Append(str(i), topics[i].qos)) = 2 + Len(topics[i].topic) + 1
             /\ Holds(Append(str(i), topics[i].qos), 0, str(i))
  <2>. DEFINE s == str(i)
              q == topics[i].qos
              t == topics[i].topic
  <2>1. t \in Seq(Byte) /\ Fits(Len(t), 2) /\ Len(t) \in Nat
    BY <1>1 DEF Strs
  <2>2. s \in Seq(Byte) /\ Len(s) = 2 + Len(t)
    BY <2>1, StringEncoded
  <2>3. q \in Byte
    <3>1. \A x \in 0..2 : x \in Byte
      BY DEF Byte
    <3>. QED
      BY <1>1, <3>1
  <2>. HIDE DEF s, q, t
  <2>4. Append(s, q) = s \o <<q>> /\ <<q>> \in Seq(Byte) /\ Len(<<q>>) = 1
    BY <2>2, <2>3, AppendIsConcat
  <2>5. /\ s \o <<q>> \in Seq(Byte) /\ Len(s \o <<q>>) = (2 + Len(t)) + 1
        /\ Holds(s \o <<q>>, 0, s)
    <3>1. Sized(s, 2 + Len(t)) /\ <<q>> \in Seq(Byte)
      BY <2>2, <2>4 DEF Sized
    <3>2. /\ s \o <<q>> \in Seq(Byte) /\ Len(s \o <<q>>) = (2 + Len(t)) + Len(<<q>>)
          /\ Holds(s \o <<q>>, 0, s)
      BY <3>1, JoinedParts
    <3>. QED
      BY <2>4, <3>2
  <2>6. Holds(s, 0, s)
    BY <2>1, <2>2 DEF Holds
  <2>. QED
    BY <2>1, <2>2, <2>4, <2>5, <2>6 DEF s, q, t
<1>. HIDE DEF n, str
<1>4. sub \in Seq(Seq(Byte)) /\ Len(sub) = n /\ uns \in Seq(Seq(Byte)) /\ Len(uns) = n
  BY <1>1, <1>3
<1>5. \A i \in 1..n : sub[i] = Append(str(i), topics[i].qos) /\ uns[i] = str(i)
  OBVIOUS
<1>. HIDE DEF sub, uns
<1>6. ASSUME NEW i \in 1..n
      PROVE  /\ Len(sub[i]) = 2 + Len(topics[i].topic) + 1
             /\ Holds(sub[i], 0, encode_string(topics[i].topic))
             /\ Len(uns[i]) = 2 + Len(topics[i].topic) + 0
             /\ Holds(uns[i], 0, encode_string(topics[i].topic))
  <2>1. Len(uns[i]) = 2 + Len(topics[i].topic) + 0
    BY <1>1, <1>3, <1>5
  <2>2. Len(sub[i]) = 2 + Len(topics[i].topic) + 1
    BY <1>3, <1>5
  <2>. QED
    BY <1>3, <1>5, <2>1, <2>2, Zenon DEF str
<1>7. TopicParts(sub, topics, 1) /\ TopicParts(uns, topics, 0)
  BY <1>4, <1>6 DEF TopicParts, n
<1>. QED
  BY <1>2, <1>7

\* The length of an UNSUBSCRIBE packet is not greater than that of a SUBSCRIBE packet.
LEMMA LessWithoutExtra ==
  ASSUME NEW topics \in TopicList, TopicsLength(topics, 1) < 128^3
  PROVE  /\ TopicsLength(topics, 1) \div 128^3 = 0
         /\ TopicsLength(topics, 0) \div 128^3 = 0
<1>. DEFINE n == Len(topics)
<1>1. n \in Nat /\ \A i \in 1..n : Len(topics[i].topic) \in Nat
  BY TopicsAreStrings
<1>2. PICK g : /\ g[{}] = 0
               /\ \A k \in 1..n : g[1..k] = g[1..(k-1)] + 2 + Len(topics[k].topic) + 1
               /\ TopicsLength(topics, 1) = 2 + g[1..n]
  BY TopicsRounds
<1>3. PICK h : /\ h[{}] = 0
               /\ \A k \in 1..n : h[1..k] = h[1..(k-1)] + 2 + Len(topics[k].topic) + 0
               /\ TopicsLength(topics, 0) = 2 + h[1..n]
  BY TopicsRounds
<1>. DEFINE N == {k \in Nat : k <= n => g[1..k] \in Nat /\ h[1..k] \in Nat /\ h[1..k] <= g[1..k]}
<1>. HIDE DEF n
<1>4. 0 \in N
  <2>1. 1..0 = {}
    OBVIOUS
  <2>. QED
    BY <1>2, <1>3, <2>1
<1>5. ASSUME NEW k \in Nat, k \in N
      PROVE  k + 1 \in N
  <2>. SUFFICES ASSUME k + 1 <= n
                PROVE  g[1..(k+1)] \in Nat /\ h[1..(k+1)] \in Nat /\ h[1..(k+1)] <= g[1..(k+1)]
    OBVIOUS
  <2>. DEFINE w == Len(topics[k+1].topic)
              x == g[1..k]
              y == h[1..k]
  <2>1. k + 1 \in 1..n /\ (k + 1) - 1 = k /\ k <= n
    BY <1>1
  <2>2. g[1..(k+1)] = x + 2 + w + 1 /\ h[1..(k+1)] = y + 2 + w + 0
    BY <1>2, <1>3, <2>1
  <2>3. x \in Nat /\ y \in Nat /\ y <= x /\ w \in Nat
    BY <1>1, <1>5, <2>1
  <2>. HIDE DEF w, x, y
  <2>. QED
    BY <2>2, <2>3
<1>. HIDE DEF N
<1>6. Nat \subseteq N
  BY <1>4, <1>5, Induction
<1>7. g[1..n] \in Nat /\ h[1..n] \in Nat /\ h[1..n] <= g[1..n]
  BY <1>1, <1>6 DEF N
<1>8. \A x, y \in Nat : y <= x /\ 2 + x < 128^3 => (2 + x) \div 128^3 = 0 /\ (2 + y) \div 128^3 = 0
  BY SMT
<1>9. 2 + g[1..n] < 128^3
  BY <1>2, Zenon
<1>10. (2 + g[1..n]) \div 128^3 = 0 /\ (2 + h[1..n]) \div 128^3 = 0
  BY <1>7, <1>8, <1>9, Zenon
<1>. QED
  BY <1>2, <1>3, <1>10, Zenon

\* The topics of a sample can be read.
LEMMA TopicsHold ==
  ASSUME SampleType, sample.kind = "topics"
  PROVE  /\ TopicsReadable(mqtt_encode_subscribe(sample.packet_id, sample.topics), sample.topics, 1)
         /\ TopicsReadable(mqtt_encode_unsubscribe(sample.packet_id, sample.topics), sample.topics, 0)
<1>. DEFINE topics == sample.topics
            packet_id == sample.packet_id
<1>1. topics \in TopicList /\ Fits(packet_id, 2) /\ TopicsLength(topics, 1) < 128^3
  <2>1. sample \in TopicLists
    BY Kinds
  <2>2. Fits(packet_id, 2) /\ TopicsLength(topics, 1) < 128^3
    BY <2>1, TopicListsAssumption, Zenon
  <2>3. topics \in TopicList
    BY <2>1, TopicListsAssumption DEF TopicList
  <2>. QED
    BY <2>2, <2>3
<1>2. TopicsLength(topics, 1) \div 128^3 = 0 /\ TopicsLength(topics, 0) \div 128^3 = 0
  BY <1>1, LessWithoutExtra
<1>3. TopicParts(SubscribeParts(topics), topics, 1) /\ TopicParts(UnsubscribeParts(topics), topics, 0)
  BY <1>1, PartsOf
<1>. HIDE DEF topics, packet_id
<1>4. CASE topics = <<>>
  BY <1>4, Zenon DEF TopicsReadable, mqtt_encode_subscribe, mqtt_encode_unsubscribe, topics, packet_id
<1>5. CASE topics # <<>>
  <2>1. Len(topics) # 0
    BY <1>1, <1>5 DEF TopicList
  <2>. DEFINE sub == 16 * MQTT_SUBSCRIBE + 2
              uns == 16 * MQTT_UNSUBSCRIBE + 2
  <2>2. sub \in Byte /\ uns \in Byte
    BY SMT DEF Byte, MQTT_SUBSCRIBE, MQTT_UNSUBSCRIBE
  <2>3. /\ mqtt_encode_subscribe(packet_id, topics) =
             Packet(sub, TopicsLength(topics, 1),
                    BigEndian(packet_id, 2) \o FlattenSeq(SubscribeParts(topics)))
        /\ mqtt_encode_unsubscribe(packet_id, topics) =
             Packet(uns, TopicsLength(topics, 0),
                    BigEndian(packet_id, 2) \o FlattenSeq(UnsubscribeParts(topics)))
    BY <1>5, Zenon DEF mqtt_encode_subscribe, mqtt_encode_unsubscribe, SubscribeParts, UnsubscribeParts
  <2>. HIDE DEF sub, uns
  <2>4. 0 \in Nat /\ 1 \in Nat
    OBVIOUS
  <2>5. TopicsReadable(
          Packet(sub, TopicsLength(topics, 1),
                 BigEndian(packet_id, 2) \o FlattenSeq(SubscribeParts(topics))), topics, 1)
    BY <1>1, <1>2, <1>3, <2>1, <2>2, <2>4, TopicsPacket, Zenon
  <2>6. TopicsReadable(
          Packet(uns, TopicsLength(topics, 0),
                 BigEndian(packet_id, 2) \o FlattenSeq(UnsubscribeParts(topics))), topics, 0)
    BY <1>1, <1>2, <1>3, <2>1, <2>2, <2>4, TopicsPacket, Zenon
  <2>. QED
    BY <2>3, <2>5, <2>6 DEF topics, packet_id
<1>. QED
  BY <1>4, <1>5

\* A packet without a body.
LEMMA SimplePackets ==
  ASSUME NEW type \in {12, 13, 14}
  PROVE  LET simple == mqtt_encode_simple_packet(type)
         IN  mqtt_decode_fixed_header(simple) =
               [type |-> type, dup |-> FALSE, qos |-> 0, retain |-> FALSE,
                remaining_length |-> 0, pos |-> Len(simple)]
<1>. DEFINE first == 16 * type
            simple == <<first, 0>>
            left == Tail(simple)
<1>1. /\ first \div 16 = type /\ (first \div 8) % 2 # 1 /\ (first \div 2) % 4 = 0 /\ first % 2 # 1
      /\ first \in Byte
  BY SMT DEF Byte
<1>. HIDE DEF first
<1>2. /\ Len(simple) = 2 /\ simple[1] = first /\ left = <<0>>
  OBVIOUS
<1>3. <<0>> \in Seq(Byte) /\ Len(<<0>>) = 1 /\ <<0>>[1] = 0
  BY DEF Byte
<1>. DEFINE zero == <<0>>
            got == decode_remaining_length(zero)
<1>4. got = [decoded |-> 1, value |-> SevenBits(zero, 1)]
  <2>1. 1 \in 1..3 /\ 1 <= Len(zero) /\ zero[1] < 128 /\ \A i \in 1..(1-1) : zero[i] >= 128
    BY <1>3
  <2>. QED
    BY <1>3, <2>1, LengthDecoded
<1>5. SevenBits(zero, 1) = 0
  BY <1>3, SMT DEF SevenBits
<1>6. got = [decoded |-> 1, value |-> 0]
  BY <1>4, <1>5
<1>7. got # Failed
  <2>1. [decoded |-> 1, value |-> 0] \in [decoded : Nat, value : Nat]
    OBVIOUS
  <2>. QED
    BY <1>6, <2>1, ConstantsDiffer, Zenon
<1>8. got.decoded + 1 = 2 /\ got.value = 0
  BY <1>6
<1>. HIDE DEF simple, left, got
<1>9. decode_remaining_length(Tail(simple)) = got
  BY <1>2 DEF left, got
<1>10. ~ (Len(simple) < 2 \/ decode_remaining_length(Tail(simple)) = Failed)
  BY <1>2, <1>7, <1>9
<1>11. mqtt_decode_fixed_header(simple) =
         [type |-> simple[1] \div 16, dup |-> (simple[1] \div 8) % 2 = 1,
          qos |-> (simple[1] \div 2) % 4, retain |-> simple[1] % 2 = 1,
          remaining_length |-> got.value, pos |-> got.decoded + 1]
  BY <1>9, <1>10, Zenon DEF mqtt_decode_fixed_header
<1>12. ((first \div 8) % 2 = 1) = FALSE /\ (first % 2 = 1) = FALSE
  BY <1>1, Zenon
<1>13. mqtt_decode_fixed_header(simple) =
         [type |-> type, dup |-> FALSE, qos |-> 0, retain |-> FALSE,
          remaining_length |-> 0, pos |-> Len(simple)]
  BY <1>1, <1>2, <1>8, <1>11, <1>12, Zenon
<1>14. mqtt_encode_simple_packet(type) = simple
  BY DEF mqtt_encode_simple_packet, simple, first
<1>. QED
  BY <1>13, <1>14, Zenon

\* The flags, from their bits and the quality of service of the will.
FlagSum(clean, will, qos, keep, user, pass) ==
  2 * clean + (IF will = 1 THEN 4 + 8 * qos + 32 * keep ELSE 0) + 128 * user + 64 * pass

\* Each bit is where it was put.
LEMMA FlagBits ==
  ASSUME NEW clean \in 0..1, NEW will \in 0..1, NEW qos \in 0..2, NEW keep \in 0..1,
         NEW user \in 0..1, NEW pass \in 0..1
  PROVE  LET sum == FlagSum(clean, will, qos, keep, user, pass)
         IN  /\ sum \in Byte
             /\ (sum \div 128) % 2 = user /\ (sum \div 64) % 2 = pass /\ (sum \div 4) % 2 = will
             /\ will = 1 => (sum \div 8) % 4 = qos
<1>. DEFINE sum == FlagSum(clean, will, qos, keep, user, pass)
            low == 2 * clean + (IF will = 1 THEN 4 + 8 * qos + 32 * keep ELSE 0)
<1>1. /\ low \in 0..63 /\ (low \div 4) % 2 = will
      /\ will = 1 => (low \div 8) % 4 = qos
  <2>1. CASE will = 0
    BY <2>1, SMT
  <2>2. CASE will = 1
    <3>1. 2 * clean + (4 + 8 * qos + 32 * keep) \in 0..63
      OBVIOUS
    <3>2. (2 * clean + (4 + 8 * qos + 32 * keep)) \div 8 = qos + 4 * keep
      BY SMT
    <3>3. (2 * clean + (4 + 8 * qos + 32 * keep)) \div 4 = 1 + 2 * (qos + 4 * keep)
      BY SMT
    <3>. QED
      BY <2>2, <3>1, <3>2, <3>3, SMT
  <2>. QED
    BY <2>1, <2>2
<1>2. sum = low + 64 * (2 * user + pass)
  BY SMT DEF FlagSum
<1>. HIDE DEF sum, low
<1>3. sum \div 64 = 2 * user + pass /\ sum \div 128 = user /\ sum \in Byte
  BY <1>1, <1>2, SMT DEF Byte
<1>4. sum \div 4 = low \div 4 + 2 * (8 * (2 * user + pass))
  BY <1>1, <1>2, SMT
<1>5. sum \div 8 = low \div 8 + 4 * (2 * (2 * user + pass))
  BY <1>1, <1>2, SMT
<1>6. \A x, y \in Nat : (x + 2 * y) % 2 = x % 2 /\ (x + 4 * y) % 4 = x % 4
  BY SMT
<1>7. low \div 4 \in Nat /\ low \div 8 \in Nat
  BY <1>1, SMT
<1>8. (sum \div 4) % 2 = will /\ (will = 1 => (sum \div 8) % 4 = qos)
  <2>1. 8 * (2 * user + pass) \in Nat /\ 2 * (2 * user + pass) \in Nat
    OBVIOUS
  <2>. QED
    BY <1>1, <1>4, <1>5, <1>6, <1>7, <2>1
<1>9. (sum \div 64) % 2 = pass /\ (sum \div 128) % 2 = user
  <2>1. (2 * user + pass) % 2 = pass /\ user % 2 = user
    BY SMT
  <2>. QED
    BY <1>3, <2>1
<1>. QED
  BY <1>3, <1>8, <1>9 DEF sum

\* b has len bytes, the first at of them followed by the strings of strs, count
\* of them.
Fields(b, at, strs, len, count) ==
  /\ b \in Seq(Byte) /\ strs \in Seq(Strs) /\ Reads(b, at, strs, 0)
  /\ Len(b) = len /\ len \in Nat /\ Len(strs) = count /\ count \in Nat

\* Fields are put behind fields.
LEMMA FieldsBoth ==
  ASSUME NEW b, NEW c, NEW at, NEW strs, NEW more, NEW len, NEW size, NEW count, NEW added,
         Fields(b, at, strs, len, count), Fields(c, 0, more, size, added)
  PROVE  Fields(b \o c, at, strs \o more, len + size, count + added)
<1>1. /\ b \in Seq(Byte) /\ strs \in Seq(Strs) /\ Reads(b, at, strs, 0)
      /\ Len(b) = len /\ len \in Nat /\ Len(strs) = count /\ count \in Nat
  BY DEF Fields
<1>2. /\ c \in Seq(Byte) /\ more \in Seq(Strs) /\ Reads(c, 0, more, 0)
      /\ Len(c) = size /\ size \in Nat /\ Len(more) = added /\ added \in Nat
  BY DEF Fields
<1>3. Reads(b \o c, at, strs \o more, 0)
  BY <1>1, <1>2, ReadsBoth
<1>4. b \o c \in Seq(Byte) /\ Len(b \o c) = len + size
  BY <1>1, <1>2, HoldsBoth
<1>5. strs \o more \in Seq(Strs) /\ Len(strs \o more) = count + added
  BY <1>1, <1>2, HoldsBoth
<1>6. len + size \in Nat /\ count + added \in Nat
  BY <1>1, <1>2
<1>. QED
  BY <1>3, <1>4, <1>5, <1>6 DEF Fields

\* One string is a field.
LEMMA OneField ==
  ASSUME NEW str \in Strs
  PROVE  Fields(encode_string(str), 0, <<str>>, 2 + Len(str), 1)
<1>1. str \in Seq(Byte) /\ Fits(Len(str), 2) /\ Len(str) \in Nat
  BY LenProperties DEF Strs
<1>. DEFINE e == encode_string(str)
<1>2. e \in Seq(Byte) /\ Len(e) = 2 + Len(str)
  BY <1>1, StringEncoded
<1>. HIDE DEF e
<1>3. Holds(e, 0, e) /\ Len(e) = 2 + Len(str) + 0
  BY <1>1, <1>2 DEF Holds
<1>4. Reads(e, 0, <<str>>, 0)
  BY <1>2, <1>3, ReadsOne DEF e
<1>5. <<str>> \in Seq(Strs) /\ Len(<<str>>) = 1 /\ 2 + Len(str) \in Nat /\ 1 \in Nat
  BY <1>1
<1>. QED
  BY <1>2, <1>4, <1>5 DEF Fields, e

\* No string is none.
LEMMA NoField == Fields(<<>>, 0, <<>>, 0, 0)
<1>1. <<>> \in Seq(Byte) /\ <<>> \in Seq(Strs) /\ Len(<<>>) = 0 /\ 0 \in Nat
  OBVIOUS
<1>2. Reads(<<>>, 0, <<>>, 0)
  BY <1>1, ReadsNothing
<1>. QED
  BY <1>1, <1>2 DEF Fields

\* A string that is given under a condition.
LEMMA GivenField ==
  ASSUME NEW given \in BOOLEAN, NEW str, given => str \in Strs
  PROVE  Fields(IF given THEN encode_string(str) ELSE <<>>, 0, IF given THEN <<str>> ELSE <<>>,
                IF given THEN 2 + Len(str) ELSE 0, Bit(given))
<1>1. CASE given
  <2>1. Fields(encode_string(str), 0, <<str>>, 2 + Len(str), 1) /\ Bit(given) = 1
    BY <1>1, OneField DEF Bit
  <2>. QED
    BY <1>1, <2>1, Zenon
<1>2. CASE ~ given
  <2>1. Bit(given) = 0
    BY <1>2 DEF Bit
  <2>. QED
    BY <1>2, <2>1, NoField, Zenon
<1>. QED
  BY <1>1, <1>2

\* Two strings put together.
LEMMA PairOf ==
  ASSUME NEW S, NEW x \in S, NEW y \in S
  PROVE  <<x>> \o <<y>> = <<x, y>>
<1>1. <<x>> \in Seq(S) /\ <<y>> \in Seq(S) /\ Len(<<x>>) = 1 /\ Len(<<y>>) = 1
  OBVIOUS
<1>. DEFINE both == <<x>> \o <<y>>
            pair == <<x, y>>
<1>2. pair \in Seq(S) /\ Len(pair) = 2 /\ pair[1] = x /\ pair[2] = y
  OBVIOUS
<1>3. /\ both \in Seq(S) /\ Len(both) = 1 + 1
      /\ Holds(both, 0, <<x>>) /\ Holds(both, 1, <<y>>)
  BY <1>1, HoldsBoth
<1>. DEFINE one == <<x>>
            other == <<y>>
<1>4. both[0 + 1] = x /\ both[1 + 1] = y
  <2>1. one[1] = x /\ other[1] = y /\ 1 \in 1..Len(one) /\ 1 \in 1..Len(other)
    OBVIOUS
  <2>. HIDE DEF both, one, other
  <2>2. both[0 + 1] = one[1] /\ both[1 + 1] = other[1]
    BY <1>3, <2>1 DEF Holds, one, other
  <2>. QED
    BY <2>1, <2>2
<1>. HIDE DEF both, pair
<1>5. \A i \in 1..2 : both[i] = pair[i]
  BY <1>2, <1>4
<1>6. both = pair
  BY <1>2, <1>3, <1>5, SeqEqual
<1>. QED
  BY <1>6 DEF both, pair

\* The two strings of a will.
LEMMA WillFields ==
  ASSUME NEW given \in BOOLEAN, NEW topic, NEW message, given => topic \in Strs /\ message \in Strs
  PROVE  Fields(IF given THEN encode_string(topic) \o encode_string(message) ELSE <<>>, 0,
                IF given THEN <<topic, message>> ELSE <<>>,
                IF given THEN 2 + Len(topic) + 2 + Len(message) ELSE 0, 2 * Bit(given))
<1>1. CASE given
  <2>1. /\ Fields(encode_string(topic), 0, <<topic>>, 2 + Len(topic), 1)
        /\ Fields(encode_string(message), 0, <<message>>, 2 + Len(message), 1)
    BY <1>1, OneField
  <2>2. Fields(encode_string(topic) \o encode_string(message), 0, <<topic>> \o <<message>>,
               (2 + Len(topic)) + (2 + Len(message)), 1 + 1)
    BY <2>1, FieldsBoth
  <2>3. <<topic>> \o <<message>> = <<topic, message>>
    BY <1>1, PairOf
  <2>. DEFINE t == Len(topic)
              m == Len(message)
  <2>4. t \in Nat /\ m \in Nat
    BY <1>1, LenProperties DEF Strs
  <2>. HIDE DEF t, m
  <2>5. (2 + t) + (2 + m) = 2 + t + 2 + m
    BY <2>4
  <2>6. 1 + 1 = 2 * Bit(given)
    BY <1>1 DEF Bit
  <2>7. Fields(encode_string(topic) \o encode_string(message), 0, <<topic, message>>,
               2 + Len(topic) + 2 + Len(message), 2 * Bit(given))
    BY <2>2, <2>3, <2>5, <2>6, Zenon DEF t, m
  <2>. QED
    BY <1>1, <2>7, Zenon
<1>2. CASE ~ given
  <2>1. 2 * Bit(given) = 0
    BY <1>2 DEF Bit
  <2>. QED
    BY <1>2, <2>1, NoField, Zenon
<1>. QED
  BY <1>1, <1>2

\* The first ten bytes behind the header of a CONNECT packet.
ConnectHead(options) ==
  <<0, 4, 77, 81, 84, 84, 4, ConnectFlags(options)>> \o BigEndian(options.keep_alive, 2)

\* All of it, in the order of mqtt_encode_connect.
ConnectBody(options) ==
  ConnectHead(options)
    \o encode_string(options.client_id)
    \o (IF HasWill(options)
        THEN encode_string(options.will_topic) \o encode_string(options.will_message) ELSE <<>>)
    \o (IF options.username # NULL THEN encode_string(options.username) ELSE <<>>)
    \o (IF HasPassword(options) THEN encode_string(options.password) ELSE <<>>)

\* The options of a sample, their strings bytes that can be encoded.
ConnectType(options) ==
  /\ options.client_id \in Strs
  /\ \A str \in {options.username, options.password, options.will_topic, options.will_message} :
       str \in Strs \cup {NULL}
  /\ options.will_qos \in 0..2 /\ options.will_retain \in BOOLEAN
  /\ options.clean_session \in BOOLEAN /\ Fits(options.keep_alive, 2)

\* The flags of a CONNECT packet.
LEMMA ConnectFlagBits ==
  ASSUME NEW options, ConnectType(options)
  PROVE  /\ ConnectFlags(options) \in Byte
         /\ (ConnectFlags(options) \div 128) % 2 = Bit(options.username # NULL)
         /\ (ConnectFlags(options) \div 64) % 2 = Bit(HasPassword(options))
         /\ (ConnectFlags(options) \div 4) % 2 = Bit(HasWill(options))
         /\ Bit(HasWill(options)) = 1 => (ConnectFlags(options) \div 8) % 4 = options.will_qos
<1>. DEFINE c == Bit(options.clean_session)
            w == Bit(HasWill(options))
            q == options.will_qos
            k == Bit(options.will_retain)
            u == Bit(options.username # NULL)
            p == Bit(HasPassword(options))
<1>1. c \in 0..1 /\ w \in 0..1 /\ k \in 0..1 /\ u \in 0..1 /\ p \in 0..1
  BY DEF Bit
<1>2. q \in 0..2
  BY DEF ConnectType
<1>3. HasWill(options) <=> w = 1
  BY DEF Bit
<1>4. ConnectFlags(options) =
        2 * c + (IF HasWill(options) THEN 4 + 8 * q + 32 * k ELSE 0) + 128 * u + 64 * p
  BY Zenon DEF ConnectFlags
<1>. HIDE DEF c, w, q, k, u, p
<1>5. (IF HasWill(options) THEN 4 + 8 * q + 32 * k ELSE 0) = IF w = 1 THEN 4 + 8 * q + 32 * k ELSE 0
  BY <1>3, Zenon
<1>6. ConnectFlags(options) = FlagSum(c, w, q, k, u, p)
  BY <1>4, <1>5, Zenon DEF FlagSum
<1>7. /\ FlagSum(c, w, q, k, u, p) \in Byte
      /\ (FlagSum(c, w, q, k, u, p) \div 128) % 2 = u
      /\ (FlagSum(c, w, q, k, u, p) \div 64) % 2 = p
      /\ (FlagSum(c, w, q, k, u, p) \div 4) % 2 = w
      /\ w = 1 => (FlagSum(c, w, q, k, u, p) \div 8) % 4 = q
  BY <1>1, <1>2, FlagBits
<1>. HIDE DEF FlagSum
<1>. QED
  BY <1>6, <1>7 DEF w, q, u, p

\* The ten bytes in front of the strings of a CONNECT packet.
LEMMA ConnectHeadFields ==
  ASSUME NEW options, ConnectType(options)
  PROVE  /\ Fields(ConnectHead(options), 10, <<>>, 10, 0)
         /\ ConnectHead(options)[8] = ConnectFlags(options)
<1>. DEFINE flags == ConnectFlags(options)
            eight == <<0, 4, 77, 81, 84, 84, 4, flags>>
            keep == BigEndian(options.keep_alive, 2)
            head == eight \o keep
<1>1. flags \in Byte
  BY ConnectFlagBits
<1>. HIDE DEF flags
<1>2. eight \in Seq(Byte) /\ Len(eight) = 8 /\ eight[8] = flags
  <2>1. 0 \in Byte /\ 4 \in Byte /\ 77 \in Byte /\ 81 \in Byte /\ 84 \in Byte
    BY SMT DEF Byte
  <2>. QED
    BY <1>1, <2>1, SMT
<1>3. keep \in Seq(Byte) /\ Len(keep) = 2
  <2>1. options.keep_alive \in Nat /\ options.keep_alive \div 256 <= 255
    BY FitsBytes DEF ConnectType
  <2>. QED
    BY <2>1, InTwoBytes
<1>. HIDE DEF eight, keep
<1>4. head \in Seq(Byte) /\ Len(head) = 8 + 2 /\ Holds(head, 0, eight)
  BY <1>2, <1>3, HoldsBoth
<1>5. head[8] = flags
  <2>1. 8 \in 1..Len(eight) /\ 0 + 8 = 8
    BY <1>2
  <2>2. head[0 + 8] = eight[8]
    BY <1>4, <2>1 DEF Holds
  <2>. QED
    BY <1>2, <2>1, <2>2
<1>6. Len(head) = 10 /\ 10 \in Nat /\ 0 \in Nat
  BY <1>4
<1>. HIDE DEF head
<1>7. Reads(head, 10, <<>>, 0)
  BY <1>4, <1>6, ReadsNothing
<1>8. <<>> \in Seq(Strs) /\ Len(<<>>) = 0
  OBVIOUS
<1>9. Fields(head, 10, <<>>, 10, 0)
  BY <1>4, <1>6, <1>7, <1>8 DEF Fields
<1>10. ConnectHead(options) = head
  BY Zenon DEF ConnectHead, head, eight, keep, flags
<1>. QED
  BY <1>5, <1>9, <1>10 DEF flags

\* Five strings and ten bytes are not 2 MB.
LEMMA ShortConnect ==
  ASSUME NEW a \in Nat, NEW b \in Nat, NEW c \in Nat, NEW d \in Nat, NEW e \in Nat,
         a \div 256 <= 255, b \div 256 <= 255, c \div 256 <= 255, d \div 256 <= 255, e \div 256 <= 255,
         NEW w \in BOOLEAN, NEW u \in BOOLEAN, NEW p \in BOOLEAN
  PROVE  (10 + 2 + a + (IF w THEN 2 + b + 2 + c ELSE 0) + (IF u THEN 2 + d ELSE 0)
            + (IF p THEN 2 + e ELSE 0)) \div 128^3 = 0
<1>1. a <= 65535 /\ b <= 65535 /\ c <= 65535 /\ d <= 65535 /\ e <= 65535
  BY SMT
<1>. DEFINE sum == 10 + 2 + a + (IF w THEN 2 + b + 2 + c ELSE 0) + (IF u THEN 2 + d ELSE 0)
                     + (IF p THEN 2 + e ELSE 0)
<1>2. sum \in Nat /\ sum <= 400000
  BY <1>1, SMT
<1>. HIDE DEF sum
<1>3. sum \div 128^3 = 0
  BY <1>2, SMT
<1>. QED
  BY <1>3 DEF sum

\* The length of a string that can be encoded, whether or not it is given.
LEMMA GivenLength ==
  ASSUME NEW given \in BOOLEAN, NEW str, given => str \in Strs
  PROVE  \E len \in Nat : len \div 256 <= 255 /\ (given => Len(str) = len)
<1>1. CASE given
  BY <1>1, FitsBytes, LenProperties DEF Strs
<1>2. CASE ~ given
  <2>1. 0 \in Nat /\ 0 \div 256 <= 255
    BY SMT
  <2>. QED
    BY <1>2, <2>1
<1>. QED
  BY <1>1, <1>2

\* Which strings are given, and that they can be encoded.
LEMMA ConnectGiven ==
  ASSUME NEW options, ConnectType(options)
  PROVE  /\ options.client_id \in Strs
         /\ HasWill(options) => options.will_topic \in Strs /\ options.will_message \in Strs
         /\ options.username # NULL => options.username \in Strs
         /\ HasPassword(options) => options.password \in Strs
         /\ HasWill(options) \in BOOLEAN /\ (options.username # NULL) \in BOOLEAN
         /\ HasPassword(options) \in BOOLEAN
<1>1. /\ options.client_id \in Strs
      /\ \A str \in {options.username, options.password, options.will_topic, options.will_message} :
           str \in Strs \cup {NULL}
  BY DEF ConnectType
<1>. QED
  BY <1>1, Zenon DEF HasWill, HasPassword

\* A CONNECT packet is as long as it was summed up, which is below 2 MB.
LEMMA ConnectShort ==
  ASSUME NEW options, ConnectType(options)
  PROVE  ConnectLength(options) \div 128^3 = 0
<1>. DEFINE w == HasWill(options)
            u == options.username # NULL
            p == HasPassword(options)
<1>1. /\ options.client_id \in Strs
      /\ w => options.will_topic \in Strs /\ options.will_message \in Strs
      /\ u => options.username \in Strs
      /\ p => options.password \in Strs
      /\ w \in BOOLEAN /\ u \in BOOLEAN /\ p \in BOOLEAN
  BY ConnectGiven
<1>. HIDE DEF w, u, p
<1>2. PICK a \in Nat : a \div 256 <= 255 /\ Len(options.client_id) = a
  BY <1>1, GivenLength
<1>3. PICK b \in Nat : b \div 256 <= 255 /\ (w => Len(options.will_topic) = b)
  BY <1>1, GivenLength
<1>4. PICK c \in Nat : c \div 256 <= 255 /\ (w => Len(options.will_message) = c)
  BY <1>1, GivenLength
<1>5. PICK d \in Nat : d \div 256 <= 255 /\ (u => Len(options.username) = d)
  BY <1>1, GivenLength
<1>6. PICK e \in Nat : e \div 256 <= 255 /\ (p => Len(options.password) = e)
  BY <1>1, GivenLength
<1>7. (10 + 2 + a + (IF w THEN 2 + b + 2 + c ELSE 0) + (IF u THEN 2 + d ELSE 0)
         + (IF p THEN 2 + e ELSE 0)) \div 128^3 = 0
  BY <1>1, <1>2, <1>3, <1>4, <1>5, <1>6, ShortConnect
<1>8. (IF w THEN 2 + Len(options.will_topic) + 2 + Len(options.will_message) ELSE 0)
        = IF w THEN 2 + b + 2 + c ELSE 0
  BY <1>3, <1>4, Zenon
<1>9. (IF u THEN 2 + Len(options.username) ELSE 0) = IF u THEN 2 + d ELSE 0
  BY <1>5, Zenon
<1>10. (IF p THEN 2 + Len(options.password) ELSE 0) = IF p THEN 2 + e ELSE 0
  BY <1>6, Zenon
<1>11. ConnectLength(options) = 10 + 2 + Len(options.client_id)
         + (IF w THEN 2 + Len(options.will_topic) + 2 + Len(options.will_message) ELSE 0)
         + (IF u THEN 2 + Len(options.username) ELSE 0)
         + (IF p THEN 2 + Len(options.password) ELSE 0)
  BY Zenon DEF ConnectLength, w, u, p
<1>12. ConnectLength(options) =
         10 + 2 + a + (IF w THEN 2 + b + 2 + c ELSE 0) + (IF u THEN 2 + d ELSE 0)
           + (IF p THEN 2 + e ELSE 0)
  BY <1>2, <1>8, <1>9, <1>10, <1>11, Zenon
<1>. QED
  BY <1>7, <1>12, Zenon

\* The parts of a CONNECT packet.
LEMMA ConnectFields ==
  ASSUME NEW options, ConnectType(options)
  PROVE  /\ Fields(ConnectBody(options), 10, ConnectStrings(options), ConnectLength(options),
                   1 + 2 * Bit(HasWill(options)) + Bit(options.username # NULL)
                     + Bit(HasPassword(options)))
         /\ 8 \in 1..Len(ConnectBody(options)) /\ ConnectBody(options)[8] = ConnectFlags(options)
<1>. DEFINE w == HasWill(options)
            u == options.username # NULL
            p == HasPassword(options)
            head == ConnectHead(options)
            id == encode_string(options.client_id)
            will == IF w THEN encode_string(options.will_topic) \o encode_string(options.will_message)
                    ELSE <<>>
            user == IF u THEN encode_string(options.username) ELSE <<>>
            pass == IF p THEN encode_string(options.password) ELSE <<>>
            wills == IF w THEN <<options.will_topic, options.will_message>> ELSE <<>>
            users == IF u THEN <<options.username>> ELSE <<>>
            passes == IF p THEN <<options.password>> ELSE <<>>
            lw == IF w THEN 2 + Len(options.will_topic) + 2 + Len(options.will_message) ELSE 0
            lu == IF u THEN 2 + Len(options.username) ELSE 0
            lp == IF p THEN 2 + Len(options.password) ELSE 0
            ids == <<options.client_id>>
            li == Len(options.client_id)
            cw == 2 * Bit(w)
            cu == Bit(u)
            cp == Bit(p)
<1>1. /\ options.client_id \in Strs
      /\ w => options.will_topic \in Strs /\ options.will_message \in Strs
      /\ u => options.username \in Strs
      /\ p => options.password \in Strs
      /\ w \in BOOLEAN /\ u \in BOOLEAN /\ p \in BOOLEAN
  BY ConnectGiven
<1>. HIDE DEF w, u, p
<1>2. Fields(head, 10, <<>>, 10, 0) /\ head[8] = ConnectFlags(options)
  BY ConnectHeadFields
<1>3. Fields(id, 0, ids, 2 + li, 1)
  BY <1>1, OneField
<1>4. Fields(will, 0, wills, lw, cw)
  BY <1>1, WillFields
<1>5. Fields(user, 0, users, lu, cu)
  BY <1>1, GivenField
<1>6. Fields(pass, 0, passes, lp, cp)
  BY <1>1, GivenField
<1>7. li \in Nat /\ ids \in Seq(Strs)
  BY <1>1, LenProperties DEF Strs
<1>. HIDE DEF head, id, will, user, pass, wills, users, passes, lw, lu, lp, ids, li, cw, cu, cp
<1>. DEFINE b1 == head \o id
            b2 == b1 \o will
            b3 == b2 \o user
            b4 == b3 \o pass
            s1 == <<>> \o ids
            s2 == s1 \o wills
            s3 == s2 \o users
            s4 == s3 \o passes
<1>8. Fields(b1, 10, s1, 10 + (2 + li), 0 + 1)
  BY <1>2, <1>3, FieldsBoth
<1>9. Fields(b2, 10, s2, (10 + (2 + li)) + lw, (0 + 1) + cw)
  BY <1>4, <1>8, FieldsBoth
<1>10. Fields(b3, 10, s3, ((10 + (2 + li)) + lw) + lu, ((0 + 1) + cw) + cu)
  BY <1>5, <1>9, FieldsBoth
<1>11. Fields(b4, 10, s4, (((10 + (2 + li)) + lw) + lu) + lp, (((0 + 1) + cw) + cu) + cp)
  BY <1>6, <1>10, FieldsBoth
<1>12. s1 = ids
  BY <1>7
<1>13. 10 + (2 + li) = 10 + 2 + li /\ 0 + 1 = 1
  BY <1>7
<1>14. ConnectStrings(options) = ids \o wills \o users \o passes
  BY Zenon DEF ConnectStrings, ids, wills, users, passes, w, u, p
<1>15. ConnectBody(options) = b4
  BY Zenon DEF ConnectBody, head, id, will, user, pass, w, u, p
<1>16. ConnectLength(options) = 10 + 2 + li + lw + lu + lp
  BY Zenon DEF ConnectLength, li, lw, lu, lp, w, u, p
<1>17. Fields(ConnectBody(options), 10, ConnectStrings(options), ConnectLength(options), 1 + cw + cu + cp)
  BY <1>11, <1>12, <1>13, <1>14, <1>15, <1>16, Zenon
<1>18. b4[8] = head[8] /\ 8 \in 1..Len(b4)
  <2>1. head \in Seq(Byte) /\ Len(head) = 10 /\ id \in Seq(Byte)
    BY <1>2, <1>3 DEF Fields
  <2>2. will \in Seq(Byte) /\ user \in Seq(Byte) /\ pass \in Seq(Byte)
    BY <1>4, <1>5, <1>6 DEF Fields
  <2>3. b1 \in Seq(Byte) /\ b2 \in Seq(Byte) /\ b3 \in Seq(Byte)
    BY <1>8, <1>9, <1>10 DEF Fields
  <2>4. Holds(b1, 0, head) /\ 0 \in Nat
    BY <2>1, HoldsBoth
  <2>. HIDE DEF b1
  <2>5. Holds(b2, 0, head)
    BY <2>1, <2>2, <2>3, <2>4, HoldsBefore
  <2>. HIDE DEF b2
  <2>6. Holds(b3, 0, head)
    BY <2>1, <2>2, <2>3, <2>4, <2>5, HoldsBefore
  <2>. HIDE DEF b3
  <2>7. Holds(b4, 0, head)
    BY <2>1, <2>2, <2>3, <2>4, <2>6, HoldsBefore
  <2>. HIDE DEF b4
  <2>8. 8 \in 1..Len(head) /\ 0 + 8 = 8
    BY <2>1
  <2>9. b4[0 + 8] = head[8]
    BY <2>7, <2>8 DEF Holds
  <2>10. 0 + 10 <= Len(b4) /\ Len(b4) \in Nat
    <3>1. b4 \in Seq(Byte)
      BY <1>11 DEF Fields, b4
    <3>. QED
      BY <2>1, <2>7, <3>1, LenProperties DEF Holds
  <2>. QED
    BY <2>8, <2>9, <2>10
<1>19. 8 \in 1..Len(ConnectBody(options)) /\ ConnectBody(options)[8] = ConnectFlags(options)
  BY <1>2, <1>15, <1>18, Zenon
<1>. QED
  BY <1>17, <1>19, Zenon DEF cw, cu, cp, w, u, p

\* A CONNECT packet can be read.
LEMMA ConnectRead ==
  ASSUME NEW options, ConnectType(options)
  PROVE  ConnectReadable(options)
<1>. DEFINE body == ConnectBody(options)
            strs == ConnectStrings(options)
            first == 16 * MQTT_CONNECT
            len == ConnectLength(options)
            pkt == Packet(first, len, body)
            header == mqtt_decode_fixed_header(pkt)
            w == Bit(HasWill(options))
            u == Bit(options.username # NULL)
            p == Bit(HasPassword(options))
            flags == pkt[header.pos + 8]
            has(b) == (flags \div b) % 2
            read == Strings(pkt, header.pos + 10, 1 + 2 * has(4) + has(128) + has(64), 0)
<1>1. /\ Fields(body, 10, strs, len, 1 + 2 * w + u + p)
      /\ 8 \in 1..Len(body) /\ body[8] = ConnectFlags(options)
  BY ConnectFields
<1>2. Len(body) \div 128^3 = 0 /\ Len(body) = len
  <2>1. Len(body) = len
    BY <1>1 DEF Fields
  <2>. QED
    BY <2>1, ConnectShort, Zenon
<1>3. first \in Byte /\ first \div 16 = MQTT_CONNECT
  BY SMT DEF Byte, MQTT_CONNECT
<1>4. /\ body \in Seq(Byte) /\ strs \in Seq(Strs) /\ Reads(body, 10, strs, 0)
      /\ Len(strs) = 1 + 2 * w + u + p /\ 0 \in Nat /\ 10 \in Nat
  BY <1>1 DEF Fields
<1>5. mqtt_encode_connect(options) = pkt
  BY Zenon DEF mqtt_encode_connect, ConnectBody, ConnectHead
<1>. HIDE DEF body, strs, first
<1>6. /\ header.type = first \div 16
      /\ EndsAt(header, pkt) = Len(pkt)
      /\ Strings(pkt, header.pos + 10, Len(strs), 0) = [pos |-> Len(pkt), strings |-> strs]
      /\ \A i \in 1..Len(body) : pkt[header.pos + i] = body[i]
  <2>. DEFINE same == Packet(first, Len(body), body)
              its == mqtt_decode_fixed_header(same)
  <2>1. /\ its.type = first \div 16
        /\ EndsAt(its, same) = Len(same)
        /\ Strings(same, its.pos + 10, Len(strs), 0) = [pos |-> Len(same), strings |-> strs]
        /\ \A i \in 1..Len(body) : same[its.pos + i] = body[i]
    BY <1>2, <1>3, <1>4, PacketRead
  <2>2. same = pkt
    BY <1>2, Zenon
  <2>. HIDE DEF same, pkt
  <2>. QED
    BY <2>1, <2>2, Zenon
<1>7. flags = ConnectFlags(options)
  BY <1>1, <1>6, Zenon
<1>. HIDE DEF pkt, header, flags, w, u, p
<1>8. has(128) = u /\ has(64) = p /\ has(4) = w /\ (w = 1 => (flags \div 8) % 4 = options.will_qos)
  <2>1. /\ (ConnectFlags(options) \div 128) % 2 = u
        /\ (ConnectFlags(options) \div 64) % 2 = p
        /\ (ConnectFlags(options) \div 4) % 2 = w
        /\ w = 1 => (ConnectFlags(options) \div 8) % 4 = options.will_qos
    BY ConnectFlagBits DEF w, u, p
  <2>. QED
    BY <1>7, <2>1, SMT
<1>. HIDE DEF has
<1>9. read = [pos |-> Len(pkt), strings |-> strs]
  BY <1>4, <1>6, <1>8
<1>10. read.pos = Len(pkt) /\ read.strings = strs
  <2>. HIDE DEF read
  <2>. QED
    BY <1>9
<1>11. p <= u
  BY DEF p, u, HasPassword, Bit
<1>12. has(64) <= has(128) /\ (has(4) = 1 => (flags \div 8) % 4 = options.will_qos)
  BY <1>8, <1>11
<1>13. header.type = MQTT_CONNECT
  BY <1>3, <1>6, Zenon
<1>14. mqtt_encode_connect(options) = pkt /\ strs = ConnectStrings(options)
  BY <1>5 DEF strs, pkt, body, first
<1>. QED
  BY <1>6, <1>10, <1>12, <1>13, <1>14, Zenon DEF ConnectReadable, header, flags, has, read

\* PacketsReadable holds of every sample.
LEMMA PacketsHold == SampleType => PacketsReadable
<1>. SUFFICES ASSUME SampleType
              PROVE  PacketsReadable
  OBVIOUS
<1>1. ASSUME sample.kind = "connect"
      PROVE  ConnectReadable(sample)
  <2>1. sample \in Connects
    BY <1>1, Kinds
  <2>2. Fits(sample.keep_alive, 2)
    BY <2>1, ConnectsAssumption, Zenon
  <2>3. sample \in [kind : {"connect"}, client_id : Text, username : Text \cup {NULL},
                    password : Text \cup {NULL}, will_topic : Text \cup {NULL},
                    will_message : Text \cup {NULL}, will_qos : 0..2, will_retain : BOOLEAN,
                    clean_session : BOOLEAN, keep_alive : Nat]
    BY <2>1, ConnectsAssumption, Zenon
  <2>4. /\ sample.client_id \in Text /\ sample.username \in Text \cup {NULL}
        /\ sample.password \in Text \cup {NULL} /\ sample.will_topic \in Text \cup {NULL}
        /\ sample.will_message \in Text \cup {NULL} /\ sample.will_qos \in 0..2
        /\ sample.will_retain \in BOOLEAN /\ sample.clean_session \in BOOLEAN
    BY <2>3
  <2>5. Text \subseteq Strs
    <3>1. Seq(Char) \subseteq Seq(Byte)
      BY DEF Char
    <3>. QED
      BY <3>1 DEF Text, Strs
  <2>6. ConnectType(sample)
    BY <2>2, <2>4, <2>5, Zenon DEF ConnectType
  <2>. QED
    BY <2>6, ConnectRead
<1>2. sample.kind = "topics" =>
        /\ TopicsReadable(mqtt_encode_subscribe(sample.packet_id, sample.topics), sample.topics, 1)
        /\ TopicsReadable(mqtt_encode_unsubscribe(sample.packet_id, sample.topics), sample.topics, 0)
  BY TopicsHold
<1>3. \A type \in {12, 13, 14} :
        LET simple == mqtt_encode_simple_packet(type)
        IN  mqtt_decode_fixed_header(simple) =
              [type |-> type, dup |-> FALSE, qos |-> 0, retain |-> FALSE,
               remaining_length |-> 0, pos |-> Len(simple)]
  BY SimplePackets, Zenon
<1>. QED
  BY <1>1, <1>2, <1>3, Zenon DEF PacketsReadable

\* Every CONNECT, SUBSCRIBE, UNSUBSCRIBE and one-line packet ends where its
\* length says, and holds what the caller gave.
THEOREM PacketsRead == SampleSpec => []PacketsReadable
  BY SampleTypeCorrect, PacketsHold, PTL
=============================================================================
