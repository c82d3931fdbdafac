----------------------------- MODULE MqttCodec -----------------------------
(***************************************************************************)
(* mqtt_encoder.c and mqtt_decoder.c as operators on sequences of bytes.   *)
(* A C string is the sequence of its characters.                           *)
(*                                                                         *)
(* Every encoder is given a buffer that is large enough.  The source asks  *)
(* for two bytes at least and does not look at buf_len again: what becomes *)
(* of a message longer than the buffer of mqtt_client.c is not modelled.   *)
(***************************************************************************)
EXTENDS ByteBuffers, FiniteSetsExt

MQTT_CONNECT     == 1
MQTT_CONNACK     == 2
MQTT_PUBLISH     == 3
MQTT_SUBSCRIBE   == 8
MQTT_SUBACK      == 9
MQTT_UNSUBSCRIBE == 10

-----------------------------------------------------------------------------
(* mqtt_encoder.c *)

\* Mutant: a length that fills its bytes takes another one.
encode_remaining_length_long(length) ==
  LET n == Min({k \in 1..4 : length \div 128^k = 0 \/ k = 4})
  IN  [i \in 1..n |-> ((length \div 128^(i-1)) % 128) + (IF length \div 128^i >= 1 /\ i < n THEN 128 ELSE 0)]
      \o (IF length % 128 = 0 /\ length > 0 THEN <<0>> ELSE <<>>)

\* Seven bits in a byte, lowest first, and at most four bytes.
encode_remaining_length(length) ==
  LET n == Min({k \in 1..4 : length \div 128^k = 0 \/ k = 4})
  IN  [i \in 1..n |-> ((length \div 128^(i-1)) % 128) + 128 * Bit(length \div 128^i > 0)]

encode_string(str) == BigEndian(Len(str), 2) \o SubSeq(str, 1, Len(str) % 65536)

\* The length of every packet is summed up before its parts are written.
Packet(first, remaining_length, body) ==
  <<first>> \o encode_remaining_length(remaining_length) \o body

HasWill(options) == options.will_topic # NULL /\ options.will_message # NULL
HasPassword(options) == options.username # NULL /\ options.password # NULL

\* Mutant: the password is counted whether or not there is a user name.
ConnectLengthPassword(options) ==
  10 + 2 + Len(options.client_id)
     + (IF HasWill(options)
        THEN 2 + Len(options.will_topic) + 2 + Len(options.will_message) ELSE 0)
     + (IF options.username # NULL THEN 2 + Len(options.username) ELSE 0)
     + (IF options.password # NULL THEN 2 + Len(options.password) ELSE 0)

ConnectLength(options) ==
  10 + 2 + Len(options.client_id)
     + (IF HasWill(options)
        THEN 2 + Len(options.will_topic) + 2 + Len(options.will_message) ELSE 0)
     + (IF options.username # NULL THEN 2 + Len(options.username) ELSE 0)
     + (IF HasPassword(options) THEN 2 + Len(options.password) ELSE 0)

ConnectFlags(options) ==
  2 * Bit(options.clean_session)
  + (IF HasWill(options) THEN 4 + 8 * options.will_qos + 32 * Bit(options.will_retain) ELSE 0)
  + 128 * Bit(options.username # NULL) + 64 * Bit(HasPassword(options))

mqtt_encode_connect(options) ==
  Packet(16 * MQTT_CONNECT, ConnectLength(options),
    <<0, 4, 77, 81, 84, 84, 4, ConnectFlags(options)>> \o BigEndian(options.keep_alive, 2)
      \o encode_string(options.client_id)
      \o (IF HasWill(options)
          THEN encode_string(options.will_topic) \o encode_string(options.will_message) ELSE <<>>)
      \o (IF options.username # NULL THEN encode_string(options.username) ELSE <<>>)
      \o (IF HasPassword(options) THEN encode_string(options.password) ELSE <<>>))

mqtt_encode_publish(message, packet_id) ==
  Packet(16 * MQTT_PUBLISH + 8 * Bit(message.dup) + 2 * message.qos + Bit(message.retain),
    2 + Len(message.topic) + 2 * Bit(message.qos > 0) + Len(message.payload),
    encode_string(message.topic)
      \o (IF message.qos > 0 THEN BigEndian(packet_id, 2) ELSE <<>>)
      \o message.payload)

TopicsLength(topics, extra) ==
  2 + FoldLeft(LAMBDA sum, t : sum + 2 + Len(t.topic) + extra, 0, topics)

mqtt_encode_subscribe(packet_id, topics) ==
  IF topics = <<>> THEN Failed
  ELSE Packet(16 * MQTT_SUBSCRIBE + 2, TopicsLength(topics, 1),
         BigEndian(packet_id, 2) \o
           FlattenSeq([i \in DOMAIN topics |-> Append(encode_string(topics[i].topic), topics[i].qos)]))

mqtt_encode_unsubscribe(packet_id, topics) ==
  IF topics = <<>> THEN Failed
  ELSE Packet(16 * MQTT_UNSUBSCRIBE + 2, TopicsLength(topics, 0),
         BigEndian(packet_id, 2) \o FlattenSeq([i \in DOMAIN topics |-> encode_string(topics[i].topic)]))

mqtt_encode_simple_packet(type) == <<16 * type, 0>>

-----------------------------------------------------------------------------
(* mqtt_decoder.c *)

\* The length and how many bytes it took.  The limit on the multiplier is
\* tested behind every byte, the fourth, which may be the last, included.
decode_remaining_length(buf) ==
  LET ends == {i \in 1..3 : i <= Len(buf) /\ buf[i] < 128}
  IN  IF ends = {} THEN Failed
      ELSE [decoded |-> Min(ends),
            value   |-> FoldLeft(LAMBDA sum, i : sum + (buf[i] % 128) * 128^(i-1), 0,
                                 [i \in 1..Min(ends) |-> i])]

\* str_len is the room of the caller's array.
decode_string(buf, str_len) ==
  IF Len(buf) < 2 THEN Failed
  ELSE LET length == Value(SubSeq(buf, 1, 2))
       IN  IF Len(buf) < length + 2 \/ str_len <= length THEN Failed
           ELSE SubSeq(buf, 3, length + 2)

mqtt_decode_fixed_header(buf) ==
  IF Len(buf) < 2 \/ decode_remaining_length(Tail(buf)) = Failed THEN Failed
  ELSE LET length == decode_remaining_length(Tail(buf))
       IN  [type |-> buf[1] \div 16, dup |-> (buf[1] \div 8) % 2 = 1,
            qos |-> (buf[1] \div 2) % 4, retain |-> buf[1] % 2 = 1,
            remaining_length |-> length.value, pos |-> length.decoded + 1]

mqtt_decode_connack(buf) ==
  LET header == mqtt_decode_fixed_header(buf)
  IN  IF Len(buf) < 4 \/ header = Failed THEN Failed
      ELSE IF header.type # MQTT_CONNACK \/ header.remaining_length # 2 THEN Failed
      ELSE [session_present |-> buf[header.pos + 1] % 2, return_code |-> buf[header.pos + 2]]

\* strdup copies up to the terminating zero.
strdup(str) == SubSeq(str, 1, Min({i \in 1..(Len(str) + 1) : i > Len(str) \/ str[i] = 0}) - 1)

\* Mutant: the packet id is left in the payload.
DecodePublishWithId(buf) ==
  LET header == mqtt_decode_fixed_header(buf)
      body   == From(buf, header.pos)
      topic  == decode_string(body, 256)
      taken  == 2 + Len(topic)
  IN  [topic |-> strdup(topic), qos |-> header.qos, dup |-> header.dup, retain |-> header.retain,
       payload |-> SubSeq(body, taken + 1, header.remaining_length)]

\* The packet id is skipped.  What a payload that goes on behind the buffer is
\* read from is not modelled: the buffer holds the packet.
mqtt_decode_publish(buf) ==
  LET header == mqtt_decode_fixed_header(buf)
      body   == From(buf, header.pos)
      topic  == decode_string(body, 256)
      taken  == 2 + Len(topic) + 2 * Bit(header.qos > 0)
  IN  IF Len(buf) < 4 \/ header = Failed THEN Failed
      ELSE IF header.type # MQTT_PUBLISH \/ topic = Failed THEN Failed
      ELSE IF taken > Len(body) THEN Failed
      ELSE [topic |-> strdup(topic), qos |-> header.qos, dup |-> header.dup,
            retain |-> header.retain,
            payload |-> SubSeq(body, taken + 1, header.remaining_length)]

mqtt_decode_suback(buf) ==
  LET header == mqtt_decode_fixed_header(buf)
  IN  IF Len(buf) < 4 \/ header = Failed THEN Failed
      ELSE IF header.type # MQTT_SUBACK \/ header.remaining_length <= 2 THEN Failed
      ELSE [packet_id |-> Value(SubSeq(buf, header.pos + 1, header.pos + 2)),
            return_codes |-> SubSeq(buf, header.pos + 3, header.pos + header.remaining_length)]
=============================================================================
