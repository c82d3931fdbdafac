------------------------------- MODULE Codecs -------------------------------
(***************************************************************************)
(* The encoders and decoders of mqtt_encoder.c, mqtt_decoder.c, ws_frame.c *)
(* and device_protocol.c against each other.  They keep no state: a state  *)
(* is one message, taken from sets that are parameters.                    *)
(***************************************************************************)
EXTENDS MqttCodec, WsFrame, DeviceProtocol

CONSTANTS
  Lengths, Connects, TopicLists, Publishes, Frames, Messages,
  Rests      \* what follows a message in the receiver's buffer

Fits(n, bytes) == n \in Nat /\ n \div 256^(bytes - 1) <= 255

Char == Byte \ {0}

Text == {str \in Seq(Char) : Fits(Len(str), 2)}

Header ==
  [type : 0..15, dup : BOOLEAN, qos : 0..3, retain : BOOLEAN,
   remaining_length : Nat, pos : Nat]

ASSUME ConstantsDiffer ==
  /\ NULL \notin Seq(Char) /\ NULL \notin Seq(Byte)
  /\ Failed \notin Seq(Byte) /\ Failed \notin Header
  /\ Failed \notin [decoded : Nat, value : Nat]

\* A remaining length has 28 bits.
ASSUME LengthsAssumption ==
  /\ Lengths \subseteq [kind : {"length"}, length : Nat]
  /\ \A item \in Lengths : item.length \div 128^3 < 128

ASSUME ConnectsAssumption ==
  /\ Connects \subseteq
       [kind : {"connect"}, client_id : Text, username : Text \cup {NULL}, password : Text \cup {NULL},
        will_topic : Text \cup {NULL}, will_message : Text \cup {NULL}, will_qos : 0..2,
        will_retain : BOOLEAN, clean_session : BOOLEAN, keep_alive : Nat]
  /\ \A options \in Connects : Fits(options.keep_alive, 2)

\* The longest packet the decoders read has 2 MB.
ASSUME TopicListsAssumption ==
  /\ TopicLists \subseteq
       [kind : {"topics"}, packet_id : Nat, topics : Seq([topic : Text, qos : 0..2])]
  /\ \A list \in TopicLists :
       Fits(list.packet_id, 2) /\ TopicsLength(list.topics, 1) < 128^3

ASSUME PublishesAssumption ==
  /\ Publishes \subseteq
       [kind : {"publish"}, topic : Text, qos : 0..2, retain : BOOLEAN, dup : BOOLEAN,
        payload : Seq(Byte), packet_id : Nat]
  /\ \A message \in Publishes :
       /\ Fits(message.packet_id, 2)
       /\ 4 + Len(message.topic) + Len(message.payload) < 128^3

\* EncodedLength is that of ws_frame.c for lengths of 3 bytes.
ASSUME FramesAssumption ==
  /\ Frames \subseteq
       [kind : {"frame"}, opcode : 0..15, is_final : BOOLEAN, payload : Seq(Byte),
        mask_key : {NULL} \cup {key \in Seq(Byte) : Len(key) = 4}]
  /\ \A frame \in Frames : Fits(Len(frame.payload), 3)

ASSUME MessagesAssumption ==
  /\ Messages \subseteq
       [kind : {"message"}, type : Byte, payload : Seq(Byte), sequence : Nat, timestamp : Nat]
  /\ \A message \in Messages :
       Fits(message.sequence, 4) /\ Fits(message.timestamp, 4)

ASSUME RestsAssumption == Rests \subseteq Seq(Byte)

-----------------------------------------------------------------------------

VARIABLE sample

sampleVars == <<sample>>

Samples == Lengths \cup Connects \cup TopicLists \cup Publishes \cup Frames \cup Messages

None == [kind |-> "none"]

SampleInit == sample = None

Choose == sample = None /\ sample' \in Samples

Drop == sample # None /\ sample' = None

SampleNext == Choose \/ Drop

SampleSpec == SampleInit /\ [][SampleNext]_sampleVars

-----------------------------------------------------------------------------
(* Properties *)

\* The receiver undoes the remaining length of every packet below 2 MB, and
\* refuses the longer ones, which the sender still encodes.
LengthUndone ==
  sample.kind = "length" =>
    LET buf == encode_remaining_length(sample.length)
    IN  IF sample.length >= 128^3
        THEN Len(buf) = 4 /\ decode_remaining_length(buf) = Failed
        ELSE /\ \A rest \in Rests :
                  decode_remaining_length(buf \o rest) = [decoded |-> Len(buf), value |-> sample.length]
             /\ \A n \in 0..(Len(buf) - 1) : decode_remaining_length(SubSeq(buf, 1, n)) = Failed

\* The broker's room for a string holds the longest.
Room == 65536

\* The string at read.pos, behind those read before it, with extra bytes to skip.
ReadString(buf, read, extra) ==
  LET str == decode_string(From(buf, read.pos), Room)
  IN  [pos |-> read.pos + 2 + Len(str) + extra, strings |-> Append(read.strings, str)]

\* The strings of a packet from byte pos on, read one after the other.
Strings(buf, pos, count, extra) ==
  FoldLeft(LAMBDA read, i : ReadString(buf, read, extra),
           [pos |-> pos, strings |-> <<>>], [i \in 1..count |-> i])

EndsAt(header, buf) == header.pos + header.remaining_length

\* The strings of a CONNECT packet, as its flags announce them.
ConnectStrings(options) ==
  <<options.client_id>>
    \o (IF HasWill(options) THEN <<options.will_topic, options.will_message>> ELSE <<>>)
    \o (IF options.username # NULL THEN <<options.username>> ELSE <<>>)
    \o (IF HasPassword(options) THEN <<options.password>> ELSE <<>>)

\* The flags of a CONNECT packet tell which strings follow: a broker that reads
\* by them reads the strings given and ends where the packet ends.
ConnectReadable(options) ==
  LET buf    == mqtt_encode_connect(options)
      header == mqtt_decode_fixed_header(buf)
      flags  == buf[header.pos + 8]
      has(b) == (flags \div b) % 2
      read   == Strings(buf, header.pos + 10, 1 + 2 * has(4) + has(128) + has(64), 0)
  IN  /\ header.type = MQTT_CONNECT
      /\ read.pos = Len(buf)
      /\ EndsAt(header, buf) = Len(buf)
      /\ has(64) <= has(128)
      /\ read.strings = ConnectStrings(options)
      /\ has(4) = 1 => (flags \div 8) % 4 = options.will_qos

\* A SUBSCRIBE or UNSUBSCRIBE packet holds the topics given and ends behind them.
TopicsReadable(buf, topics, extra) ==
  LET header == mqtt_decode_fixed_header(buf)
      read   == Strings(buf, header.pos + 2, Len(topics), extra)
  IN  IF topics = <<>> THEN buf = Failed
      ELSE /\ read.pos = Len(buf) /\ EndsAt(header, buf) = Len(buf)
           /\ read.strings = [i \in DOMAIN topics |-> topics[i].topic]

\* The lengths the encoders add up before they write a packet are those of what
\* they write: a broker finds the end of every CONNECT, SUBSCRIBE, UNSUBSCRIBE
\* and one-line packet, and in it what the caller gave.
PacketsReadable ==
  /\ sample.kind = "connect" => ConnectReadable(sample)
  /\ sample.kind = "topics" =>
       /\ TopicsReadable(mqtt_encode_subscribe(sample.packet_id, sample.topics), sample.topics, 1)
       /\ TopicsReadable(mqtt_encode_unsubscribe(sample.packet_id, sample.topics), sample.topics, 0)
  /\ sample.kind = "none" =>
       \A type \in {12, 13, 14} :
         LET buf == mqtt_encode_simple_packet(type)
         IN  mqtt_decode_fixed_header(buf) =
               [type |-> type, dup |-> FALSE, qos |-> 0, retain |-> FALSE,
                remaining_length |-> 0, pos |-> Len(buf)]

\* A PUBLISH packet, whatever follows it in the block received, is decoded to
\* the message encoded; one whose topic does not fit the decoder's array of 256
\* is refused.
PublishUndone ==
  sample.kind = "publish" =>
    LET buf == mqtt_encode_publish(sample, sample.packet_id)
    IN  \A rest \in Rests :
          mqtt_decode_publish(buf \o rest) =
            IF Len(sample.topic) > 255 THEN Failed
            ELSE [topic |-> sample.topic, qos |-> sample.qos, dup |-> sample.dup,
                  retain |-> sample.retain, payload |-> sample.payload]

\* The frame of a client that masks its payload.
Masked(frame, payload, mask_key) ==
  LET n == Len(frame) - Len(payload)
  IN  [SubSeq(frame, 1, n) EXCEPT ![2] = @ + 128] \o mask_key
        \o [i \in DOMAIN payload |-> Xor8(payload[i], mask_key[((i - 1) % 4) + 1])]

\* A frame, masked or not and whatever follows it, is decoded to the message
\* encoded and to its own length; a frame that has not arrived as a whole is
\* refused, and so is one that the sender's buffer does not hold.
FrameUndone ==
  sample.kind = "frame" =>
    LET plain == ws_encode_frame(sample, Len(sample.payload) + 10)
        frame == IF sample.mask_key = NULL THEN plain
                 ELSE Masked(plain, sample.payload, sample.mask_key)
    IN  /\ \A rest \in Rests :
             ws_decode_frame(frame \o rest) =
               [is_final |-> sample.is_final, opcode |-> sample.opcode,
                payload |-> sample.payload, frame_len |-> Len(frame)]
        /\ \A n \in 0..12 \cup {Len(frame) - 1} :
             n < Len(frame) => ws_decode_frame(SubSeq(frame, 1, n)) = Failed
        /\ ws_encode_frame(sample, Len(plain) - 1) = Failed

\* A message of the device protocol is unpacked to what was packed, whatever
\* follows it, as long as its length fits the header; a longer one is packed all
\* the same, and is either refused or cut to what the header tells of it, without
\* an error.  A buffer that ends before that, or a caller's array too short for
\* it, is refused.
MessageUndone ==
  sample.kind = "message" =>
    LET len == Len(sample.payload)
        told == HeaderLength(sample.payload)
        buf == protocol_pack_message(sample.type, sample.payload, sample.sequence,
                                     sample.timestamp, HEADER + len)
    IN  /\ \A rest \in Rests :
             \/ protocol_unpack_message(buf \o rest, len) =
                  [type |-> sample.type, sequence |-> sample.sequence,
                   timestamp |-> sample.timestamp, payload |-> SubSeq(sample.payload, 1, told)]
             \/ len > MAX_LENGTH /\ protocol_unpack_message(buf \o rest, len) = Failed
        /\ len <= MAX_LENGTH => told = len
        /\ \A n \in {0, 1, HEADER - 1, HEADER + told - 1} :
             protocol_unpack_message(SubSeq(buf, 1, n), len) = Failed
        /\ told > 0 => protocol_unpack_message(buf, told - 1) = Failed
=============================================================================
