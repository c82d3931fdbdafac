------------------------------ MODULE MCCodecs ------------------------------
(* The encoders and decoders on lengths on either side of every limit. *)
EXTENDS Codecs

SomeBytes(n) == [i \in 1..n |-> ((i * 37) % 251) + 1]
SomeChars(n) == [i \in 1..n |-> 97]

SampleRests == {<<>>, <<0>>, <<255, 7, 1>>}

\* The last three need a fourth byte.
SampleLengths ==
  [kind : {"length"},
   length : {0, 1, 127, 128, 129, 255, 256, 16383, 16384, 16385, 65536, 2097151}
              \cup {2097152, 2097153, 268435455}]

SampleConnects ==
  [kind : {"connect"}, client_id : {SomeChars(1), SomeChars(120)}, username : {NULL, SomeChars(0), SomeChars(3)},
   password : {NULL, SomeChars(2)}, will_topic : {NULL, SomeChars(2)}, will_message : {NULL, SomeChars(0), SomeChars(4)},
   will_qos : 0..2, will_retain : BOOLEAN, clean_session : {TRUE}, keep_alive : {60, 300}]

SampleTopicLists ==
  [kind : {"topics"}, packet_id : {1, 257, 65535},
   topics : {[i \in 1..n |-> [topic |-> SomeChars(len), qos |-> i % 3]] : n \in 0..3, len \in {1, 124, 300}}]

SamplePublishes ==
  [kind : {"publish"}, topic : {SomeChars(n) : n \in {0, 1, 121, 122, 255}}, qos : 0..2,
   retain : BOOLEAN, dup : BOOLEAN, packet_id : {513},
   payload : {SomeBytes(n) : n \in {0, 1, 2, 3, 128}}]
  \cup [kind : {"publish"}, topic : {SomeChars(9)}, qos : {0, 1}, retain : {FALSE}, dup : {FALSE},
        packet_id : {513},
        payload : {SomeBytes(n) : n \in {16370, 16371, 16372, 16373}}]
  \cup [kind : {"publish"}, topic : {SomeChars(256), SomeChars(300)}, qos : {1}, retain : {FALSE},
        dup : {FALSE}, packet_id : {513}, payload : {SomeBytes(1)}]

SampleFrames ==
  [kind : {"frame"}, opcode : {0, 1, 2, 8, 9, 10}, is_final : BOOLEAN,
   payload : {SomeBytes(n) : n \in {0, 1, 2, 4, 5, 125, 126, 127, 300}},
   mask_key : {NULL, <<1, 2, 4, 255>>}]
  \cup [kind : {"frame"}, opcode : {2}, is_final : {TRUE}, mask_key : {NULL},
        payload : {SomeBytes(65535), SomeBytes(65536)}]

SampleMessages ==
  [kind : {"message"}, type : {0, 2, 5}, payload : {SomeBytes(n) : n \in {0, 1, 2, 5}},
   sequence : {1, 255, 256, 65536, 1000000}, timestamp : {0, 511}]
  \cup [kind : {"message"}, type : {2}, payload : {SomeBytes(255), SomeBytes(256)},
        sequence : {1}, timestamp : {70000}]
  \cup [kind : {"message"}, type : {2}, sequence : {1}, timestamp : {70000},
        payload : {SomeBytes(n) : n \in {511, 512, 513, 515}} \cup {[i \in 1..514 |-> 1]}]
=============================================================================
