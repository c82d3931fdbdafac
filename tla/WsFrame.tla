------------------------------ MODULE WsFrame ------------------------------
(***************************************************************************)
(* ws_frame.c as operators on sequences of bytes.                          *)
(***************************************************************************)
EXTENDS ByteBuffers

\* The length in 1, 3 or 9 bytes; 256^7 is beyond TLC's integers, so that of 8
\* bytes the first four are written as zero.
EncodedLength(length) ==
  IF length <= 125 THEN <<length>>
  ELSE IF length <= 65535 THEN <<126>> \o BigEndian(length, 2)
  ELSE <<127, 0, 0, 0, 0, 0>> \o BigEndian(length, 3)

ws_encode_frame(message, buffer_len) ==
  LET head  == <<(IF message.is_final THEN 128 ELSE 0) + message.opcode>>
      frame == head \o EncodedLength(Len(message.payload)) \o message.payload
  IN  IF buffer_len < Len(frame) THEN Failed ELSE frame

\* Mutant: the key starts again after three bytes.
UnmaskThree(payload, mask_key) ==
  [i \in DOMAIN payload |-> Xor8(payload[i], mask_key[((i - 1) % 3) + 1])]

Unmask(payload, mask_key) ==
  [i \in DOMAIN payload |-> Xor8(payload[i], mask_key[((i - 1) % 4) + 1])]

\* How many bytes of the header behind the first two hold the length.
LengthBytes(byte) == CASE byte % 128 = 126 -> 2 [] byte % 128 = 127 -> 8 [] OTHER -> 0

ws_decode_frame(buffer) ==
  IF Len(buffer) < 2 THEN Failed
  ELSE IF (buffer[1] \div 16) % 8 # 0 THEN Failed
  ELSE LET n      == LengthBytes(buffer[2])
           masked == buffer[2] >= 128
           header == 2 + n + (IF masked THEN 4 ELSE 0)
       IN  IF Len(buffer) < header THEN Failed
           ELSE LET length == IF n = 0 THEN buffer[2] % 128 ELSE Value(SubSeq(buffer, 3, 2 + n))
                    data   == SubSeq(buffer, header + 1, header + length)
                IN  IF Len(buffer) < header + length THEN Failed
                    ELSE [is_final |-> buffer[1] >= 128, opcode |-> buffer[1] % 16,
                          payload |-> IF masked
                                      THEN Unmask(data, SubSeq(buffer, header - 3, header))
                                      ELSE data,
                          frame_len |-> header + length]
=============================================================================
