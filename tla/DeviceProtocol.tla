--------------------------- MODULE DeviceProtocol ---------------------------
(***************************************************************************)
(* device_protocol.c as operators on sequences of bytes, on a machine that *)
(* keeps the lower byte first (ESP32).                                     *)
(***************************************************************************)
EXTENDS ByteBuffers

CONSTANT MAX_LENGTH      \* the largest uint16_t: 65535 in the source

ASSUME MaxLengthAssumption == MAX_LENGTH \in Nat /\ MAX_LENGTH \div 256 <= 255

PROTOCOL_VERSION == 1

\* Bytes of version, type, length, sequence, timestamp and checksum.
HEADER == 14

\* The source gives 16 of the 256 entries; the others are zero.
crc16_table == [i \in 0..255 |-> IF i < 16 THEN i * 4129 ELSE 0]

\* One more byte in the checksum.
crc16_step ==
  [crc \in Nat |-> [byte \in Byte |->
     Xor16(256 * (crc % 256), crc16_table[Xor8(crc \div 256, byte)])]]

calculate_crc16(data) == FoldLeft(LAMBDA crc, byte : crc16_step[crc][byte], 65535, data)

LittleEndian(n, bytes) == Reverse(BigEndian(n, bytes))

Number(bytes) == Value(Reverse(bytes))

Checksum(header, payload) ==
  IF payload = <<>> THEN calculate_crc16(header)
  ELSE Xor16(calculate_crc16(header), calculate_crc16(payload))

\* What header->length keeps of payload_len, a size_t.
HeaderLength(payload) == Len(payload) % (MAX_LENGTH + 1)

\* sequence is the counter after it was incremented.
protocol_pack_message(type, payload, sequence, timestamp, buffer_len) ==
  LET header == <<PROTOCOL_VERSION, type>> \o LittleEndian(HeaderLength(payload), 2)
                  \o LittleEndian(sequence, 4) \o LittleEndian(timestamp, 4)
  IN  IF buffer_len < HEADER + Len(payload) THEN Failed
      ELSE header \o LittleEndian(Checksum(header, payload), 2) \o payload

Stored(buffer) == Number(SubSeq(buffer, HEADER - 1, HEADER))

\* Mutant: the checksum is computed over the stored one, too.
ChecksumHoldsWhole(buffer, payload) == Checksum(SubSeq(buffer, 1, HEADER), payload) = Stored(buffer)

ChecksumHolds(buffer, payload) == Checksum(SubSeq(buffer, 1, HEADER - 2), payload) = Stored(buffer)

protocol_unpack_message(buffer, payload_len) ==
  IF Len(buffer) < HEADER THEN Failed
  ELSE LET length  == Number(SubSeq(buffer, 3, 4))
           payload == SubSeq(buffer, HEADER + 1, HEADER + length)
       IN  IF \/ buffer[1] # PROTOCOL_VERSION
              \/ Len(buffer) < HEADER + length
              \/ ~ChecksumHolds(buffer, payload)
              \/ payload_len < length
           THEN Failed
           ELSE [type |-> buffer[2], sequence |-> Number(SubSeq(buffer, 5, 8)),
                 timestamp |-> Number(SubSeq(buffer, 9, 12)), payload |-> payload]
=============================================================================
