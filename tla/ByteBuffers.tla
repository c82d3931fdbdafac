---------------------------- MODULE ByteBuffers ----------------------------
(***************************************************************************)
(* What the encoders and decoders share: a buffer is a sequence of bytes,  *)
(* Failed stands for -1 and the error codes, NULL for the C constant.      *)
(***************************************************************************)
EXTENDS Integers, Sequences, SequencesExt

CONSTANTS NULL, Failed

Byte == 0..255

Bit(b) == IF b THEN 1 ELSE 0

From(buf, pos) == SubSeq(buf, pos + 1, Len(buf))

\* The value of the bytes, highest first.
Value(bytes) == FoldLeft(LAMBDA sum, byte : 256 * sum + byte, 0, bytes)

\* n in the given number of bytes, highest first.
BigEndian(n, bytes) == [i \in 1..bytes |-> (n \div 256^(bytes - i)) % 256]

\* The operator ^ on half a byte, a byte and two bytes.
Xor4 ==
  LET bit(a, b, n) == (a \div n + b \div n) % 2
  IN  [a \in 0..15 |-> [b \in 0..15 |->
         8 * bit(a, b, 8) + 4 * bit(a, b, 4) + 2 * bit(a, b, 2) + bit(a, b, 1)]]

Xor8(a, b) == 16 * Xor4[a \div 16][b \div 16] + Xor4[a % 16][b % 16]

Xor16(a, b) == 256 * Xor8(a \div 256, b \div 256) + Xor8(a % 256, b % 256)
=============================================================================
