-------------------------------- MODULE Crc16 --------------------------------
(***************************************************************************)
(* nmbs_crc_calc (modbus/nanomodbus.c): the 16-bit CRC of Modbus RTU, byte *)
(* by byte and bit by bit, with the bytes swapped at the end so that the   *)
(* low one is sent first.                                                  *)
(***************************************************************************)
EXTENDS Integers, Sequences
LOCAL INSTANCE Functions

BitOf(n, i) == (n \div 2^i) % 2
\* Exclusive or of two bytes, as a table.
XorByte == [a \in 0..255 |-> [b \in 0..255 |->
              FoldFunction(+, 0, [i \in 0..7 |-> ((BitOf(a, i) + BitOf(b, i)) % 2) * 2^i])]]
Xor(a, b) == 256 * XorByte[a \div 256][b \div 256] + XorByte[a % 256][b % 256]

Polynomial == 40961  \* 0xA001

\* One turn of the inner loop, and the eight of a byte.
Shift(crc) == IF crc % 2 # 0 THEN Xor(crc \div 2, Polynomial) ELSE crc \div 2
EightShifts(crc) ==
  LET shifted[n \in 0..8] == IF n = 0 THEN crc ELSE Shift(shifted[n - 1]) IN shifted[8]

\* What eight shifts make of a low byte: the high byte only moves down.
OfByte == [b \in 0..255 |-> EightShifts(b)]
XorLow(t, high) == 256 * (t \div 256) + XorByte[t % 256][high]
AddByte(crc, b) == XorLow(OfByte[XorByte[crc % 256][b]], crc \div 256)

Crc16Of(bytes) ==
  LET crc[i \in 0..Len(bytes)] == IF i = 0 THEN 65535 ELSE AddByte(crc[i - 1], bytes[i])
  IN crc[Len(bytes)]
Swapped(crc) == <<crc % 256, crc \div 256>>
nmbs_crc_calc(bytes) == Swapped(Crc16Of(bytes))
==============================================================================
