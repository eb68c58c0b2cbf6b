------------------------------ MODULE Nanomodbus ------------------------------
(***************************************************************************)
(* The Modbus library (modbus/nanomodbus.c) as operators on bytes: how a   *)
(* request and a response are laid out, how a message is received field by *)
(* field, what the client checks in a response and what the server does    *)
(* with a request.  The modules that use it supply the stations, the line  *)
(* and the moments at which a read times out.                              *)
(*                                                                         *)
(* Receiving is a chain of reads each of which may end the call: a Reader  *)
(* carries the message buffer, the bytes not read yet and the first error, *)
(* and every operator leaves a Reader that has failed as it is, which is   *)
(* the early return of the code.                                           *)
(***************************************************************************)
EXTENDS Integers, Sequences

CONSTANTS
  MAX_BITS,        \* most coils of one read (2000) 
  MAX_COILS,       \* most coils of one write (0x07B0)
  MAX_READ,        \* most registers of one read (125)
  MAX_WRITE,       \* most registers of one write (0x007B)
  MAX_RW_WRITE,    \* most registers written by a client's read/write (0x0079)
  MAX_FILE_READ,   \* most registers of a file read (124)
  MAX_FILE_WRITE,  \* most registers of a file write (122)
  MAX_RECORD,      \* highest record number (0x270F)
  ADDRESSES,       \* number of addresses (65536)
  MAX_TID,         \* UINT16_MAX of the transaction counter
  Crc(_)           \* the two bytes of nmbs_crc_calc

UINT16_MAX == 65535
Bytes == 0..255
Words16 == 0..UINT16_MAX

ASSUME LimitsAssumption ==
  /\ {MAX_BITS, MAX_COILS, MAX_READ, MAX_WRITE, MAX_RW_WRITE, MAX_FILE_READ,
      MAX_FILE_WRITE, MAX_RECORD, ADDRESSES, MAX_TID} \subseteq 1..(UINT16_MAX + 1)
  /\ MAX_BITS <= 2000 /\ MAX_COILS <= 1968
  /\ MAX_READ <= 125 /\ MAX_WRITE <= 123 /\ MAX_RW_WRITE <= 121
  /\ MAX_FILE_READ <= 124 /\ MAX_FILE_WRITE <= 122
  /\ MAX_TID <= UINT16_MAX

(***************************************************************************)
(* Fields.                                                                 *)
(***************************************************************************)
Word(v) == <<v \div 256, v % 256>>
WordAt(b, i) == 256 * b[i] + b[i + 1]
Words(vs) == [j \in 1..2 * Len(vs) |-> Word(vs[(j + 1) \div 2])[2 - (j % 2)]]
WordsOf(b) == [i \in 1..(Len(b) \div 2) |-> WordAt(b, 2 * i - 1)]

BitBytes(n) == (n + 7) \div 8
\* Bit i of a bitfield is bit i % 8 of byte i / 8.
BitAt(bytes, i) == (bytes[(i \div 8) + 1] \div 2^(i % 8)) % 2
Packed(bits) ==
  LET bit(i) == IF i <= Len(bits) THEN bits[i] ELSE 0
  IN [j \in 1..BitBytes(Len(bits)) |->
        bit(8*j - 7) + 2 * bit(8*j - 6) + 4 * bit(8*j - 5) + 8 * bit(8*j - 4)
        + 16 * bit(8*j - 3) + 32 * bit(8*j - 2) + 64 * bit(8*j - 1) + 128 * bit(8*j)]

Exceptions == <<"ILLEGAL_FUNCTION", "ILLEGAL_DATA_ADDRESS",
                "ILLEGAL_DATA_VALUE", "SERVER_DEVICE_FAILURE">>
IsException(e) == \E i \in DOMAIN Exceptions : Exceptions[i] = e
ExceptionCode(e) == CHOOSE i \in DOMAIN Exceptions : Exceptions[i] = e

(***************************************************************************)
(* A message m on transport t ("RTU" or "TCP").  The length of the MBAP    *)
(* header is what the caller of put_msg_header says, n, and nobody         *)
(* compares it with the data.                                              *)
(***************************************************************************)
Header(t, m, n) ==
  IF t = "RTU" THEN <<m.unit, m.fc>>
  ELSE Word(m.tid) \o Word(0) \o Word(2 + n) \o <<m.unit, m.fc>>

Frame(t, m, n, data) ==
  LET f == Header(t, m, n) \o data
  IN IF t = "RTU" THEN f \o Crc(f) ELSE f

\* Slip: the counter stays as it is.
NextTid_Stuck(tid) == tid
NextTid(tid) == IF tid = MAX_TID THEN 1 ELSE tid + 1

\* The state of a client's message when it starts a request.
RequestState(t, tid, unit, fc) ==
  [unit |-> unit, fc |-> fc, tid |-> tid,
   broadcast |-> t = "RTU" /\ unit = 0, ignored |-> FALSE]

(***************************************************************************)
(* Reading.                                                                *)
(***************************************************************************)
Reader(in) == [err |-> "NONE", buf |-> <<>>, in |-> in, waits |-> FALSE]
Good(p) == p.err = "NONE"
Fail(p, e) == [p EXCEPT !.err = e]

\* recv: n more bytes, or a timeout that has eaten those that were there.
Recv(p, n) ==
  IF ~Good(p) THEN p
  ELSE IF Len(p.in) < n
       THEN [p EXCEPT !.err = "TIMEOUT", !.buf = @ \o p.in, !.in = <<>>]
       ELSE [p EXCEPT !.buf = @ \o SubSeq(p.in, 1, n),
                      !.in = SubSeq(@, n + 1, Len(@))]

\* recv_msg_footer: with RTU the two bytes must be the CRC of the buffer.
\* Slip: the CRC is received and not compared.
Footer_Unchecked(t, p) == IF t = "TCP" THEN p ELSE Recv(p, 2)
CrcChecked(p, q) ==
  IF Good(q) /\ SubSeq(q.buf, Len(p.buf) + 1, Len(q.buf)) # Crc(p.buf)
  THEN Fail(q, "CRC") ELSE q
Footer(t, p) == IF ~Good(p) \/ t = "TCP" THEN p ELSE CrcChecked(p, Recv(p, 2))

\* recv_msg_header: waits marks a call that waited in vain for a first byte.
MbapChecked(t, q) ==
  IF Good(q) /\ t = "TCP" /\ (WordAt(q.buf, 3) # 0 \/ WordAt(q.buf, 5) > 255)
  THEN Fail(q, "INVALID_TCP_MBAP") ELSE q
AfterFirst(t, first) ==
  IF Good(first) THEN MbapChecked(t, Recv(first, IF t = "RTU" THEN 1 ELSE 7))
  ELSE [first EXCEPT !.waits = TRUE]
MsgHeader(t, p) ==
  IF Good(p) THEN AfterFirst(t, Recv([p EXCEPT !.buf = <<>>], 1)) ELSE p

HeaderLen(t) == IF t = "RTU" THEN 2 ELSE 8
UnitOf(t, p) == p.buf[HeaderLen(t) - 1]
FcOf(t, p) == p.buf[HeaderLen(t)]
Data(t, p) == SubSeq(p.buf, HeaderLen(t) + 1, Len(p.buf))

\* One byte that says how many follow, and those.
RecvAsMany(q) == IF Good(q) THEN Recv(q, q.buf[Len(q.buf)]) ELSE q
Counted(p) == RecvAsMany(Recv(p, 1))

(***************************************************************************)
(* Responses, as the client receives its own and a server those of others: *)
(* m is the message state of the request.                                  *)
(***************************************************************************)
ExceptionRead(t, e) ==
  LET code == e.buf[HeaderLen(t) + 1]
  IN IF ~Good(e) THEN e
     ELSE Fail(e, IF code \in DOMAIN Exceptions THEN Exceptions[code] ELSE "INVALID_RESPONSE")
ResChecked(t, h, m) ==
  IF ~Good(h) THEN h
  ELSE IF t = "TCP" /\ WordAt(h.buf, 1) # m.tid THEN Fail(h, "INVALID_TCP_MBAP")
  ELSE IF t = "RTU" /\ UnitOf(t, h) # m.unit THEN Fail(h, "INVALID_UNIT_ID")
  ELSE IF FcOf(t, h) = m.fc THEN h
  ELSE IF FcOf(t, h) # m.fc + 128 THEN Fail(h, "INVALID_RESPONSE")
  ELSE ExceptionRead(t, Footer(t, Recv(h, 1)))
ResHeader(t, p, m) == ResChecked(t, MsgHeader(t, p), m)

\* A reader that ended well but for what it read.
Expect(p, test) == IF Good(p) /\ ~test THEN Fail(p, "INVALID_RESPONSE") ELSE p

\* The bits are taken without comparing their number with the one asked for.
recv_read_discrete_res(t, p, m) == Footer(t, Counted(ResHeader(t, p, m)))

RegistersRead(t, q, quantity) == Expect(q, Good(q) => Data(t, q)[1] = 2 * quantity)
recv_read_registers_res(t, p, m, quantity) ==
  RegistersRead(t, Footer(t, Counted(ResHeader(t, p, m))), quantity)

\* Four bytes that repeat an address and a value or a quantity.
Echoed(t, p, m) == Footer(t, Recv(ResHeader(t, p, m), 4))
\* Slip: what is repeated is not looked at.
Repeats_Always(t, q, a, v) == TRUE
Repeats(t, q, a, v) == Good(q) => SubSeq(Data(t, q), 1, 4) = Word(a) \o Word(v)
EchoChecked(t, q, a, v) == Expect(q, Repeats(t, q, a, v))

recv_write_single_coil_res(t, p, m, address, value) ==
  EchoChecked(t, Echoed(t, p, m), address, value)
recv_write_single_register_res(t, p, m, address, value) ==
  EchoChecked(t, Echoed(t, p, m), address, value)
recv_write_multiple_coils_res(t, p, m, address, quantity) ==
  EchoChecked(t, Echoed(t, p, m), address, quantity)
recv_write_multiple_registers_res(t, p, m, address, quantity) ==
  EchoChecked(t, Echoed(t, p, m), address, quantity)

\* The buffer index is left after the record the response announces, and the
\* CRC is computed up to there: what lies beyond the message is taken as 0.
Upto(p, n) == IF Good(p)
              THEN [p EXCEPT !.buf = [i \in 1..n |-> IF i <= Len(@) THEN @[i] ELSE 0]]
              ELSE p
ByteAt(b, i) == IF i <= Len(b) THEN b[i] ELSE 0

FileRecordRead(t, q, asked, count) ==
  LET d == Data(t, q)
      size == (ByteAt(d, 2) + 255) % 256
      r == Footer(t, Upto(q, HeaderLen(t) + 3 + size))
  IN Expect(r, asked /\ Good(r) => ByteAt(d, 3) = 6 /\ count = size \div 2)
recv_read_file_record_res(t, p, m, asked, count) ==
  FileRecordRead(t, Counted(ResHeader(t, p, m)), asked, count)

FileRecordWritten(t, q, asked, data) ==
  LET d == Data(t, q)
      length == 256 * ByteAt(d, 7) + ByteAt(d, 8)
      r == Footer(t, Upto(q, HeaderLen(t) + 8 + 2 * length))
      sent == Data(t, r)
  IN Expect(r, asked /\ Good(r) => /\ Len(sent) >= Len(data)
                                   /\ SubSeq(sent, 2, Len(data)) = Tail(data))
recv_write_file_record_res(t, p, m, asked, data) ==
  FileRecordWritten(t, Counted(ResHeader(t, p, m)), asked, data)

=============================================================================
