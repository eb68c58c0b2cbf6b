------------------------------ MODULE NmbsClient ------------------------------
(***************************************************************************)
(* The client half of nanomodbus.c: each function of its interface as the  *)
(* call it makes (a record: whether its arguments are accepted, the data   *)
(* of the request after the function code, the length it announces for     *)
(* them, and what it will compare the response with), and the reception of *)
(* the response to a call.                                                 *)
(***************************************************************************)
EXTENDS Nanomodbus

InSpace(a, q, max) == q \in 1..max /\ a + q <= ADDRESSES

Call(fc, ok, data, a, v) ==
  [fc |-> fc, ok |-> ok, data |-> data, len |-> Len(data), a |-> a, v |-> v,
   raw |-> FALSE]

read_discrete(fc, a, q) == Call(fc, InSpace(a, q, MAX_BITS), Word(a) \o Word(q), a, q)
nmbs_read_coils(a, q) == read_discrete(1, a, q)
nmbs_read_discrete_inputs(a, q) == read_discrete(2, a, q)

read_registers(fc, a, q) == Call(fc, InSpace(a, q, MAX_READ), Word(a) \o Word(q), a, q)
nmbs_read_holding_registers(a, q) == read_registers(3, a, q)
nmbs_read_input_registers(a, q) == read_registers(4, a, q)

nmbs_write_single_coil(a, on) ==
  LET v == IF on THEN 65280 ELSE 0 IN Call(5, TRUE, Word(a) \o Word(v), a, v)

nmbs_write_single_register(a, v) == Call(6, TRUE, Word(a) \o Word(v), a, v)

nmbs_write_multiple_coils(a, bits) ==
  LET q == Len(bits)
  IN Call(15, InSpace(a, q, MAX_COILS),
          Word(a) \o Word(q) \o <<BitBytes(q)>> \o Packed(bits), a, q)

nmbs_write_multiple_registers(a, vs) ==
  LET q == Len(vs)
  IN Call(16, InSpace(a, q, MAX_WRITE), Word(a) \o Word(q) \o <<2 * q>> \o Words(vs), a, q)

nmbs_read_file_record(file, record, count) ==
  Call(20, file # 0 /\ record <= MAX_RECORD /\ count <= MAX_FILE_READ,
       <<7, 6>> \o Word(file) \o Word(record) \o Word(count), record, count)

nmbs_write_file_record(file, record, vs) ==
  LET n == Len(vs)
  IN Call(21, file # 0 /\ record <= MAX_RECORD /\ n <= MAX_FILE_WRITE,
          <<(7 + 2 * n) % 256, 6>> \o Word(file) \o Word(record) \o Word(n) \o Words(vs),
          record, n)

nmbs_read_write_registers(ra, rq, wa, vs) ==
  LET n == Len(vs)
  IN Call(23, InSpace(ra, rq, MAX_READ) /\ InSpace(wa, n, MAX_RW_WRITE),
          Word(ra) \o Word(rq) \o Word(wa) \o Word(n) \o <<2 * n>> \o Words(vs), ra, rq)

\* Any function code with any data, and a response of v bytes.
nmbs_send_raw_pdu(fc, data, v) == [Call(fc, TRUE, data, 0, v) EXCEPT !.raw = TRUE]

nmbs_receive_raw_pdu_response(t, p, m, c) == Footer(t, Recv(ResHeader(t, p, m), c.v))

(***************************************************************************)
(* What the calls above have in common: a request is as long as one of its *)
(* fields says, and short enough for the byte of the MBAP header that is   *)
(* checked.                                                                *)
(***************************************************************************)
Begins(c) == SubSeq(c.data, 1, 4) = Word(c.a) \o Word(c.v)
IsRequest(c) ==
  /\ c.len = Len(c.data) /\ c.len <= 253
  /\ c.a \in Words16
  /\ \/ c.fc \in 1..6 /\ c.len = 4 /\ Begins(c)
     \/ c.fc \in {15, 16} /\ c.len >= 5 /\ c.len = 5 + c.data[5] /\ Begins(c)
     \/ c.fc = 23 /\ c.len >= 9 /\ c.len = 9 + c.data[9] /\ Begins(c)
     \/ c.fc \in {20, 21} /\ c.len >= 1 /\ c.len = 1 + c.data[1]
IsCall(c) ==
  /\ DOMAIN c = {"fc", "ok", "data", "len", "a", "v", "raw"}
  /\ c.ok \in BOOLEAN /\ c.raw \in BOOLEAN
  /\ c.ok => /\ c.fc \in Bytes /\ c.v \in Words16 /\ c.len \in 0..(UINT16_MAX - 2)
             /\ c.data \in Seq(Bytes)
             /\ c.raw \/ IsRequest(c)

\* A write does not wait for an answer to a broadcast, a read does, and a raw
\* request leaves the reception to its caller.
Waits(m, c) == (c.fc \in 1..4 /\ ~c.raw) \/ ~m.broadcast

(***************************************************************************)
(* What each function does with the bytes that come back; a write of       *)
(* several registers uses the check of a write of one.                     *)
(***************************************************************************)
Response(t, p, m, c) ==
  CASE c.raw -> nmbs_receive_raw_pdu_response(t, p, m, c)
    [] ~c.raw /\ c.fc \in {1, 2} -> recv_read_discrete_res(t, p, m)
    [] ~c.raw /\ c.fc \in {3, 4, 23} -> recv_read_registers_res(t, p, m, c.v)
    [] ~c.raw /\ c.fc = 5 -> recv_write_single_coil_res(t, p, m, c.a, c.v)
    [] ~c.raw /\ c.fc = 6 -> recv_write_single_register_res(t, p, m, c.a, c.v)
    [] ~c.raw /\ c.fc = 15 -> recv_write_multiple_coils_res(t, p, m, c.a, c.v)
    [] ~c.raw /\ c.fc = 16 -> recv_write_single_register_res(t, p, m, c.a, c.v)
    [] ~c.raw /\ c.fc = 20 -> recv_read_file_record_res(t, p, m, TRUE, c.v)
    [] ~c.raw /\ c.fc = 21 -> recv_write_file_record_res(t, p, m, TRUE, c.data)

=============================================================================
