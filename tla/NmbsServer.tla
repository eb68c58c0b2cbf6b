------------------------------ MODULE NmbsServer ------------------------------
(***************************************************************************)
(* The server half of nanomodbus.c: one operator per handler of a request  *)
(* and nmbs_server_poll, which picks it.  A server's memory is a record of *)
(* coils, holding registers and file records; its discrete inputs and      *)
(* input registers never change here.  The callbacks belong to the         *)
(* application: fault says that the call number fault.at of them made for  *)
(* a request returns the error fault.err, and a callback that returns an   *)
(* error has changed nothing.                                              *)
(***************************************************************************)
EXTENDS Nanomodbus, FiniteSets
LOCAL INSTANCE SequencesExt
LOCAL INSTANCE TLC

CONSTANTS
  Supported,           \* function codes the application has callbacks for
  InputBit(_, _),      \* discrete input of a station at an address
  InputRegister(_, _)  \* input register of a station at an address

(***************************************************************************)
(* A handler's outcome: the error the poll sees, the bytes left, the new   *)
(* memory, the frame sent (empty if none), and what was carried out: the   *)
(* data of the answer, or the exception.                                   *)
(***************************************************************************)
Outcome(p, mem, out, answer) ==
  [err |-> p.err, in |-> p.in, waits |-> p.waits, mem |-> mem, out |-> out, answer |-> answer]

Answer(err, data) == [err |-> err, data |-> data]
NoAnswer == Answer("none", <<>>)

\* send_exception_msg: also for a broadcast.
send_exception_msg(t, p, m, mem, e) ==
  Outcome(p, mem, Frame(t, [m EXCEPT !.fc = (@ + 128) % 256], 1, <<ExceptionCode(e)>>), Answer(e, <<>>))

NoFault == [at |-> 0, err |-> "NONE"]
\* What a callback that failed is reported as.
Reported(fault) == IF IsException(fault.err) THEN fault.err ELSE "SERVER_DEVICE_FAILURE"

\* The checks a handler makes, in their order: the exception of the first that
\* finds something wrong, or what the rest of them says.
BadRange(a, q, max, rest) ==
  IF q < 1 \/ q > max THEN "ILLEGAL_DATA_VALUE"
  ELSE IF a + q > ADDRESSES THEN "ILLEGAL_DATA_ADDRESS" ELSE rest
BadCount(count, asked, rest) ==
  IF count = 0 \/ count # asked THEN "ILLEGAL_DATA_VALUE" ELSE rest
\* The callback refuses an address the station does not have.
NoSuch(f, a, rest) == IF a \notin DOMAIN f THEN "ILLEGAL_DATA_ADDRESS" ELSE rest
Unsupported(fc, rest) == IF fc \notin Supported THEN "ILLEGAL_FUNCTION" ELSE rest
CallbackFails(fault) == IF fault.at = 1 THEN Reported(fault) ELSE "NONE"
BadCallback(fc, fault) == Unsupported(fc, CallbackFails(fault))

\* The end of every handler: an exception, or mem' and a response of data that
\* announces n bytes and that a broadcast does not get.
Reply(t, p, m, mem, refusal, after, n, data) ==
  IF refusal # "NONE" THEN send_exception_msg(t, p, m, mem, refusal)
  ELSE Outcome(p, after, IF m.broadcast THEN <<>> ELSE Frame(t, m, n, data),
               Answer("NONE", data))

Patch(f, a, vs) == [x \in DOMAIN f |-> IF x \in a..(a + Len(vs) - 1) THEN vs[x - a + 1] ELSE f[x]]
Slice(f, a, q) == [i \in 1..q |-> f[a + i - 1]]

(***************************************************************************)
(* What is read of a request after its header, with its check, is passed   *)
(* to the handler as the reader q it has got to: address and quantity or   *)
(* value; those, a count and as many bytes; a count and as many bytes; four *)
(* words, a count and as many bytes.                                       *)
(***************************************************************************)
TwoWords(t, p) == Footer(t, Recv(p, 4))
ManyRequest(t, p) == Footer(t, RecvAsMany(Recv(p, 5)))
FileRequest(t, p) == Footer(t, Counted(p))
ReadWriteRequest(t, p) == Footer(t, RecvAsMany(Recv(p, 9)))

\* A request that could not be read.  The poll clears the line when it was
\* somebody else's and is not merely incomplete.  After a wrong answer of that
\* station it clears nothing, since the answer's header has reset msg.ignored:
\* what is left is the beginning of the next frame.
Unread(q, m, mem) ==
  Outcome(IF m.ignored /\ q.err # "TIMEOUT" THEN [q EXCEPT !.in = <<>>] ELSE q,
          mem, <<>>, NoAnswer)

handle_read_discrete(t, q, m, mem, bits, fault) ==
  LET d == Data(t, q)
      a == WordAt(d, 1)
      n == WordAt(d, 3)
      bytes == Packed(Slice(bits, a, n))
      refusal == BadRange(a, n, MAX_BITS, BadCallback(m.fc, fault))
  IN IF ~Good(q) THEN Unread(q, m, mem)
     ELSE IF m.ignored
          THEN Outcome(recv_read_discrete_res(t, q, m), mem, <<>>, NoAnswer)
     ELSE Reply(t, q, m, mem, refusal, mem, 1 + BitBytes(n), <<BitBytes(n)>> \o bytes)

handle_read_registers(t, q, m, mem, registers, fault) ==
  LET d == Data(t, q)
      a == WordAt(d, 1)
      n == WordAt(d, 3)
      refusal == BadRange(a, n, MAX_READ, BadCallback(m.fc, fault))
  IN IF ~Good(q) THEN Unread(q, m, mem)
     ELSE IF m.ignored
          THEN Outcome(recv_read_registers_res(t, q, m, n), mem, <<>>, NoAnswer)
     ELSE Reply(t, q, m, mem, refusal, mem, 1 + 2 * n, <<2 * n>> \o Words(Slice(registers, a, n)))

\* Slip: the word of the request is handed to the callback.
CoilValue_Word(v) == v
CoilValue(v) == IF v = 0 THEN 0 ELSE 1

handle_write_single_coil(t, q, m, mem, fault) ==
  LET d == SubSeq(Data(t, q), 1, 4)
      a == WordAt(d, 1)
      v == WordAt(d, 3)
      refusal == Unsupported(m.fc, IF v \notin {0, 65280} THEN "ILLEGAL_DATA_VALUE"
                                   ELSE NoSuch(mem.coils, a, CallbackFails(fault)))
  IN IF ~Good(q) THEN Unread(q, m, mem)
     ELSE IF m.ignored
          THEN Outcome(recv_write_single_coil_res(t, q, m, a, v), mem, <<>>, NoAnswer)
     ELSE Reply(t, q, m, mem, refusal,
                [mem EXCEPT !.coils = Patch(@, a, <<CoilValue(v)>>)], 4, d)

handle_write_single_register(t, q, m, mem, fault) ==
  LET d == SubSeq(Data(t, q), 1, 4)
      a == WordAt(d, 1)
      v == WordAt(d, 3)
      refusal == Unsupported(m.fc, NoSuch(mem.registers, a, CallbackFails(fault)))
  IN IF ~Good(q) THEN Unread(q, m, mem)
     ELSE IF m.ignored
          THEN Outcome(recv_write_single_register_res(t, q, m, a, v), mem, <<>>, NoAnswer)
     ELSE Reply(t, q, m, mem, refusal, [mem EXCEPT !.registers = Patch(@, a, <<v>>)], 4, d)

handle_write_multiple_coils(t, q, m, mem, fault) ==
  LET d == Data(t, q)
      a == WordAt(d, 1)
      n == WordAt(d, 3)
      bits == [i \in 1..n |-> BitAt(SubSeq(d, 6, 5 + d[5]), i - 1)]
      refusal == BadRange(a, n, MAX_COILS, BadCount(d[5], BitBytes(n), BadCallback(m.fc, fault)))
  IN IF ~Good(q) THEN Unread(q, m, mem)
     ELSE IF m.ignored
          THEN Outcome(recv_write_multiple_coils_res(t, q, m, a, n), mem, <<>>, NoAnswer)
     ELSE Reply(t, q, m, mem, refusal, [mem EXCEPT !.coils = Patch(@, a, bits)],
                4, SubSeq(d, 1, 4))

handle_write_multiple_registers(t, q, m, mem, fault) ==
  LET d == Data(t, q)
      a == WordAt(d, 1)
      n == WordAt(d, 3)
      refusal == BadRange(a, n, MAX_WRITE, BadCount(d[5], 2 * n, BadCallback(m.fc, fault)))
  IN IF ~Good(q) THEN Unread(q, m, mem)
     ELSE IF m.ignored
          THEN Outcome(recv_write_multiple_registers_res(t, q, m, a, n), mem, <<>>, NoAnswer)
     ELSE Reply(t, q, m, mem, refusal,
                [mem EXCEPT !.registers = Patch(@, a, WordsOf(SubSeq(d, 6, 5 + d[5])))],
                4, SubSeq(d, 1, 4))

(***************************************************************************)
(* File records.  A request holds sub-requests; mem.files is one file of   *)
(* records of one register each, number 1.                                 *)
(***************************************************************************)
SubRequest(d, i) == [type |-> ByteAt(d, i), file |-> 256 * ByteAt(d, i + 1) + ByteAt(d, i + 2),
                     record |-> 256 * ByteAt(d, i + 3) + ByteAt(d, i + 4),
                     length |-> 256 * ByteAt(d, i + 5) + ByteAt(d, i + 6)]
BadSub(s, max) == s.type # 6 \/ s.file = 0 \/ s.record > MAX_RECORD \/ s.length > max
NoRecord(mem, s) == s.file # 1 \/ s.record + s.length > Cardinality(DOMAIN mem.files)

\* The callback's answers for the sub-requests, in order.
SubRefusals(mem, subs, fault) ==
  [i \in DOMAIN subs |->
     IF fault.at = i THEN Reported(fault)
     ELSE IF NoRecord(mem, subs[i]) THEN "ILLEGAL_DATA_ADDRESS" ELSE "NONE"]
FirstRefused(refusals) ==
  CHOOSE n \in 1..(Len(refusals) + 1) :
    /\ n <= Len(refusals) => refusals[n] # "NONE"
    /\ \A i \in 1..(n - 1) : refusals[i] = "NONE"

\* The size of the answer is kept in a byte, and is the length announced.
ReadSubs(d) == [i \in 1..(d[1] \div 7) |-> SubRequest(d, 7 * i - 5)]
FileSize(subs) == FoldLeft(LAMBDA n, s : (n + 2 + 2 * s.length) % 256, 0, subs)
FileData(mem, subs) ==
  LET record(s) == <<(2 * s.length + 1) % 256, 6>> \o Words(Slice(mem.files, s.record, s.length))
  IN FoldLeft(LAMBDA b, s : b \o record(s), <<FileSize(subs)>>, subs)

ReadRefusal(d, m, subs, answers) ==
  IF d[1] % 7 # 0 \/ d[1] \notin 7..245 THEN "ILLEGAL_DATA_VALUE"
  ELSE IF \E i \in DOMAIN subs : BadSub(subs[i], MAX_FILE_READ)
       THEN "ILLEGAL_DATA_ADDRESS"
  ELSE Unsupported(m.fc, Append(answers, "NONE")[FirstRefused(answers)])

handle_read_file_record(t, q, m, mem, fault) ==
  LET d == Data(t, q)
      subs == ReadSubs(d)
  IN IF ~Good(q) THEN Unread(q, m, mem)
     ELSE IF m.ignored
          THEN Outcome(recv_read_file_record_res(t, q, m, FALSE, 0), mem, <<>>, NoAnswer)
     ELSE Reply(t, q, m, mem, ReadRefusal(d, m, subs, SubRefusals(mem, subs, fault)), mem,
                FileSize(subs), FileData(mem, subs))

\* The sub-requests of a write, as its first loop walks over them: it ends at
\* one that is wrong, or when fewer than 7 bytes are left, in 16 bits.
WriteSubs(d) ==
  LET from[o \in Nat] ==
        LET s == SubRequest(d, o)
            left == (d[1] + 65536 - (o - 2) - 7 - 2 * s.length) % 65536
            one == s @@ [left |-> left,
                      words |-> [i \in 1..s.length |->
                                  256 * ByteAt(d, o + 5 + 2 * i) + ByteAt(d, o + 6 + 2 * i)]]
        IN IF BadSub(s, MAX_FILE_WRITE) \/ left < 7 THEN <<one>>
           ELSE <<one>> \o from[o + 7 + 2 * s.length]
  IN from[2]

WriteRefusal(d, m, last) ==
  IF d[1] \notin 7..251 THEN "ILLEGAL_DATA_VALUE"
  ELSE IF BadSub(last, MAX_FILE_WRITE) THEN "ILLEGAL_DATA_ADDRESS"
  ELSE IF last.left # 0 THEN "ILLEGAL_DATA_VALUE"
  ELSE IF m.fc \notin Supported THEN "ILLEGAL_FUNCTION" ELSE "NONE"

\* All is checked, then the records are written one by one: those before one
\* that fails, number n, stay written.
WriteRecords(t, q, m, mem, d, subs, answers, n) ==
  LET after == [mem EXCEPT !.files =
                  FoldLeft(LAMBDA f, s : Patch(f, s.record, s.words), @, SubSeq(subs, 1, n - 1))]
  IN Reply(t, q, m, after, Append(answers, "NONE")[n], after, Len(d), d)

WriteFile(t, q, m, mem, fault, d, subs) ==
  LET early == WriteRefusal(d, m, subs[Len(subs)])
      answers == SubRefusals(mem, subs, fault)
  IN IF early # "NONE" THEN send_exception_msg(t, q, m, mem, early)
     ELSE WriteRecords(t, q, m, mem, d, subs, answers, FirstRefused(answers))

handle_write_file_record(t, q, m, mem, fault) ==
  LET d == SubSeq(Data(t, q), 1, 1 + Data(t, q)[1])
  IN IF ~Good(q) THEN Unread(q, m, mem)
     ELSE IF m.ignored
          THEN Outcome(recv_write_file_record_res(t, q, m, FALSE, <<>>), mem, <<>>, NoAnswer)
     ELSE WriteFile(t, q, m, mem, fault, d, WriteSubs(d))

\* Writes, then reads; a broadcast only writes.  A server that ignores the
\* request expects the answer of a write of several registers.
handle_read_write_registers(t, q, m, mem, fault) ==
  LET d == Data(t, q)
      ra == WordAt(d, 1)
      rn == WordAt(d, 3)
      wa == WordAt(d, 5)
      wn == WordAt(d, 7)
      bad == IF rn \notin 1..MAX_READ \/ wn \notin 1..MAX_WRITE \/ d[9] # 2 * wn
             THEN "ILLEGAL_DATA_VALUE"
             ELSE IF ra + rn > ADDRESSES \/ wa + wn > ADDRESSES THEN "ILLEGAL_DATA_ADDRESS"
             ELSE Unsupported(3, BadCallback(16, fault))
      after == [mem EXCEPT !.registers = Patch(@, wa, WordsOf(SubSeq(d, 10, 9 + d[9])))]
      unread == fault.at = 2 /\ ~m.broadcast
  IN IF ~Good(q) THEN Unread(q, m, mem)
     ELSE IF m.ignored
          THEN Outcome(recv_write_multiple_registers_res(t, q, m, wa, wn), mem, <<>>, NoAnswer)
     ELSE IF bad # "NONE" THEN send_exception_msg(t, q, m, mem, bad)
     ELSE Reply(t, q, m, after, IF unread THEN Reported(fault) ELSE "NONE", after,
                1 + 2 * rn, <<2 * rn>> \o Words(Slice(after.registers, ra, rn)))

Bits(s) == [a \in 0..(ADDRESSES - 1) |-> InputBit(s, a)]
InputRegisters(s) == [a \in 0..(ADDRESSES - 1) |-> InputRegister(s, a)]

\* Another function code is neither read to its end nor answered.
handle_req_fc(t, s, p, m, mem, fault) ==
  CASE m.fc = 1 -> handle_read_discrete(t, TwoWords(t, p), m, mem, mem.coils, fault)
    [] m.fc = 2 -> handle_read_discrete(t, TwoWords(t, p), m, mem, Bits(s), fault)
    [] m.fc = 3 -> handle_read_registers(t, TwoWords(t, p), m, mem, mem.registers, fault)
    [] m.fc = 4 -> handle_read_registers(t, TwoWords(t, p), m, mem, InputRegisters(s), fault)
    [] m.fc = 5 -> handle_write_single_coil(t, TwoWords(t, p), m, mem, fault)
    [] m.fc = 6 -> handle_write_single_register(t, TwoWords(t, p), m, mem, fault)
    [] m.fc = 15 -> handle_write_multiple_coils(t, ManyRequest(t, p), m, mem, fault)
    [] m.fc = 16 -> handle_write_multiple_registers(t, ManyRequest(t, p), m, mem, fault)
    [] m.fc = 20 -> handle_read_file_record(t, FileRequest(t, p), m, mem, fault)
    [] m.fc = 21 -> handle_write_file_record(t, FileRequest(t, p), m, mem, fault)
    [] m.fc = 23 -> handle_read_write_registers(t, ReadWriteRequest(t, p), m, mem, fault)
    [] OTHER -> Outcome(Fail(p, "ILLEGAL_FUNCTION"), mem, <<>>, NoAnswer)

\* Only RTU looks at the address.
\* Slip: a broadcast counts as somebody else's.
recv_req_header_NotMine(t, s, p) ==
  [unit |-> UnitOf(t, p), fc |-> FcOf(t, p), tid |-> IF t = "TCP" THEN WordAt(p.buf, 1) ELSE 0,
   broadcast |-> FALSE, ignored |-> t = "RTU" /\ UnitOf(t, p) # s]
recv_req_header(t, s, p) ==
  [unit |-> UnitOf(t, p), fc |-> FcOf(t, p), tid |-> IF t = "TCP" THEN WordAt(p.buf, 1) ELSE 0,
   broadcast |-> t = "RTU" /\ UnitOf(t, p) = 0,
   ignored |-> t = "RTU" /\ UnitOf(t, p) \notin {0, s}]

nmbs_server_poll(t, s, in, mem, fault) ==
  LET h == MsgHeader(t, Reader(in))
      m == recv_req_header(t, s, h)
  IN IF ~Good(h) THEN Outcome(h, mem, <<>>, NoAnswer)
     ELSE handle_req_fc(t, s, h, m, mem, fault)

=============================================================================
