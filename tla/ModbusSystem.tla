----------------------------- MODULE ModbusSystem -----------------------------
(***************************************************************************)
(* A Modbus client and its servers: the calls of ModbusClient, which go    *)
(* through nanomodbus to a serial line (RTU) or a connection (TCP), and    *)
(* the polls of the servers.  On the serial line every station hears the   *)
(* others, so that a server has to skip the requests and the answers of    *)
(* its neighbours.                                                         *)
(*                                                                         *)
(* air holds the frames under way, in order, each with the stations it     *)
(* will reach, and rx what has arrived at each station and has not been    *)
(* read.  A call or a poll is a chain of blocking reads of the station's   *)
(* own bytes: it is one step, taken when the last read returns, with what  *)
(* has come by then.                                                       *)
(***************************************************************************)
EXTENDS NmbsClient, NmbsServer

CONSTANTS
  Transports,     \* subset of {"RTU", "TCP"}
  Servers,        \* addresses of the servers
  Menus(_),       \* for a transport, the sets of calls [to, c] a client draws from
  CallbackFaults, \* failures of callbacks: [at, err]
  FrameFaults,    \* subset of {"lose", "corrupt", "cut", "short", "late"}
  MaxByte,        \* place of the last byte of a frame that may be altered or cut
  MaxCalls,       \* calls of a behaviour
  MaxBrokenCalls, \* calls of one in which bytes are altered or frames broken up
  MaxFaults       \* faults of a behaviour

Client == 0
Stations == Servers \cup {Client}

ASSUME SystemAssumption ==
  /\ Servers \subseteq 1..247 /\ Servers # {} /\ Transports \subseteq {"RTU", "TCP"}
  /\ MaxCalls \in Nat /\ MaxFaults \in Nat /\ MaxBrokenCalls \in 0..MaxCalls

\* What the application passes to the client and what its callbacks return.
ASSUME ApplicationAssumption ==
  /\ \A t \in Transports : \A m \in Menus(t) : \A r \in m : r.to \in Bytes /\ IsCall(r.c)
  /\ \A s \in Servers : \A a \in 0..(ADDRESSES - 1) :
       InputBit(s, a) \in {0, 1} /\ InputRegister(s, a) \in Words16

VARIABLES
  transport,  \* "RTU" or "TCP"
  menu,       \* the calls the application makes
  tid,        \* current_tid of the client
  call,       \* the request whose answer is awaited, or NoCall
  rx,         \* bytes each station has not read yet
  air,        \* frames on their way: [to, bytes]
  mem,        \* memory of each server
  last,       \* the latest call and its result
  calls,      \* number of calls made
  faults,     \* the faults that have happened
  carried,    \* what servers did since the latest request was sent
  written,    \* writes servers have carried out: <<server, fc, data>>
  sent        \* writes the client has sent: <<address, fc, data>>

vars == <<transport, menu, tid, call, rx, air, mem, last, calls, faults, carried, written, sent>>
history == <<carried, written, sent>>
fixed == <<transport, menu>>

NoCall == [to |-> 0, c |-> [fc |-> 0, raw |-> TRUE], clean |-> TRUE]
WriteCodes == {5, 6, 15, 16, 21, 23}

Init ==
  /\ transport \in Transports
  /\ menu \in Menus(transport)
  /\ tid = 0
  /\ call = NoCall
  /\ rx = [s \in Stations |-> <<>>]
  /\ air = <<>>
  /\ mem = [s \in Servers |-> [coils |-> [a \in 0..(ADDRESSES - 1) |-> 0],
                               registers |-> [a \in 0..(ADDRESSES - 1) |-> 0],
                               files |-> [a \in 0..(ADDRESSES - 1) |-> 0]]]
  /\ last = [to |-> 0, c |-> NoCall.c, err |-> "NONE", data |-> <<>>, value |-> 0,
             clean |-> TRUE]
  /\ calls = 0
  /\ faults = <<>>
  /\ carried = {} /\ written = {} /\ sent = {}

Breaking == {"corrupt", "cut", "short"}
Limit == IF \E i \in DOMAIN faults : faults[i] \in Breaking THEN MaxBrokenCalls ELSE MaxCalls
Faulty(f) ==
  /\ f \in FrameFaults
  /\ Len(faults) < MaxFaults
  /\ f \in Breaking => calls <= MaxBrokenCalls
  /\ faults' = Append(faults, f)

Polled(s, fault) == nmbs_server_poll(transport, s, rx[s], mem[s], fault)
\* A server that has skipped a request and waits for its answer.
AwaitsOther(s) == Polled(s, NoFault).waits
\* A server in the middle of a frame.  The bytes of a frame follow each other
\* within the byte timeout and frames do not, so that it gives up before the
\* client's next frame.
Unfinished(o) == o.err = "TIMEOUT" /\ ~o.waits
MidFrame(s) == rx[s] # <<>> /\ Unfinished(Polled(s, NoFault))

\* The stations that hear what station s sends.
Hearers(s) == IF transport = "RTU" THEN Stations \ {s}
              ELSE IF s = Client THEN {CHOOSE x \in Servers : TRUE} ELSE {Client}
Transmit(s, frame) ==
  IF frame = <<>> THEN air ELSE Append(air, [to |-> Hearers(s), bytes |-> frame])

\* Nothing is left of earlier calls that could still be answered or be read.
Silent ==
  /\ air = <<>>
  /\ \A s \in Servers : rx[s] = <<>> \/ AwaitsOther(s)

(***************************************************************************)
(* The client.  A call whose arguments are refused sends nothing.          *)
(***************************************************************************)
Result(r, err, data, value, clean) ==
  [to |-> r.to, c |-> r.c, err |-> err, data |-> data, value |-> value, clean |-> clean]

Request(r, t, number) == RequestState(t, number, r.to, r.c.fc)
RequestFrame(r, number) ==
  Frame(transport, Request(r, transport, number), r.c.len, r.c.data)
SentBy(r) == IF r.c.fc \in WriteCodes THEN sent \cup {<<r.to, r.c.fc, r.c.data>>} ELSE sent

Start ==
  /\ call = NoCall
  /\ calls < Limit
  /\ \A s \in Servers : ~MidFrame(s)
  /\ calls' = calls + 1

Refuse(r) ==
  /\ Start
  /\ ~r.c.ok
  /\ last' = Result(r, "INVALID_ARGUMENT", <<>>, 0, TRUE)
  /\ UNCHANGED <<fixed, tid, call, rx, air, mem, faults, history>>

Send(r) ==
  LET number == NextTid(tid)
      m == Request(r, transport, number)
  IN /\ Start
     /\ r.c.ok
     /\ tid' = number
     /\ air' = Transmit(Client, RequestFrame(r, number))
     /\ sent' = SentBy(r)
     /\ carried' = {}
     /\ IF Waits(m, r.c)
        THEN /\ call' = [to |-> r.to, c |-> r.c, clean |-> Silent /\ rx[Client] = <<>>]
             /\ UNCHANGED last
        ELSE /\ last' = Result(r, "NONE", <<>>, 0, TRUE)
             /\ UNCHANGED call
     /\ UNCHANGED <<fixed, rx, mem, faults, written>>

\* The transport has taken less than the frame.
SendShort(r, n) ==
  LET number == NextTid(tid)
      frame == RequestFrame(r, number)
  IN /\ Start
     /\ r.c.ok
     /\ n \in 1..(Len(frame) - 1)
     /\ Faulty("short")
     /\ tid' = number
     /\ air' = Transmit(Client, SubSeq(frame, 1, n))
     /\ sent' = SentBy(r)
     /\ carried' = {}
     /\ last' = Result(r, "TIMEOUT", <<>>, 0, FALSE)
     /\ UNCHANGED <<fixed, call, rx, mem, written>>

Received ==
  Response(transport, Reader(rx[Client]), Request(call, transport, tid), call.c)

\* The data of a message of buffer b without its check.
Payload(b) ==
  SubSeq(b, HeaderLen(transport) + 1, Len(b) - (IF transport = "RTU" THEN 2 ELSE 0))

\* ModbusRegister::read: zero unless a register was copied, which happens as
\* soon as its bytes are there, before the check of the CRC.
\* Slip: the byte count is taken for a part of the register.
RegisterValue_Shifted(p) ==
  LET d == Data(transport, p)
  IN IF call.c.fc \in {3, 4} /\ Good(p) THEN WordAt(d, 1) ELSE 0
RegisterValue(p) ==
  LET d == Data(transport, p)
  IN IF call.c.fc \in {3, 4} /\ Len(p.buf) > HeaderLen(transport) /\ FcOf(transport, p) = call.c.fc
        /\ ByteAt(d, 1) >= 2 /\ Len(d) >= 1 + d[1]
     THEN WordAt(d, 2) ELSE 0

Return(p) ==
  /\ last' = Result(call, p.err, IF p.err = "NONE" THEN Payload(p.buf) ELSE <<>>,
                    RegisterValue(p), call.clean)
  /\ call' = NoCall
  /\ rx' = [rx EXCEPT ![Client] = p.in]
  /\ UNCHANGED <<fixed, tid, air, mem, calls, history>>

\* A first byte is waited for as long as one may come; a wait that ends before
\* is a fault of its own.
Receive ==
  /\ call # NoCall
  /\ Received.waits => Silent
  /\ Return(Received)
  /\ UNCHANGED faults

ReceiveTooLate ==
  /\ call # NoCall
  /\ Received.waits /\ ~Silent
  /\ Faulty("late")
  /\ Return(Received)

(***************************************************************************)
(* A server's poll of bytes that have come.                                *)
(***************************************************************************)
Asked(s, o) ==  \* the request just carried out, without header and check
  Payload(SubSeq(rx[s], 1, Len(rx[s]) - Len(o.in)))

Poll(s, o) ==
  LET fc == rx[s][HeaderLen(transport)]
      did == o.answer # NoAnswer
  IN /\ rx[s] # <<>>
     /\ rx' = [rx EXCEPT ![s] = o.in]
     /\ mem' = [mem EXCEPT ![s] = o.mem]
     /\ air' = Transmit(s, o.out)
     /\ carried' = IF did THEN carried \cup {[server |-> s, fc |-> fc, data |-> Asked(s, o),
                                              answer |-> o.answer]}
                   ELSE carried
     /\ written' = IF did /\ o.answer.err = "NONE" /\ fc \in WriteCodes
                   THEN written \cup {<<s, fc, Asked(s, o)>>} ELSE written
     /\ UNCHANGED <<fixed, tid, call, last, calls, sent>>

PollServer(s) ==
  /\ rx[s] # <<>>
  /\ AwaitsOther(s) => Silent
  /\ Poll(s, Polled(s, NoFault))
  /\ UNCHANGED faults

\* A server stops waiting for an answer that is still to come.
PollTooLate(s) ==
  /\ rx[s] # <<>>
  /\ AwaitsOther(s) /\ ~Silent
  /\ Faulty("late")
  /\ Poll(s, Polled(s, NoFault))

PollFailing(s) ==
  \E f \in CallbackFaults :
    /\ Polled(s, f) # Polled(s, NoFault)
    /\ Len(faults) < MaxFaults /\ faults' = Append(faults, "callback")
    /\ Poll(s, Polled(s, f))

(***************************************************************************)
(* The line.  Only a serial one loses or alters bytes.                     *)
(***************************************************************************)
Arrive(to, bytes, rest) ==
  /\ rx' = [s \in Stations |-> IF s \in to THEN rx[s] \o bytes ELSE rx[s]]
  /\ air' = rest
  /\ UNCHANGED <<fixed, tid, call, mem, last, calls, history>>

Deliver ==
  /\ air # <<>>
  /\ Arrive(Head(air).to, Head(air).bytes, Tail(air))
  /\ UNCHANGED faults

\* One of those that hear a frame misses it, or hears a byte of it wrong.
Without(s) == <<[Head(air) EXCEPT !.to = @ \ {s}]>> \o Tail(air)

Lose(s) ==
  /\ transport = "RTU"
  /\ air # <<>> /\ s \in Head(air).to
  /\ Faulty("lose")
  /\ Arrive({}, <<>>, Without(s))

Corrupt(s, k) ==
  /\ transport = "RTU"
  /\ air # <<>> /\ s \in Head(air).to
  /\ k \in DOMAIN Head(air).bytes
  /\ Faulty("corrupt")
  /\ Arrive({s}, [Head(air).bytes EXCEPT ![k] = (@ + 1) % 256], Without(s))

\* The end of a frame comes later than its beginning.
Cut(k) ==
  LET bytes == Head(air).bytes
  IN /\ air # <<>>
     /\ k \in 1..(Len(bytes) - 1)
     /\ Faulty("cut")
     /\ Arrive(Head(air).to, SubSeq(bytes, 1, k),
               <<[Head(air) EXCEPT !.bytes = SubSeq(@, k + 1, Len(@))]>> \o Tail(air))

Line ==
  \/ Deliver
  \/ \E s \in Stations : Lose(s) \/ \E k \in 1..MaxByte : Corrupt(s, k)
  \/ \E k \in 1..MaxByte : Cut(k)

\* The application makes no more calls: any other state without a successor is a
\* call that hangs.
Finished == calls >= Limit /\ call = NoCall /\ UNCHANGED vars

Next ==
  \/ \E r \in menu : Refuse(r) \/ Send(r) \/ \E n \in 1..MaxByte : SendShort(r, n)
  \/ Receive \/ ReceiveTooLate
  \/ \E s \in Servers : PollServer(s) \/ PollTooLate(s) \/ PollFailing(s)
  \/ Line
  \/ Finished

Spec == Init /\ [][Next]_vars

(***************************************************************************)
(* Properties.                                                             *)
(***************************************************************************)
ResultErrors == {"NONE", "TIMEOUT", "CRC", "INVALID_RESPONSE", "INVALID_UNIT_ID",
                 "INVALID_TCP_MBAP", "INVALID_ARGUMENT"} \cup {Exceptions[i] : i \in DOMAIN Exceptions}

\* What is on the line and in the buffers is bytes, a server's registers hold
\* 16 bits, and a call ends in one of the results of nmbs_error.
TypeOK ==
  /\ transport \in Transports
  /\ tid \in 0..MAX_TID
  /\ \A s \in Stations : rx[s] \in Seq(Bytes)
  /\ \A i \in DOMAIN air : air[i].to \subseteq Stations /\ air[i].bytes \in Seq(Bytes)
  /\ \A s \in Servers : \A a \in 0..(ADDRESSES - 1) :
       /\ mem[s].coils[a] \in {0, 1}
       /\ mem[s].registers[a] \in Words16 /\ mem[s].files[a] \in Words16
  /\ last.err \in ResultErrors
  /\ calls \in 0..MaxCalls
  /\ Len(faults) <= MaxFaults

Happened(f) == \E i \in DOMAIN faults : faults[i] = f
Addressed(e, to) == transport = "TCP" \/ e.server = to

\* The answer a call returns, data or exception, is the one the addressed
\* server gave to that very request: always over TCP, where the transaction
\* number is compared, and on a serial line when nothing of an earlier call was
\* left when the request went out.  (A late answer of the same unit and
\* function is otherwise taken for the new one.)
AnswersItsRequest ==
  (last.c.fc # 0 /\ (last.err = "NONE" \/ IsException(last.err))
   /\ (last.clean \/ transport = "TCP")
   /\ (transport = "RTU" /\ last.to = 0 => last.c.fc \in 1..4)
   /\ call = NoCall)
  => \E e \in carried :
       /\ Addressed(e, last.to) /\ e.fc = last.c.fc /\ e.data = last.c.data
       /\ e.answer.err = last.err /\ (last.err = "NONE" => e.answer.data = last.data)

\* A write that was acknowledged has been carried out, with those values, by
\* the server it went to, whatever was lost, late or altered.  The answer to a
\* write of several coils or registers repeats no value: there, and for the
\* read/write, the same proviso as above is needed.
AcknowledgedIsWritten ==
  (last.c.fc \in WriteCodes /\ ~last.c.raw /\ last.err = "NONE"
   /\ (transport = "RTU" => last.to # 0)
   /\ (last.c.fc \in {5, 6, 21} \/ last.clean \/ transport = "TCP"))
  => \E w \in written : (transport = "TCP" \/ w[1] = last.to)
                        /\ w[2] = last.c.fc /\ w[3] = last.c.data

\* A server writes only what the client has sent, to it or to all: never what
\* it makes of an altered frame, of the end of one, or of its neighbours'
\* traffic.  (What follows the place where a frame is given up is read as the
\* next frame.  In the menus no such rest holds a write with the right CRC by
\* itself; an answer of six or more registers could.)
WrittenWasSent ==
  \A w \in written :
    \E q \in sent : (transport = "TCP" \/ q[1] \in {0, w[1]}) /\ q[2] = w[2] /\ q[3] = w[3]

\* As long as nothing fails every call to a server there is gets an answer, however
\* the neighbours' polls are interleaved with it: listening to other stations'
\* traffic keeps every server in step with the line.  (Not after a read/write of
\* registers: a neighbour expects another answer, gives it up before its end,
\* and reads the rest together with the beginning of the next request.)
Misjudged(q) == q[2] = 23
FaultFreeCallsSucceed ==
  (faults = <<>> /\ (transport = "TCP" \/ \A q \in sent : ~Misjudged(q)))
  => last.err \in {"NONE", "INVALID_ARGUMENT"} \cup {Exceptions[i] : i \in DOMAIN Exceptions}

\* ModbusRegister::read returns 0 or what the register held when the server
\* was asked, unless an answer was altered on the line: its bytes are copied
\* before the CRC is checked and the error of the call is dropped.
RegisterReadsHeld ==
  (last.value # 0 /\ ~Happened("corrupt") /\ (last.clean \/ transport = "TCP") /\ call = NoCall)
  => \E e \in carried : Addressed(e, last.to) /\ e.fc = last.c.fc /\ e.data = last.c.data
                        /\ WordAt(e.answer.data, 2) = last.value

=============================================================================
