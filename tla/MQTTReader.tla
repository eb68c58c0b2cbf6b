------------------------------ MODULE MQTTReader ------------------------------
(***************************************************************************)
(* Packets on their way through a byte stream into the readers of the      *)
(* library: readPacket of MQTT::Client ("cpp") and of MQTTClient-C ("c"),  *)
(* MQTTPacket_read ("read") and MQTTPacket_readnb ("nb").  The first two   *)
(* run against a timer; a step is one read of the stream or one return.    *)
(*                                                                         *)
(* A read asks for some bytes and gets them, or after its timeout those    *)
(* that are there.  Its timeout is what is left of the timer: when that is *)
(* over, left_ms is zero for a moment, so that the read does not wait, and *)
(* negative from then on, which IPStack::read takes for a timeout of weeks.*)
(***************************************************************************)
EXTENDS MQTTPacket, FiniteSets

CONSTANTS
  Streams(_),  \* sequences of packets that may be sent to a reader
  Readers,     \* subset of {"cpp", "c", "read", "nb"}
  Sizes,       \* sizes of the receive buffer
  Segments(_), \* how many bytes of a stream may arrive at a time
  MaxCount,    \* how many filters or codes the receiver has room for
  MaxTimeouts, \* reads of a behaviour that time out
  Filters      \* topic filters of the handlers

Bytes == 0..255
BytesOf(ps) == Concat([i \in DOMAIN ps |-> Serialize(ps[i], 1000)])

(***************************************************************************)
(* The packets that one side of the library writes and the other takes: of *)
(* a request or an answer no more filters or codes than there is room for. *)
(* The last of user name and password is not empty: the reader of CONNECT  *)
(* wants a byte of it.                                                     *)
(***************************************************************************)
MaxWord == 65535  \* what two bytes hold
Words == 0..MaxWord
MQTTStrings == {s \in Seq(Bytes) : Len(s) <= MaxWord}
Maybes(S) == {s \in Seq(S) : Len(s) <= 1}
AtMost(n, S) == {s \in Seq(S) : Len(s) <= n}
Wills == [topic : MQTTStrings, message : MQTTStrings, qos : 0..2, retained : BOOLEAN]

Connects ==
  {p \in [type : {CONNECT}, version : {3, 4}, cleansession : BOOLEAN, keepalive : Words,
          clientID : MQTTStrings, will : Maybes(Wills), username : Maybes(MQTTStrings),
          password : Maybes(MQTTStrings)] :
     /\ p.password # <<>> => p.username # <<>> /\ p.password[1] # <<>>
     /\ p.username # <<>> /\ p.password = <<>> => p.username[1] # <<>>}
Connacks == [type : {CONNACK}, sessionPresent : BOOLEAN, rc : Bytes]
Publishes ==
  {p \in [type : {PUBLISH}, dup : BOOLEAN, qos : 0..2, retained : BOOLEAN, topic : MQTTStrings,
          id : Words, payload : Seq(Bytes)] : p.qos = 0 => p.id = 0}
Acks == [type : PUBACK..PUBCOMP, dup : BOOLEAN, id : Words]
Subscribes ==
  [type : {SUBSCRIBE}, dup : BOOLEAN, id : Words, filters : AtMost(MaxCount, MQTTStrings \X (0..2))]
Subacks == [type : {SUBACK}, id : Words, granted : AtMost(MaxCount, Bytes)]
Unsubscribes ==
  [type : {UNSUBSCRIBE}, dup : BOOLEAN, id : Words, filters : AtMost(MaxCount, MQTTStrings)]
Unsubacks == [type : {UNSUBACK}, id : Words]
Bare == [type : PINGREQ..DISCONNECT]

Packets ==
  {p \in Connects \cup Connacks \cup Publishes \cup Acks \cup Subscribes \cup Subacks
         \cup Unsubscribes \cup Unsubacks \cup Bare : Serialize(p, 1000) # <<>>}

ASSUME ReaderAssumption ==
  /\ Readers \subseteq {"cpp", "c", "read", "nb"}
  /\ \A n \in Sizes : n \in Nat /\ n >= 5
  /\ MaxCount \in Nat /\ MaxTimeouts \in Nat
  /\ \A r \in Readers : \A ps \in Streams(r) :
       ps \in Seq(Packets) /\ Segments(ps) \subseteq Nat

VARIABLES
  reader,   \* which reader it is
  segment,  \* bytes that arrive at a time
  size,     \* size of its buffer
  sent,     \* the packets of the stream
  wire,     \* bytes that have not arrived
  ring,     \* bytes that have arrived and have not been read
  stage,    \* "idle", "header", "digits" or "body"
  timer,    \* "running", "over" (0 ms left) or "past" (negative)
  patience, \* the timer as it was when the read's timeout was taken
  digits,   \* digits of the remaining length
  buf,      \* the receive buffer
  filled,   \* bytes of the packet in the buffer
  got,      \* what the calls have returned: [rc, p]
  broken,   \* a packet was cut short or did not fit
  timeouts  \* reads that have timed out

vars == <<reader, segment, size, sent, wire, ring, stage, timer, patience, digits, buf, filled, got,
          broken, timeouts>>
given == <<reader, segment, size, sent>>

Init ==
  /\ reader \in Readers /\ size \in Sizes /\ sent \in Streams(reader)
  /\ segment \in Segments(sent)
  /\ wire = BytesOf(sent) /\ ring = <<>>
  /\ stage = "idle" /\ timer = "running" /\ patience = "running"
  /\ digits = <<>> /\ buf = [i \in 1..size |-> 0] /\ filled = 0
  /\ got = <<>> /\ broken = FALSE /\ timeouts = 0

Arrive ==
  /\ wire # <<>>
  /\ LET n == IF Len(wire) < segment THEN Len(wire) ELSE segment
     IN /\ ring' = ring \o SubSeq(wire, 1, n)
        /\ wire' = SubSeq(wire, n + 1, Len(wire))
  /\ UNCHANGED <<given, stage, timer, patience, digits, buf, filled, got, broken, timeouts>>

Timed == reader \in {"cpp", "c"}
\* The timers of MQTTClient-C have at least 0 left.
Left(t) == IF reader = "c" /\ t = "past" THEN "over" ELSE t
Later(t) == IF t = "running" THEN {"over", "past"} ELSE {"past"}
TimePasses ==
  /\ Timed /\ stage # "idle" /\ timer # "past"
  /\ timer' \in Later(timer)
  /\ UNCHANGED <<given, wire, ring, stage, patience, digits, buf, filled, got, broken, timeouts>>

(***************************************************************************)
(* A call.  The result of a call that has read a packet is the packet's    *)
(* type with what the caller makes of the buffer.                          *)
(***************************************************************************)
Begin ==
  /\ stage = "idle"
  /\ stage' = "header"
  /\ timer' = "running" /\ patience' = "running"
  /\ digits' = <<>> /\ filled' = 0
  /\ UNCHANGED <<given, wire, ring, buf, got, broken, timeouts>>

Returns(rc, p) ==
  /\ stage' = "idle"
  /\ got' = IF rc = 0 THEN got ELSE Append(got, [rc |-> rc, p |-> p])

NoPacket == [type |-> 0]
Done(b) ==
  LET type == TypeOf(b[1])
      d == Deserialize(type, b, MaxCount)
  IN Returns(IF d.rc = 1 THEN type ELSE -1, d.p)

\* b with bytes s from place n on.
Into(b, n, s) == [i \in DOMAIN b |-> IF i \in n..(n + Len(s) - 1) THEN s[i - n + 1] ELSE b[i]]
Take(n) == ring' = SubSeq(ring, n + 1, Len(ring))

\* A read of n bytes ends without them.
TooLate(n) ==
  /\ Len(ring) < n
  /\ reader # "nb"
  /\ patience # "past"
  /\ timeouts < MaxTimeouts
  /\ timeouts' = timeouts + 1
  /\ IF Timed /\ patience = "running" /\ timer = "running" THEN timer' \in Later(timer) ELSE UNCHANGED timer

\* Nothing has come in time: no packet, or the end of a stream for MQTTPacket_read.
NoHeader ==
  /\ stage = "header"
  /\ TooLate(1)
  /\ Returns(IF Timed THEN 0 ELSE -1, NoPacket)
  /\ UNCHANGED <<given, wire, ring, patience, digits, buf, filled, broken>>

HeaderByte ==
  /\ stage = "header"
  /\ ring # <<>>
  /\ Take(1)
  /\ buf' = Into(buf, 1, SubSeq(ring, 1, 1))
  /\ filled' = 1
  /\ stage' = "digits" /\ patience' = Left(timer)
  /\ UNCHANGED <<given, wire, timer, digits, got, broken, timeouts>>

\* The overflow of a packet of n bytes behind h of header.
\* Slip: the length field is not counted.
Overflows_NoField(h, n) == n > size - 1
Overflows(h, n) == n > size - h

\* Slip: a packet without a body is waited for.
HasBody_Always(n) == TRUE
HasBody(n) == n > 0

\* With the length decoded from ds, right or not, the field is written into the
\* buffer and the body awaited if it fits.
LengthKnown(ds) ==
  LET n == Value(ds)
      field == MQTTPacket_encode(n)
      h == 1 + Len(field)
      packet == Into(buf, 2, field)
  IN /\ buf' = packet
     /\ filled' = h
     /\ CASE Overflows(h, n) -> Returns(IF Timed THEN -2 ELSE -1, NoPacket) /\ UNCHANGED patience
          [] ~Overflows(h, n) /\ ~HasBody(n) -> Done(packet) /\ UNCHANGED patience
          [] ~Overflows(h, n) /\ HasBody(n) -> stage' = "body" /\ patience' = Left(timer) /\ UNCHANGED got

Digit ==
  LET ds == Append(digits, Head(ring))
  IN /\ stage = "digits"
     /\ ring # <<>>
     /\ Take(1)
     /\ digits' = ds
     /\ IF ~Ended(ds) THEN UNCHANGED <<stage, patience, buf, filled, got, broken>>
        ELSE IF reader = "nb" /\ Len(ds) = 4 /\ ds[Len(ds)] >= 128
        THEN Returns(-1, NoPacket) /\ broken' = TRUE /\ UNCHANGED <<patience, buf, filled>>
        ELSE /\ LengthKnown(ds)
             /\ broken' = (broken \/ 1 + Len(ds) + Value(ds) > size)
     /\ UNCHANGED <<given, wire, timer, timeouts>>

\* The result of the decoding is not looked at.
NoDigit ==
  /\ stage = "digits"
  /\ TooLate(1)
  /\ LengthKnown(digits)
  /\ broken' = TRUE
  /\ UNCHANGED <<given, wire, ring, digits>>

\* What is still to come of the body.
Rest == Value(digits) - (filled - 1 - Len(MQTTPacket_encode(Value(digits))))

\* readnb takes what there is, the others all at once.
Body ==
  LET n == IF reader = "nb" /\ Len(ring) < Rest THEN Len(ring) ELSE Rest
      packet == Into(buf, filled + 1, SubSeq(ring, 1, n))
  IN /\ stage = "body"
     /\ ring # <<>>
     /\ Len(ring) >= n
     /\ Take(n)
     /\ buf' = packet
     /\ filled' = filled + n
     /\ IF n = Rest THEN Done(packet) ELSE UNCHANGED <<stage, got>>
     /\ UNCHANGED <<given, wire, timer, patience, digits, broken, timeouts>>

\* What has come of the body is lost.
NoBody ==
  /\ stage = "body"
  /\ TooLate(Rest)
  /\ ring' = <<>>
  /\ buf' = Into(buf, filled + 1, ring)
  /\ broken' = TRUE
  /\ Returns(CASE reader = "cpp" -> 1 [] reader = "c" -> 0 [] reader = "read" -> -1, NoPacket)
  /\ UNCHANGED <<given, wire, patience, digits, filled>>

\* The reader waits for bytes of which there are not enough.
Waiting ==
  /\ stage # "idle"
  /\ ring = <<>> \/ (stage = "body" /\ reader # "nb" /\ Len(ring) < Rest)

\* The stream is over.
Ends == wire = <<>> /\ Waiting /\ UNCHANGED vars

Next ==
  \/ Arrive \/ TimePasses \/ Begin
  \/ NoHeader \/ HeaderByte \/ Digit \/ NoDigit \/ Body \/ NoBody \/ Ends

Spec == Init /\ [][Next]_vars

(***************************************************************************)
(* Properties.                                                             *)
(***************************************************************************)
\* No reader ever puts a byte outside its buffer or reads more than four digits,
\* in step with the stream or out of it.
TypeOK ==
  /\ ring \in Seq(Bytes) /\ wire \in Seq(Bytes)
  /\ stage \in {"idle", "header", "digits", "body"}
  /\ {timer, patience} \subseteq {"running", "over", "past"}
  /\ digits \in Seq(Bytes) /\ Len(digits) <= 4
  /\ Len(buf) = size /\ buf \in Seq(Bytes)
  /\ filled \in 0..size
  /\ stage = "body" => filled + Rest <= size

PacketsRead == Concat([i \in DOMAIN got |-> IF got[i].p = NoPacket THEN <<>> ELSE <<got[i]>>])

\* However the bytes come, every reader returns the packets that were sent, one
\* by one and field by field, until one is cut short by a timeout or does not
\* fit the buffer.
ReadsWhatWasSent ==
  ~broken => /\ Len(PacketsRead) <= Len(sent)
             /\ \A i \in DOMAIN PacketsRead :
                  /\ PacketsRead[i].p = sent[i]
                  /\ PacketsRead[i].rc = sent[i].type

\* A serialiser never writes more than the buffer it was given takes: a buffer
\* one byte too short is refused.  (Those of a server that ask for two bytes and
\* write more are not the client's.)
FitsItsBuffer ==
  \A i \in DOMAIN sent :
    \/ sent[i].type \in {CONNACK, SUBACK, UNSUBACK}
    \/ Serialize(sent[i], Len(Serialize(sent[i], 1000)) - 1) = <<>>

\* A filter's levels against a topic's.
Cuts(s) == {0, Len(s) + 1} \cup {i \in DOMAIN s : s[i] = Slash}
LevelNo(s, k) ==
  LET at == CHOOSE i \in Cuts(s) : Cardinality({c \in Cuts(s) : c < i}) = k - 1
      to == CHOOSE i \in Cuts(s) : Cardinality({c \in Cuts(s) : c < i}) = k
  IN SubSeq(s, at + 1, to - 1)
Depth(s) == Cardinality(Cuts(s)) - 1
Covers(filter, topic) ==
  LET hash == LevelNo(filter, Depth(filter)) = <<Hash>>
      fixed == IF hash THEN Depth(filter) - 1 ELSE Depth(filter)
  IN /\ IF hash THEN Depth(topic) > fixed ELSE Depth(topic) = fixed
     /\ \A k \in 1..fixed : LevelNo(filter, k) \in {<<Plus>>, LevelNo(topic, k)}

\* A message is handed to the handlers whose filters cover its topic level by
\* level: + one level, # all that follow, for filters and topics of levels that
\* are not empty.  (a/# does not cover a.)
DeliveredAsSubscribed ==
  (stage = "idle" /\ ~broken /\ got # <<>> /\ got[Len(got)].rc = PUBLISH) =>
    LET topic == got[Len(got)].p.topic
    IN \A f \in Filters : Matches(f, topic) <=> Covers(f, topic)

\* Once the stream has come to its end and the reader waits, it has read every
\* packet, unless one was cut short or did not fit: no reader waits for bytes
\* that it has, or for more than a packet's.
AllRead == (wire = <<>> /\ Waiting /\ ~broken) => Len(PacketsRead) = Len(sent)

\* A packet that a call takes for well read was sent like that.
AcceptedWasSent ==
  \A i \in DOMAIN PacketsRead :
    PacketsRead[i].rc = PacketsRead[i].p.type => \E j \in DOMAIN sent : sent[j] = PacketsRead[i].p

\* No read of a call waits for bytes with the call's timer over.
WaitsInTime == (Timed /\ Waiting) => patience # "past"

===============================================================================
