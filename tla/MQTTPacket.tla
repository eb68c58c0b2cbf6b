------------------------------ MODULE MQTTPacket ------------------------------
(***************************************************************************)
(* The MQTT packets (MQTTPacket/src): how each is written as bytes and     *)
(* read back.  A packet is a record, a string a sequence of bytes, a       *)
(* buffer a sequence of bytes; of a serialiser's result the empty sequence *)
(* stands for MQTTPACKET_BUFFER_TOO_SHORT.                                 *)
(***************************************************************************)
EXTENDS Integers, Sequences

CONNECT == 1
CONNACK == 2
PUBLISH == 3
PUBACK == 4
PUBREC == 5
PUBREL == 6
PUBCOMP == 7
SUBSCRIBE == 8
SUBACK == 9
UNSUBSCRIBE == 10
UNSUBACK == 11
PINGREQ == 12
PINGRESP == 13
DISCONNECT == 14

Bit(b) == IF b THEN 1 ELSE 0
\* The first byte: type, dup, QoS and retain.
Header(type, dup, qos, retained) == 16 * type + 8 * Bit(dup) + 2 * qos + Bit(retained)
TypeOf(h) == h \div 16
DupOf(h) == (h \div 8) % 2 = 1
QosOf(h) == (h \div 2) % 4
RetainedOf(h) == h % 2 = 1

(***************************************************************************)
(* The remaining length: up to four digits to the base of 128, the lowest  *)
(* first, each but the last with its top bit set.                          *)
(***************************************************************************)
Remainders == 0..268435455  \* 128^4 - 1

MQTTPacket_encode(n) ==
  IF n < 128 THEN <<n>>
  ELSE IF n < 16384 THEN <<128 + (n % 128), n \div 128>>
  ELSE IF n < 2097152 THEN <<128 + (n % 128), 128 + ((n \div 128) % 128), n \div 16384>>
  ELSE <<128 + (n % 128), 128 + ((n \div 128) % 128), 128 + ((n \div 16384) % 128), n \div 2097152>>

\* Four digits, or the last one without the top bit, end the field.
Ended(digits) == Len(digits) = 4 \/ (digits # <<>> /\ digits[Len(digits)] < 128)
\* Slip: the digits are taken in the order of a number written down.
Value_HighFirst(digits) ==
  LET d(i) == IF i <= Len(digits) THEN digits[i] % 128 ELSE 0
  IN IF Len(digits) = 2 THEN 128 * d(1) + d(2) ELSE d(1)
Value(digits) ==
  LET d(i) == IF i <= Len(digits) THEN digits[i] % 128 ELSE 0
  IN d(1) + 128 * d(2) + 16384 * d(3) + 2097152 * d(4)

\* The field at the start of a buffer, and the length decodeBuf returns for it.
Field(b) ==
  SubSeq(b, 1, CHOOSE n \in 1..4 : /\ n = 4 \/ b[n] < 128
                                   /\ \A i \in 1..(n - 1) : b[i] >= 128)
MQTTPacket_decode(b) ==
  [value |-> Value(Field(b)),
   len |-> IF Field(b)[Len(Field(b))] >= 128 THEN 5 ELSE Len(Field(b))]

\* The length of a packet: the header byte is counted before the length of the
\* field is chosen, and the last limit is one short.
\* Slip: the header byte is forgotten.
MQTTPacket_len_NoHeader(n) ==
  n + (IF n + 1 < 128 THEN 1 ELSE IF n + 1 < 16384 THEN 2 ELSE 3)
MQTTPacket_len(n) ==
  n + 1 + (IF n + 1 < 128 THEN 1 ELSE IF n + 1 < 16384 THEN 2
           ELSE IF n + 1 < 2097151 THEN 3 ELSE 4)

(***************************************************************************)
(* Fields.  A Cursor walks over a buffer; what lies behind the end of the  *)
(* buffer is taken as 0.                                                   *)
(***************************************************************************)
writeInt(n) == <<n \div 256, n % 256>>
writeMQTTString(s) == writeInt(Len(s)) \o s

ByteAt(b, i) == IF i <= Len(b) THEN b[i] ELSE 0
readInt(b, at) == 256 * ByteAt(b, at) + ByteAt(b, at + 1)

\* A string that does not end before end is not read.
readMQTTLenString(b, at, end) ==
  LET n == readInt(b, at)
      ok == end - at > 1 /\ at + 2 + n <= end
  IN [ok |-> ok, s |-> IF ok THEN SubSeq(b, at + 2, at + 1 + n) ELSE <<>>, at |-> at + 2 + n]

\* Where the body starts and ends, as the remaining length says.
Start(b) == 2 + MQTTPacket_decode(Tail(b)).len
End(b) == Start(b) + MQTTPacket_decode(Tail(b)).value

(***************************************************************************)
(* Serialisers: the packet, unless buflen is too short for it.             *)
(***************************************************************************)
Written(p, buflen, header, body) ==
  IF MQTTPacket_len(Len(body)) > buflen THEN <<>>
  ELSE <<header>> \o MQTTPacket_encode(Len(body)) \o body

Concat(ss) ==
  LET upto[i \in 0..Len(ss)] == IF i = 0 THEN <<>> ELSE upto[i - 1] \o ss[i]
  IN upto[Len(ss)]

\* A will, a user name or a password is a sequence of none or one.
Maybe(s, write(_)) == IF s = <<>> THEN <<>> ELSE write(s[1])
writeWill(w) == writeMQTTString(w.topic) \o writeMQTTString(w.message)

ConnectFlags(p) ==
  128 * Len(p.username) + 64 * Len(p.password)
  + (IF p.will = <<>> THEN 0 ELSE 4 + 8 * p.will[1].qos + 32 * Bit(p.will[1].retained))
  + 2 * Bit(p.cleansession)

ProtocolName(version) ==
  IF version = 4 THEN <<77, 81, 84, 84>> ELSE <<77, 81, 73, 115, 100, 112>>

MQTTSerialize_connect(p, buflen) ==
  Written(p, buflen, Header(CONNECT, FALSE, 0, FALSE),
          writeMQTTString(ProtocolName(p.version))
          \o <<IF p.version = 4 THEN 4 ELSE 3, ConnectFlags(p)>>
          \o writeInt(p.keepalive) \o writeMQTTString(p.clientID)
          \o Maybe(p.will, writeWill)
          \o Maybe(p.username, writeMQTTString) \o Maybe(p.password, writeMQTTString))

MQTTSerialize_publish(p, buflen) ==
  Written(p, buflen, Header(PUBLISH, p.dup, p.qos, p.retained),
          writeMQTTString(p.topic) \o (IF p.qos > 0 THEN writeInt(p.id) ELSE <<>>) \o p.payload)

MQTTSerialize_subscribe(p, buflen) ==
  Written(p, buflen, Header(SUBSCRIBE, p.dup, 1, FALSE),
          writeInt(p.id) \o Concat([i \in DOMAIN p.filters |->
                                      writeMQTTString(p.filters[i][1]) \o <<p.filters[i][2]>>]))

MQTTSerialize_unsubscribe(p, buflen) ==
  Written(p, buflen, Header(UNSUBSCRIBE, p.dup, 1, FALSE),
          writeInt(p.id) \o Concat([i \in DOMAIN p.filters |-> writeMQTTString(p.filters[i])]))

\* These compare the buffer with a number of their own.
Short(p, buflen, least, header, body) ==
  IF buflen < least THEN <<>> ELSE <<header>> \o MQTTPacket_encode(Len(body)) \o body

MQTTSerialize_ack(p, buflen) ==
  Short(p, buflen, 4, Header(p.type, p.dup, IF p.type = PUBREL THEN 1 ELSE 0, FALSE), writeInt(p.id))

MQTTSerialize_zero(p, buflen) ==
  Short(p, buflen, 2, Header(p.type, FALSE, 0, FALSE), <<>>)

\* The server's: two bytes are asked for where four are written.
MQTTSerialize_connack(p, buflen) ==
  Short(p, buflen, 2, Header(CONNACK, FALSE, 0, FALSE), <<Bit(p.sessionPresent), p.rc>>)

MQTTSerialize_suback(p, buflen) ==
  Short(p, buflen, 2 + Len(p.granted), Header(SUBACK, FALSE, 0, FALSE), writeInt(p.id) \o p.granted)

MQTTSerialize_unsuback(p, buflen) ==
  Short(p, buflen, 2, Header(UNSUBACK, FALSE, 0, FALSE), writeInt(p.id))

Serialize(p, buflen) ==
  CASE p.type = CONNECT -> MQTTSerialize_connect(p, buflen)
    [] p.type = CONNACK -> MQTTSerialize_connack(p, buflen)
    [] p.type = PUBLISH -> MQTTSerialize_publish(p, buflen)
    [] p.type \in PUBACK..PUBCOMP -> MQTTSerialize_ack(p, buflen)
    [] p.type = SUBSCRIBE -> MQTTSerialize_subscribe(p, buflen)
    [] p.type = SUBACK -> MQTTSerialize_suback(p, buflen)
    [] p.type = UNSUBSCRIBE -> MQTTSerialize_unsubscribe(p, buflen)
    [] p.type = UNSUBACK -> MQTTSerialize_unsuback(p, buflen)
    [] p.type \in PINGREQ..DISCONNECT -> MQTTSerialize_zero(p, buflen)

(***************************************************************************)
(* Deserialisers: the return code and the packet.  "1 is success"; but a   *)
(* reader that gives up on the body leaves in rc what it held, which is    *)
(* the length of the length field, and the caller's variables unset.       *)
(***************************************************************************)
Unset(type) == [type |-> type]
GivesUp(b, type) == [rc |-> MQTTPacket_decode(Tail(b)).len, p |-> Unset(type)]
Reads(p) == [rc |-> 1, p |-> p]
Refuses(type) == [rc |-> 0, p |-> Unset(type)]

MQTTDeserialize_connack(b) ==
  LET at == Start(b)
  IN IF TypeOf(b[1]) # CONNACK THEN Refuses(CONNACK)
     ELSE IF End(b) - at < 2 THEN GivesUp(b, CONNACK)
     ELSE Reads([type |-> CONNACK, sessionPresent |-> ByteAt(b, at) % 2 = 1,
                 rc |-> ByteAt(b, at + 1)])

\* The payload ends where the packet does, wherever the identifier ended.
MQTTDeserialize_publish(b) ==
  LET topic == readMQTTLenString(b, Start(b), End(b))
      q == QosOf(b[1])
      from == IF q > 0 THEN topic.at + 2 ELSE topic.at
  IN IF TypeOf(b[1]) # PUBLISH THEN Refuses(PUBLISH)
     ELSE IF ~topic.ok THEN GivesUp(b, PUBLISH)
     ELSE Reads([type |-> PUBLISH, dup |-> DupOf(b[1]), qos |-> q, retained |-> RetainedOf(b[1]),
                 topic |-> topic.s, id |-> IF q > 0 THEN readInt(b, topic.at) ELSE 0,
                 payload |-> [i \in 1..(End(b) - from) |-> ByteAt(b, from + i - 1)]])

MQTTDeserialize_ack(b) ==
  IF End(b) - Start(b) < 2 THEN GivesUp(b, TypeOf(b[1]))
  ELSE Reads([type |-> TypeOf(b[1]), dup |-> DupOf(b[1]), id |-> readInt(b, Start(b))])

\* Of a wrong type nothing is said but by the type that was read.
MQTTDeserialize_unsuback(b) ==
  LET r == MQTTDeserialize_ack(b)
  IN IF TypeOf(b[1]) = UNSUBACK
     THEN [rc |-> 1, p |-> IF r.p = Unset(UNSUBACK) THEN r.p ELSE [type |-> UNSUBACK, id |-> r.p.id]]
     ELSE [r EXCEPT !.p = Unset(UNSUBACK)]

\* Room for maxcount codes is asked for after one more has been stored.
MQTTDeserialize_suback(b, maxcount) ==
  LET n == End(b) - Start(b) - 2
  IN IF TypeOf(b[1]) # SUBACK THEN Refuses(SUBACK)
     ELSE IF n < 0 THEN GivesUp(b, SUBACK)
     ELSE IF n > maxcount + 1 THEN [rc |-> -1, p |-> Unset(SUBACK)]
     ELSE Reads([type |-> SUBACK, id |-> readInt(b, Start(b)),
                 granted |-> [i \in 1..n |-> ByteAt(b, Start(b) + 1 + i)]])

IsPrefixOf(s, t) == Len(s) <= Len(t) /\ s = SubSeq(t, 1, Len(s))
\* A protocol name is compared as far as the shorter of the two goes.
MQTTPacket_checkVersion(protocol, version) ==
  \E v \in {3, 4} : version = v /\ (IsPrefixOf(protocol, ProtocolName(v)) \/ IsPrefixOf(ProtocolName(v), protocol))

\* CONNECT's strings may run to the end of the buffer, not of the packet.
stringOf(b, at) == readMQTTLenString(b, at, Len(b) + 1)

\* A user name or password is read if its flag is set, must not be empty unless
\* something follows it, and a password needs a user name.
MQTTDeserialize_connect(b) ==
  LET end == Len(b) + 1
      protocol == stringOf(b, Start(b))
      version == ByteAt(b, protocol.at)
      f == ByteAt(b, protocol.at + 1)
      flag(k) == (f \div k) % 2 = 1
      client == stringOf(b, protocol.at + 4)
      topic == stringOf(b, client.at)
      message == stringOf(b, topic.at)
      at == IF flag(4) THEN message.at ELSE client.at
      name == stringOf(b, at)
      word == stringOf(b, name.at)
      wrong == \/ TypeOf(b[1]) # CONNECT \/ ~protocol.ok
               \/ ~MQTTPacket_checkVersion(protocol.s, version)
               \/ ~client.ok
               \/ flag(4) /\ ~(topic.ok /\ message.ok)
               \/ flag(128) /\ (end - at < 3 \/ ~name.ok)
               \/ flag(64) /\ (~flag(128) \/ end - name.at < 3 \/ ~word.ok)
  IN IF wrong THEN Refuses(CONNECT)
     ELSE Reads([type |-> CONNECT, version |-> version, cleansession |-> flag(2),
                 keepalive |-> readInt(b, protocol.at + 2), clientID |-> client.s,
                 will |-> IF flag(4) THEN <<[topic |-> topic.s, message |-> message.s,
                                             qos |-> (f \div 8) % 4, retained |-> flag(32)]>>
                          ELSE <<>>,
                 username |-> IF flag(128) THEN <<name.s>> ELSE <<>>,
                 password |-> IF flag(64) THEN <<word.s>> ELSE <<>>])

(***************************************************************************)
(* The list of filters of a request, each followed by rest bytes more.     *)
(* Items(...).ok is FALSE if one of them does not end in the packet.       *)
(***************************************************************************)
Items(b, from, end, rest) ==
  LET item[at \in Nat \ {0}] ==
        LET s == readMQTTLenString(b, at, end)
        IN IF at >= end THEN [ok |-> TRUE, list |-> <<>>]
           ELSE IF ~s.ok \/ (rest > 0 /\ s.at >= end) THEN [ok |-> FALSE, list |-> <<>>]
           ELSE LET tail == item[s.at + rest]
                IN [ok |-> tail.ok, list |-> <<s>> \o tail.list]
  IN item[from]

MQTTDeserialize_subscribe(b, maxcount) ==
  LET items == Items(b, Start(b) + 2, End(b), 1)
  IN IF TypeOf(b[1]) # SUBSCRIBE \/ ~items.ok \/ Len(items.list) > maxcount
     THEN [rc |-> -1, p |-> Unset(SUBSCRIBE)]
     ELSE Reads([type |-> SUBSCRIBE, dup |-> DupOf(b[1]), id |-> readInt(b, Start(b)),
                 filters |-> [i \in DOMAIN items.list |->
                                <<items.list[i].s, ByteAt(b, items.list[i].at)>>]])

\* maxcount is not looked at.
MQTTDeserialize_unsubscribe(b) ==
  LET items == Items(b, Start(b) + 2, End(b), 0)
  IN IF TypeOf(b[1]) # UNSUBSCRIBE THEN Refuses(UNSUBSCRIBE)
     ELSE IF ~items.ok THEN GivesUp(b, UNSUBSCRIBE)
     ELSE Reads([type |-> UNSUBSCRIBE, dup |-> DupOf(b[1]), id |-> readInt(b, Start(b)),
                 filters |-> [i \in DOMAIN items.list |-> items.list[i].s]])

\* What the receiver of a packet calls for its type; a packet without a body is
\* its type.
Deserialize(type, b, maxcount) ==
  CASE type = CONNECT -> MQTTDeserialize_connect(b)
    [] type = CONNACK -> MQTTDeserialize_connack(b)
    [] type = PUBLISH -> MQTTDeserialize_publish(b)
    [] type \in PUBACK..PUBCOMP -> MQTTDeserialize_ack(b)
    [] type = SUBSCRIBE -> MQTTDeserialize_subscribe(b, maxcount)
    [] type = SUBACK -> MQTTDeserialize_suback(b, maxcount)
    [] type = UNSUBSCRIBE -> MQTTDeserialize_unsubscribe(b)
    [] type = UNSUBACK -> MQTTDeserialize_unsuback(b)
    [] OTHER -> Reads([type |-> type])

(***************************************************************************)
(* Topics, as MQTT::Client matches them.  MQTTPacket_equals and            *)
(* isTopicMatched look at the characters one by one; Slash separates the   *)
(* levels, Plus and Hash are the wildcards.                                *)
(***************************************************************************)
Slash == 47
Plus == 43
Hash == 35

MQTTPacket_equals(topic, filter) == topic = filter

\* The end of the level of a topic that begins at or before n.
LevelEnd(topic, n) ==
  CHOOSE e \in n..Len(topic) : /\ e = Len(topic) \/ topic[e + 1] = Slash
                               /\ \A i \in (n + 1)..e : topic[i] # Slash

\* Slip: a + stands for one character.
Skip_One(topic, c, n) == n
\* Where a filter's character c, met at n, leaves the topic's pointer.
Skip(topic, c, n) ==
  IF c = Plus THEN LevelEnd(topic, n) ELSE IF c = Hash THEN Len(topic) ELSE n

isTopicMatched(filter, topic) ==
  LET Stops(f, n) ==
        \/ f > Len(filter) \/ n > Len(topic)
        \/ topic[n] = Slash /\ filter[f] # Slash
        \/ filter[f] \notin {Plus, Hash, topic[n]}
      walk[f \in 1..(Len(filter) + 1)] ==
        [n \in 1..(Len(topic) + 1) |->
           IF Stops(f, n) THEN <<f, n>> ELSE walk[f + 1][Skip(topic, filter[f], n) + 1]]
  IN walk[1][1] = <<Len(filter) + 1, Len(topic) + 1>>

\* deliverMessage's test of a handler's filter.
Matches(filter, topic) == MQTTPacket_equals(topic, filter) \/ isTopicMatched(filter, topic)

===============================================================================
