--------------------------- MODULE MQTTSystemProofs ---------------------------
(***************************************************************************)
(* The MQTT client, the connection and the broker: types, the table of     *)
(* handlers, and when a session begins and ends.                           *)
(***************************************************************************)
EXTENDS MQTTSystem, FiniteSetTheorems, SequenceTheorems, WellFoundedInduction, TLAPS

(***************************************************************************)
(* Types.                                                                  *)
(***************************************************************************)
\* Without QoS 2, which is compiled in or not used, its packets never occur.
Qos2Used == MQTTCLIENT_QOS2 \/ 2 \in QoSs
Levels == IF Qos2Used THEN 0..2 ELSE 0..1
Acks == IF Qos2Used THEN {"PUBACK", "PUBREC", "PUBREL", "PUBCOMP"} ELSE {"PUBACK"}

LEMMA LevelsType ==
  /\ Levels \subseteq 0..2 /\ QoSs \subseteq Levels
  /\ 0 \in Levels /\ 1 \in Levels
  /\ 2 \in Levels => Qos2Used
BY APIAssumption DEF Levels, Qos2Used

UpPacket ==
       [type : {"CONNECT"}, clean : {CleanSession}]
  \cup [type : {"PUBLISH"}, id : Ids, qos : Levels, msg : OutMsgs]
  \cup [type : Acks, id : Nat]
  \cup [type : {"SUBSCRIBE"}, id : Ids, topic : Topics, qos : Levels]
  \cup [type : {"UNSUBSCRIBE"}, id : Ids, topic : Topics]
  \cup [type : {"PINGREQ", "DISCONNECT"}]

DownPacket ==
       [type : {"CONNACK"}, rc : {SUCCESS, "refused"}]
  \cup [type : {"PUBLISH"}, id : Nat, qos : Levels, msg : InMsgs, topic : {Topic}]
  \cup [type : Acks, id : Nat]
  \cup [type : {"SUBACK"}, id : Nat, qos : Levels \cup {128}]
  \cup [type : {"UNSUBACK"}, id : Nat]
  \cup [type : {"PINGRESP", SHORT}]

\* What readPacket may come to.
Input == DownPacket \cup {[type |-> TIMEOUT]}

Object ==
  [isconnected : BOOLEAN, ping_outstanding : BOOLEAN, cleansession : BOOLEAN,
   handlers : [Slots -> Topics \cup {NoTopic}],
   inflight : [id : Ids, qos : Levels, msg : OutMsgs \cup {0}], pubrel : BOOLEAN,
   incoming : [QoS2Slots -> Nat], nextId : Ids, keepAlive : BOOLEAN,
   sentDue : BOOLEAN, recvDue : BOOLEAN, pingDue : BOOLEAN]

Fates == {"sent", "failed", "late"}

\* The fields that only some operations touch.
Core(d) == <<d.isconnected, d.cleansession, d.handlers, d.inflight, d.pubrel, d.nextId>>

Session(d) == <<d.isconnected, d.cleansession, d.inflight, d.pubrel, d.nextId>>

-----------------------------------------------------------------------------
(* The least element of a set of numbers, and what the for loops find. *)

LEMMA NatOrder == IsWellFoundedOn({ss \in Nat \X Nat : ss[1] < ss[2]}, Nat)
BY NatLessThanWellFounded DEF OpToRel

LEMMA Minimum ==
  ASSUME NEW S \in SUBSET Nat, S # {}
  PROVE  \E i \in S : \A j \in S : i <= j
<1> DEFINE R == {ss \in Nat \X Nat : ss[1] < ss[2]}
<1>1. IsWellFoundedOn(R, Nat) BY NatOrder
<1>2. \A i, j \in Nat : <<j, i>> \in R <=> j < i OBVIOUS
<1> HIDE DEF R
<1>3. PICK i \in S : \A j \in S : ~ (<<j, i>> \in R) BY <1>1, WFMin
<1>4. i \in Nat OBVIOUS
<1>5. ASSUME NEW j \in S PROVE i <= j
  <2>1. j \in Nat /\ ~(j < i) BY <1>2, <1>3, <1>4
  <2> QED BY <1>4, <2>1
<1> QED BY <1>5

LEMMA FirstIn ==
  ASSUME NEW S \in SUBSET Nat, S # {}
  PROVE  First(S) \in S
BY Minimum DEF First

-----------------------------------------------------------------------------
(* The object's methods. *)

LEMMA SendType ==
  ASSUME NEW d \in Object, NEW p \in UpPacket, NEW w \in Fates
  PROVE  LET s == sendPacket(d, p, w)
         IN  /\ s.c \in Object /\ Core(s.c) = Core(d)
             /\ s.rc \in {SUCCESS, FAILURE}
             /\ s.out.sent \in Seq(UpPacket) /\ s.out.failed \in Nat
             /\ s.out.sent \in {<<>>, <<p>>}
             /\ s.rc = SUCCESS <=> w = "sent"
             /\ s.rc = SUCCESS => s.out.failed = 0 /\ s.out.sent = <<p>>
             /\ s.rc # SUCCESS => s.out.failed > 0
             /\ s.c.ping_outstanding = d.ping_outstanding /\ s.c.pingDue = d.pingDue
             /\ s.c.incoming = d.incoming
<1> DEFINE s == sendPacket(d, p, w)
<1>1. s.c \in {d, [d EXCEPT !.sentDue = FALSE]} BY DEF sendPacket
<1>2. /\ s.rc = IF w = "sent" THEN SUCCESS ELSE FAILURE
      /\ s.out = Write(p, w)
  BY DEF sendPacket
<1>3. /\ s.c \in Object /\ Core(s.c) = Core(d)
      /\ s.c.ping_outstanding = d.ping_outstanding /\ s.c.pingDue = d.pingDue
      /\ s.c.incoming = d.incoming
  <2>1. CASE s.c = d BY <2>1
  <2>2. CASE s.c = [d EXCEPT !.sentDue = FALSE] BY <2>2 DEF Object, Core
  <2> QED BY <1>1, <2>1, <2>2
<1>4. /\ s.out.sent \in {<<>>, <<p>>}
      /\ s.out.failed = IF w = "sent" THEN 0 ELSE 1
      /\ w = "sent" => s.out.sent = <<p>>
  BY <1>2 DEF Write
<1> HIDE DEF s
<1>5. s.out.sent \in Seq(UpPacket)
  <2>1. <<>> \in Seq(UpPacket) /\ <<p>> \in Seq(UpPacket) OBVIOUS
  <2> QED BY <1>4, <2>1
<1>6. SUCCESS # FAILURE BY DEF SUCCESS, FAILURE
<1> QED BY <1>2, <1>3, <1>4, <1>5, <1>6 DEF s

LEMMA CleanInflight ==
  ASSUME NEW A, NEW B, NEW C, NEW r \in [id : A, qos : B, msg : C], NEW a \in A, NEW q \in B
  PROVE  [r EXCEPT !.id = a, !.qos = q] \in [id : A, qos : B, msg : C]
OBVIOUS

LEMMA CleanType ==
  ASSUME NEW d \in Object
  PROVE  /\ cleanSession(d) \in Object
         /\ cleanSession(d).isconnected = d.isconnected
         /\ cleanSession(d).cleansession = d.cleansession
         /\ cleanSession(d).nextId = d.nextId
         /\ cleanSession(d).handlers = [i \in Slots |-> NoTopic]
         /\ cleanSession(d).inflight = [d.inflight EXCEPT !.id = 0, !.qos = 0]
         /\ cleanSession(d).pubrel = FALSE
<1>1. 0 \in Ids /\ 0 \in Levels BY ClientAssumption, LevelsType DEF Ids
<1>2. /\ [i \in Slots |-> NoTopic] \in [Slots -> Topics \cup {NoTopic}]
      /\ [i \in QoS2Slots |-> 0] \in [QoS2Slots -> Nat]
  OBVIOUS
<1>3. d.inflight \in [id : Ids, qos : Levels, msg : OutMsgs \cup {0}] BY DEF Object
<1>4. [d.inflight EXCEPT !.id = 0, !.qos = 0] \in [id : Ids, qos : Levels, msg : OutMsgs \cup {0}]
  BY <1>1, <1>3, CleanInflight
<1> QED BY <1>2, <1>4 DEF cleanSession, Object

LEMMA CloseType ==
  ASSUME NEW d \in Object
  PROVE  LET e == closeSession(d)
         IN  /\ e \in Object /\ ~e.isconnected
             /\ e.cleansession = d.cleansession /\ e.nextId = d.nextId
             /\ d.cleansession  => /\ e.handlers = [i \in Slots |-> NoTopic]
                                   /\ e.inflight = [d.inflight EXCEPT !.id = 0, !.qos = 0]
                                   /\ e.pubrel = FALSE
             /\ ~d.cleansession => /\ e.handlers = d.handlers /\ e.inflight = d.inflight
                                   /\ e.pubrel = d.pubrel
<1> DEFINE d1 == [d EXCEPT !.ping_outstanding = FALSE, !.isconnected = FALSE]
<1>1. /\ d1 \in Object /\ ~d1.isconnected
      /\ d1.cleansession = d.cleansession /\ d1.nextId = d.nextId
      /\ d1.handlers = d.handlers /\ d1.inflight = d.inflight /\ d1.pubrel = d.pubrel
  BY DEF Object
<1>2. closeSession(d) = IF d.cleansession THEN cleanSession(d1) ELSE d1
  BY DEF closeSession
<1> HIDE DEF d1
<1>3. d.cleansession \in BOOLEAN BY DEF Object
<1> QED BY <1>1, <1>2, <1>3, CleanType

\* The packet that the client answers p with.
Answer(p) ==
  IF p.type = "PUBLISH" THEN AckOf(p)
  ELSE [type |-> IF p.type = "PUBREC" THEN "PUBREL" ELSE "PUBCOMP", id |-> p.id]

Ping == [type |-> "PINGREQ"]

\* The packets that the client answers.
Acknowledged(p) == p.type \in {"PUBREC", "PUBREL"} \/ (p.type = "PUBLISH" /\ p.qos # 0)

\* The fields of what comes in.
LEMMA InputFields ==
  ASSUME NEW p \in Input
  PROVE  /\ p.type \in Acks \cup {"CONNACK", "PUBLISH", "SUBACK", "UNSUBACK", "PINGRESP", SHORT, TIMEOUT}
         /\ p.type = "CONNACK" => p.rc \in {SUCCESS, "refused"}
         /\ p.type = "PUBLISH" => /\ p.id \in Nat /\ p.qos \in Levels /\ p.msg \in InMsgs
                                  /\ p.topic = Topic
         /\ p.type \in {"PUBACK", "PUBREC", "PUBREL", "PUBCOMP"} => p.id \in Nat
         /\ p.type \in {"PUBREC", "PUBREL", "PUBCOMP"} => Qos2Used
         /\ p.type = "SUBACK" => p.qos \in Levels \cup {128}
BY DEF Input, DownPacket, Acks, SHORT, TIMEOUT

LEMMA AnswerType ==
  ASSUME NEW p \in Input, Acknowledged(p)
  PROVE  /\ Answer(p) \in UpPacket
         /\ Answer(p).type \in Acks /\ Answer(p).id = p.id
         /\ Answer(p).type = "PUBREL" <=> p.type = "PUBREC"
<1>1. p.id \in Nat BY InputFields DEF Acknowledged
<1>2. Answer(p) \in [type : Acks, id : Nat]
  <2>1. CASE p.type = "PUBLISH"
    <3>1. p.qos \in Levels /\ p.qos # 0 BY <2>1, InputFields DEF Acknowledged
    <3>2. p.qos = 1 \/ (p.qos = 2 /\ Qos2Used) BY <3>1 DEF Levels
    <3>3. Answer(p) = [type |-> IF p.qos = 1 THEN "PUBACK" ELSE "PUBREC", id |-> p.id]
      BY <2>1 DEF Answer, AckOf
    <3> QED BY <1>1, <3>2, <3>3 DEF Acks
  <2>2. CASE p.type # "PUBLISH"
    <3>2. Qos2Used /\ p.type \in {"PUBREC", "PUBREL"} BY <2>2, InputFields DEF Acknowledged
    <3>3. Answer(p) = [type |-> IF p.type = "PUBREC" THEN "PUBREL" ELSE "PUBCOMP", id |-> p.id]
      BY <2>2 DEF Answer
    <3> QED BY <1>1, <3>2, <3>3 DEF Acks
  <2> QED BY <2>1, <2>2
<1>3. Answer(p).type = "PUBREL" <=> p.type = "PUBREC" BY DEF Answer, AckOf, Acknowledged
<1>4. Answer(p).id = p.id BY DEF Answer, AckOf
<1>5. Answer(p).type \in Acks /\ Answer(p) \in UpPacket BY <1>2 DEF UpPacket
<1> QED BY <1>3, <1>4, <1>5

LEMMA UseType ==
  ASSUME NEW d \in Object, NEW id \in Nat, RoomForQoS2(d) # {}
  PROVE  /\ useQoS2msgid(d, id) \in Object
         /\ Core(useQoS2msgid(d, id)) = Core(d)
         /\ useQoS2msgid(d, id).ping_outstanding = d.ping_outstanding
         /\ useQoS2msgid(d, id).pingDue = d.pingDue
<1> DEFINE k == First(RoomForQoS2(d))
<1>1. k \in QoS2Slots
  <2>1. RoomForQoS2(d) \in SUBSET Nat /\ RoomForQoS2(d) \subseteq QoS2Slots
    BY ClientAssumption DEF RoomForQoS2, QoS2Slots
  <2> QED BY <2>1, FirstIn
<1> HIDE DEF k
<1>2. [d.incoming EXCEPT ![k] = id] \in [QoS2Slots -> Nat] BY <1>1 DEF Object
<1>3. useQoS2msgid(d, id) = [d EXCEPT !.incoming = [d.incoming EXCEPT ![k] = id]]
  BY DEF useQoS2msgid, k, Object
<1> QED BY <1>2, <1>3 DEF Object, Core

LEMMA FreeType ==
  ASSUME NEW d \in Object, NEW id \in Nat
  PROVE  /\ freeQoS2msgid(d, id) \in Object
         /\ Core(freeQoS2msgid(d, id)) = Core(d)
         /\ freeQoS2msgid(d, id).ping_outstanding = d.ping_outstanding
         /\ freeQoS2msgid(d, id).pingDue = d.pingDue
<1> DEFINE S == {i \in QoS2Slots : d.incoming[i] = id}
<1>1. CASE S = {} BY <1>1 DEF freeQoS2msgid
<1>2. CASE S # {}
  <2> DEFINE k == First(S)
  <2>1. k \in QoS2Slots
    <3>1. S \in SUBSET Nat /\ S \subseteq QoS2Slots BY ClientAssumption DEF QoS2Slots
    <3> HIDE DEF S
    <3> QED BY <1>2, <3>1, FirstIn
  <2>2. freeQoS2msgid(d, id) = [d EXCEPT !.incoming = [d.incoming EXCEPT ![k] = 0]]
    BY <1>2 DEF freeQoS2msgid, Object
  <2> HIDE DEF k
  <2>3. [d.incoming EXCEPT ![k] = 0] \in [QoS2Slots -> Nat] BY <2>1 DEF Object
  <2> QED BY <2>2, <2>3 DEF Object, Core
<1> QED BY <1>1, <1>2

LEMMA DeliverType ==
  ASSUME NEW d \in Object, NEW p
  PROVE  /\ deliverMessage(d, p).msg = p.msg
         /\ deliverMessage(d, p).times \in Nat
<1>1. IsFiniteSet(Slots) BY FS_Interval, ClientAssumption DEF Slots
<1>2. {i \in Slots : d.handlers[i] = p.topic} \in SUBSET Slots OBVIOUS
<1>3. Cardinality({i \in Slots : d.handlers[i] = p.topic}) \in Nat
  BY <1>1, <1>2, FS_Subset, FS_CardinalityType
<1> QED BY <1>3 DEF deliverMessage

LEMMA KeepaliveType ==
  ASSUME NEW d \in Object, NEW w \in Fates
  PROVE  LET k == keepalive(d, w)
         IN  /\ k.c \in Object /\ Core(k.c) = Core(d)
             /\ k.rc \in {SUCCESS, FAILURE}
             /\ k.out.sent \in {<<>>, <<Ping>>} /\ k.out.failed \in Nat
             /\ k.rc = FAILURE => k.out.failed > 0 \/ PingFails(d)
<1> DEFINE s == sendPacket(d, Ping, w)
<1>1. Ping \in UpPacket BY DEF Ping, UpPacket
<1>2. /\ s.c \in Object /\ Core(s.c) = Core(d)
      /\ s.rc \in {SUCCESS, FAILURE}
      /\ s.out.sent \in {<<>>, <<Ping>>} /\ s.out.failed \in Nat
      /\ s.rc # SUCCESS => s.out.failed > 0
  BY <1>1, SendType
<1>3. s = [c |-> s.c, rc |-> s.rc, out |-> s.out] BY DEF sendPacket
<1>4. keepalive(d, w) \in {[c |-> d, rc |-> SUCCESS, out |-> NoWrite],
                           [s EXCEPT !.c = IF s.rc = SUCCESS
                              THEN [@ EXCEPT !.ping_outstanding = TRUE, !.pingDue = FALSE]
                              ELSE @]}
                    \cup (IF PingFails(d) THEN {[c |-> d, rc |-> FAILURE, out |-> NoWrite]} ELSE {})
  BY DEF keepalive, Ping
<1> DEFINE e == [s.c EXCEPT !.ping_outstanding = TRUE, !.pingDue = FALSE]
<1>5. e \in Object /\ Core(e) = Core(d) BY <1>2 DEF Object, Core
<1>6. keepalive(d, w) \in {[c |-> d, rc |-> SUCCESS, out |-> NoWrite],
                           [c |-> IF s.rc = SUCCESS THEN e ELSE s.c, rc |-> s.rc, out |-> s.out]}
                    \cup (IF PingFails(d) THEN {[c |-> d, rc |-> FAILURE, out |-> NoWrite]} ELSE {})
  <2> HIDE DEF s
  <2> QED BY <1>3, <1>4
<1> HIDE DEF s, e
<1>7. SUCCESS # FAILURE BY DEF SUCCESS, FAILURE
<1>8. NoWrite.sent = <<>> /\ NoWrite.failed = 0 BY DEF NoWrite
<1> QED BY <1>2, <1>5, <1>6, <1>7, <1>8

\* The types cycle does not expect: a packet cut short, and QoS 2's own
\* packets when it is not compiled in.
Unexpected == {SHORT} \cup (IF MQTTCLIENT_QOS2 THEN {} ELSE {"PUBREC", "PUBREL", "PUBCOMP"} \cap Acks)

\* What a step of the switch leaves alone, and what it may send and deliver.
Handles(r, d, p) ==
  /\ r.c \in Object /\ Core(r.c) = Core(d)
  /\ PingFails(r.c) => PingFails(d)
  /\ r.out.sent = <<>> \/ (r.out.sent = <<Answer(p)>> /\ Acknowledged(p))
  /\ r.out.failed \in Nat
  /\ r.got = NoDelivery \/ (p.type = "PUBLISH" /\ r.got.msg = p.msg /\ r.got.times \in Nat)
  /\ r.rc \in {SUCCESS, FAILURE, p.type}
  /\ r.rc = FAILURE => r.out.failed > 0
  /\ r.rc \notin {SUCCESS, FAILURE} => p.type \in Unexpected

LEMMA PublishHandled ==
  ASSUME NEW d \in Object, NEW p \in Input, NEW w \in Fates, p.type = "PUBLISH"
  PROVE  Handles(onPublish(d, p, w), d, p)
<1> DEFINE e   == IF MQTTCLIENT_QOS2 /\ p.qos = 2 /\ IsNew(d, p) THEN useQoS2msgid(d, p.id) ELSE d
           got1 == IF IsNew(d, p) THEN deliverMessage(d, p) ELSE NoDelivery
           s   == sendPacket(e, AckOf(p), w)
<1>1. p.id \in Nat BY InputFields
<1>2. AckOf(p) = Answer(p) /\ (p.qos # 0 => Acknowledged(p) /\ AckOf(p) \in UpPacket)
  BY AnswerType DEF Answer, Acknowledged
<1>3. /\ e \in Object /\ Core(e) = Core(d)
      /\ e.ping_outstanding = d.ping_outstanding /\ e.pingDue = d.pingDue
  <2>1. CASE MQTTCLIENT_QOS2 /\ p.qos = 2 /\ IsNew(d, p)
    <3>1. RoomForQoS2(d) # {} BY <2>1 DEF IsNew
    <3> QED BY <1>1, <2>1, <3>1, UseType
  <2>2. CASE ~(MQTTCLIENT_QOS2 /\ p.qos = 2 /\ IsNew(d, p)) BY <2>2
  <2> QED BY <2>1, <2>2
<1>4. got1 = NoDelivery \/ (got1.msg = p.msg /\ got1.times \in Nat) BY DeliverType
<1> HIDE DEF e, got1
<1>5. p.qos # 0 =>
      /\ s.c \in Object /\ Core(s.c) = Core(d)
      /\ s.rc \in {SUCCESS, FAILURE}
      /\ s.out.sent \in {<<>>, <<Answer(p)>>} /\ s.out.failed \in Nat
      /\ s.rc # SUCCESS => s.out.failed > 0
      /\ s.c.ping_outstanding = d.ping_outstanding /\ s.c.pingDue = d.pingDue
  BY <1>2, <1>3, SendType
<1> HIDE DEF s
<1>6. \/ onPublish(d, p, w) = [c |-> e, rc |-> SUCCESS, out |-> NoWrite, got |-> got1]
      \/ /\ p.qos # 0
         /\ onPublish(d, p, w) = [c |-> s.c, rc |-> s.rc, out |-> s.out, got |-> got1]
  BY DEF onPublish, Keep, e, got1, s
<1>7. SUCCESS # FAILURE BY DEF SUCCESS, FAILURE
<1>8. NoWrite.sent = <<>> /\ NoWrite.failed = 0 BY DEF NoWrite
<1>9. CASE onPublish(d, p, w) = [c |-> e, rc |-> SUCCESS, out |-> NoWrite, got |-> got1]
  BY <1>3, <1>4, <1>7, <1>8, <1>9 DEF Handles, PingFails
<1>10. CASE p.qos # 0 /\ onPublish(d, p, w) = [c |-> s.c, rc |-> s.rc, out |-> s.out, got |-> got1]
  BY <1>2, <1>4, <1>5, <1>7, <1>10 DEF Handles, PingFails
<1> QED BY <1>6, <1>9, <1>10

LEMMA PubrecHandled ==
  ASSUME NEW d \in Object, NEW p \in Input, NEW w \in Fates, p.type \in {"PUBREC", "PUBREL"}
  PROVE  Handles(onPubrecPubrel(d, p, w), d, p)
<1> DEFINE s == sendPacket(d, Answer(p), w)
           r == onPubrecPubrel(d, p, w)
<1>1. p.id \in Nat /\ Answer(p) \in UpPacket /\ Acknowledged(p)
  BY InputFields, AnswerType DEF Acknowledged
<1>2. Answer(p) = [type |-> IF p.type = "PUBREC" THEN "PUBREL" ELSE "PUBCOMP", id |-> p.id]
  BY DEF Answer
<1>3. /\ s.c \in Object /\ Core(s.c) = Core(d)
      /\ s.rc \in {SUCCESS, FAILURE}
      /\ s.out.sent \in {<<>>, <<Answer(p)>>} /\ s.out.failed \in Nat
      /\ s.rc # SUCCESS => s.out.failed > 0
      /\ s.c.ping_outstanding = d.ping_outstanding /\ s.c.pingDue = d.pingDue
  BY <1>1, SendType
<1>4. /\ r.c \in {s.c, freeQoS2msgid(s.c, p.id)}
      /\ r.rc = s.rc /\ r.out = s.out /\ r.got = NoDelivery
  BY <1>2 DEF onPubrecPubrel
<1> HIDE DEF s, r
<1>5. /\ r.c \in Object /\ Core(r.c) = Core(d)
      /\ r.c.ping_outstanding = d.ping_outstanding /\ r.c.pingDue = d.pingDue
  <2>1. CASE r.c = s.c BY <1>3, <2>1
  <2>2. CASE r.c = freeQoS2msgid(s.c, p.id)
    <3>1. p.id \in Nat /\ s.c \in Object BY <1>1, <1>3
    <3>2. /\ r.c \in Object /\ Core(r.c) = Core(s.c)
          /\ r.c.ping_outstanding = s.c.ping_outstanding /\ r.c.pingDue = s.c.pingDue
      BY <2>2, <3>1, FreeType
    <3> QED BY <1>3, <3>2
  <2> QED BY <1>4, <2>1, <2>2
<1>6. SUCCESS # FAILURE BY DEF SUCCESS, FAILURE
<1>7. Handles(r, d, p) BY <1>1, <1>3, <1>4, <1>5, <1>6 DEF Handles, PingFails
<1> QED BY <1>7 DEF r

LEMMA PacketHandled ==
  ASSUME NEW d \in Object, NEW p \in Input, NEW w \in Fates
  PROVE  Handles(onPacket(d, p, w), d, p)
<1>1. SUCCESS # FAILURE /\ NoWrite.sent = <<>> /\ NoWrite.failed = 0
  BY DEF SUCCESS, FAILURE, NoWrite
<1>2. ASSUME NEW e \in Object, Core(e) = Core(d), PingFails(e) => PingFails(d)
      PROVE  Handles(Keep(e), d, p)
  BY <1>1, <1>2 DEF Handles, Keep
<1>3. CASE p.type \in Ignored
  BY <1>2, <1>3 DEF onPacket
<1>4. CASE p.type \notin Ignored /\ p.type = "PUBLISH"
  BY <1>4, PublishHandled DEF onPacket
<1>5. CASE p.type \notin Ignored /\ p.type = "PINGRESP"
  <2> DEFINE e == [d EXCEPT !.ping_outstanding = FALSE]
  <2>1. e \in Object /\ Core(e) = Core(d) /\ ~PingFails(e) BY DEF Object, Core, PingFails
  <2>2. onPacket(d, p, w) = Keep(e) BY <1>5 DEF onPacket
  <2> HIDE DEF e
  <2> QED BY <1>2, <2>1, <2>2
<1>6. CASE p.type \notin Ignored /\ MQTTCLIENT_QOS2 /\ p.type \in {"PUBREC", "PUBREL"}
  BY <1>6, PubrecHandled DEF onPacket
<1>7. CASE /\ p.type \notin Ignored /\ p.type \notin {"PUBLISH", "PINGRESP"}
           /\ ~(MQTTCLIENT_QOS2 /\ p.type \in {"PUBREC", "PUBREL"})
  <2> DEFINE r == onPacket(d, p, w)
  <2>1. r = [Keep(d) EXCEPT !.rc = p.type] BY <1>7 DEF onPacket
  <2>2. /\ r.c = d /\ r.out = NoWrite /\ r.got = NoDelivery /\ r.rc = p.type
    BY <2>1 DEF Keep
  <2> HIDE DEF r
  <2>3. p.type \in Unexpected
    BY <1>7, InputFields, ClientAssumption DEF Ignored, Unexpected, Acks
  <2>4. p.type # FAILURE BY <2>3 DEF SHORT, FAILURE, Unexpected
  <2>5. Handles(r, d, p) BY <1>1, <2>2, <2>3, <2>4 DEF Handles
  <2> QED BY <2>5 DEF r
<1> QED BY <1>3, <1>4, <1>5, <1>6, <1>7

\* What cycle may send after packet p.
Sendable(p) == {<<>>, <<Ping>>} \cup (IF Acknowledged(p)
                                      THEN {<<Answer(p)>>, <<Answer(p), Ping>>} ELSE {})

Cycles(r, d, p) ==
  /\ r.c \in Object
  /\ Core(r.c) = Core(d) \/ (d.isconnected /\ Core(r.c) = Core(closeSession(d)))
  /\ r.rc \in {FAILURE, p.type}
  /\ r.out.sent \in Sendable(p) /\ r.out.failed \in Nat
  /\ r.got = NoDelivery \/ (p.type = "PUBLISH" /\ r.got.msg = p.msg /\ r.got.times \in Nat)
  /\ r.rc = FAILURE \/ p.type = SHORT => ~r.c.isconnected
  /\ d.isconnected /\ ~r.c.isconnected
       => r.out.failed > 0 \/ PingFails(d) \/ p.type \in Unexpected

LEMMA ShortConcat ==
  ASSUME NEW x, NEW y
  PROVE  /\ <<>> \o <<>> = <<>> /\ <<>> \o <<y>> = <<y>>
         /\ <<x>> \o <<>> = <<x>> /\ <<x>> \o <<y>> = <<x, y>>
<1>1. <<>> \in Seq({x, y}) /\ <<x>> \in Seq({x, y}) /\ <<y>> \in Seq({x, y}) OBVIOUS
<1>2. /\ <<>> \o <<>> = <<>> /\ <<>> \o <<y>> = <<y>> /\ <<x>> \o <<>> = <<x>>
  BY <1>1, ConcatEmptySeq
<1>3. <<x>> \o <<y>> = <<x, y>>
  <2>1. /\ <<x>> \o <<y>> \in Seq({x, y}) /\ Len(<<x>> \o <<y>>) = 2
        /\ \A i \in 1..2 : (<<x>> \o <<y>>)[i] = IF i <= 1 THEN <<x>>[i] ELSE <<y>>[i - 1]
    BY <1>1, ConcatProperties
  <2>2. (<<x>> \o <<y>>)[1] = x /\ (<<x>> \o <<y>>)[2] = y BY <2>1
  <2>3. /\ <<x, y>> \in Seq({x, y}) /\ Len(<<x, y>>) = 2
        /\ <<x, y>>[1] = x /\ <<x, y>>[2] = y
    OBVIOUS
  <2> DEFINE s == <<x>> \o <<y>>
             t == <<x, y>>
  <2> HIDE DEF s, t
  <2>4. s \in Seq({x, y}) /\ t \in Seq({x, y}) /\ Len(s) = Len(t)
        /\ \A i \in 1..Len(s) : s[i] = t[i]
    <3>1. Len(s) = 2 /\ Len(t) = 2 BY <2>1, <2>3 DEF s, t
    <3>2. s[1] = t[1] /\ s[2] = t[2] BY <2>2, <2>3 DEF s, t
    <3>3. s \in Seq({x, y}) /\ t \in Seq({x, y}) BY <2>1, <2>3 DEF s, t
    <3>4. \A i \in 1..2 : i = 1 \/ i = 2 OBVIOUS
    <3> QED BY <3>1, <3>2, <3>3, <3>4
  <2>5. s = t BY <2>4, SeqEqual
  <2> QED BY <2>5 DEF s, t
<1> QED BY <1>2, <1>3

LEMMA SendableType ==
  ASSUME NEW p \in Input
  PROVE  Sendable(p) \subseteq Seq(UpPacket)
<1>1. Ping \in UpPacket BY DEF Ping, UpPacket
<1>2. CASE Acknowledged(p)
  <2>1. Answer(p) \in UpPacket BY <1>2, AnswerType
  <2>2. /\ <<>> \in Seq(UpPacket) /\ <<Ping>> \in Seq(UpPacket)
        /\ <<Answer(p)>> \in Seq(UpPacket) /\ <<Answer(p), Ping>> \in Seq(UpPacket)
    BY <1>1, <2>1
  <2> QED BY <2>2 DEF Sendable
<1>3. CASE ~Acknowledged(p)
  <2>1. <<>> \in Seq(UpPacket) /\ <<Ping>> \in Seq(UpPacket) BY <1>1
  <2> QED BY <1>3, <2>1 DEF Sendable
<1> QED BY <1>2, <1>3

\* Closing depends on the fields of Core only.
LEMMA CloseCore ==
  ASSUME NEW d \in Object, NEW e \in Object, Core(e) = Core(d)
  PROVE  closeSession(e) \in Object /\ Core(closeSession(e)) = Core(closeSession(d))
<1>1. /\ d.isconnected = e.isconnected /\ d.cleansession = e.cleansession
      /\ d.handlers = e.handlers /\ d.inflight = e.inflight /\ d.pubrel = e.pubrel
      /\ d.nextId = e.nextId
  BY DEF Core
<1>2. d.cleansession \in BOOLEAN /\ closeSession(e) \in Object /\ closeSession(d) \in Object
  BY CloseType DEF Object
<1>3. closeSession(e).isconnected = closeSession(d).isconnected
  BY <1>2, CloseType DEF Object
<1>4. /\ closeSession(e).cleansession = closeSession(d).cleansession
      /\ closeSession(e).nextId = closeSession(d).nextId
      /\ closeSession(e).handlers = closeSession(d).handlers
      /\ closeSession(e).inflight = closeSession(d).inflight
      /\ closeSession(e).pubrel = closeSession(d).pubrel
  <2>1. CASE d.cleansession
    <3>1. /\ closeSession(d).handlers = [i \in Slots |-> NoTopic]
          /\ closeSession(d).inflight = [d.inflight EXCEPT !.id = 0, !.qos = 0]
          /\ closeSession(d).pubrel = FALSE
          /\ closeSession(d).cleansession = d.cleansession /\ closeSession(d).nextId = d.nextId
      BY <2>1, CloseType
    <3>2. /\ closeSession(e).handlers = [i \in Slots |-> NoTopic]
          /\ closeSession(e).inflight = [e.inflight EXCEPT !.id = 0, !.qos = 0]
          /\ closeSession(e).pubrel = FALSE
          /\ closeSession(e).cleansession = e.cleansession /\ closeSession(e).nextId = e.nextId
      BY <1>1, <2>1, CloseType
    <3> QED BY <1>1, <3>1, <3>2
  <2>2. CASE ~d.cleansession BY <1>1, <2>2, CloseType
  <2> QED BY <1>2, <2>1, <2>2
<1> QED BY <1>2, <1>3, <1>4 DEF Core

LEMMA ExitType ==
  ASSUME NEW d \in Object, NEW e \in Object, Core(e) = Core(d)
  PROVE  /\ AtExit(e) \in Object
         /\ ~AtExit(e).isconnected
         /\ \/ Core(AtExit(e)) = Core(d)
            \/ d.isconnected /\ Core(AtExit(e)) = Core(closeSession(d))
<1>1. CASE ~e.isconnected BY <1>1 DEF AtExit
<1>2. CASE e.isconnected
  <2>1. AtExit(e) = closeSession(e) BY <1>2 DEF AtExit
  <2>2. d.isconnected BY <1>2 DEF Core
  <2>3. closeSession(e) \in Object /\ ~closeSession(e).isconnected BY <1>2, CloseType
  <2>4. Core(closeSession(e)) = Core(closeSession(d)) BY <1>2, CloseCore
  <2> QED BY <2>1, <2>2, <2>3, <2>4
<1> QED BY <1>1, <1>2

LEMMA CycleType ==
  ASSUME NEW d \in Object, NEW p \in Input, NEW w \in Fates, NEW w2 \in Fates
  PROVE  Cycles(cycle(d, p, w, w2), d, p)
<1> DEFINE read == IF p.type \in {TIMEOUT, SHORT} \/ ~d.keepAlive
                   THEN d ELSE [d EXCEPT !.recvDue = FALSE]
           r == onPacket(read, p, w)
           k == keepalive(r.c, w2)
           y == cycle(d, p, w, w2)
<1>1. read \in Object /\ Core(read) = Core(d) /\ (PingFails(read) <=> PingFails(d))
  BY DEF Object, Core, PingFails
<1>2. y = IF r.rc # SUCCESS THEN [r EXCEPT !.c = AtExit(r.c)]
          ELSE IF k.rc # SUCCESS
          THEN [c |-> AtExit(k.c), rc |-> FAILURE, out |-> Then(r.out, k.out), got |-> r.got]
          ELSE [c |-> k.c, rc |-> p.type, out |-> Then(r.out, k.out), got |-> r.got]
  BY DEF cycle
<1> HIDE DEF read
<1>3. Handles(r, read, p) BY <1>1, PacketHandled
<1>4. r = [c |-> r.c, rc |-> r.rc, out |-> r.out, got |-> r.got]
  BY DEF onPacket, Keep, onPublish, onPubrecPubrel
<1>12. p.type = SHORT => r.rc # SUCCESS
  BY DEF onPacket, Keep, Ignored, SHORT, TIMEOUT, SUCCESS
<1> HIDE DEF r
<1>5. /\ r.c \in Object /\ Core(r.c) = Core(d)
      /\ PingFails(r.c) => PingFails(d)
      /\ r.out.sent = <<>> \/ (r.out.sent = <<Answer(p)>> /\ Acknowledged(p))
      /\ r.out.failed \in Nat
      /\ r.got = NoDelivery \/ (p.type = "PUBLISH" /\ r.got.msg = p.msg /\ r.got.times \in Nat)
      /\ r.rc \in {SUCCESS, FAILURE, p.type}
      /\ r.rc = FAILURE => r.out.failed > 0
      /\ r.rc \notin {SUCCESS, FAILURE} => p.type \in Unexpected
  BY <1>1, <1>3 DEF Handles, Unexpected
<1>6. /\ k.c \in Object /\ Core(k.c) = Core(d)
      /\ k.rc \in {SUCCESS, FAILURE}
      /\ k.out.sent \in {<<>>, <<Ping>>} /\ k.out.failed \in Nat
      /\ k.rc = FAILURE => k.out.failed > 0 \/ PingFails(d)
  BY <1>5, KeepaliveType
<1> HIDE DEF k
<1>7. /\ Then(r.out, k.out).sent \in Sendable(p)
      /\ Then(r.out, k.out).failed \in Nat
      /\ r.out.failed > 0 \/ k.out.failed > 0 => Then(r.out, k.out).failed > 0
      /\ r.out.sent \in Sendable(p)
  <2>1. /\ <<>> \o <<>> = <<>> /\ <<>> \o <<Ping>> = <<Ping>>
        /\ <<Answer(p)>> \o <<>> = <<Answer(p)>> /\ <<Answer(p)>> \o <<Ping>> = <<Answer(p), Ping>>
    BY ShortConcat
  <2>3. r.out.sent \o k.out.sent \in Sendable(p) /\ r.out.sent \in Sendable(p)
    BY <1>5, <1>6, <2>1 DEF Sendable
  <2> QED BY <1>5, <1>6, <2>3 DEF Then
<1>8. SUCCESS # FAILURE /\ p.type # FAILURE
  BY InputFields DEF SUCCESS, FAILURE, SHORT, TIMEOUT, Acks
<1>9. CASE r.rc # SUCCESS
  <2>1. /\ y.c = AtExit(r.c) /\ y.rc = r.rc /\ y.out = r.out /\ y.got = r.got
    BY <1>2, <1>4, <1>9
  <2>2. y.rc \in {FAILURE, p.type} BY <1>5, <1>9, <2>1
  <2>3. y.out.failed > 0 \/ p.type \in Unexpected BY <1>5, <1>9, <2>1
  <2> HIDE DEF y
  <2>4. Cycles(y, d, p) BY <1>5, <1>7, <2>1, <2>2, <2>3, ExitType DEF Cycles
  <2> QED BY <2>4 DEF y
<1>10. CASE r.rc = SUCCESS /\ k.rc # SUCCESS
  <2>1. /\ y.c = AtExit(k.c) /\ y.rc = FAILURE /\ y.out = Then(r.out, k.out) /\ y.got = r.got
    BY <1>2, <1>10
  <2>2. y.out.failed > 0 \/ PingFails(d) BY <1>6, <1>7, <1>10, <2>1
  <2> HIDE DEF y
  <2>3. Cycles(y, d, p) BY <1>5, <1>6, <1>7, <2>1, <2>2, ExitType DEF Cycles
  <2> QED BY <2>3 DEF y
<1>11. CASE r.rc = SUCCESS /\ k.rc = SUCCESS
  <2>1. /\ y.c = k.c /\ y.rc = p.type /\ y.out = Then(r.out, k.out) /\ y.got = r.got
    BY <1>2, <1>11
  <2>2. y.c.isconnected = d.isconnected BY <1>6, <2>1 DEF Core
  <2> HIDE DEF y
  <2>4. p.type # SHORT BY <1>11, <1>12
  <2>3. Cycles(y, d, p) BY <1>5, <1>6, <1>7, <1>8, <2>1, <2>2, <2>4 DEF Cycles
  <2> QED BY <2>3 DEF y
<1> QED BY <1>9, <1>10, <1>11

-----------------------------------------------------------------------------
(* The turns of the API's calls. *)

Codes == {"none", SUCCESS, FAILURE, "refused"}

Call == [op : {"none", "connect", "publish", "subscribe", "unsubscribe", "yield", "disconnect"},
         await : {"none", "CONNACK", "PUBACK", "PUBCOMP", "SUBACK", "UNSUBACK"},
         qos : Levels, topic : Topics \cup {NoTopic}, msg : OutMsgs \cup {0}]

\* A call under way waits for what it has asked for.
Waiting(k) ==
  /\ k \in Call
  /\ k.op # "disconnect"
  /\ k.op = "none" => k = NoCall
  /\ k.op \in {"none", "yield"} => k.await = "none"
  /\ k.op = "connect" => k.await \in {"CONNACK", "PUBACK", "PUBCOMP"}
  /\ k.op = "publish" => k.await = AckAwaited(k.qos) /\ k.await # "none" /\ k.msg \in OutMsgs
  /\ k.op = "subscribe" => k.await = "SUBACK" /\ k.topic \in Topics
  /\ k.op = "unsubscribe" => k.await = "UNSUBACK" /\ k.topic \in Topics

\* The publish in flight, if there is one, has a message.
SavedOK(d) == d.inflight.id # 0 => d.inflight.msg \in OutMsgs

TurnOK(s) ==
  /\ s.c \in Object /\ SavedOK(s.c) /\ Waiting(s.call) /\ s.rc \in Codes
  /\ s.out.sent \in Seq(UpPacket) /\ s.out.failed \in Nat
  /\ s = [c |-> s.c, out |-> s.out, call |-> s.call, rc |-> s.rc]

LEMMA NoCallType == NoCall \in Call /\ Waiting(NoCall) /\ NoCall.op = "none"
<1>1. NoCall \in Call BY LevelsType DEF NoCall, Call
<1> QED BY <1>1 DEF NoCall, Waiting

LEMMA SavedSame ==
  ASSUME NEW d \in Object, SavedOK(d), NEW e \in Object,
         e.inflight = d.inflight \/ Core(e) = Core(d) \/ Core(e) = Core(closeSession(d))
  PROVE  SavedOK(e)
<1>1. CASE e.inflight = d.inflight BY <1>1 DEF SavedOK
<1>2. CASE Core(e) = Core(d) BY <1>2 DEF SavedOK, Core
<1>3. CASE Core(e) = Core(closeSession(d))
  <2>1. e.inflight = closeSession(d).inflight BY <1>3 DEF Core
  <2>2. d.cleansession \in BOOLEAN /\ d.inflight \in [id : Ids, qos : Levels, msg : OutMsgs \cup {0}]
    BY DEF Object
  <2>3. CASE d.cleansession
    <3>1. e.inflight = [d.inflight EXCEPT !.id = 0, !.qos = 0] BY <2>1, <2>3, CloseType
    <3>2. e.inflight.id = 0 BY <2>2, <3>1
    <3> QED BY <3>2 DEF SavedOK
  <2>4. CASE ~d.cleansession
    <3>1. e.inflight = d.inflight BY <2>1, <2>4, CloseType
    <3> QED BY <3>1 DEF SavedOK
  <2> QED BY <2>2, <2>3, <2>4
<1> QED BY <1>1, <1>2, <1>3

LEMMA ReturnType ==
  ASSUME NEW d \in Object, SavedOK(d), NEW rc \in Codes, NEW out,
         out.sent \in Seq(UpPacket), out.failed \in Nat
  PROVE  TurnOK(Return(d, out, rc))
BY NoCallType DEF TurnOK, Return

LEMMA WaitType ==
  ASSUME NEW d \in Object, SavedOK(d), NEW k, Waiting(k), NEW out,
         out.sent \in Seq(UpPacket), out.failed \in Nat
  PROVE  TurnOK(Wait(d, out, k))
BY DEF TurnOK, Wait, Codes

LEMMA NoWriteType == NoWrite.sent = <<>> /\ NoWrite.sent \in Seq(UpPacket) /\ NoWrite.failed \in Nat
BY DEF NoWrite

LEMMA CloseSaved ==
  ASSUME NEW d \in Object, SavedOK(d)
  PROVE  closeSession(d) \in Object /\ SavedOK(closeSession(d))
BY CloseType, SavedSame

LEMMA ExitTurn ==
  ASSUME NEW s, TurnOK(s)
  PROVE  /\ TurnOK(connect_exit(s))
         /\ connect_exit(s).out = s.out /\ connect_exit(s).call = s.call /\ connect_exit(s).rc = s.rc
         /\ ~(s.call = NoCall /\ s.rc = SUCCESS) => connect_exit(s).c = s.c
         /\ connect_exit(s).c.inflight = s.c.inflight
         /\ connect_exit(s).c.handlers = s.c.handlers
         /\ connect_exit(s).c.pubrel = s.c.pubrel
         /\ connect_exit(s).c.nextId = s.c.nextId
         /\ connect_exit(s).c.cleansession = s.c.cleansession
<1> DEFINE e == [s.c EXCEPT !.isconnected = TRUE, !.ping_outstanding = FALSE]
<1>1. s.c \in Object /\ s = [c |-> s.c, out |-> s.out, call |-> s.call, rc |-> s.rc]
  BY DEF TurnOK
<1>2. e \in Object /\ e.inflight = s.c.inflight /\ e.handlers = s.c.handlers
      /\ e.nextId = s.c.nextId /\ e.cleansession = s.c.cleansession /\ e.pubrel = s.c.pubrel
  BY <1>1 DEF Object
<1>3. SavedOK(e) BY <1>1, <1>2, SavedSame DEF TurnOK
<1>4. connect_exit(s) = IF s.call = NoCall /\ s.rc = SUCCESS
                        THEN [c |-> e, out |-> s.out, call |-> s.call, rc |-> s.rc] ELSE s
  BY <1>1 DEF connect_exit
<1> HIDE DEF e
<1>5. CASE s.call = NoCall /\ s.rc = SUCCESS
  <2> DEFINE t == connect_exit(s)
  <2>1. t = [c |-> e, out |-> s.out, call |-> s.call, rc |-> s.rc] BY <1>4, <1>5
  <2> HIDE DEF t
  <2>2. t.c = e /\ t.out = s.out /\ t.call = s.call /\ t.rc = s.rc
        /\ t = [c |-> t.c, out |-> t.out, call |-> t.call, rc |-> t.rc]
    BY <2>1
  <2>3. TurnOK(t) BY <1>2, <1>3, <2>2 DEF TurnOK
  <2> QED BY <1>2, <1>5, <2>2, <2>3 DEF t
<1>6. CASE ~(s.call = NoCall /\ s.rc = SUCCESS)
  BY <1>4, <1>6
<1> QED BY <1>5, <1>6

\* publish's three outcomes.
PublishOutcome(s, d, p, qos, k, expired) ==
  /\ s.c \in Object /\ SavedOK(s.c)
  /\ s.out.sent \in {<<>>, <<p>>} /\ s.out.failed \in Nat
  /\ s = [c |-> s.c, out |-> s.out, call |-> s.call, rc |-> s.rc]
  /\ \/ /\ s.call = NoCall /\ s.rc = FAILURE /\ Core(s.c) = Core(closeSession(d))
        /\ s.out.failed > 0 \/ expired
     \/ /\ AckAwaited(qos) = "none" /\ Core(s.c) = Core(d) /\ s.out.sent = <<p>>
        /\ s.call = NoCall /\ s.rc = SUCCESS
     \/ /\ AckAwaited(qos) # "none" /\ Core(s.c) = Core(d) /\ s.out.sent = <<p>>
        /\ s.call = [k EXCEPT !.await = AckAwaited(qos)] /\ s.rc = "none"

LEMMA PublishCases ==
  ASSUME NEW d \in Object, SavedOK(d), NEW p \in UpPacket, NEW qos \in Levels, NEW w \in Fates,
         NEW k, NEW expired \in BOOLEAN
  PROVE  PublishOutcome(publish_packet(d, p, qos, w, k, expired), d, p, qos, k, expired)
<1> DEFINE t == sendPacket(d, p, w)
           s == publish_packet(d, p, qos, w, k, expired)
<1>1. /\ t.c \in Object /\ Core(t.c) = Core(d) /\ t.rc \in {SUCCESS, FAILURE}
      /\ t.out.sent \in {<<>>, <<p>>} /\ t.out.failed \in Nat
      /\ t.rc = SUCCESS => t.out.sent = <<p>>
      /\ t.rc # SUCCESS => t.out.failed > 0
  BY SendType
<1>2. s = IF t.rc # SUCCESS THEN Return(closeSession(t.c), t.out, FAILURE)
          ELSE IF AckAwaited(qos) = "none" THEN Return(t.c, t.out, SUCCESS)
          ELSE IF expired THEN Return(closeSession(t.c), t.out, FAILURE)
          ELSE Wait(t.c, t.out, [k EXCEPT !.await = AckAwaited(qos)])
  BY DEF publish_packet
<1> HIDE DEF t
<1>3. /\ closeSession(t.c) \in Object /\ SavedOK(closeSession(t.c)) /\ SavedOK(t.c)
      /\ Core(closeSession(t.c)) = Core(closeSession(d))
  BY <1>1, CloseSaved, SavedSame, CloseCore
<1>4. CASE s = Return(closeSession(t.c), t.out, FAILURE) /\ (t.out.failed > 0 \/ expired)
  <2>1. /\ s.c = closeSession(t.c) /\ s.out = t.out /\ s.call = NoCall /\ s.rc = FAILURE
        /\ s = [c |-> s.c, out |-> s.out, call |-> s.call, rc |-> s.rc]
    BY <1>4 DEF Return
  <2> HIDE DEF s
  <2>2. PublishOutcome(s, d, p, qos, k, expired) BY <1>1, <1>3, <1>4, <2>1 DEF PublishOutcome
  <2> QED BY <2>2 DEF s
<1>5. CASE s = Return(t.c, t.out, SUCCESS) /\ AckAwaited(qos) = "none" /\ t.rc = SUCCESS
  <2>1. /\ s.c = t.c /\ s.out = t.out /\ s.call = NoCall /\ s.rc = SUCCESS
        /\ s = [c |-> s.c, out |-> s.out, call |-> s.call, rc |-> s.rc]
    BY <1>5 DEF Return
  <2> HIDE DEF s
  <2>2. PublishOutcome(s, d, p, qos, k, expired) BY <1>1, <1>3, <1>5, <2>1 DEF PublishOutcome
  <2> QED BY <2>2 DEF s
<1>6. CASE /\ s = Wait(t.c, t.out, [k EXCEPT !.await = AckAwaited(qos)])
           /\ AckAwaited(qos) # "none" /\ t.rc = SUCCESS
  <2>1. /\ s.c = t.c /\ s.out = t.out /\ s.call = [k EXCEPT !.await = AckAwaited(qos)]
        /\ s.rc = "none"
        /\ s = [c |-> s.c, out |-> s.out, call |-> s.call, rc |-> s.rc]
    BY <1>6 DEF Wait
  <2> HIDE DEF s
  <2>2. PublishOutcome(s, d, p, qos, k, expired) BY <1>1, <1>3, <1>6, <2>1 DEF PublishOutcome
  <2> QED BY <2>2 DEF s
<1> QED BY <1>1, <1>2, <1>4, <1>5, <1>6

\* The packet of the publish in flight that connect sends again.
Resent(d) ==
  IF MQTTCLIENT_QOS2 /\ d.inflight.qos = 2 /\ d.pubrel
  THEN [type |-> "PUBREL", id |-> d.inflight.id]
  ELSE PublishPacket(d.inflight.id, d.inflight.qos, d.inflight.msg)

LEMMA ResentType ==
  ASSUME NEW d \in Object, SavedOK(d), d.inflight.id # 0
  PROVE  Resent(d) \in UpPacket /\ d.inflight.qos \in Levels
<1>1. d.inflight.id \in Ids /\ d.inflight.qos \in Levels /\ d.inflight.msg \in OutMsgs
  BY DEF Object, SavedOK
<1>2. d.inflight.id \in Nat BY <1>1, ClientAssumption DEF Ids
<1>3. MQTTCLIENT_QOS2 => [type |-> "PUBREL", id |-> d.inflight.id] \in UpPacket
  BY <1>2 DEF UpPacket, Acks, Qos2Used
<1>4. PublishPacket(d.inflight.id, d.inflight.qos, d.inflight.msg) \in UpPacket
  BY <1>1 DEF PublishPacket, UpPacket
<1> QED BY <1>1, <1>3, <1>4 DEF Resent

LEMMA AwaitType ==
  ASSUME NEW k \in Call, NEW qos \in Levels, k.op = "connect", AckAwaited(qos) # "none"
  PROVE  Waiting([k EXCEPT !.await = AckAwaited(qos)])
<1>1. AckAwaited(qos) \in {"PUBACK", "PUBCOMP"} BY DEF AckAwaited
<1>2. [k EXCEPT !.await = AckAwaited(qos)] \in Call BY <1>1 DEF Call
<1>3. /\ [k EXCEPT !.await = AckAwaited(qos)].op = "connect"
      /\ [k EXCEPT !.await = AckAwaited(qos)].await = AckAwaited(qos)
  BY DEF Call
<1> QED BY <1>1, <1>2, <1>3 DEF Waiting

\* connect's outcomes after its wait for the CONNACK.
ResendOutcome(s, d, rc, k) ==
  \/ /\ d.inflight.id = 0 /\ s.call = NoCall /\ s.rc = rc /\ s.out = NoWrite
     /\ rc = SUCCESS => /\ s.c.inflight = d.inflight /\ s.c.handlers = d.handlers
                        /\ s.c.pubrel = d.pubrel /\ s.c.nextId = d.nextId
                        /\ s.c.cleansession = d.cleansession
     /\ rc # SUCCESS => s.c = d
  \/ /\ d.inflight.id # 0 /\ s.out.sent \in {<<>>, <<Resent(d)>>}
     /\ \/ s.call = NoCall /\ s.rc = FAILURE /\ Core(s.c) = Core(closeSession(d))
        \/ /\ AckAwaited(d.inflight.qos) = "none" /\ s.call = NoCall /\ s.rc = SUCCESS
           /\ s.c.inflight = d.inflight /\ s.c.handlers = d.handlers
           /\ s.c.pubrel = d.pubrel /\ s.c.nextId = d.nextId
           /\ s.c.cleansession = d.cleansession
        \/ /\ AckAwaited(d.inflight.qos) # "none"
           /\ s.call = [k EXCEPT !.await = AckAwaited(d.inflight.qos)] /\ s.rc = "none"
           /\ Core(s.c) = Core(d)

LEMMA ResendCases ==
  ASSUME NEW d \in Object, SavedOK(d), NEW rc \in Codes, NEW w \in Fates,
         NEW k \in Call, k.op = "connect", NEW expired \in BOOLEAN
  PROVE  LET s == resend(d, rc, w, k, expired)
         IN  TurnOK(s) /\ ResendOutcome(s, d, rc, k)
<1> DEFINE s == resend(d, rc, w, k, expired)
<1>1. CASE d.inflight.id = 0
  <2> DEFINE t == Return(d, NoWrite, rc)
  <2>1. s = connect_exit(t) BY <1>1 DEF resend
  <2>2. TurnOK(t) BY NoWriteType, ReturnType
  <2>3. t.c = d /\ t.out = NoWrite /\ t.call = NoCall /\ t.rc = rc BY DEF Return
  <2> HIDE DEF s, t
  <2>4. TurnOK(s) /\ ResendOutcome(s, d, rc, k)
    BY <1>1, <2>1, <2>2, <2>3, ExitTurn DEF ResendOutcome
  <2> QED BY <2>4 DEF s
<1>2. CASE d.inflight.id # 0
  <2> DEFINE t == publish_packet(d, Resent(d), d.inflight.qos, w, k, expired)
  <2>1. s = connect_exit(t) BY <1>2 DEF resend, Resent
  <2>2. Resent(d) \in UpPacket /\ d.inflight.qos \in Levels BY <1>2, ResentType
  <2> DEFINE k1 == [k EXCEPT !.await = AckAwaited(d.inflight.qos)]
  <2>3. PublishOutcome(t, d, Resent(d), d.inflight.qos, k, expired) BY <2>2, PublishCases
  <2>4. AckAwaited(d.inflight.qos) # "none" => Waiting(k1) BY <2>2, AwaitType
  <2> HIDE DEF s, t, k1
  <2>5. t.out.sent \in Seq(UpPacket)
    <3>1. <<>> \in Seq(UpPacket) /\ <<Resent(d)>> \in Seq(UpPacket) BY <2>2
    <3> QED BY <2>3, <3>1 DEF PublishOutcome
  <2>6. Waiting(t.call) /\ t.rc \in Codes BY <2>3, <2>4, NoCallType DEF Codes, PublishOutcome, k1
  <2>7. TurnOK(t) BY <2>3, <2>5, <2>6 DEF TurnOK, PublishOutcome
  <2>8. /\ TurnOK(s) /\ s.out = t.out /\ s.call = t.call /\ s.rc = t.rc
        /\ ~(t.call = NoCall /\ t.rc = SUCCESS) => s.c = t.c
        /\ s.c.inflight = t.c.inflight /\ s.c.handlers = t.c.handlers
        /\ s.c.pubrel = t.c.pubrel /\ s.c.nextId = t.c.nextId
        /\ s.c.cleansession = t.c.cleansession
    BY <2>1, <2>7, ExitTurn
  <2>9. SUCCESS # FAILURE /\ SUCCESS # "none" BY DEF SUCCESS, FAILURE
  <2>10. ResendOutcome(s, d, rc, k)
    <3>1. CASE t.call = NoCall /\ t.rc = FAILURE /\ Core(t.c) = Core(closeSession(d))
      BY <1>2, <2>3, <2>8, <2>9, <3>1 DEF ResendOutcome, PublishOutcome
    <3>2. CASE /\ AckAwaited(d.inflight.qos) = "none" /\ Core(t.c) = Core(d)
               /\ t.call = NoCall /\ t.rc = SUCCESS
      BY <1>2, <2>3, <2>8, <2>9, <3>2 DEF ResendOutcome, PublishOutcome, Core
    <3>3. CASE /\ AckAwaited(d.inflight.qos) # "none" /\ Core(t.c) = Core(d)
               /\ t.call = k1 /\ t.rc = "none"
      BY <1>2, <2>3, <2>8, <2>9, <3>3 DEF ResendOutcome, PublishOutcome, k1
    <3> QED BY <2>3, <3>1, <3>2, <3>3 DEF PublishOutcome, k1
  <2> QED BY <2>8, <2>10 DEF s
<1> QED BY <1>1, <1>2

\* The table of handlers.
HandlersOnce(h) == \A i, j \in Slots : i # j /\ h[i] = h[j] => h[i] = NoTopic

LEMMA OneSlot ==
  ASSUME NEW T, NEW h \in [Slots -> T], HandlersOnce(h), NEW i \in Slots, NEW t,
         t = NoTopic \/ h[i] = t \/ \A j \in Slots : h[j] # t
  PROVE  HandlersOnce([h EXCEPT ![i] = t])
BY DEF HandlersOnce

LEMMA HandlerType ==
  ASSUME NEW d \in Object, NEW topic \in Topics, NEW adding \in BOOLEAN
  PROVE  LET h == setMessageHandler(d, topic, adding)
         IN  /\ h.c \in Object /\ h.rc \in {SUCCESS, FAILURE}
             /\ Session(h.c) = Session(d)
             /\ HandlersOnce(d.handlers) => HandlersOnce(h.c.handlers)
             /\ h.rc = FAILURE /\ adding => \A i \in Slots : d.handlers[i] \notin {NoTopic, topic}
<1> DEFINE same == SlotsWith(d, topic)
           free == {i \in Slots : d.handlers[i] = NoTopic}
           h    == setMessageHandler(d, topic, adding)
           At(i, t) == [d EXCEPT !.handlers = [d.handlers EXCEPT ![i] = t]]
<1>0. d.handlers \in [Slots -> Topics \cup {NoTopic}] BY DEF Object
<1>1. same \in SUBSET Nat /\ free \in SUBSET Nat /\ same \subseteq Slots /\ free \subseteq Slots
  BY ClientAssumption DEF SlotsWith, Slots
<1>2. ASSUME NEW i \in Slots, NEW t \in Topics \cup {NoTopic},
             t = NoTopic \/ d.handlers[i] = t \/ \A j \in Slots : d.handlers[j] # t
      PROVE  /\ At(i, t) \in Object
             /\ Session(At(i, t)) = Session(d)
             /\ HandlersOnce(d.handlers) => HandlersOnce(At(i, t).handlers)
  <2>1. [d.handlers EXCEPT ![i] = t] \in [Slots -> Topics \cup {NoTopic}] BY <1>0
  <2>2. HandlersOnce(d.handlers) => HandlersOnce([d.handlers EXCEPT ![i] = t]) BY <1>0, <1>2, OneSlot
  <2>3. At(i, t).handlers = [d.handlers EXCEPT ![i] = t] BY DEF Object
  <2>4. At(i, t) \in Object /\ Session(At(i, t)) = Session(d) BY <2>1 DEF Object, Session
  <2> HIDE DEF At
  <2> QED BY <2>2, <2>3, <2>4
<1>3. \/ h = [c |-> d, rc |-> FAILURE] /\ same = {} /\ (adding => free = {})
      \/ /\ same # {}
         /\ h \in {[c |-> At(First(same), NoTopic), rc |-> SUCCESS],
                   [c |-> At(First(same), topic), rc |-> SUCCESS]}
      \/ same = {} /\ free # {} /\ h = [c |-> At(First(free), topic), rc |-> SUCCESS]
  BY DEF setMessageHandler, Object
<1>4. /\ \A i \in same : d.handlers[i] = topic
      /\ same = {} => \A i \in Slots : d.handlers[i] # topic
      /\ free = {} => \A i \in Slots : d.handlers[i] # NoTopic
  BY DEF SlotsWith
<1> HIDE DEF same, free, h, At
<1>5. same # {} => First(same) \in Slots /\ d.handlers[First(same)] = topic BY <1>1, <1>4, FirstIn
<1>6. free # {} => First(free) \in Slots BY <1>1, FirstIn
<1>7. topic \in Topics \cup {NoTopic} /\ NoTopic \in Topics \cup {NoTopic} OBVIOUS
<1>8. \/ h = [c |-> d, rc |-> FAILURE] /\ same = {} /\ (adding => free = {})
      \/ \E i \in Slots, t \in Topics \cup {NoTopic} :
           /\ h = [c |-> At(i, t), rc |-> SUCCESS]
           /\ t = NoTopic \/ d.handlers[i] = t \/ \A j \in Slots : d.handlers[j] # t
  BY <1>3, <1>4, <1>5, <1>6, <1>7
<1>9. SUCCESS # FAILURE BY DEF SUCCESS, FAILURE
<1>10. CASE h = [c |-> d, rc |-> FAILURE] /\ same = {} /\ (adding => free = {})
  BY <1>4, <1>10 DEF h
<1>11. ASSUME NEW i \in Slots, NEW t \in Topics \cup {NoTopic}, h = [c |-> At(i, t), rc |-> SUCCESS]
       PROVE  /\ h.c = At(i, t) /\ h.rc = SUCCESS
  BY <1>11
<1> QED BY <1>2, <1>8, <1>9, <1>10, <1>11 DEF h

\* A call that is over without a packet more.
Over(s, rcs) == s.call = NoCall /\ s.out = NoWrite /\ s.rc \in rcs

AnsweredOutcome(s, d, p) ==
  \/ call.op = "connect" /\ call.await = "CONNACK" /\ ResendOutcome(s, d, p.rc, call)
  \/ /\ call.op \in {"connect", "publish"} /\ call.await \in {"PUBACK", "PUBCOMP"}
     /\ Over(s, {SUCCESS})
     /\ s.c.inflight = Acked(d, p.id).inflight /\ s.c.handlers = d.handlers
     /\ s.c.pubrel = d.pubrel /\ s.c.nextId = d.nextId /\ s.c.cleansession = d.cleansession
     /\ call.op = "publish" => s.c.isconnected = d.isconnected
  \/ /\ call.op \in {"subscribe", "unsubscribe"} /\ Over(s, {SUCCESS, FAILURE})
     /\ \E h \in Object :
          /\ Session(h) = Session(d)
          /\ HandlersOnce(d.handlers) => HandlersOnce(h.handlers)
          /\ \/ s.c = h
             \/ /\ s.c = closeSession(h) /\ s.rc = FAILURE
                /\ call.topic \in Topics
                /\ \A i \in Slots : d.handlers[i] \notin {NoTopic, call.topic}

UnansweredOutcome(s, d) ==
  \/ call.op = "connect" /\ call.await = "CONNACK" /\ ResendOutcome(s, d, FAILURE, call)
  \/ call.op = "yield" /\ s.c = d /\ Over(s, {SUCCESS, FAILURE})
  \/ /\ call.op # "yield" /\ ~(call.op = "connect" /\ call.await = "CONNACK")
     /\ s.c = closeSession(d) /\ Over(s, {FAILURE})

LEMMA AckedType ==
  ASSUME NEW d \in Object, SavedOK(d), NEW id
  PROVE  /\ Acked(d, id) \in Object /\ SavedOK(Acked(d, id))
         /\ Acked(d, id).inflight = IF d.inflight.id = id THEN [d.inflight EXCEPT !.id = 0] ELSE d.inflight
         /\ Acked(d, id).handlers = d.handlers /\ Acked(d, id).pubrel = d.pubrel
         /\ Acked(d, id).nextId = d.nextId /\ Acked(d, id).cleansession = d.cleansession
         /\ Acked(d, id).isconnected = d.isconnected
<1> DEFINE f == [d.inflight EXCEPT !.id = 0]
<1>1. 0 \in Ids /\ d.inflight \in [id : Ids, qos : Levels, msg : OutMsgs \cup {0}]
  BY ClientAssumption DEF Ids, Object
<1>2. f \in [id : Ids, qos : Levels, msg : OutMsgs \cup {0}] /\ f.id = 0 BY <1>1
<1>3. Acked(d, id) = IF d.inflight.id = id THEN [d EXCEPT !.inflight = f] ELSE d
  BY DEF Acked, Object
<1> HIDE DEF f
<1>4. CASE d.inflight.id = id
  <2> DEFINE e == [d EXCEPT !.inflight = f]
  <2>1. /\ e \in Object /\ e.inflight = f /\ e.handlers = d.handlers /\ e.pubrel = d.pubrel
        /\ e.nextId = d.nextId /\ e.cleansession = d.cleansession /\ e.isconnected = d.isconnected
    BY <1>2 DEF Object
  <2>2. SavedOK(e) BY <1>2, <2>1 DEF SavedOK
  <2>3. Acked(d, id) = e BY <1>3, <1>4
  <2> HIDE DEF e
  <2> QED BY <1>4, <2>1, <2>2, <2>3 DEF f
<1>5. CASE d.inflight.id # id
  BY <1>3, <1>5
<1> QED BY <1>4, <1>5

LEMMA AnsweredCases ==
  ASSUME NEW d \in Object, SavedOK(d), NEW p \in Input, NEW w \in Fates,
         Waiting(call), p.type = call.await
  PROVE  TurnOK(answered(d, p, w)) /\ AnsweredOutcome(answered(d, p, w), d, p)
<1> DEFINE s == answered(d, p, w)
<1>1. SUCCESS \in Codes /\ FAILURE \in Codes /\ SUCCESS # FAILURE BY DEF Codes, SUCCESS, FAILURE
<1>2. call.op \in {"connect", "publish", "subscribe", "unsubscribe"}
  BY InputFields DEF Waiting, Call, Acks, SHORT, TIMEOUT
<1>3. CASE call.op = "connect" /\ call.await = "CONNACK"
  <2>1. p.rc \in Codes BY <1>3, InputFields DEF Codes
  <2>2. s = resend(d, p.rc, w, call, FALSE) BY <1>3 DEF answered
  <2> QED BY <1>3, <2>1, <2>2, ResendCases DEF AnsweredOutcome, Waiting
<1>4. CASE call.op = "connect" /\ call.await # "CONNACK"
  <2> DEFINE a == Acked(d, p.id)
  <2>0. /\ a \in Object /\ SavedOK(a) /\ a.handlers = d.handlers /\ a.pubrel = d.pubrel
        /\ a.nextId = d.nextId /\ a.cleansession = d.cleansession
        /\ a.isconnected = d.isconnected
    BY AckedType
  <2> DEFINE t == Return(a, NoWrite, SUCCESS)
  <2>1. s = connect_exit(t) BY <1>4 DEF answered
  <2> HIDE DEF a, s
  <2>2. TurnOK(t) BY <1>1, <2>0, NoWriteType, ReturnType
  <2>3. t.c = a /\ t.out = NoWrite /\ t.call = NoCall /\ t.rc = SUCCESS BY DEF Return
  <2> HIDE DEF t
  <2>4. call.await \in {"PUBACK", "PUBCOMP"} BY <1>4 DEF Waiting
  <2>5. /\ TurnOK(s) /\ s.out = NoWrite /\ s.call = NoCall /\ s.rc = SUCCESS
        /\ s.c.inflight = a.inflight /\ s.c.handlers = d.handlers
        /\ s.c.pubrel = d.pubrel /\ s.c.nextId = d.nextId /\ s.c.cleansession = d.cleansession
    BY <2>0, <2>1, <2>2, <2>3, ExitTurn
  <2>6. TurnOK(s) /\ AnsweredOutcome(s, d, p)
    BY <1>4, <2>4, <2>5 DEF AnsweredOutcome, Over, a
  <2> QED BY <2>6 DEF s
<1>5. CASE call.op = "publish"
  <2> DEFINE a == Acked(d, p.id)
  <2>0. /\ a \in Object /\ SavedOK(a) /\ a.handlers = d.handlers /\ a.pubrel = d.pubrel
        /\ a.nextId = d.nextId /\ a.cleansession = d.cleansession
        /\ a.isconnected = d.isconnected
    BY AckedType
  <2>1. s = Return(a, NoWrite, SUCCESS) BY <1>5 DEF answered
  <2> HIDE DEF a
  <2>2. s.c = a /\ s.out = NoWrite /\ s.call = NoCall /\ s.rc = SUCCESS
    BY <2>1 DEF Return
  <2>3. TurnOK(s) BY <1>1, <2>0, <2>1, NoWriteType, ReturnType
  <2>4. call.await \in {"PUBACK", "PUBCOMP"} BY <1>5 DEF Waiting, AckAwaited
  <2> HIDE DEF s
  <2>5. AnsweredOutcome(s, d, p) BY <1>5, <2>0, <2>2, <2>4 DEF AnsweredOutcome, Over, a
  <2> QED BY <2>3, <2>5 DEF s
<1>6. CASE call.op \in {"subscribe", "unsubscribe"}
  <2>0. call.topic \in Topics BY <1>6 DEF Waiting
  <2>1. ASSUME NEW h \in Object, Session(h) = Session(d), NEW e, NEW rc \in {SUCCESS, FAILURE},
               HandlersOnce(d.handlers) => HandlersOnce(h.handlers),
               \/ e = h
               \/ /\ e = closeSession(h) /\ rc = FAILURE
                  /\ \A i \in Slots : d.handlers[i] \notin {NoTopic, call.topic},
               s = Return(e, NoWrite, rc)
        PROVE  TurnOK(s) /\ AnsweredOutcome(s, d, p)
    <3>1. h.inflight = d.inflight BY <2>1 DEF Session
    <3>2. SavedOK(h) BY <3>1, SavedSame
    <3>3. e \in Object /\ SavedOK(e) BY <2>1, <3>2, CloseSaved
    <3>4. TurnOK(s) BY <1>1, <2>1, <3>3, NoWriteType, ReturnType
    <3>5. s.c = e /\ s.out = NoWrite /\ s.call = NoCall /\ s.rc = rc BY <2>1 DEF Return
    <3> HIDE DEF s
    <3> QED BY <1>6, <2>0, <2>1, <3>4, <3>5 DEF AnsweredOutcome, Over
  <2>2. CASE call.op = "subscribe" /\ p.qos = 128
    BY <2>1, <2>2 DEF answered
  <2>3. CASE call.op = "subscribe" /\ p.qos # 128
    <3> DEFINE h == setMessageHandler(d, call.topic, TRUE)
    <3>1. /\ h.c \in Object /\ h.rc \in {SUCCESS, FAILURE} /\ Session(h.c) = Session(d)
          /\ HandlersOnce(d.handlers) => HandlersOnce(h.c.handlers)
          /\ h.rc = FAILURE => \A i \in Slots : d.handlers[i] \notin {NoTopic, call.topic}
      BY <2>0, HandlerType
    <3>2. s = Return(IF h.rc = FAILURE THEN closeSession(h.c) ELSE h.c, NoWrite, h.rc)
      BY <2>3 DEF answered
    <3> DEFINE e == h.c
               rc == h.rc
    <3> HIDE DEF h
    <3>3. CASE rc = FAILURE
      <4>1. s = Return(closeSession(e), NoWrite, rc) BY <3>2, <3>3
      <4> HIDE DEF s, e, rc
      <4>2. TurnOK(s) /\ AnsweredOutcome(s, d, p) BY <2>1, <3>1, <3>3, <4>1 DEF e, rc
      <4> QED BY <4>2 DEF s
    <3>4. CASE rc # FAILURE
      <4>1. s = Return(e, NoWrite, rc) BY <3>2, <3>4
      <4> HIDE DEF s, e, rc
      <4>2. TurnOK(s) /\ AnsweredOutcome(s, d, p) BY <2>1, <3>1, <4>1 DEF e, rc
      <4> QED BY <4>2 DEF s
    <3> QED BY <3>3, <3>4
  <2>4. CASE call.op = "unsubscribe"
    <3> DEFINE h == setMessageHandler(d, call.topic, FALSE)
    <3>1. /\ h.c \in Object /\ Session(h.c) = Session(d)
          /\ HandlersOnce(d.handlers) => HandlersOnce(h.c.handlers)
      BY <2>0, HandlerType
    <3>2. s = Return(h.c, NoWrite, SUCCESS) BY <2>4 DEF answered
    <3> DEFINE e == h.c
    <3>3. s = Return(e, NoWrite, SUCCESS) BY <3>2
    <3> HIDE DEF s, e
    <3>4. TurnOK(s) /\ AnsweredOutcome(s, d, p) BY <2>1, <3>1, <3>3 DEF e
    <3> QED BY <3>4 DEF s
  <2> QED BY <1>6, <2>2, <2>3, <2>4
<1> QED BY <1>2, <1>3, <1>4, <1>5, <1>6

LEMMA UnansweredCases ==
  ASSUME NEW d \in Object, SavedOK(d), NEW w \in Fates, NEW expired \in BOOLEAN, Waiting(call)
  PROVE  TurnOK(unanswered(d, w, expired)) /\ UnansweredOutcome(unanswered(d, w, expired), d)
<1> DEFINE s == unanswered(d, w, expired)
<1>1. SUCCESS \in Codes /\ FAILURE \in Codes BY DEF Codes
<1>2. CASE call.op = "connect" /\ call.await = "CONNACK"
  <2>1. s = resend(d, FAILURE, w, call, expired) BY <1>2 DEF unanswered
  <2> QED BY <1>1, <1>2, <2>1, ResendCases DEF UnansweredOutcome, Waiting
<1>3. CASE call.op = "yield"
  <2>1. s = Return(d, NoWrite, IF expired THEN SUCCESS ELSE FAILURE) BY <1>3 DEF unanswered
  <2>2. TurnOK(s) BY <1>1, <2>1, NoWriteType, ReturnType
  <2>3. s.c = d /\ Over(s, {SUCCESS, FAILURE}) BY <2>1 DEF Return, Over
  <2> QED BY <1>3, <2>2, <2>3 DEF UnansweredOutcome
<1>4. CASE call.op # "yield" /\ ~(call.op = "connect" /\ call.await = "CONNACK")
  <2>1. s = Return(closeSession(d), NoWrite, FAILURE) BY <1>4 DEF unanswered
  <2>2. TurnOK(s) BY <1>1, <2>1, CloseSaved, NoWriteType, ReturnType
  <2>3. s.c = closeSession(d) /\ Over(s, {FAILURE}) BY <2>1 DEF Return, Over
  <2> QED BY <1>4, <2>2, <2>3 DEF UnansweredOutcome
<1> QED BY <1>2, <1>3, <1>4

-----------------------------------------------------------------------------
(* Types of the whole state. *)

Kept == [id : Nat \ {0}, qos : Levels \ {0}, msg : InMsgs,
         rel : IF Qos2Used THEN BOOLEAN ELSE {FALSE}]

Suback == [type : {"SUBACK"}, id : Nat, qos : Levels \cup {128}]

BrokerObject ==
  [on : BOOLEAN, subs : [Topics -> Levels \cup {NotSubscribed}],
   suback : Suback \cup {NoSuback},
   held : SUBSET [id : Ids, msg : OutMsgs], out : Seq(Kept)]

ClientTypes ==
  /\ c \in Object /\ SavedOK(c) /\ Waiting(call)
  /\ ret.call \in Call /\ ret.rc \in Codes
  /\ up \in Seq(UpPacket) /\ heard \in [InMsgs -> Nat] /\ faults \in 0..MaxFaults

ChannelTypes ==
  /\ link \in {"up", "down"} /\ (link = "down" => up = <<>>)
  /\ down \in Seq(DownPacket)

BrokerTypes ==
  /\ b \in BrokerObject
  /\ got \in [OutMsgs -> Nat] /\ acked \subseteq OutMsgs
  /\ fresh \subseteq InMsgs \cup OutMsgs /\ promised \subseteq OutMsgs
  /\ breaks \in 0..MaxBreaks /\ calls \in 0..MaxCalls

Types == ClientTypes /\ ChannelTypes /\ BrokerTypes

LEMMA TypesTypeOK == Types => TypeOK
<1> SUFFICES ASSUME Types PROVE TypeOK OBVIOUS
<1>1. [id : Ids, qos : Levels, msg : OutMsgs \cup {0}] \subseteq [id : Ids, qos : 0..2, msg : OutMsgs \cup {0}]
  BY LevelsType
<1>2. c.inflight \in [id : Ids, qos : 0..2, msg : OutMsgs \cup {0}]
  BY <1>1 DEF Types, ClientTypes, Object
<1> QED BY <1>2 DEF Types, ClientTypes, ChannelTypes, BrokerTypes, TypeOK, Object, Waiting, Call

LEMMA NewClientType ==
  ASSUME NEW keepAlive \in BOOLEAN
  PROVE  NewClient(keepAlive) \in Object /\ SavedOK(NewClient(keepAlive))
<1>1. 0 \in Ids /\ 0 \in Levels BY ClientAssumption, LevelsType DEF Ids
<1>2. NoInflight \in [id : Ids, qos : Levels, msg : OutMsgs \cup {0}] BY <1>1 DEF NoInflight
<1>3. /\ [i \in Slots |-> NoTopic] \in [Slots -> Topics \cup {NoTopic}]
      /\ [i \in QoS2Slots |-> 0] \in [QoS2Slots -> Nat]
  OBVIOUS
<1>4. NewClient(keepAlive) \in Object BY <1>1, <1>2, <1>3 DEF NewClient, Object
<1>5. NewClient(keepAlive).inflight.id = 0 BY DEF NewClient, NoInflight
<1> QED BY <1>4, <1>5 DEF SavedOK

LEMMA InitTypes == Init => Types
<1> SUFFICES ASSUME Init PROVE Types OBVIOUS
<1>1. ClientTypes
  <2>1. c \in Object /\ SavedOK(c) BY NewClientType DEF Init, ClientInit
  <2>2. ret.call \in Call /\ ret.rc \in Codes BY NoCallType DEF Init, ClientInit, NoReturn, Codes
  <2>3. up \in Seq(UpPacket) BY DEF Init, ClientInit
  <2>4. heard \in [InMsgs -> Nat] BY DEF Init, ClientInit
  <2>5. faults \in 0..MaxFaults BY APIAssumption DEF Init
  <2>6. Waiting(call) BY NoCallType DEF Init, ClientInit
  <2> QED BY <2>1, <2>2, <2>3, <2>4, <2>5, <2>6 DEF ClientTypes
<1>2. ChannelTypes BY DEF ChannelTypes, Init
<1>3. BrokerTypes
  <2>1. [t \in Topics |-> NotSubscribed] \in [Topics -> Levels \cup {NotSubscribed}] OBVIOUS
  <2>2. {} \in SUBSET [id : Ids, msg : OutMsgs] /\ <<>> \in Seq(Kept) OBVIOUS
  <2>3. b \in BrokerObject BY <2>1, <2>2 DEF Init, BrokerObject
  <2>4. got \in [OutMsgs -> Nat] BY DEF Init
  <2>5. 0 \in 0..MaxBreaks /\ 0 \in 0..MaxCalls BY SystemAssumption
  <2> QED BY <2>3, <2>4, <2>5 DEF BrokerTypes, Init
<1> QED BY <1>1, <1>2, <1>3 DEF Types

LEMMA FatesOK == \A matters \in BOOLEAN : Outcomes(matters) \subseteq Fates
BY APIAssumption DEF Outcomes, Fates

LEMMA TurnTypes ==
  ASSUME ClientTypes, ChannelTypes, NEW k \in Call, NEW s, TurnOK(s), NEW more \in Nat,
         TurnWith(k, s, more)
  PROVE  /\ c' \in Object /\ SavedOK(c') /\ Waiting(call')
         /\ ret'.call \in Call /\ ret'.rc \in Codes
         /\ up' \in Seq(UpPacket) /\ faults' \in 0..MaxFaults
         /\ link = "down" => up' = <<>>
<1>1. c' = s.c /\ call' = s.call BY DEF TurnWith
<1>2. c' \in Object /\ SavedOK(c') /\ Waiting(call') BY <1>1 DEF TurnOK
<1>3. ret'.call \in Call /\ ret'.rc \in Codes
  BY NoCallType DEF TurnWith, TurnOK, NoReturn, Codes
<1>4. up \in Seq(UpPacket) /\ s.out.sent \in Seq(UpPacket) BY DEF ClientTypes, TurnOK
<1>5. up' = IF link = "up" THEN up \o s.out.sent ELSE up BY DEF TurnWith
<1>6. up' \in Seq(UpPacket) /\ (link = "down" => up' = <<>>)
  BY <1>4, <1>5, ConcatProperties DEF ChannelTypes
<1>7. faults' \in 0..MaxFaults
  BY APIAssumption DEF TurnWith, TurnOK, ClientTypes
<1> QED BY <1>2, <1>3, <1>6, <1>7

LEMMA StartsType ==
  ASSUME NEW op \in {"none", "connect", "publish", "subscribe", "unsubscribe", "yield", "disconnect"},
         NEW qos \in Levels, NEW topic \in Topics \cup {NoTopic}, NEW msg \in OutMsgs \cup {0}
  PROVE  /\ Starts(op, qos, topic, msg) \in Call
         /\ Starts(op, qos, topic, msg).op = op /\ Starts(op, qos, topic, msg).await = "none"
BY DEF Starts, Call

LEMMA NextIdType ==
  ASSUME NEW d \in Object
  PROVE  getNext(d) \in Ids /\ getNext(d) # 0
BY ClientAssumption DEF getNext, Ids, Object

-----------------------------------------------------------------------------
(* What the client's actions come to. *)

ConnectPacket == [type |-> "CONNECT", clean |-> CleanSession]
ConnectCall == [Starts("connect", 0, NoTopic, 0) EXCEPT !.await = "CONNACK"]

ConnectOutcome(s) ==
  \/ /\ c.isconnected /\ s.c = c /\ s.out = NoWrite /\ s.call = NoCall /\ s.rc = FAILURE
  \/ /\ ~c.isconnected
     /\ ~s.c.isconnected /\ s.c.cleansession = CleanSession
     /\ s.c.inflight = c.inflight /\ s.c.handlers = c.handlers
     /\ s.c.pubrel = c.pubrel /\ s.c.nextId = c.nextId
     /\ \/ s.out.sent = <<ConnectPacket>> /\ s.call = ConnectCall /\ s.rc = "none"
        \/ s.out.sent \in {<<>>, <<ConnectPacket>>} /\ s.call = NoCall /\ s.rc = FAILURE

LEMMA ConnectCallType ==
  /\ ConnectCall \in Call /\ Waiting(ConnectCall)
  /\ ConnectCall.op = "connect" /\ ConnectCall.await = "CONNACK"
<1>1. 0 \in Levels /\ 0 \in OutMsgs \cup {0} /\ NoTopic \in Topics \cup {NoTopic} BY LevelsType
<1>2. ConnectCall = [op |-> "connect", await |-> "CONNACK", qos |-> 0, topic |-> NoTopic, msg |-> 0]
  BY DEF ConnectCall, Starts
<1>3. ConnectCall \in Call BY <1>1, <1>2 DEF Call
<1>4. ConnectCall.op = "connect" /\ ConnectCall.await = "CONNACK" BY <1>2
<1> QED BY <1>3, <1>4 DEF Waiting

LEMMA ConnectCases ==
  ASSUME ClientTypes, connect
  PROVE  \E s : TurnOK(s) /\ Turn(ConnectCall, s) /\ ConnectOutcome(s)
<1> DEFINE d == [c EXCEPT !.keepAlive = KeepAlive, !.cleansession = CleanSession]
<1>1. d \in Object /\ SavedOK(d)
      /\ Core(d) = <<c.isconnected, CleanSession, c.handlers, c.inflight, c.pubrel, c.nextId>>
  <2>1. d \in Object /\ d.inflight = c.inflight
    BY ClientAssumption, APIAssumption DEF Object, ClientTypes
  <2>2. Core(d) = <<c.isconnected, CleanSession, c.handlers, c.inflight, c.pubrel, c.nextId>>
    BY DEF Core, Object, ClientTypes
  <2> QED BY <2>1, <2>2, SavedSame DEF ClientTypes
<1>2. ConnectPacket \in UpPacket BY APIAssumption DEF ConnectPacket, UpPacket
<1>3. PICK w \in Outcomes(TRUE) :
        LET s == sendPacket(d, ConnectPacket, w)
        IN IF c.isconnected
           THEN Turn(ConnectCall, Return(c, NoWrite, FAILURE))
           ELSE Turn(ConnectCall,
                     IF s.rc = SUCCESS
                     THEN Wait([s.c EXCEPT !.recvDue = s.c.recvDue /\ ~KeepAlive], s.out, ConnectCall)
                     ELSE Return(s.c, s.out, FAILURE))
  BY DEF connect, ConnectPacket, ConnectCall
<1>4. w \in Fates BY FatesOK
<1> DEFINE s == sendPacket(d, ConnectPacket, w)
<1> HIDE DEF d
<1>5. /\ s.c \in Object /\ Core(s.c) = Core(d) /\ s.rc \in {SUCCESS, FAILURE}
      /\ s.out.sent \in Seq(UpPacket) /\ s.out.failed \in Nat
      /\ s.out.sent \in {<<>>, <<ConnectPacket>>}
      /\ s.rc = SUCCESS => s.out.sent = <<ConnectPacket>>
  BY <1>1, <1>2, <1>4, SendType
<1> HIDE DEF s
<1>6. FAILURE \in Codes BY DEF Codes
<1>7. SavedOK(s.c) BY <1>1, <1>5, SavedSame
<1>8. CASE c.isconnected
  <2> DEFINE t == Return(c, NoWrite, FAILURE)
  <2>1. TurnOK(t) BY <1>6, NoWriteType, ReturnType DEF ClientTypes
  <2>2. t.c = c /\ t.out = NoWrite /\ t.call = NoCall /\ t.rc = FAILURE BY DEF Return
  <2>3. Turn(ConnectCall, t) BY <1>3, <1>8
  <2> HIDE DEF t
  <2>4. ConnectOutcome(t) BY <1>8, <2>2 DEF ConnectOutcome
  <2> QED BY <2>1, <2>3, <2>4
<1>9. CASE ~c.isconnected /\ s.rc = SUCCESS
  <2> DEFINE e == [s.c EXCEPT !.recvDue = s.c.recvDue /\ ~KeepAlive]
             t == Wait(e, s.out, ConnectCall)
  <2>1. e \in Object /\ Core(e) = Core(s.c)
    BY <1>5, ClientAssumption DEF Object, Core
  <2>2. Turn(ConnectCall, t) BY <1>3, <1>9 DEF s
  <2> HIDE DEF e
  <2>3. SavedOK(e) BY <1>5, <1>7, <2>1, SavedSame
  <2>4. TurnOK(t) BY <1>5, <2>1, <2>3, ConnectCallType, WaitType
  <2>5. t.c = e /\ t.out = s.out /\ t.call = ConnectCall /\ t.rc = "none" BY DEF Wait
  <2> HIDE DEF t
  <2>6. Core(e) = <<c.isconnected, CleanSession, c.handlers, c.inflight, c.pubrel, c.nextId>>
    BY <1>1, <1>5, <2>1
  <2>7. ConnectOutcome(t) BY <1>5, <1>9, <2>5, <2>6 DEF ConnectOutcome, Core
  <2> QED BY <2>2, <2>4, <2>7
<1>10. CASE ~c.isconnected /\ s.rc # SUCCESS
  <2> DEFINE t == Return(s.c, s.out, FAILURE)
  <2>1. Turn(ConnectCall, t) BY <1>3, <1>10 DEF s
  <2>2. TurnOK(t) BY <1>5, <1>6, <1>7, ReturnType
  <2>3. t.c = s.c /\ t.out = s.out /\ t.call = NoCall /\ t.rc = FAILURE BY DEF Return
  <2> HIDE DEF t
  <2>4. Core(s.c) = <<c.isconnected, CleanSession, c.handlers, c.inflight, c.pubrel, c.nextId>>
    BY <1>1, <1>5
  <2>5. ConnectOutcome(t) BY <1>5, <1>10, <2>3, <2>4 DEF ConnectOutcome, Core
  <2> QED BY <2>1, <2>2, <2>5
<1> QED BY <1>8, <1>9, <1>10

\* A publish that starts: its id, the object with it saved, and its outcome.
PublishId(qos) == IF qos = 0 THEN 0 ELSE getNext(c)
PublishCall(qos, msg) == Starts("publish", qos, NoTopic, msg)
Numbered(qos) == IF qos = 0 THEN c ELSE [c EXCEPT !.nextId = getNext(c)]

LEMMA NumberedType ==
  ASSUME ClientTypes, NEW qos \in Levels, NEW msg \in OutMsgs
  PROVE  LET e == Saved(Numbered(qos), PublishId(qos), qos, msg)
         IN  /\ e \in Object /\ SavedOK(e)
             /\ e.isconnected = c.isconnected /\ e.cleansession = c.cleansession
             /\ e.handlers = c.handlers
             /\ qos # 0 => e.nextId = PublishId(qos) /\ PublishId(qos) # 0
             /\ c.cleansession => e.inflight = c.inflight /\ e.pubrel = c.pubrel
             /\ ~c.cleansession => /\ e.inflight = [id |-> PublishId(qos), qos |-> qos, msg |-> msg]
                                   /\ ~e.pubrel
             /\ PublishId(qos) \in Ids
<1>0. c \in Object /\ c.cleansession \in BOOLEAN BY DEF ClientTypes, Object
<1>1. PublishId(qos) \in Ids /\ (qos # 0 => PublishId(qos) # 0)
  BY <1>0, NextIdType, ClientAssumption DEF PublishId, Ids
<1> DEFINE n == Numbered(qos)
<1>2. /\ n \in Object /\ n.isconnected = c.isconnected /\ n.cleansession = c.cleansession
      /\ n.handlers = c.handlers /\ n.inflight = c.inflight /\ n.pubrel = c.pubrel
      /\ qos # 0 => n.nextId = PublishId(qos)
  <2>1. CASE qos = 0 BY <1>0, <2>1 DEF Numbered
  <2>2. CASE qos # 0
    <3>1. n = [c EXCEPT !.nextId = PublishId(qos)] BY <2>2 DEF Numbered, PublishId
    <3> QED BY <1>0, <1>1, <3>1 DEF Object
  <2> QED BY <2>1, <2>2
<1> HIDE DEF n
<1> DEFINE f == [id |-> PublishId(qos), qos |-> qos, msg |-> msg]
<1>3. f \in [id : Ids, qos : Levels, msg : OutMsgs \cup {0}] /\ f.msg \in OutMsgs BY <1>1
<1>4. Saved(n, PublishId(qos), qos, msg)
        = IF n.cleansession THEN n ELSE [n EXCEPT !.inflight = f, !.pubrel = FALSE]
  BY DEF Saved
<1> HIDE DEF f
<1> DEFINE e == Saved(n, PublishId(qos), qos, msg)
<1>5. CASE c.cleansession
  <2>1. e = n BY <1>2, <1>4, <1>5
  <2>2. SavedOK(n) BY <1>2, SavedSame DEF ClientTypes
  <2> QED BY <1>1, <1>2, <1>5, <2>1, <2>2 DEF n
<1>6. CASE ~c.cleansession
  <2>1. e = [n EXCEPT !.inflight = f, !.pubrel = FALSE] BY <1>2, <1>4, <1>6
  <2>2. /\ e \in Object /\ e.inflight = f /\ e.pubrel = FALSE /\ e.isconnected = n.isconnected
        /\ e.cleansession = n.cleansession /\ e.handlers = n.handlers /\ e.nextId = n.nextId
    BY <1>2, <1>3, <2>1 DEF Object
  <2> HIDE DEF e
  <2>3. SavedOK(e) BY <1>3, <2>2 DEF SavedOK
  <2> QED BY <1>1, <1>2, <1>6, <2>2, <2>3 DEF f, n, e
<1> QED BY <1>0, <1>5, <1>6

LEMMA PublishStarts ==
  ASSUME ClientTypes, NEW qos \in Levels, NEW msg \in OutMsgs, publish(msg, qos)
  PROVE  \E s : /\ TurnOK(s) /\ Turn(PublishCall(qos, msg), s) /\ c.isconnected
                /\ PublishOutcome(s, Saved(Numbered(qos), PublishId(qos), qos, msg),
                                  PublishPacket(PublishId(qos), qos, msg), qos,
                                  PublishCall(qos, msg), FALSE)
<1> DEFINE e == Saved(Numbered(qos), PublishId(qos), qos, msg)
           p == PublishPacket(PublishId(qos), qos, msg)
           k == PublishCall(qos, msg)
<1>1. c.isconnected /\ \E w \in Outcomes(TRUE) : Turn(k, publish_packet(e, p, qos, w, k, FALSE))
  BY DEF publish, PublishCall, Numbered, PublishId
<1>2. e \in Object /\ SavedOK(e) /\ PublishId(qos) \in Ids BY NumberedType
<1>3. p \in UpPacket BY <1>2 DEF PublishPacket, UpPacket
<1>4. k \in Call /\ k.op = "publish" /\ k.msg = msg /\ k.qos = qos
  BY DEF PublishCall, Starts, Call
<1> HIDE DEF e, p, k
<1>5. PICK w \in Fates : Turn(k, publish_packet(e, p, qos, w, k, FALSE)) BY <1>1, FatesOK
<1> DEFINE s == publish_packet(e, p, qos, w, k, FALSE)
<1>6. PublishOutcome(s, e, p, qos, k, FALSE) BY <1>2, <1>3, PublishCases
<1>7. Turn(k, s) BY <1>5
<1> HIDE DEF s
<1>8. AckAwaited(qos) # "none" => Waiting([k EXCEPT !.await = AckAwaited(qos)])
  <2> SUFFICES ASSUME AckAwaited(qos) # "none" PROVE Waiting([k EXCEPT !.await = AckAwaited(qos)])
    OBVIOUS
  <2> DEFINE j == [k EXCEPT !.await = AckAwaited(qos)]
  <2>1. AckAwaited(qos) \in {"PUBACK", "PUBCOMP"} BY DEF AckAwaited
  <2>2. j \in Call /\ j.op = "publish" /\ j.await = AckAwaited(qos) /\ j.qos = qos /\ j.msg = msg
    BY <1>4, <2>1 DEF Call
  <2> HIDE DEF j
  <2>3. Waiting(j) BY <2>1, <2>2 DEF Waiting
  <2> QED BY <2>3 DEF j
<1>9. s.out.sent \in Seq(UpPacket)
  <2>1. <<>> \in Seq(UpPacket) /\ <<p>> \in Seq(UpPacket) BY <1>3
  <2> QED BY <1>6, <2>1 DEF PublishOutcome
<1>10. TurnOK(s) BY <1>6, <1>8, <1>9, NoCallType DEF PublishOutcome, TurnOK, Codes
<1> QED BY <1>1, <1>6, <1>7, <1>10 DEF e, p, k

\* A request that starts: subscribe's and unsubscribe's.
Advanced == [c EXCEPT !.nextId = getNext(c)]
SubscribeCall(topic, qos) == [Starts("subscribe", qos, topic, 0) EXCEPT !.await = "SUBACK"]
UnsubscribeCall(topic) == [Starts("unsubscribe", 0, topic, 0) EXCEPT !.await = "UNSUBACK"]

RequestOutcome(s, k) ==
  /\ c.isconnected
  /\ s.out.sent = <<>> \/ \E p \in UpPacket : p.type \in {"SUBSCRIBE", "UNSUBSCRIBE"} /\ s.out.sent = <<p>>
  /\ \/ s.call = k /\ s.rc = "none" /\ Core(s.c) = Core(Advanced)
     \/ /\ s.call = NoCall /\ s.rc = FAILURE /\ s.out.failed > 0
        /\ Core(s.c) = Core(closeSession(Advanced))

LEMMA AdvancedType ==
  ASSUME ClientTypes
  PROVE  /\ Advanced \in Object /\ SavedOK(Advanced)
         /\ Advanced.isconnected = c.isconnected /\ Advanced.cleansession = c.cleansession
         /\ Advanced.handlers = c.handlers /\ Advanced.inflight = c.inflight
         /\ Advanced.pubrel = c.pubrel
<1>1. c \in Object /\ getNext(c) \in Ids BY NextIdType DEF ClientTypes
<1>2. /\ Advanced \in Object /\ Advanced.isconnected = c.isconnected
      /\ Advanced.cleansession = c.cleansession
      /\ Advanced.handlers = c.handlers /\ Advanced.inflight = c.inflight
      /\ Advanced.pubrel = c.pubrel
  BY <1>1 DEF Advanced, Object
<1>3. SavedOK(Advanced) BY <1>1, <1>2, SavedSame DEF ClientTypes
<1> QED BY <1>2, <1>3

LEMMA RequestCases ==
  ASSUME ClientTypes, NEW k, Waiting(k), NEW p \in UpPacket,
         p.type \in {"SUBSCRIBE", "UNSUBSCRIBE"}, Request(k, p)
  PROVE  \E s : TurnOK(s) /\ Turn(k, s) /\ RequestOutcome(s, k)
<1> DEFINE d == Advanced
<1>1. PICK w \in Fates : LET s == sendPacket(d, p, w)
                         IN  Turn(k, IF s.rc = SUCCESS THEN Wait(s.c, s.out, k)
                                     ELSE Return(closeSession(s.c), s.out, FAILURE))
  BY FatesOK DEF Request, Advanced
<1>2. c.isconnected BY DEF Request
<1>3. d \in Object /\ SavedOK(d) BY AdvancedType
<1> DEFINE s == sendPacket(d, p, w)
<1> HIDE DEF d
<1>4. /\ s.c \in Object /\ Core(s.c) = Core(d) /\ s.rc \in {SUCCESS, FAILURE}
      /\ s.out.sent \in Seq(UpPacket) /\ s.out.failed \in Nat
      /\ s.out.sent \in {<<>>, <<p>>}
      /\ s.rc # SUCCESS => s.out.failed > 0
  BY <1>3, SendType
<1>5. SavedOK(s.c) /\ closeSession(s.c) \in Object /\ SavedOK(closeSession(s.c))
      /\ Core(closeSession(s.c)) = Core(closeSession(d))
  BY <1>3, <1>4, SavedSame, CloseSaved, CloseCore
<1>6. CASE s.rc = SUCCESS
  <2> DEFINE t == Wait(s.c, s.out, k)
  <2>1. Turn(k, t) BY <1>1, <1>6
  <2> HIDE DEF s
  <2>2. TurnOK(t) BY <1>4, <1>5, WaitType
  <2>3. t.c = s.c /\ t.out = s.out /\ t.call = k /\ t.rc = "none" BY DEF Wait
  <2> HIDE DEF t
  <2>4. RequestOutcome(t, k) BY <1>2, <1>4, <2>3 DEF RequestOutcome, d
  <2> QED BY <2>1, <2>2, <2>4
<1>7. CASE s.rc # SUCCESS
  <2> DEFINE t == Return(closeSession(s.c), s.out, FAILURE)
  <2>1. Turn(k, t) BY <1>1, <1>7
  <2> HIDE DEF s
  <2>2. TurnOK(t) BY <1>4, <1>5, ReturnType DEF Codes
  <2>3. t.c = closeSession(s.c) /\ t.out = s.out /\ t.call = NoCall /\ t.rc = FAILURE BY DEF Return
  <2> HIDE DEF t
  <2>4. RequestOutcome(t, k) BY <1>2, <1>4, <1>5, <1>7, <2>3 DEF RequestOutcome, d
  <2> QED BY <2>1, <2>2, <2>4
<1> QED BY <1>6, <1>7

LEMMA SubscribeStarts ==
  ASSUME ClientTypes, NEW topic \in Topics, NEW qos \in Levels, subscribe(topic, qos)
  PROVE  /\ Waiting(SubscribeCall(topic, qos))
         /\ SubscribeCall(topic, qos).op = "subscribe"
         /\ \E s : /\ TurnOK(s) /\ Turn(SubscribeCall(topic, qos), s)
                   /\ RequestOutcome(s, SubscribeCall(topic, qos))
<1> DEFINE k == SubscribeCall(topic, qos)
           p == [type |-> "SUBSCRIBE", id |-> getNext(c), topic |-> topic, qos |-> qos]
<1>1. getNext(c) \in Ids BY NextIdType DEF ClientTypes
<1>2. p \in UpPacket /\ p.type = "SUBSCRIBE" BY <1>1 DEF UpPacket
<1>3. k = [op |-> "subscribe", await |-> "SUBACK", qos |-> qos, topic |-> topic, msg |-> 0]
  BY DEF SubscribeCall, Starts
<1>4. k \in Call /\ k.op = "subscribe" /\ k.await = "SUBACK" /\ k.topic = topic
  BY <1>3 DEF Call
<1>5. Request(k, p) BY DEF subscribe, SubscribeCall
<1> HIDE DEF k, p
<1>6. Waiting(k) BY <1>4 DEF Waiting
<1>7. \E s : TurnOK(s) /\ Turn(k, s) /\ RequestOutcome(s, k) BY <1>2, <1>5, <1>6, RequestCases
<1> QED BY <1>4, <1>6, <1>7 DEF k

LEMMA UnsubscribeStarts ==
  ASSUME ClientTypes, NEW topic \in Topics, unsubscribe(topic)
  PROVE  /\ Waiting(UnsubscribeCall(topic))
         /\ UnsubscribeCall(topic).op = "unsubscribe"
         /\ \E s : /\ TurnOK(s) /\ Turn(UnsubscribeCall(topic), s)
                   /\ RequestOutcome(s, UnsubscribeCall(topic))
<1> DEFINE k == UnsubscribeCall(topic)
           p == [type |-> "UNSUBSCRIBE", id |-> getNext(c), topic |-> topic]
<1>1. getNext(c) \in Ids BY NextIdType DEF ClientTypes
<1>2. p \in UpPacket /\ p.type = "UNSUBSCRIBE" BY <1>1 DEF UpPacket
<1>3. k = [op |-> "unsubscribe", await |-> "UNSUBACK", qos |-> 0, topic |-> topic, msg |-> 0]
  BY DEF UnsubscribeCall, Starts
<1>4. k \in Call /\ k.op = "unsubscribe" /\ k.await = "UNSUBACK" /\ k.topic = topic
  BY <1>3, LevelsType DEF Call
<1>5. Request(k, p) BY DEF unsubscribe, UnsubscribeCall
<1> HIDE DEF k, p
<1>6. Waiting(k) BY <1>4 DEF Waiting
<1>7. \E s : TurnOK(s) /\ Turn(k, s) /\ RequestOutcome(s, k) BY <1>2, <1>5, <1>6, RequestCases
<1> QED BY <1>4, <1>6, <1>7 DEF k

RefusedCall(op) == Starts(op, 0, NoTopic, 0)

RefusedOutcome(s) ==
  /\ ~c.isconnected /\ s.c \in {c, closeSession(c)}
  /\ Over(s, {FAILURE})

LEMMA RefusedCases ==
  ASSUME ClientTypes, NEW op \in {"publish", "subscribe", "unsubscribe"}, Refused(op)
  PROVE  /\ RefusedCall(op) \in Call /\ RefusedCall(op).qos = 0 /\ RefusedCall(op).op # "disconnect"
         /\ \E s : TurnOK(s) /\ Turn(RefusedCall(op), s) /\ RefusedOutcome(s)
<1> DEFINE e == IF op = "publish" THEN c ELSE closeSession(c)
           s == Return(e, NoWrite, FAILURE)
<1>1. RefusedCall(op) \in Call /\ RefusedCall(op).qos = 0 /\ RefusedCall(op).op = op
  BY LevelsType DEF RefusedCall, Starts, Call
<1>2. ~c.isconnected /\ Turn(RefusedCall(op), s) BY DEF Refused, RefusedCall
<1>3. e \in {c, closeSession(c)} OBVIOUS
<1>4. e \in Object /\ SavedOK(e) BY CloseSaved DEF ClientTypes
<1>5. s.c = e /\ Over(s, {FAILURE}) BY DEF Return, Over
<1> HIDE DEF e
<1>6. TurnOK(s) BY <1>4, NoWriteType, ReturnType DEF Codes
<1> HIDE DEF s
<1>7. RefusedOutcome(s) BY <1>2, <1>3, <1>5 DEF RefusedOutcome
<1> QED BY <1>1, <1>2, <1>6, <1>7

YieldCall == Starts("yield", 0, NoTopic, 0)

YieldOutcome(s) == s.c = c /\ s.out = NoWrite /\ s.call = YieldCall /\ s.rc = "none"

LEMMA YieldCases ==
  ASSUME ClientTypes, yield
  PROVE  /\ Waiting(YieldCall) /\ YieldCall.op = "yield"
         /\ \E s : TurnOK(s) /\ Turn(NoCall, s) /\ YieldOutcome(s)
<1> DEFINE k == YieldCall
<1>1. k = [op |-> "yield", await |-> "none", qos |-> 0, topic |-> NoTopic, msg |-> 0]
  BY DEF YieldCall, Starts
<1>2. k \in Call /\ k.op = "yield" /\ k.await = "none" BY <1>1, LevelsType DEF Call
<1> DEFINE s == Wait(c, NoWrite, k)
<1>3. Turn(NoCall, s) BY DEF yield, YieldCall
<1> HIDE DEF k
<1>4. Waiting(k) BY <1>2 DEF Waiting
<1>5. TurnOK(s) BY <1>4, NoWriteType, WaitType DEF ClientTypes
<1>6. s.c = c /\ s.out = NoWrite /\ s.call = k /\ s.rc = "none" BY DEF Wait
<1> HIDE DEF s
<1>7. YieldOutcome(s) BY <1>6 DEF YieldOutcome, k
<1> QED BY <1>2, <1>3, <1>4, <1>5, <1>7 DEF k

DisconnectCall == Starts("disconnect", 0, NoTopic, 0)

DisconnectOutcome(s) ==
  /\ s.out.sent \in {<<>>, <<[type |-> "DISCONNECT"]>>}
  /\ s.call = NoCall /\ s.rc \in {SUCCESS, FAILURE}
  /\ Core(s.c) = Core(closeSession(c))

LEMMA DisconnectCases ==
  ASSUME ClientTypes, disconnect
  PROVE  /\ DisconnectCall \in Call /\ DisconnectCall.op = "disconnect" /\ DisconnectCall.qos = 0
         /\ \E s : TurnOK(s) /\ Turn(DisconnectCall, s) /\ DisconnectOutcome(s)
<1> DEFINE p == [type |-> "DISCONNECT"]
<1>1. DisconnectCall \in Call /\ DisconnectCall.op = "disconnect" /\ DisconnectCall.qos = 0
  BY LevelsType DEF DisconnectCall, Starts, Call
<1>2. p \in UpPacket BY DEF UpPacket
<1>3. PICK w \in Fates : LET t == sendPacket(c, p, w)
                         IN  Turn(DisconnectCall, Return(closeSession(t.c), t.out, t.rc))
  BY FatesOK DEF disconnect, DisconnectCall
<1> DEFINE t == sendPacket(c, p, w)
           s == Return(closeSession(t.c), t.out, t.rc)
<1>4. Turn(DisconnectCall, s) BY <1>3
<1>5. /\ t.c \in Object /\ Core(t.c) = Core(c) /\ t.rc \in {SUCCESS, FAILURE}
      /\ t.out.sent \in Seq(UpPacket) /\ t.out.failed \in Nat
      /\ t.out.sent \in {<<>>, <<p>>}
  BY <1>2, SendType DEF ClientTypes
<1> HIDE DEF t
<1>6. SavedOK(t.c) /\ closeSession(t.c) \in Object /\ SavedOK(closeSession(t.c))
      /\ Core(closeSession(t.c)) = Core(closeSession(c))
  BY <1>5, SavedSame, CloseSaved, CloseCore DEF ClientTypes
<1>7. t.rc \in Codes BY <1>5 DEF Codes
<1>8. TurnOK(s) BY <1>5, <1>6, <1>7, ReturnType
<1>9. s.c = closeSession(t.c) /\ s.out = t.out /\ s.call = NoCall /\ s.rc = t.rc BY DEF Return
<1> HIDE DEF s
<1>10. DisconnectOutcome(s) BY <1>5, <1>6, <1>9 DEF DisconnectOutcome
<1> QED BY <1>1, <1>4, <1>8, <1>10

\* A turn: what cycle did (r) and what the call did about it (s).
TurnOutcome(r, s, p) ==
  \/ r.rc = FAILURE /\ UnansweredOutcome(s, r.c)
  \/ r.rc = call.await /\ r.rc = p.type /\ AnsweredOutcome(s, r.c, p)
  \/ s = Wait(r.c, NoWrite, call)

Both(r, s) == [s EXCEPT !.out = Then(r.out, s.out)]

LEMMA TurnCases ==
  ASSUME ClientTypes, NEW p \in Input, NEW n, turn(p, n)
  PROVE  ~Idle /\ \E r, s : /\ Cycles(r, c, p) /\ TurnOK(s) /\ TurnOutcome(r, s, p)
                            /\ TurnOK(Both(r, s)) /\ TurnWith(call, Both(r, s), n) /\ Hear(r.got)
<1>1. PICK w1 \in Fates, w2 \in Fates, w3 \in Fates :
        LET r == cycle(c, p, w1, w2)
            s == IF r.rc = FAILURE THEN unanswered(r.c, w3, FALSE)
                 ELSE IF r.rc = call.await THEN answered(r.c, p, w3)
                 ELSE Wait(r.c, NoWrite, call)
        IN  TurnWith(call, Both(r, s), n) /\ Hear(r.got)
  <2>1. (p.type \in {"PUBLISH", "PUBREC", "PUBREL"}) \in BOOLEAN
        /\ c.keepAlive \in BOOLEAN /\ (call.op = "connect") \in BOOLEAN
    BY DEF ClientTypes, Object
  <2>2. /\ Outcomes(p.type \in {"PUBLISH", "PUBREC", "PUBREL"}) \subseteq Fates
        /\ Outcomes(c.keepAlive) \subseteq Fates /\ Outcomes(call.op = "connect") \subseteq Fates
    BY <2>1, FatesOK
  <2>3. PICK w1 \in Fates, w2 \in Fates, w3 \in Fates :
          \E r \in {cycle(c, p, w1, w2)} :
          \E s \in {IF r.rc = FAILURE THEN unanswered(r.c, w3, FALSE)
                    ELSE IF r.rc = call.await THEN answered(r.c, p, w3)
                    ELSE Wait(r.c, NoWrite, call)} :
          \E t \in {[s EXCEPT !.out = Then(r.out, s.out)]} :
            TurnWith(call, t, n) /\ Hear(r.got)
    BY <2>2, Zenon DEF turn
  <2> DEFINE r == cycle(c, p, w1, w2)
             s == IF r.rc = FAILURE THEN unanswered(r.c, w3, FALSE)
                  ELSE IF r.rc = call.await THEN answered(r.c, p, w3)
                  ELSE Wait(r.c, NoWrite, call)
  <2>4. TurnWith(call, [s EXCEPT !.out = Then(r.out, s.out)], n) /\ Hear(r.got)
    BY <2>3, Zenon
  <2>5. TurnWith(call, Both(r, s), n) /\ Hear(r.got) BY <2>4, Zenon DEF Both
  <2> QED BY <2>5
<1> DEFINE r == cycle(c, p, w1, w2)
           s == IF r.rc = FAILURE THEN unanswered(r.c, w3, FALSE)
                ELSE IF r.rc = call.await THEN answered(r.c, p, w3)
                ELSE Wait(r.c, NoWrite, call)
<1>2. ~Idle BY DEF turn
<1>3. TurnWith(call, Both(r, s), n) /\ Hear(r.got) BY <1>1
<1>4. Cycles(r, c, p) BY CycleType DEF ClientTypes
<1> HIDE DEF r
<1>5. r.c \in Object /\ SavedOK(r.c) /\ r.rc \in {FAILURE, p.type}
  BY <1>4, SavedSame DEF Cycles, ClientTypes
<1>6. TurnOK(s) /\ TurnOutcome(r, s, p)
  <2>1. CASE r.rc = FAILURE
    <3>1. s = unanswered(r.c, w3, FALSE) BY <2>1
    <3> HIDE DEF s
    <3> QED BY <1>5, <2>1, <3>1, UnansweredCases DEF ClientTypes, TurnOutcome
  <2>2. CASE r.rc # FAILURE /\ r.rc = call.await
    <3>1. s = answered(r.c, p, w3) BY <2>2
    <3>2. p.type = call.await BY <1>5, <2>2
    <3> HIDE DEF s
    <3> QED BY <1>5, <2>2, <3>1, <3>2, AnsweredCases DEF ClientTypes, TurnOutcome
  <2>3. CASE r.rc # FAILURE /\ r.rc # call.await
    <3>1. s = Wait(r.c, NoWrite, call) BY <2>3
    <3> HIDE DEF s
    <3>2. TurnOK(s) BY <1>5, <3>1, NoWriteType, WaitType DEF ClientTypes
    <3> QED BY <3>1, <3>2 DEF TurnOutcome
  <2> QED BY <2>1, <2>2, <2>3
<1> HIDE DEF s
<1> DEFINE o == Then(r.out, s.out)
           t == Both(r, s)
<1>7. o.sent \in Seq(UpPacket) /\ o.failed \in Nat
  <2>1. r.out.sent \in Seq(UpPacket) /\ r.out.failed \in Nat
    BY <1>4, SendableType DEF Cycles
  <2>2. s.out.sent \in Seq(UpPacket) /\ s.out.failed \in Nat BY <1>6 DEF TurnOK
  <2>3. o.sent = r.out.sent \o s.out.sent /\ o.failed = r.out.failed + s.out.failed BY DEF Then
  <2> QED BY <2>1, <2>2, <2>3, ConcatProperties
<1>8. t = [c |-> s.c, out |-> o, call |-> s.call, rc |-> s.rc] BY <1>6 DEF TurnOK, Both
<1> HIDE DEF o, t
<1>9. t.c = s.c /\ t.out = o /\ t.call = s.call /\ t.rc = s.rc
      /\ t = [c |-> t.c, out |-> t.out, call |-> t.call, rc |-> t.rc]
  BY <1>8
<1>10. TurnOK(t) BY <1>6, <1>7, <1>9 DEF TurnOK
<1> QED BY <1>2, <1>3, <1>4, <1>6, <1>10 DEF t

\* The fault that a timer is when an answer could have come.
Missed == IF call.op # "yield" /\ Answerable THEN 1 ELSE 0

LEMMA TimerCases ==
  ASSUME ClientTypes, timer_over
  PROVE  ~Idle /\ \E s : /\ TurnOK(s) /\ UnansweredOutcome(s, c) /\ TurnWith(call, s, Missed)
<1>1. PICK w \in Fates : TurnWith(call, unanswered(c, w, TRUE), Missed)
  BY FatesOK DEF timer_over, Missed
<1> DEFINE s == unanswered(c, w, TRUE)
<1>2. TurnOK(s) /\ UnansweredOutcome(s, c) BY UnansweredCases DEF ClientTypes
<1>3. ~Idle BY DEF timer_over
<1> QED BY <1>1, <1>2, <1>3

-----------------------------------------------------------------------------
(* The client's actions keep the types. *)

LEMMA HearType ==
  ASSUME heard \in [InMsgs -> Nat], NEW p \in Input, NEW r, Cycles(r, c, p), Hear(r.got)
  PROVE  heard' \in [InMsgs -> Nat]
<1>1. CASE r.got = NoDelivery BY <1>1 DEF Hear, NothingHeard
<1>2. CASE r.got # NoDelivery
  <2>1. p.type = "PUBLISH" /\ r.got.msg = p.msg /\ r.got.times \in Nat BY <1>2 DEF Cycles
  <2>2. r.got.msg \in InMsgs BY <2>1, InputFields
  <2>3. heard' = [heard EXCEPT ![r.got.msg] = @ + r.got.times] BY <1>2 DEF Hear
  <2> QED BY <2>1, <2>2, <2>3
<1> QED BY <1>1, <1>2

\* What a turn of a call leaves behind, whatever it was.
LEMMA TurnClient ==
  ASSUME ClientTypes, ChannelTypes, NEW k \in Call, NEW s, TurnOK(s), NEW more \in Nat,
         TurnWith(k, s, more), link' = link, down' \in Seq(DownPacket),
         heard' \in [InMsgs -> Nat]
  PROVE  ClientTypes' /\ ChannelTypes'
<1>1. /\ c' \in Object /\ SavedOK(c') /\ Waiting(call')
      /\ ret'.call \in Call /\ ret'.rc \in Codes
      /\ up' \in Seq(UpPacket) /\ faults' \in 0..MaxFaults
      /\ link = "down" => up' = <<>>
  BY TurnTypes
<1>2. ClientTypes' BY <1>1 DEF ClientTypes
<1>3. ChannelTypes' BY <1>1 DEF ChannelTypes
<1> QED BY <1>2, <1>3

LEMMA ConnectTypes ==
  ASSUME ClientTypes, ChannelTypes, connect
  PROVE  ClientTypes' /\ ChannelTypes'
<1>1. PICK s : TurnOK(s) /\ Turn(ConnectCall, s) BY ConnectCases
<1>2. link' = link /\ down' = down /\ heard' = heard BY DEF connect, NothingHeard
<1>3. down' \in Seq(DownPacket) /\ heard' \in [InMsgs -> Nat] BY <1>2 DEF ClientTypes, ChannelTypes
<1> QED BY <1>1, <1>2, <1>3, ConnectCallType, TurnClient DEF Turn

LEMMA PublishTypes ==
  ASSUME ClientTypes, ChannelTypes, NEW qos \in Levels, NEW msg \in OutMsgs, publish(msg, qos)
  PROVE  ClientTypes' /\ ChannelTypes'
<1>1. PICK s : TurnOK(s) /\ Turn(PublishCall(qos, msg), s) BY PublishStarts
<1>2. PublishCall(qos, msg) \in Call BY StartsType DEF PublishCall
<1>3. link' = link /\ down' = down /\ heard' = heard BY DEF publish, NothingHeard
<1>4. down' \in Seq(DownPacket) /\ heard' \in [InMsgs -> Nat] BY <1>3 DEF ClientTypes, ChannelTypes
<1> QED BY <1>1, <1>2, <1>3, <1>4, TurnClient DEF Turn

LEMMA RequestTypes ==
  ASSUME ClientTypes, ChannelTypes,
         \/ \E topic \in Topics, qos \in Levels : subscribe(topic, qos)
         \/ \E topic \in Topics : unsubscribe(topic)
  PROVE  ClientTypes' /\ ChannelTypes'
<1>1. PICK k, s : Waiting(k) /\ TurnOK(s) /\ Turn(k, s)
  BY SubscribeStarts, UnsubscribeStarts
<1>2. link' = link /\ down' = down /\ heard' = heard
  BY DEF subscribe, unsubscribe, Request, NothingHeard
<1>3. down' \in Seq(DownPacket) /\ heard' \in [InMsgs -> Nat] BY <1>2 DEF ClientTypes, ChannelTypes
<1>4. k \in Call BY <1>1 DEF Waiting
<1> QED BY <1>1, <1>2, <1>3, <1>4, TurnClient DEF Turn

LEMMA RefusedTypes ==
  ASSUME ClientTypes, ChannelTypes, NEW op \in {"publish", "subscribe", "unsubscribe"}, Refused(op)
  PROVE  ClientTypes' /\ ChannelTypes'
<1>1. PICK s : TurnOK(s) /\ Turn(RefusedCall(op), s) BY RefusedCases
<1>2. RefusedCall(op) \in Call BY RefusedCases
<1>3. link' = link /\ down' = down /\ heard' = heard BY DEF Refused, NothingHeard
<1>4. down' \in Seq(DownPacket) /\ heard' \in [InMsgs -> Nat] BY <1>3 DEF ClientTypes, ChannelTypes
<1> QED BY <1>1, <1>2, <1>3, <1>4, TurnClient DEF Turn

LEMMA YieldTypes ==
  ASSUME ClientTypes, ChannelTypes, yield
  PROVE  ClientTypes' /\ ChannelTypes'
<1>1. PICK s : TurnOK(s) /\ Turn(NoCall, s) BY YieldCases
<1>2. link' = link /\ down' = down /\ heard' = heard BY DEF yield, NothingHeard
<1>3. down' \in Seq(DownPacket) /\ heard' \in [InMsgs -> Nat] BY <1>2 DEF ClientTypes, ChannelTypes
<1> QED BY <1>1, <1>2, <1>3, NoCallType, TurnClient DEF Turn

LEMMA DisconnectTypes ==
  ASSUME ClientTypes, ChannelTypes, disconnect
  PROVE  ClientTypes' /\ ChannelTypes'
<1>1. PICK s : TurnOK(s) /\ Turn(DisconnectCall, s) BY DisconnectCases
<1>2. DisconnectCall \in Call BY DisconnectCases
<1>3. link' = link /\ down' = down /\ heard' = heard BY DEF disconnect, NothingHeard
<1>4. down' \in Seq(DownPacket) /\ heard' \in [InMsgs -> Nat] BY <1>3 DEF ClientTypes, ChannelTypes
<1> QED BY <1>1, <1>2, <1>3, <1>4, TurnClient DEF Turn

\* Turns with a packet, with a part of one, and without one.
Turns == turn_packet \/ turn_cut \/ turn_rest \/ turn_empty

\* What is left of w, without some of its first packets, when a part of one
\* was read.
Thinned(v, w) ==
  \E k \in 0..Len(w) :
    /\ Len(v) = Len(w) - k
    /\ \A i \in 1..Len(v) : \/ v[i] = w[i + k] /\ (i > 1 \/ k > 0)
                            \/ i = 1 /\ v[1] = Rest

TakenAs(p, n) ==
  \/ n = 0 /\ down # <<>> /\ p = Head(down) /\ p.type # SHORT /\ down' = Tail(down)
  \/ down # <<>> /\ p = Rest /\ Thinned(down', down) /\ (n > 0 \/ Head(down).type = SHORT)
  \/ n = 0 /\ down = <<>> /\ p = [type |-> TIMEOUT] /\ down' = down

LEMMA SuffixSeq ==
  ASSUME NEW S, NEW s \in Seq(S), NEW n \in 0..Len(s)
  PROVE  /\ SubSeq(s, n + 1, Len(s)) \in Seq(S) /\ Len(SubSeq(s, n + 1, Len(s))) = Len(s) - n
         /\ \A i \in 1..(Len(s) - n) : SubSeq(s, n + 1, Len(s))[i] = s[i + n]
<1> DEFINE v == SubSeq(s, n + 1, Len(s))
<1>1. n \in Nat /\ Len(s) \in Nat /\ \A i \in 1..Len(s) : s[i] \in S OBVIOUS
<1>2. n + 1 \in Int /\ Len(s) \in Int /\ \A i \in (n + 1)..Len(s) : s[i] \in S BY <1>1
<1>3. /\ v \in Seq(S) /\ Len(v) = IF n + 1 <= Len(s) THEN Len(s) - (n + 1) + 1 ELSE 0
      /\ \A i \in 1..(Len(s) - (n + 1) + 1) : v[i] = s[(n + 1) + i - 1]
  BY <1>2, SubSeqProperties
<1> HIDE DEF v
<1>4. Len(s) - (n + 1) + 1 = Len(s) - n BY <1>1
<1>5. ASSUME NEW i \in 1..(Len(s) - n) PROVE v[i] = s[i + n]
  <2>1. (n + 1) + i - 1 = i + n BY <1>1
  <2>2. v[i] = s[(n + 1) + i - 1] BY <1>3, <1>4
  <2> QED BY <2>1, <2>2
<1>6. Len(v) = Len(s) - n BY <1>1, <1>3
<1> QED BY <1>3, <1>5, <1>6 DEF v

LEMMA ThinnedRest ==
  ASSUME NEW w \in Seq(DownPacket), NEW n \in 1..Len(w), NEW v \in Seq(DownPacket),
         Len(v) = Len(w) - n, \A i \in 1..Len(v) : v[i] = w[i + n]
  PROVE  Thinned(v, w) /\ <<Rest>> \o v \in Seq(DownPacket) /\ Thinned(<<Rest>> \o v, w)
<1>1. n \in Nat /\ Len(w) \in Nat /\ Len(v) \in Nat /\ n \in 0..Len(w) OBVIOUS
<1>2. Thinned(v, w)
  <2>1. \A i \in 1..Len(v) : v[i] = w[i + n] /\ n > 0 BY <1>1
  <2> QED BY <1>1, <2>1 DEF Thinned
<1> DEFINE r == Rest
           u == <<r>> \o v
           k == n - 1
<1>3. r \in DownPacket BY DEF Rest, DownPacket
<1> HIDE DEF r
<1>4. <<r>> \in Seq(DownPacket) /\ Len(<<r>>) = 1 /\ <<r>>[1] = r BY <1>3
<1>5. /\ u \in Seq(DownPacket) /\ Len(u) = 1 + Len(v)
      /\ \A i \in 1..(1 + Len(v)) : u[i] = IF i <= 1 THEN <<r>>[i] ELSE v[i - 1]
  BY <1>4, ConcatProperties
<1> HIDE DEF u
<1>6. k \in 0..Len(w) /\ Len(u) = Len(w) - k BY <1>1, <1>5
<1>7. ASSUME NEW i \in 1..Len(u)
      PROVE  (u[i] = w[i + k] /\ (i > 1 \/ k > 0)) \/ (i = 1 /\ u[1] = r)
  <2>1. CASE i = 1
    <3>1. 1 \in 1..(1 + Len(v)) /\ 1 <= 1 BY <1>1
    <3> QED BY <1>4, <1>5, <2>1, <3>1
  <2>2. CASE i # 1
    <3>1. i - 1 \in 1..Len(v) /\ i > 1 /\ (i - 1) + n = i + k /\ i \in 1..(1 + Len(v)) BY <1>1, <1>5, <2>2
    <3>2. u[i] = v[i - 1] BY <1>5, <3>1
    <3>3. v[i - 1] = w[(i - 1) + n] BY <3>1
    <3> QED BY <3>1, <3>2, <3>3
  <2> QED BY <2>1, <2>2
<1>8. Thinned(u, w)
  <2> HIDE DEF k
  <2> QED BY <1>6, <1>7 DEF Thinned, r
<1> QED BY <1>2, <1>5, <1>8 DEF u, r

LEMMA InputOfTurn ==
  ASSUME ChannelTypes, Turns
  PROVE  /\ link' = link /\ down' \in Seq(DownPacket)
         /\ \E p \in Input, n \in Nat : turn(p, n) /\ TakenAs(p, n)
<1>1. down \in Seq(DownPacket) BY DEF ChannelTypes
<1> DEFINE zero == 0
           one == 1
<1>2. zero \in Nat /\ one \in Nat /\ one > 0 OBVIOUS
<1>3. Rest \in Input BY DEF Rest, Input, DownPacket
<1>4. CASE turn_packet
  <2>1. /\ down # <<>> /\ Head(down).type # SHORT /\ down' = Tail(down)
        /\ turn(Head(down), zero)
    BY <1>4 DEF turn_packet
  <2>2. Head(down) \in Input /\ Tail(down) \in Seq(DownPacket)
    BY <1>1, <2>1, HeadTailProperties DEF Input
  <2>3. TakenAs(Head(down), zero) BY <2>1 DEF TakenAs
  <2>4. link' = link BY <2>1 DEF turn
  <2> HIDE DEF zero
  <2> QED BY <1>2, <2>1, <2>2, <2>3, <2>4
<1>5. CASE turn_cut
  <2>1. down # <<>> /\ down' = <<Rest>> \o Tail(down) /\ turn(Rest, one) BY <1>5 DEF turn_cut
  <2>2. /\ Tail(down) \in Seq(DownPacket) /\ Len(Tail(down)) = Len(down) - 1
        /\ \A i \in 1..Len(Tail(down)) : Tail(down)[i] = down[i + 1]
    BY <1>1, <2>1, HeadTailProperties
  <2>3. one \in 1..Len(down) BY <1>1, <2>1, EmptySeq
  <2>4. down' \in Seq(DownPacket) /\ Thinned(down', down) BY <1>1, <2>1, <2>2, <2>3, ThinnedRest
  <2>5. TakenAs(Rest, one) BY <1>2, <2>1, <2>4 DEF TakenAs
  <2>6. link' = link BY <2>1 DEF turn
  <2> HIDE DEF one
  <2> QED BY <1>2, <1>3, <2>1, <2>4, <2>5, <2>6
<1>6. CASE turn_rest
  <2>1. /\ down # <<>> /\ Head(down).type = SHORT /\ turn(Rest, zero)
        /\ \E n \in DOMAIN down : LET left == SubSeq(down, n + 1, Len(down))
                                  IN  down' = left \/ down' = <<Rest>> \o left
    BY <1>6 DEF turn_rest
  <2>2. PICK n \in DOMAIN down : LET left == SubSeq(down, n + 1, Len(down))
                                 IN  down' = left \/ down' = <<Rest>> \o left
    BY <2>1
  <2> DEFINE left == SubSeq(down, n + 1, Len(down))
  <2>3. n \in 1..Len(down) /\ n \in 0..Len(down) BY <1>1
  <2>4. /\ left \in Seq(DownPacket) /\ Len(left) = Len(down) - n
        /\ \A i \in 1..(Len(down) - n) : left[i] = down[i + n]
    BY <1>1, <2>3, SuffixSeq
  <2>5. down' = left \/ down' = <<Rest>> \o left BY <2>2
  <2> HIDE DEF left
  <2>6. down' \in Seq(DownPacket) /\ Thinned(down', down) BY <1>1, <2>3, <2>4, <2>5, ThinnedRest
  <2>7. TakenAs(Rest, zero) BY <2>1, <2>6 DEF TakenAs
  <2>8. link' = link BY <2>1 DEF turn
  <2> HIDE DEF zero
  <2> QED BY <1>2, <1>3, <2>1, <2>6, <2>7, <2>8
<1>7. CASE turn_empty
  <2>1. down = <<>> /\ down' = down /\ turn([type |-> TIMEOUT], zero) BY <1>7 DEF turn_empty
  <2>2. [type |-> TIMEOUT] \in Input BY DEF Input
  <2>3. TakenAs([type |-> TIMEOUT], zero) BY <2>1 DEF TakenAs
  <2>4. link' = link BY <2>1 DEF turn
  <2> HIDE DEF zero
  <2> QED BY <1>1, <1>2, <2>1, <2>2, <2>3, <2>4
<1> QED BY <1>4, <1>5, <1>6, <1>7 DEF Turns

LEMMA TurnsTypes ==
  ASSUME ClientTypes, ChannelTypes, Turns
  PROVE  ClientTypes' /\ ChannelTypes'
<1>1. PICK p \in Input, n \in Nat : turn(p, n) BY InputOfTurn
<1>2. PICK r, s : /\ Cycles(r, c, p) /\ TurnOK(Both(r, s)) /\ TurnWith(call, Both(r, s), n)
                  /\ Hear(r.got)
  BY <1>1, TurnCases
<1>3. heard' \in [InMsgs -> Nat] BY <1>2, HearType DEF ClientTypes
<1>4. link' = link /\ down' \in Seq(DownPacket) BY InputOfTurn
<1>5. call \in Call BY DEF ClientTypes, Waiting
<1> QED BY <1>2, <1>3, <1>4, <1>5, TurnClient

LEMMA TimerTypes ==
  ASSUME ClientTypes, ChannelTypes, timer_over
  PROVE  ClientTypes' /\ ChannelTypes'
<1> DEFINE more == Missed
<1>1. PICK s : TurnOK(s) /\ TurnWith(call, s, more) BY TimerCases
<1>2. link' = link /\ down' = down /\ heard' = heard BY DEF timer_over, NothingHeard
<1>3. down' \in Seq(DownPacket) /\ heard' \in [InMsgs -> Nat] BY <1>2 DEF ClientTypes, ChannelTypes
<1>4. call \in Call /\ more \in Nat BY DEF ClientTypes, Waiting, Missed
<1> HIDE DEF more
<1> QED BY <1>1, <1>2, <1>3, <1>4, TurnClient

\* The object's timers change nothing but themselves.
LEMMA TimersOnly ==
  ASSUME c \in Object, idle_over \/ ping_over
  PROVE  /\ c' \in Object /\ Core(c') = Core(c)
         /\ UNCHANGED <<call, ret, link, up, down, heard>>
BY DEF idle_over, ping_over, Object, Core

LEMMA ObjectTimerTypes ==
  ASSUME ClientTypes, ChannelTypes, idle_over \/ ping_over
  PROVE  ClientTypes' /\ ChannelTypes'
<1>1. /\ c' \in Object /\ Core(c') = Core(c)
      /\ UNCHANGED <<call, ret, link, up, down, heard>>
  BY TimersOnly DEF ClientTypes
<1>2. SavedOK(c') BY <1>1, SavedSame DEF ClientTypes
<1>3. faults' \in 0..MaxFaults
  BY APIAssumption DEF idle_over, ping_over, ClientTypes
<1> QED BY <1>1, <1>2, <1>3 DEF ClientTypes, ChannelTypes

-----------------------------------------------------------------------------
(* Sequences: what is cut off, taken out and sent again. *)

LEMMA FunctionSeq ==
  ASSUME NEW S, NEW n \in Nat, NEW f \in [1..n -> S]
  PROVE  f \in Seq(S) /\ Len(f) = n
OBVIOUS

LEMMA PrefixSeq ==
  ASSUME NEW S, NEW s \in Seq(S), NEW n \in 0..Len(s)
  PROVE  /\ SubSeq(s, 1, n) \in Seq(S) /\ Len(SubSeq(s, 1, n)) = n
         /\ \A i \in 1..n : SubSeq(s, 1, n)[i] = s[i]
<1>1. Len(s) \in Nat /\ \A i \in 1..Len(s) : s[i] \in S OBVIOUS
<1>2. n \in Int /\ \A i \in 1..n : s[i] \in S BY <1>1
<1>3. /\ SubSeq(s, 1, n) \in Seq(S)
      /\ Len(SubSeq(s, 1, n)) = IF 1 <= n THEN n - 1 + 1 ELSE 0
      /\ \A i \in 1..(n - 1 + 1) : SubSeq(s, 1, n)[i] = s[1 + i - 1]
  BY <1>2, SubSeqProperties
<1>4. n - 1 + 1 = n BY <1>2
<1>5. ASSUME NEW i \in 1..n PROVE SubSeq(s, 1, n)[i] = s[i]
  <2>1. 1 + i - 1 = i BY <1>2
  <2>2. SubSeq(s, 1, n)[i] = s[1 + i - 1] BY <1>3, <1>4
  <2> QED BY <2>1, <2>2
<1> QED BY <1>1, <1>2, <1>3, <1>5

LEMMA RemoveAtSeq ==
  ASSUME NEW S, NEW s \in Seq(S), NEW k \in 1..Len(s)
  PROVE  /\ RemoveAt(s, k) \in Seq(S)
         /\ Len(RemoveAt(s, k)) = Len(s) - 1
         /\ \A j \in 1..(Len(s) - 1) : RemoveAt(s, k)[j] = IF j < k THEN s[j] ELSE s[j + 1]
<1> DEFINE A == SubSeq(s, 1, k - 1)
           B == SubSeq(s, k + 1, Len(s))
<1>1. k \in Nat /\ Len(s) \in Nat /\ \A i \in 1..Len(s) : s[i] \in S OBVIOUS
<1>2. A \in Seq(S) /\ Len(A) = k - 1 /\ \A i \in 1..(k - 1) : A[i] = s[i]
  <2>1. k - 1 \in 0..Len(s) BY <1>1
  <2> QED BY <2>1, PrefixSeq
<1>3. B \in Seq(S) /\ Len(B) = Len(s) - k /\ \A i \in 1..(Len(s) - k) : B[i] = s[k + i]
  <2>1. k + 1 \in Int /\ Len(s) \in Int /\ \A i \in (k + 1)..Len(s) : s[i] \in S BY <1>1
  <2>2. /\ B \in Seq(S) /\ Len(B) = IF k + 1 <= Len(s) THEN Len(s) - (k + 1) + 1 ELSE 0
        /\ \A i \in 1..(Len(s) - (k + 1) + 1) : B[i] = s[(k + 1) + i - 1]
    BY <2>1, SubSeqProperties
  <2>3. Len(s) - (k + 1) + 1 = Len(s) - k BY <1>1
  <2>4. ASSUME NEW i \in 1..(Len(s) - k) PROVE B[i] = s[k + i]
    <3>1. (k + 1) + i - 1 = k + i BY <1>1
    <3>2. B[i] = s[(k + 1) + i - 1] BY <2>2, <2>3
    <3> QED BY <3>1, <3>2
  <2> QED BY <1>1, <2>2, <2>3, <2>4
<1> HIDE DEF A, B
<1>4. /\ A \o B \in Seq(S) /\ Len(A \o B) = Len(A) + Len(B)
      /\ \A j \in 1..(Len(A) + Len(B)) : (A \o B)[j] = IF j <= Len(A) THEN A[j] ELSE B[j - Len(A)]
  BY <1>2, <1>3, ConcatProperties
<1>5. Len(A) + Len(B) = Len(s) - 1 BY <1>1, <1>2, <1>3
<1>6. ASSUME NEW j \in 1..(Len(s) - 1)
      PROVE  (A \o B)[j] = IF j < k THEN s[j] ELSE s[j + 1]
  <2>1. (A \o B)[j] = IF j <= k - 1 THEN A[j] ELSE B[j - (k - 1)] BY <1>2, <1>4, <1>5
  <2>2. CASE j < k
    <3>1. j \in 1..(k - 1) BY <1>1, <2>2
    <3> QED BY <1>1, <1>2, <2>1, <2>2, <3>1
  <2>3. CASE ~(j < k)
    <3>1. j - (k - 1) \in 1..(Len(s) - k) BY <1>1, <2>3
    <3>2. B[j - (k - 1)] = s[k + (j - (k - 1))] BY <1>3, <3>1
    <3>3. k + (j - (k - 1)) = j + 1 /\ ~(j <= k - 1) BY <1>1, <2>3
    <3> QED BY <2>1, <2>3, <3>2, <3>3
  <2> QED BY <2>2, <2>3
<1>7. RemoveAt(s, k) = A \o B BY DEF RemoveAt, A, B
<1> QED BY <1>1, <1>4, <1>5, <1>6, <1>7

\* A link that is cut leaves a part of what was on its way, and the last
\* packet perhaps without its body.
LEMMA CutType ==
  ASSUME down \in Seq(DownPacket), Cut
  PROVE  /\ link' = "down" /\ up' = <<>> /\ down' \in Seq(DownPacket)
         /\ \A i \in 1..Len(down') :
              (i \in 1..Len(down) /\ down'[i] = down[i]) \/ down'[i] = Rest
<1> DEFINE t == Rest
<1>1. t \in DownPacket BY DEF DownPacket, Rest
<1>2. PICK n \in 0..Len(down) : down' \in {SubSeq(down, 1, n), Append(SubSeq(down, 1, n), t)}
  BY DEF Cut
<1>3. link' = "down" /\ up' = <<>> BY DEF Cut
<1> DEFINE d == SubSeq(down, 1, n)
<1>4. Len(down) \in Nat OBVIOUS
<1>5. d \in Seq(DownPacket) /\ Len(d) = n /\ \A i \in 1..n : d[i] = down[i] BY PrefixSeq
<1> HIDE DEF d, t
<1>6. CASE down' = d BY <1>3, <1>4, <1>5, <1>6
<1>7. CASE down' = Append(d, t)
  <2>1. /\ Append(d, t) \in Seq(DownPacket) /\ Len(Append(d, t)) = n + 1
        /\ \A i \in 1..n : Append(d, t)[i] = d[i]
        /\ Append(d, t)[n + 1] = t
    BY <1>1, <1>5, AppendProperties
  <2>2. ASSUME NEW i \in 1..Len(down')
        PROVE  (i \in 1..Len(down) /\ down'[i] = down[i]) \/ down'[i] = t
    <3>1. i \in 1..(n + 1) BY <1>7, <2>1
    <3>2. i \in 1..n \/ i = n + 1 BY <1>4, <3>1
    <3> QED BY <1>4, <1>5, <1>7, <2>1, <3>2
  <2> QED BY <1>3, <1>7, <2>1, <2>2 DEF t
<1> QED BY <1>2, <1>6, <1>7 DEF d, t

LEMMA AgainType ==
  ASSUME NEW out \in Seq(Kept)
  PROVE  /\ Again(out) \in Seq(DownPacket) /\ Len(Again(out)) = Len(out)
         /\ \A i \in 1..Len(out) : Again(out)[i].type \in {"PUBREL", "PUBLISH"}
<1> DEFINE At(i) == IF out[i].rel THEN [type |-> "PUBREL", id |-> out[i].id]
                    ELSE [type |-> "PUBLISH", id |-> out[i].id, qos |-> out[i].qos,
                          msg |-> out[i].msg, topic |-> Topic]
<1>1. Len(out) \in Nat /\ DOMAIN out = 1..Len(out) OBVIOUS
<1>2. Again(out) = [i \in 1..Len(out) |-> At(i)] BY <1>1 DEF Again
<1>3. ASSUME NEW i \in 1..Len(out)
      PROVE  At(i) \in DownPacket /\ At(i).type \in {"PUBREL", "PUBLISH"}
  <2>1. out[i] \in Kept OBVIOUS
  <2>2. /\ out[i].id \in Nat /\ out[i].qos \in Levels /\ out[i].msg \in InMsgs
        /\ out[i].rel => Qos2Used
    BY <2>1 DEF Kept
  <2>3. CASE out[i].rel
    <3>1. At(i) = [type |-> "PUBREL", id |-> out[i].id] BY <2>3
    <3> QED BY <2>2, <2>3, <3>1 DEF DownPacket, Acks
  <2>4. CASE ~out[i].rel
    <3>1. At(i) = [type |-> "PUBLISH", id |-> out[i].id, qos |-> out[i].qos,
                   msg |-> out[i].msg, topic |-> Topic]
      BY <2>4
    <3> QED BY <2>2, <3>1 DEF DownPacket
  <2> QED BY <2>3, <2>4
<1> HIDE DEF At
<1>4. Again(out) \in [1..Len(out) -> DownPacket] BY <1>2, <1>3
<1>5. Again(out) \in Seq(DownPacket) /\ Len(Again(out)) = Len(out)
  BY <1>1, <1>4, FunctionSeq
<1>6. \A i \in 1..Len(out) : Again(out)[i] = At(i) BY <1>2
<1> QED BY <1>3, <1>5, <1>6

LEMMA WithoutType ==
  ASSUME NEW out \in Seq(Kept), NEW id
  PROVE  Without(out, id) \in Seq(Kept)
<1> DEFINE S == {k \in DOMAIN out : out[k].id = id}
<1>1. Without(out, id) = IF S = {} THEN out ELSE RemoveAt(out, First(S)) BY DEF Without
<1>2. S \in SUBSET Nat /\ S \subseteq 1..Len(out) OBVIOUS
<1> HIDE DEF S
<1>3. CASE S # {}
  <2>1. First(S) \in 1..Len(out) BY <1>2, <1>3, FirstIn
  <2> QED BY <1>1, <1>3, <2>1, RemoveAtSeq
<1> QED BY <1>1, <1>3

\* One more id than messages: one is free.
LEMMA FreeIdType ==
  ASSUME NEW out \in Seq(Kept)
  PROVE  /\ FreeId(out) \in Nat \ {0}
         /\ \A k \in DOMAIN out : out[k].id # FreeId(out)
<1> DEFINE n == Len(out)
           S == 1..(n + 1)
           T == 1..n
<1>1. n \in Nat /\ DOMAIN out = T /\ \A i \in T : out[i] \in Kept OBVIOUS
<1>2. \E i \in S : \A k \in DOMAIN out : out[k].id # i
  <2> SUFFICES ASSUME \A i \in S : \E k \in T : out[k].id = i PROVE FALSE BY <1>1
  <2> DEFINE f == [i \in S |-> CHOOSE k \in T : out[k].id = i]
  <2>1. \A i \in S : f[i] \in T /\ out[f[i]].id = i OBVIOUS
  <2>2. f \in [S -> T] BY <2>1
  <2>3. /\ IsFiniteSet(S) /\ Cardinality(S) = n + 1
        /\ IsFiniteSet(T) /\ Cardinality(T) = n
    <3>1. 1 \in Int /\ n \in Int /\ n + 1 \in Int BY <1>1
    <3>2. IsFiniteSet(S) /\ Cardinality(S) = IF 1 > n + 1 THEN 0 ELSE n + 1 - 1 + 1
      BY <3>1, FS_Interval
    <3>3. IsFiniteSet(T) /\ Cardinality(T) = IF 1 > n THEN 0 ELSE n - 1 + 1
      BY <3>1, FS_Interval
    <3> HIDE DEF n, S, T
    <3> QED BY <1>1, <3>2, <3>3
  <2>4. Cardinality(T) < Cardinality(S) BY <1>1, <2>3
  <2> HIDE DEF f, S, T
  <2>5. PICK x, y \in S : x # y /\ f[x] = f[y] BY <2>2, <2>3, <2>4, FS_PigeonHole
  <2> QED BY <2>1, <2>5
<1> DEFINE P(i) == \A k \in DOMAIN out : out[k].id # i
<1>3. FreeId(out) = CHOOSE i \in S : P(i) BY DEF FreeId
<1>4. (CHOOSE i \in S : P(i)) \in S /\ P(CHOOSE i \in S : P(i))
  <2>1. \E i \in S : P(i) BY <1>2
  <2> HIDE DEF P, S
  <2> QED BY <2>1
<1> QED BY <1>1, <1>3, <1>4

-----------------------------------------------------------------------------
(* The broker's actions keep the types. *)

LEMMA UpFields ==
  ASSUME NEW p \in UpPacket
  PROVE  /\ p.type \in Acks \cup {"CONNECT", "PUBLISH", "SUBSCRIBE", "UNSUBSCRIBE", "PINGREQ", "DISCONNECT"}
         /\ p.type = "CONNECT" => p.clean = CleanSession
         /\ p.type = "PUBLISH" => p.id \in Ids /\ p.qos \in Levels /\ p.msg \in OutMsgs
         /\ p.type \in {"PUBACK", "PUBREC", "PUBREL", "PUBCOMP"} => p.id \in Nat
         /\ p.type \in {"PUBREC", "PUBREL", "PUBCOMP"} => Qos2Used
         /\ p.type = "SUBSCRIBE" => p.id \in Ids /\ p.topic \in Topics /\ p.qos \in Levels
         /\ p.type = "UNSUBSCRIBE" => p.id \in Ids /\ p.topic \in Topics
BY DEF UpPacket, Acks

LEMMA HeadUp ==
  ASSUME up \in Seq(UpPacket), up # <<>>
  PROVE  Head(up) \in UpPacket /\ Tail(up) \in Seq(UpPacket)
BY HeadTailProperties

LEMMA IdsNat == Ids \subseteq Nat
BY ClientAssumption DEF Ids

\* What is appended to the packets on their way down.
LEMMA AnswersType ==
  ASSUME down \in Seq(DownPacket), NEW s \in Seq(DownPacket), Answers(s)
  PROVE  down' \in Seq(DownPacket)
BY ConcatProperties DEF Answers

\* A broker action that leaves the client and the link alone.
LEMMA BrokerKeeps ==
  ASSUME ClientTypes, ChannelTypes, up' \in Seq(UpPacket), down' \in Seq(DownPacket),
         link' = link, link = "down" => up' = <<>>,
         UNCHANGED <<c, call, ret, heard, faults>>
  PROVE  ClientTypes' /\ ChannelTypes'
BY DEF ClientTypes, ChannelTypes

LEMMA BrokerConnectTypes ==
  ASSUME Types, Broker_connect
  PROVE  Types'
<1>1. up \in Seq(UpPacket) /\ up # <<>> /\ down \in Seq(DownPacket) /\ b \in BrokerObject
  BY DEF Types, ClientTypes, ChannelTypes, BrokerTypes, Broker_connect, Reads
<1>2. Head(up) \in UpPacket /\ Tail(up) \in Seq(UpPacket) BY <1>1, HeadUp
<1>3. b' \in BrokerObject
  <2>1. [t \in Topics |-> NotSubscribed] \in [Topics -> Levels \cup {NotSubscribed}] OBVIOUS
  <2>2. {} \in SUBSET [id : Ids, msg : OutMsgs] /\ <<>> \in Seq(Kept) OBVIOUS
  <2> QED BY <1>1, <2>1, <2>2 DEF Broker_connect, BrokerObject
<1>4. Again(b'.out) \in Seq(DownPacket) BY <1>3, AgainType DEF BrokerObject
<1> DEFINE a == [type |-> "CONNACK", rc |-> SUCCESS]
<1>5. <<a>> \in Seq(DownPacket)
  <2>1. a \in DownPacket BY DEF DownPacket
  <2> QED BY <2>1
<1>6. Answers(<<a>> \o Again(b'.out)) BY DEF Broker_connect
<1> HIDE DEF a
<1>7. <<a>> \o Again(b'.out) \in Seq(DownPacket) BY <1>4, <1>5, ConcatProperties
<1>8. down' \in Seq(DownPacket) BY <1>1, <1>6, <1>7, AnswersType
<1>9. up' = Tail(up) /\ link = "up" /\ link' = link
      /\ UNCHANGED <<c, call, ret, heard, faults, got, acked, fresh, promised, breaks, calls>>
  BY DEF Broker_connect, Reads, BrokerOnly
<1>10. ClientTypes' /\ ChannelTypes' BY <1>2, <1>8, <1>9, BrokerKeeps DEF Types
<1> QED BY <1>3, <1>9, <1>10 DEF Types, BrokerTypes

LEMMA BrokerRefuseTypes ==
  ASSUME Types, Broker_refuse
  PROVE  Types'
<1> DEFINE a == [type |-> "CONNACK", rc |-> "refused"]
<1>1. a \in DownPacket BY DEF DownPacket
<1>2. Answers(<<a>>) BY DEF Broker_refuse
<1> HIDE DEF a
<1>3. <<a>> \in Seq(DownPacket) BY <1>1
<1>4. down' \in Seq(DownPacket) BY <1>2, <1>3, AnswersType DEF Types, ChannelTypes
<1>5. link' = "down" /\ up' = <<>> /\ breaks' \in 0..MaxBreaks
      /\ UNCHANGED <<c, call, ret, heard, faults, b, got, acked, fresh, promised, calls>>
  BY SystemAssumption DEF Broker_refuse, Types, BrokerTypes
<1>6. up' \in Seq(UpPacket) BY <1>5
<1>7. ClientTypes' BY <1>5, <1>6 DEF Types, ClientTypes
<1>8. ChannelTypes' BY <1>4, <1>5 DEF ChannelTypes
<1> QED BY <1>5, <1>7, <1>8 DEF Types, BrokerTypes

\* The link is lost: Break and Broker_close.
LEMMA LostTypes ==
  ASSUME Types, Cut, b' = [b EXCEPT !.on = FALSE, !.suback = NoSuback],
         breaks' \in 0..MaxBreaks,
         UNCHANGED <<c, call, ret, heard, faults, got, acked, fresh, promised, calls>>
  PROVE  Types'
<1>1. link' = "down" /\ up' = <<>> /\ down' \in Seq(DownPacket)
  BY CutType DEF Types, ChannelTypes
<1>2. up' \in Seq(UpPacket) BY <1>1
<1>3. b' \in BrokerObject BY DEF Types, BrokerTypes, BrokerObject
<1>4. ClientTypes' BY <1>2 DEF Types, ClientTypes
<1>5. ChannelTypes' BY <1>1 DEF ChannelTypes
<1> QED BY <1>3, <1>4, <1>5 DEF Types, BrokerTypes

LEMMA BrokerPublishTypes ==
  ASSUME Types, Broker_publish
  PROVE  Types'
<1>1. up \in Seq(UpPacket) /\ up # <<>> /\ down \in Seq(DownPacket) /\ b \in BrokerObject
      /\ Head(up).type = "PUBLISH" /\ up' = Tail(up) /\ link = "up" /\ link' = link
      /\ UNCHANGED <<c, call, ret, heard, faults, breaks, calls, fresh, promised>>
  BY DEF Types, ClientTypes, ChannelTypes, BrokerTypes, Broker_publish, Reads, BrokerOnly
<1> DEFINE p == Head(up)
           h == [id |-> p.id, msg |-> p.msg]
           new == p.qos # 2 \/ \A x \in b.held : x.id # p.id
<1>2. p \in UpPacket /\ Tail(up) \in Seq(UpPacket) BY <1>1, HeadUp
<1>3. p.id \in Ids /\ p.qos \in Levels /\ p.msg \in OutMsgs BY <1>1, <1>2, UpFields
<1>4. /\ got' = IF new THEN [got EXCEPT ![p.msg] = @ + 1] ELSE got
      /\ b' = IF p.qos = 2 /\ new THEN [b EXCEPT !.held = @ \cup {h}] ELSE b
      /\ acked' = IF p.qos = 1 THEN acked \cup {p.msg} ELSE acked
      /\ Answers(CASE p.qos = 0 -> <<>>
                   [] p.qos = 1 -> <<[type |-> "PUBACK", id |-> p.id]>>
                   [] p.qos = 2 -> <<[type |-> "PUBREC", id |-> p.id]>>)
  BY DEF Broker_publish
<1> HIDE DEF p, new
<1>5. h \in [id : Ids, msg : OutMsgs] BY <1>3
<1>6. b' \in BrokerObject
  <2>1. b.held \cup {h} \in SUBSET [id : Ids, msg : OutMsgs] BY <1>1, <1>5 DEF BrokerObject
  <2> HIDE DEF h
  <2> QED BY <1>1, <1>4, <2>1 DEF BrokerObject
<1>7. got' \in [OutMsgs -> Nat]
  <2>1. got \in [OutMsgs -> Nat] BY DEF Types, BrokerTypes
  <2> QED BY <1>3, <1>4, <2>1
<1>8. acked' \subseteq OutMsgs BY <1>3, <1>4 DEF Types, BrokerTypes
<1>9. down' \in Seq(DownPacket)
  <2>1. p.id \in Nat BY <1>3, IdsNat
  <2>2. /\ [type |-> "PUBACK", id |-> p.id] \in DownPacket
        /\ Qos2Used => [type |-> "PUBREC", id |-> p.id] \in DownPacket
    BY <2>1 DEF DownPacket, Acks
  <2>3. /\ <<>> \in Seq(DownPacket) /\ <<[type |-> "PUBACK", id |-> p.id]>> \in Seq(DownPacket)
        /\ Qos2Used => <<[type |-> "PUBREC", id |-> p.id]>> \in Seq(DownPacket)
    BY <2>2
  <2>4. p.qos = 0 \/ p.qos = 1 \/ (p.qos = 2 /\ Qos2Used) BY <1>3 DEF Levels
  <2> DEFINE a == CASE p.qos = 0 -> <<>>
                    [] p.qos = 1 -> <<[type |-> "PUBACK", id |-> p.id]>>
                    [] p.qos = 2 -> <<[type |-> "PUBREC", id |-> p.id]>>
  <2>5. a \in Seq(DownPacket) BY <2>3, <2>4
  <2>6. Answers(a) BY <1>4
  <2> HIDE DEF a
  <2> QED BY <1>1, <2>5, <2>6, AnswersType
<1>10. ClientTypes' /\ ChannelTypes' BY <1>1, <1>2, <1>9, BrokerKeeps DEF Types
<1>11. BrokerTypes' BY <1>1, <1>6, <1>7, <1>8 DEF Types, BrokerTypes
<1> QED BY <1>10, <1>11 DEF Types

LEMMA BrokerPubrelTypes ==
  ASSUME Types, Broker_pubrel
  PROVE  Types'
<1>1. up \in Seq(UpPacket) /\ up # <<>> /\ down \in Seq(DownPacket) /\ b \in BrokerObject
      /\ Head(up).type = "PUBREL" /\ up' = Tail(up) /\ link = "up" /\ link' = link
      /\ UNCHANGED <<c, call, ret, heard, faults, breaks, calls, fresh, promised, got>>
  BY DEF Types, ClientTypes, ChannelTypes, BrokerTypes, Broker_pubrel, Reads, BrokerOnly
<1> DEFINE p == Head(up)
           these == {h \in b.held : h.id = p.id}
           a == [type |-> "PUBCOMP", id |-> p.id]
<1>2. p \in UpPacket /\ Tail(up) \in Seq(UpPacket) BY <1>1, HeadUp
<1>3. p.id \in Nat /\ Qos2Used BY <1>1, <1>2, UpFields
<1>4. /\ b' = [b EXCEPT !.held = @ \ these]
      /\ acked' = acked \cup {h.msg : h \in these}
      /\ Answers(<<a>>)
  BY DEF Broker_pubrel
<1>5. these \subseteq [id : Ids, msg : OutMsgs] BY <1>1 DEF BrokerObject
<1>6. a \in DownPacket BY <1>3 DEF DownPacket, Acks
<1> HIDE DEF a, these
<1>7. b' \in BrokerObject
  <2>1. b.held \ these \in SUBSET [id : Ids, msg : OutMsgs] BY <1>1 DEF BrokerObject
  <2> QED BY <1>1, <1>4, <2>1 DEF BrokerObject
<1>8. acked' \subseteq OutMsgs BY <1>4, <1>5 DEF Types, BrokerTypes
<1>9. down' \in Seq(DownPacket)
  <2>1. <<a>> \in Seq(DownPacket) BY <1>6
  <2> QED BY <1>1, <1>4, <2>1, AnswersType
<1>10. ClientTypes' /\ ChannelTypes' BY <1>1, <1>2, <1>9, BrokerKeeps DEF Types
<1>11. BrokerTypes' BY <1>1, <1>7, <1>8 DEF Types, BrokerTypes
<1> QED BY <1>10, <1>11 DEF Types

\* The release of an entry.
LEMMA ReleaseType ==
  ASSUME Qos2Used, NEW out \in Seq(Kept), NEW id
  PROVE  [i \in DOMAIN out |-> IF out[i].id = id THEN [out[i] EXCEPT !.rel = TRUE] ELSE out[i]]
           \in Seq(Kept)
<1> DEFINE At(i) == IF out[i].id = id THEN [out[i] EXCEPT !.rel = TRUE] ELSE out[i]
<1>1. Len(out) \in Nat /\ DOMAIN out = 1..Len(out) OBVIOUS
<1>2. ASSUME NEW i \in 1..Len(out) PROVE At(i) \in Kept
  <2>1. out[i] \in Kept OBVIOUS
  <2> QED BY <2>1 DEF Kept
<1> HIDE DEF At
<1>3. [i \in DOMAIN out |-> At(i)] \in [1..Len(out) -> Kept] BY <1>1, <1>2
<1>4. [i \in DOMAIN out |-> At(i)] \in Seq(Kept) BY <1>1, <1>3, FunctionSeq
<1> QED BY <1>4 DEF At

LEMMA BrokerAckTypes ==
  ASSUME Types, Broker_ack
  PROVE  Types'
<1>1. up \in Seq(UpPacket) /\ up # <<>> /\ down \in Seq(DownPacket) /\ b \in BrokerObject
      /\ up' = Tail(up) /\ link = "up" /\ link' = link
      /\ UNCHANGED <<c, call, ret, heard, faults, breaks, calls, fresh, promised, got, acked>>
  BY DEF Types, ClientTypes, ChannelTypes, BrokerTypes, Broker_ack, BrokerOnly
<1> DEFINE p == Head(up)
           a == [type |-> "PUBREL", id |-> p.id]
           Released == [i \in DOMAIN b.out |->
                          IF b.out[i].id = p.id THEN [b.out[i] EXCEPT !.rel = TRUE] ELSE b.out[i]]
<1>2. p \in UpPacket /\ Tail(up) \in Seq(UpPacket) BY <1>1, HeadUp
<1>3. \/ p.type \in {"PUBACK", "PUBCOMP"} /\ b' = [b EXCEPT !.out = Without(b.out, p.id)] /\ down' = down
      \/ p.type = "PUBREC" /\ b' = [b EXCEPT !.out = Released] /\ Answers(<<a>>)
  BY DEF Broker_ack
<1>4. Without(b.out, p.id) \in Seq(Kept) /\ (p.type = "PUBREC" => Released \in Seq(Kept))
  BY <1>1, <1>2, UpFields, WithoutType, ReleaseType DEF BrokerObject
<1> HIDE DEF Released
<1>5. b' \in BrokerObject BY <1>1, <1>3, <1>4 DEF BrokerObject
<1>6. down' \in Seq(DownPacket)
  <2>1. CASE down' = down BY <1>1, <2>1
  <2>2. CASE p.type = "PUBREC" /\ Answers(<<a>>)
    <3>1. p.id \in Nat /\ Qos2Used BY <1>2, <2>2, UpFields
    <3>2. a \in DownPacket BY <3>1 DEF DownPacket, Acks
    <3> HIDE DEF a
    <3>3. <<a>> \in Seq(DownPacket) BY <3>2
    <3> QED BY <1>1, <2>2, <3>3, AnswersType
  <2> QED BY <1>3, <2>1, <2>2
<1>7. ClientTypes' /\ ChannelTypes' BY <1>1, <1>2, <1>6, BrokerKeeps DEF Types
<1>8. BrokerTypes' BY <1>1, <1>5 DEF Types, BrokerTypes
<1> QED BY <1>7, <1>8 DEF Types

LEMMA BrokerSubscribeTypes ==
  ASSUME Types, Broker_subscribe
  PROVE  Types'
<1>1. up \in Seq(UpPacket) /\ up # <<>> /\ down \in Seq(DownPacket) /\ b \in BrokerObject
      /\ Head(up).type = "SUBSCRIBE"
      /\ up' = Tail(up) /\ link = "up" /\ link' = link /\ down' = down
      /\ UNCHANGED <<c, call, ret, heard, faults, breaks, calls, fresh, promised, got, acked>>
  BY DEF Types, ClientTypes, ChannelTypes, BrokerTypes, Broker_subscribe, BrokerOnly, Reads
<1> DEFINE p == Head(up)
           subs1 == [b.subs EXCEPT ![p.topic] = p.qos]
           Sub(q) == [type |-> "SUBACK", id |-> p.id, qos |-> q]
<1>2. p \in UpPacket /\ Tail(up) \in Seq(UpPacket) BY <1>1, HeadUp
<1>3. p.id \in Ids /\ p.topic \in Topics /\ p.qos \in Levels BY <1>1, <1>2, UpFields
<1>4. b' \in {[b EXCEPT !.subs = subs1, !.suback = Sub(p.qos)], [b EXCEPT !.suback = Sub(128)]}
  BY <1>1 DEF Broker_subscribe, BrokerObject
<1>5. Sub(p.qos) \in Suback /\ Sub(128) \in Suback
  <2>1. p.id \in Nat BY <1>3, IdsNat
  <2> QED BY <1>3, <2>1 DEF Suback
<1>6. subs1 \in [Topics -> Levels \cup {NotSubscribed}]
  <2>1. b.subs \in [Topics -> Levels \cup {NotSubscribed}] BY <1>1 DEF BrokerObject
  <2> QED BY <1>3, <2>1
<1> HIDE DEF subs1, Sub
<1>7. b' \in BrokerObject BY <1>1, <1>4, <1>5, <1>6 DEF BrokerObject
<1>8. ClientTypes' /\ ChannelTypes' BY <1>1, <1>2, BrokerKeeps DEF Types
<1>9. BrokerTypes' BY <1>1, <1>7 DEF Types, BrokerTypes
<1> QED BY <1>8, <1>9 DEF Types

LEMMA BrokerSubackTypes ==
  ASSUME Types, Broker_suback
  PROVE  Types'
<1>1. down \in Seq(DownPacket) /\ b \in BrokerObject /\ b.suback # NoSuback
      /\ Answers(<<b.suback>>) /\ b' = [b EXCEPT !.suback = NoSuback]
      /\ UNCHANGED <<up, link, c, call, ret, heard, faults, breaks, calls, fresh, promised, got, acked>>
  BY DEF Types, ChannelTypes, BrokerTypes, Broker_suback, BrokerOnly
<1>2. b.suback \in Suback /\ b' \in BrokerObject BY <1>1 DEF BrokerObject
<1>3. b.suback \in DownPacket BY <1>2 DEF Suback, DownPacket
<1>4. <<b.suback>> \in Seq(DownPacket) BY <1>3
<1>5. down' \in Seq(DownPacket) BY <1>1, <1>4, AnswersType
<1>6. ClientTypes' /\ ChannelTypes'
  BY <1>1, <1>5, BrokerKeeps DEF Types, ClientTypes, ChannelTypes
<1>7. BrokerTypes' BY <1>1, <1>2 DEF Types, BrokerTypes
<1> QED BY <1>6, <1>7 DEF Types

LEMMA BrokerUnsubscribeTypes ==
  ASSUME Types, Broker_unsubscribe
  PROVE  Types'
<1>1. up \in Seq(UpPacket) /\ up # <<>> /\ down \in Seq(DownPacket) /\ b \in BrokerObject
      /\ Head(up).type = "UNSUBSCRIBE"
      /\ up' = Tail(up) /\ link = "up" /\ link' = link
      /\ UNCHANGED <<c, call, ret, heard, faults, breaks, calls, fresh, promised, got, acked>>
  BY DEF Types, ClientTypes, ChannelTypes, BrokerTypes, Broker_unsubscribe, BrokerOnly, Reads
<1> DEFINE p == Head(up)
           subs1 == [b.subs EXCEPT ![p.topic] = NotSubscribed]
           a == [type |-> "UNSUBACK", id |-> p.id]
<1>2. p \in UpPacket /\ Tail(up) \in Seq(UpPacket) BY <1>1, HeadUp
<1>3. p.id \in Nat /\ p.topic \in Topics BY <1>1, <1>2, UpFields, IdsNat
<1>4. b' = [b EXCEPT !.subs = subs1] /\ Answers(<<a>>)
  BY <1>1 DEF Broker_unsubscribe, BrokerObject
<1>5. subs1 \in [Topics -> Levels \cup {NotSubscribed}]
  <2>1. b.subs \in [Topics -> Levels \cup {NotSubscribed}] BY <1>1 DEF BrokerObject
  <2> QED BY <1>3, <2>1
<1>6. a \in DownPacket BY <1>3 DEF DownPacket
<1> HIDE DEF subs1, a
<1>7. b' \in BrokerObject BY <1>1, <1>4, <1>5 DEF BrokerObject
<1>8. <<a>> \in Seq(DownPacket) BY <1>6
<1>9. down' \in Seq(DownPacket) BY <1>1, <1>4, <1>8, AnswersType
<1>10. ClientTypes' /\ ChannelTypes' BY <1>1, <1>2, <1>9, BrokerKeeps DEF Types
<1>11. BrokerTypes' BY <1>1, <1>7 DEF Types, BrokerTypes
<1> QED BY <1>10, <1>11 DEF Types

LEMMA BrokerPingTypes ==
  ASSUME Types, Broker_ping
  PROVE  Types'
<1>1. up \in Seq(UpPacket) /\ up # <<>> /\ down \in Seq(DownPacket)
      /\ up' = Tail(up) /\ link = "up" /\ link' = link
      /\ UNCHANGED <<c, call, ret, heard, faults, breaks, calls, fresh, promised, got, acked, b>>
  BY DEF Types, ClientTypes, ChannelTypes, Broker_ping, BrokerOnly, Reads
<1> DEFINE a == [type |-> "PINGRESP"]
<1>2. a \in DownPacket /\ Answers(<<a>>) BY DEF DownPacket, Broker_ping
<1> HIDE DEF a
<1>3. <<a>> \in Seq(DownPacket) BY <1>2
<1>4. down' \in Seq(DownPacket) BY <1>1, <1>2, <1>3, AnswersType
<1>5. Tail(up) \in Seq(UpPacket) BY <1>1, HeadUp
<1>6. ClientTypes' /\ ChannelTypes' BY <1>1, <1>4, <1>5, BrokerKeeps DEF Types
<1> QED BY <1>1, <1>6 DEF Types, BrokerTypes

LEMMA BrokerForwardTypes ==
  ASSUME Types, Broker_forward
  PROVE  Types'
<1>1. PICK m \in InMsgs \cap fresh, q \in InQoSs :
        LET qos == IF b.subs[Topic] < q THEN b.subs[Topic] ELSE q
            p   == [type |-> "PUBLISH", id |-> FreeId(b.out), qos |-> qos, msg |-> m,
                    topic |-> Topic]
        IN  /\ b.subs[Topic] # NotSubscribed
            /\ fresh' = fresh \ {m}
            /\ b' = IF qos = 0 THEN b
                    ELSE [b EXCEPT !.out = Append(@, [id |-> p.id, qos |-> qos, msg |-> m,
                                                      rel |-> FALSE])]
            /\ down' = IF b.on THEN Append(down, p) ELSE down
            /\ UNCHANGED <<c, call, ret, heard, faults, breaks, calls, promised,
                           up, link, got, acked>>
  BY DEF Broker_forward
<1>2. down \in Seq(DownPacket) /\ b \in BrokerObject /\ b.out \in Seq(Kept) /\ b.on \in BOOLEAN
  BY DEF Types, ChannelTypes, BrokerTypes, BrokerObject
<1> DEFINE qos == IF b.subs[Topic] < q THEN b.subs[Topic] ELSE q
           p == [type |-> "PUBLISH", id |-> FreeId(b.out), qos |-> qos, msg |-> m, topic |-> Topic]
           e == [id |-> FreeId(b.out), qos |-> qos, msg |-> m, rel |-> FALSE]
<1>3. qos \in Levels
  <2>1. b.subs[Topic] \in Levels BY <1>1, <1>2, SystemAssumption DEF BrokerObject
  <2>2. q \in 0..2 BY SystemAssumption
  <2> QED BY <2>1, <2>2 DEF Levels
<1>4. FreeId(b.out) \in Nat \ {0} BY <1>2, FreeIdType
<1>5. /\ b' = IF qos = 0 THEN b ELSE [b EXCEPT !.out = Append(b.out, e)]
      /\ down' = IF b.on THEN Append(down, p) ELSE down
  BY <1>1
<1> HIDE DEF qos
<1>6. p \in DownPacket /\ (qos # 0 => e \in Kept)
  <2>1. p \in DownPacket BY <1>3, <1>4 DEF DownPacket
  <2>2. FALSE \in (IF Qos2Used THEN BOOLEAN ELSE {FALSE}) OBVIOUS
  <2> QED BY <1>3, <1>4, <2>1, <2>2 DEF Kept
<1> HIDE DEF p, e
<1>7. b' \in BrokerObject
  <2>1. qos # 0 => Append(b.out, e) \in Seq(Kept) BY <1>2, <1>6, AppendProperties
  <2> QED BY <1>2, <1>5, <2>1 DEF BrokerObject
<1>8. down' \in Seq(DownPacket)
  <2>1. Append(down, p) \in Seq(DownPacket) BY <1>2, <1>6, AppendProperties
  <2> QED BY <1>2, <1>5, <2>1
<1>9. up' = up /\ link' = link /\ UNCHANGED <<c, call, ret, heard, faults, breaks, calls, promised, got, acked>>
      /\ fresh' \subseteq fresh
  BY <1>1
<1>10. ClientTypes' /\ ChannelTypes'
  BY <1>8, <1>9, BrokerKeeps DEF Types, ClientTypes, ChannelTypes
<1> QED BY <1>7, <1>9, <1>10 DEF Types, BrokerTypes

-----------------------------------------------------------------------------
(* Every step keeps the types. *)

LEMMA AppTypes ==
  ASSUME Types, App_connect \/ App_publish \/ App_call \/ App_yield \/ Client
  PROVE  Types'
<1>1. ClientTypes /\ ChannelTypes BY DEF Types
<1>2. UNCHANGED <<b, got, acked, breaks>>
  BY DEF App_connect, App_publish, App_call, App_yield, Client, Within, Others
<1>3. ASSUME ClientTypes' /\ ChannelTypes', fresh' \subseteq fresh, promised' \subseteq OutMsgs,
             calls' \in 0..MaxCalls
      PROVE  Types'
  BY <1>2, <1>3 DEF Types, BrokerTypes
<1>4. fresh' = fresh /\ promised' = promised /\ calls' = calls
        => fresh' \subseteq fresh /\ promised' \subseteq OutMsgs /\ calls' \in 0..MaxCalls
  BY DEF Types, BrokerTypes
<1>5. CASE App_connect
  <2>1. connect /\ fresh' = fresh /\ promised' = promised /\ calls' = calls BY <1>5 DEF App_connect
  <2>2. ClientTypes' /\ ChannelTypes' BY <1>1, <2>1, ConnectTypes
  <2> QED BY <1>3, <1>4, <2>1, <2>2
<1>6. CASE App_publish
  <2>1. PICK m \in OutMsgs \cap fresh, q \in QoSs :
          /\ publish(m, q) /\ fresh' = fresh \ {m} /\ calls' = calls
          /\ promised' = IF q = 0 THEN promised ELSE promised \cup {m}
    BY <1>6 DEF App_publish
  <2>2. q \in Levels BY LevelsType
  <2>3. ClientTypes' /\ ChannelTypes' BY <1>1, <2>1, <2>2, PublishTypes
  <2>4. fresh' \subseteq fresh /\ promised' \subseteq OutMsgs /\ calls' \in 0..MaxCalls
    BY <2>1 DEF Types, BrokerTypes
  <2> QED BY <1>3, <2>3, <2>4
<1>7. CASE App_call
  <2>1. calls < MaxCalls /\ calls' = calls + 1 /\ fresh' = fresh /\ promised' = promised
    BY <1>7 DEF App_call
  <2>2. fresh' \subseteq fresh /\ promised' \subseteq OutMsgs /\ calls' \in 0..MaxCalls
    BY <2>1, SystemAssumption DEF Types, BrokerTypes
  <2>3. \/ \E t \in Topics, q \in Levels : subscribe(t, q)
        \/ \E t \in Topics : unsubscribe(t)
        \/ disconnect
        \/ \E op \in {"publish", "subscribe", "unsubscribe"} : Refused(op)
    BY <1>7, LevelsType DEF App_call
  <2>4. ClientTypes' /\ ChannelTypes'
    BY <1>1, <2>3, RequestTypes, DisconnectTypes, RefusedTypes
  <2> QED BY <1>3, <2>2, <2>4
<1>8. CASE App_yield
  <2>1. yield /\ fresh' = fresh /\ promised' = promised /\ calls' = calls BY <1>8 DEF App_yield
  <2>2. ClientTypes' /\ ChannelTypes' BY <1>1, <2>1, YieldTypes
  <2> QED BY <1>3, <1>4, <2>1, <2>2
<1>9. CASE Client
  <2>1. fresh' = fresh /\ promised' = promised /\ calls' = calls
        /\ (Turns \/ timer_over \/ idle_over \/ ping_over)
    BY <1>9 DEF Client, Within, Turns
  <2>2. ClientTypes' /\ ChannelTypes'
    BY <1>1, <2>1, TurnsTypes, TimerTypes, ObjectTimerTypes
  <2> QED BY <1>3, <1>4, <2>1, <2>2
<1> QED BY <1>5, <1>6, <1>7, <1>8, <1>9

LEMMA LinkTypes ==
  ASSUME Types, Break \/ Reopen \/ Broker_close
  PROVE  Types'
<1>1. breaks \in 0..MaxBreaks BY DEF Types, BrokerTypes
<1>2. CASE Break
  <2>1. Cut /\ b' = [b EXCEPT !.on = FALSE, !.suback = NoSuback]
        /\ UNCHANGED <<c, call, ret, heard, faults, got, acked, fresh, promised, calls>>
    BY <1>2 DEF Break
  <2>2. breaks' \in 0..MaxBreaks BY <1>1, <1>2, SystemAssumption DEF Break
  <2> QED BY <2>1, <2>2, LostTypes
<1>3. CASE Broker_close
  <2>1. Cut /\ b' = [b EXCEPT !.on = FALSE, !.suback = NoSuback] /\ breaks' = breaks
        /\ UNCHANGED <<c, call, ret, heard, faults, got, acked, fresh, promised, calls>>
    BY <1>3 DEF Broker_close, BrokerOnly
  <2> QED BY <1>1, <2>1, LostTypes
<1>4. CASE Reopen
  <2>1. link' = "up" /\ UNCHANGED <<c, call, ret, up, heard, down, faults, b, got, acked, fresh, promised, breaks, calls>>
    BY <1>4 DEF Reopen, clientVars, brokerVars
  <2> QED BY <2>1 DEF Types, ClientTypes, ChannelTypes, BrokerTypes
<1> QED BY <1>2, <1>3, <1>4

LEMMA NextTypes ==
  ASSUME Types, [Next]_vars
  PROVE  Types'
<1>1. CASE App_connect \/ App_publish \/ App_call \/ App_yield \/ Client BY <1>1, AppTypes
<1>2. CASE Broker
  BY <1>2, BrokerConnectTypes, BrokerRefuseTypes, LinkTypes, BrokerPublishTypes, BrokerPubrelTypes,
     BrokerAckTypes, BrokerSubscribeTypes, BrokerSubackTypes, BrokerUnsubscribeTypes, BrokerPingTypes
     DEF Broker
<1>3. CASE Broker_forward BY <1>3, BrokerForwardTypes
<1>4. CASE Break \/ Reopen BY <1>4, LinkTypes
<1>5. CASE UNCHANGED vars
  BY <1>5 DEF vars, clientVars, Types, ClientTypes, ChannelTypes, BrokerTypes
<1> QED BY <1>1, <1>2, <1>3, <1>4, <1>5 DEF Next

LEMMA TypesInvariant == Spec => []Types
<1>1. Init => Types BY InitTypes
<1>2. Types /\ [Next]_vars => Types' BY NextTypes
<1> QED BY <1>1, <1>2, PTL DEF Spec

\* The client's object, its calls, the packets under way and the counters keep
\* to their types, whatever the application, the broker and the network do.
THEOREM TypeCorrect == Spec => []TypeOK
<1>1. Types => TypeOK BY TypesTypeOK
<1> QED BY <1>1, TypesInvariant, PTL

-----------------------------------------------------------------------------
(***************************************************************************)
(* The table of handlers.                                                  *)
(***************************************************************************)
Once(d) == HandlersOnce(d.handlers)

LEMMA OnceSame ==
  ASSUME NEW d \in Object, Once(d), NEW e,
         e.handlers = d.handlers \/ Core(e) = Core(d) \/ Core(e) = Core(closeSession(d))
  PROVE  Once(e)
<1>1. CASE e.handlers = d.handlers BY <1>1 DEF Once
<1>2. CASE Core(e) = Core(d) BY <1>2 DEF Once, Core
<1>3. CASE Core(e) = Core(closeSession(d))
  <2>1. e.handlers = closeSession(d).handlers BY <1>3 DEF Core
  <2>2. CASE d.cleansession
    <3>1. e.handlers = [i \in Slots |-> NoTopic] BY <2>1, <2>2, CloseType
    <3> QED BY <3>1 DEF Once, HandlersOnce
  <2>3. CASE ~d.cleansession
    <3>1. e.handlers = d.handlers BY <2>1, <2>3, CloseType
    <3> QED BY <3>1 DEF Once
  <2> QED BY <2>2, <2>3 DEF Object
<1> QED BY <1>1, <1>2, <1>3

LEMMA OnceResent ==
  ASSUME NEW d \in Object, Once(d), NEW s, NEW rc, NEW k, ResendOutcome(s, d, rc, k)
  PROVE  Once(s.c)
<1>1. s.c.handlers = d.handlers \/ Core(s.c) = Core(d) \/ Core(s.c) = Core(closeSession(d))
  BY DEF ResendOutcome
<1> QED BY <1>1, OnceSame

LEMMA OnceAnswered ==
  ASSUME NEW d \in Object, Once(d), NEW s, NEW p, AnsweredOutcome(s, d, p)
  PROVE  Once(s.c)
<1>1. CASE ResendOutcome(s, d, p.rc, call) BY <1>1, OnceResent
<1>2. CASE s.c.handlers = d.handlers BY <1>2, OnceSame
<1>3. ASSUME NEW h \in Object, HandlersOnce(d.handlers) => HandlersOnce(h.handlers),
             s.c = h \/ s.c = closeSession(h)
      PROVE  Once(s.c)
  <2>1. Once(h) BY <1>3 DEF Once
  <2> QED BY <1>3, <2>1, OnceSame
<1> QED BY <1>1, <1>2, <1>3 DEF AnsweredOutcome

LEMMA OnceUnanswered ==
  ASSUME NEW d \in Object, Once(d), NEW s, UnansweredOutcome(s, d)
  PROVE  Once(s.c)
<1>1. CASE ResendOutcome(s, d, FAILURE, call) BY <1>1, OnceResent
<1>2. CASE s.c = d \/ s.c = closeSession(d) BY <1>2, OnceSame
<1> QED BY <1>1, <1>2 DEF UnansweredOutcome

LEMMA OnceTurned ==
  ASSUME c \in Object, Once(c), NEW p, NEW r, NEW s, Cycles(r, c, p), TurnOutcome(r, s, p)
  PROVE  Once(s.c)
<1>1. r.c \in Object /\ Once(r.c) BY OnceSame DEF Cycles
<1>2. CASE s = Wait(r.c, NoWrite, call) BY <1>1, <1>2 DEF Wait
<1>3. CASE AnsweredOutcome(s, r.c, p) BY <1>1, <1>3, OnceAnswered
<1>4. CASE UnansweredOutcome(s, r.c) BY <1>1, <1>4, OnceUnanswered
<1> QED BY <1>2, <1>3, <1>4 DEF TurnOutcome

LEMMA OnceTurn ==
  ASSUME NEW k, NEW s, NEW more, TurnWith(k, s, more), Once(s.c)
  PROVE  Once(c')
<1>1. c' = s.c BY DEF TurnWith
<1> QED BY <1>1

LEMMA OnceNext ==
  ASSUME Types, Once(c), [Next]_vars
  PROVE  Once(c')
<1>1. ClientTypes /\ ChannelTypes /\ c \in Object BY DEF Types, ClientTypes
<1>2. CASE c' = c BY <1>2
<1>3. CASE App_connect
  <2>1. connect BY <1>3 DEF App_connect
  <2>2. PICK s : Turn(ConnectCall, s) /\ ConnectOutcome(s) BY <1>1, <2>1, ConnectCases
  <2>3. s.c.handlers = c.handlers BY <2>2 DEF ConnectOutcome
  <2>4. Once(s.c) BY <1>1, <2>3, OnceSame
  <2> QED BY <2>2, <2>4, OnceTurn DEF Turn
<1>4. CASE App_publish
  <2>1. PICK m \in OutMsgs, q \in Levels : publish(m, q) BY <1>4, LevelsType DEF App_publish
  <2> DEFINE e == Saved(Numbered(q), PublishId(q), q, m)
             p == PublishPacket(PublishId(q), q, m)
             k == PublishCall(q, m)
  <2>2. e \in Object /\ e.handlers = c.handlers BY <1>1, NumberedType
  <2>3. \E s : Turn(k, s) /\ PublishOutcome(s, e, p, q, k, FALSE) BY <1>1, <2>1, PublishStarts
  <2> HIDE DEF e, p, k
  <2>4. PICK s : Turn(k, s) /\ PublishOutcome(s, e, p, q, k, FALSE) BY <2>3
  <2>5. Once(e) BY <1>1, <2>2, OnceSame
  <2>6. Core(s.c) = Core(e) \/ Core(s.c) = Core(closeSession(e)) BY <2>4 DEF PublishOutcome
  <2>7. Once(s.c) BY <2>2, <2>5, <2>6, OnceSame
  <2> QED BY <2>4, <2>7, OnceTurn DEF Turn
<1>5. CASE App_call
  <2>1. CASE \/ \E t \in Topics, q \in Levels : subscribe(t, q)
             \/ \E t \in Topics : unsubscribe(t)
    <3>1. PICK k, s : Turn(k, s) /\ RequestOutcome(s, k) BY <1>1, <2>1, SubscribeStarts, UnsubscribeStarts
    <3>2. Once(Advanced) /\ Advanced \in Object BY <1>1, AdvancedType, OnceSame
    <3>3. Once(s.c) BY <3>1, <3>2, OnceSame DEF RequestOutcome
    <3> QED BY <3>1, <3>3, OnceTurn DEF Turn
  <2>2. CASE disconnect
    <3>1. PICK s : Turn(DisconnectCall, s) /\ DisconnectOutcome(s) BY <1>1, <2>2, DisconnectCases
    <3>2. Once(s.c) BY <1>1, <3>1, OnceSame DEF DisconnectOutcome
    <3> QED BY <3>1, <3>2, OnceTurn DEF Turn
  <2>3. CASE \E op \in {"publish", "subscribe", "unsubscribe"} : Refused(op)
    <3>1. PICK k, s : Turn(k, s) /\ RefusedOutcome(s) BY <1>1, <2>3, RefusedCases
    <3>2. Once(s.c) BY <1>1, <3>1, OnceSame DEF RefusedOutcome
    <3> QED BY <3>1, <3>2, OnceTurn DEF Turn
  <2> QED BY <1>5, <2>1, <2>2, <2>3, LevelsType DEF App_call
<1>6. CASE App_yield
  <2>1. yield BY <1>6 DEF App_yield
  <2>2. PICK s : Turn(NoCall, s) /\ YieldOutcome(s) BY <1>1, <2>1, YieldCases
  <2> QED BY <2>2, OnceTurn DEF Turn, YieldOutcome
<1>7. CASE Client
  <2>1. CASE Turns
    <3>1. PICK p \in Input, n \in Nat : turn(p, n) BY <1>1, <2>1, InputOfTurn
    <3>2. PICK r, s : /\ Cycles(r, c, p) /\ TurnOK(s) /\ TurnOutcome(r, s, p)
                      /\ TurnWith(call, Both(r, s), n)
      BY <1>1, <3>1, TurnCases
    <3>3. Once(s.c) BY <1>1, <3>2, OnceTurned
    <3>4. Both(r, s).c = s.c BY <3>2 DEF Both, TurnOK
    <3> QED BY <3>2, <3>3, <3>4, OnceTurn
  <2>2. CASE timer_over
    <3>1. PICK s, more : UnansweredOutcome(s, c) /\ TurnWith(call, s, more) BY <1>1, <2>2, TimerCases
    <3>2. Once(s.c) BY <1>1, <3>1, OnceUnanswered
    <3> QED BY <3>1, <3>2, OnceTurn
  <2>3. CASE idle_over \/ ping_over
    <3>1. Core(c') = Core(c) BY <1>1, <2>3, TimersOnly
    <3> QED BY <1>1, <3>1, OnceSame
  <2> QED BY <1>7, <2>1, <2>2, <2>3 DEF Client, Within, Turns
<1>8. CASE Broker \/ Broker_forward \/ Break \/ Reopen \/ UNCHANGED vars
  <2>1. c' = c
    BY <1>8 DEF Broker, Broker_connect, Broker_refuse, Broker_close, Broker_publish, Broker_pubrel,
       Broker_ack, Broker_subscribe, Broker_suback, Broker_unsubscribe, Broker_ping, Broker_forward,
       BrokerOnly, Break, Reopen, vars, clientVars
  <2> QED BY <2>1
<1> QED BY <1>3, <1>4, <1>5, <1>6, <1>7, <1>8 DEF Next

\* A filter never has two slots, so no message is given to one handler twice:
\* setMessageHandler looks for a slot that has the filter before it takes a free
\* one, and a clean session forgets all slots at once.
THEOREM HandlersUniqueHolds == Spec => []HandlersUnique
<1>1. Init => Once(c)
  <2> SUFFICES ASSUME Init PROVE Once(c) OBVIOUS
  <2>1. c.handlers = [i \in Slots |-> NoTopic] BY DEF Init, ClientInit, NewClient
  <2> QED BY <2>1 DEF Once, HandlersOnce
<1>2. Types /\ Once(c) /\ [Next]_vars => Once(c)' BY OnceNext
<1>3. Once(c) => HandlersUnique BY DEF Once, HandlersOnce, HandlersUnique
<1> QED BY <1>1, <1>2, <1>3, TypesInvariant, PTL DEF Spec

-----------------------------------------------------------------------------
(***************************************************************************)
(* The publish in flight: a step forgets it, or keeps it, unless it is the *)
(* start of another publish.                                               *)
(***************************************************************************)
Keeps(e, d) == e.inflight.id # 0 => e.inflight = d.inflight

LEMMA KeepsSame ==
  ASSUME NEW d \in Object, NEW e,
         e.inflight = d.inflight \/ Core(e) = Core(d) \/ Core(e) = Core(closeSession(d))
  PROVE  Keeps(e, d)
<1>1. CASE e.inflight = d.inflight BY <1>1 DEF Keeps
<1>2. CASE Core(e) = Core(d) BY <1>2 DEF Keeps, Core
<1>3. CASE Core(e) = Core(closeSession(d))
  <2>1. e.inflight = closeSession(d).inflight BY <1>3 DEF Core
  <2>2. CASE d.cleansession
    <3>1. e.inflight = [d.inflight EXCEPT !.id = 0, !.qos = 0] BY <2>1, <2>2, CloseType
    <3>2. d.inflight \in [id : Ids, qos : Levels, msg : OutMsgs \cup {0}] BY DEF Object
    <3>3. e.inflight.id = 0 BY <3>1, <3>2
    <3> QED BY <3>3 DEF Keeps
  <2>3. CASE ~d.cleansession
    <3>1. e.inflight = d.inflight BY <2>1, <2>3, CloseType
    <3> QED BY <3>1 DEF Keeps
  <2> QED BY <2>2, <2>3 DEF Object
<1> QED BY <1>1, <1>2, <1>3

LEMMA KeepsThen ==
  ASSUME NEW d, NEW e, NEW f, Keeps(e, d), Keeps(f, e)
  PROVE  Keeps(f, d)
BY DEF Keeps

LEMMA KeepsAcked ==
  ASSUME NEW d \in Object, NEW e, NEW id, e.inflight = Acked(d, id).inflight
  PROVE  Keeps(e, d)
<1>1. d.inflight \in [id : Ids, qos : Levels, msg : OutMsgs \cup {0}] BY DEF Object
<1>2. Acked(d, id).inflight = IF d.inflight.id = id THEN [d.inflight EXCEPT !.id = 0] ELSE d.inflight
  BY DEF Acked, Object
<1> QED BY <1>1, <1>2 DEF Keeps

LEMMA KeepsResent ==
  ASSUME NEW d \in Object, NEW s, NEW rc, NEW k, ResendOutcome(s, d, rc, k)
  PROVE  Keeps(s.c, d)
<1>1. s.c.inflight = d.inflight \/ Core(s.c) = Core(d) \/ Core(s.c) = Core(closeSession(d))
  BY DEF ResendOutcome
<1> QED BY <1>1, KeepsSame

LEMMA KeepsAnswered ==
  ASSUME NEW d \in Object, NEW s, NEW p, AnsweredOutcome(s, d, p)
  PROVE  Keeps(s.c, d)
<1>1. CASE ResendOutcome(s, d, p.rc, call) BY <1>1, KeepsResent
<1>2. CASE s.c.inflight = Acked(d, p.id).inflight BY <1>2, KeepsAcked
<1>3. ASSUME NEW h \in Object, Session(h) = Session(d), s.c = h \/ s.c = closeSession(h)
      PROVE  Keeps(s.c, d)
  <2>1. Keeps(h, d) BY <1>3 DEF Session, Keeps
  <2>2. Keeps(s.c, h) BY <1>3, KeepsSame
  <2> QED BY <2>1, <2>2, KeepsThen
<1> QED BY <1>1, <1>2, <1>3 DEF AnsweredOutcome

LEMMA KeepsUnanswered ==
  ASSUME NEW d \in Object, NEW s, UnansweredOutcome(s, d)
  PROVE  Keeps(s.c, d)
<1>1. CASE ResendOutcome(s, d, FAILURE, call) BY <1>1, KeepsResent
<1>2. CASE s.c = d \/ s.c = closeSession(d) BY <1>2, KeepsSame
<1> QED BY <1>1, <1>2 DEF UnansweredOutcome

LEMMA KeepsTurned ==
  ASSUME c \in Object, NEW p, NEW r, NEW s, Cycles(r, c, p), TurnOutcome(r, s, p)
  PROVE  Keeps(s.c, c)
<1>1. r.c \in Object /\ Keeps(r.c, c) BY KeepsSame DEF Cycles
<1>2. CASE s = Wait(r.c, NoWrite, call) BY <1>1, <1>2 DEF Wait
<1>3. CASE AnsweredOutcome(s, r.c, p) BY <1>1, <1>3, KeepsAnswered, KeepsThen
<1>4. CASE UnansweredOutcome(s, r.c) BY <1>1, <1>4, KeepsUnanswered, KeepsThen
<1> QED BY <1>2, <1>3, <1>4 DEF TurnOutcome

LEMMA ClientKeeps ==
  ASSUME Types, [Next]_vars, ~App_publish
  PROVE  Keeps(c', c)
<1>1. ClientTypes /\ ChannelTypes /\ c \in Object BY DEF Types, ClientTypes
<1>2. ASSUME NEW k, NEW s, NEW more, TurnWith(k, s, more), Keeps(s.c, c)
      PROVE  Keeps(c', c)
  BY <1>2 DEF TurnWith
<1>3. CASE App_connect
  <2>1. connect BY <1>3 DEF App_connect
  <2>2. PICK s : Turn(ConnectCall, s) /\ ConnectOutcome(s) BY <1>1, <2>1, ConnectCases
  <2>3. s.c.inflight = c.inflight BY <2>2 DEF ConnectOutcome
  <2> QED BY <1>1, <1>2, <2>2, <2>3, KeepsSame DEF Turn
<1>4. CASE App_call
  <2>1. CASE \/ \E t \in Topics, q \in Levels : subscribe(t, q)
             \/ \E t \in Topics : unsubscribe(t)
    <3>1. PICK k, s : Turn(k, s) /\ RequestOutcome(s, k) BY <1>1, <2>1, SubscribeStarts, UnsubscribeStarts
    <3>2. Advanced \in Object /\ Keeps(Advanced, c) BY <1>1, AdvancedType, KeepsSame
    <3>3. Keeps(s.c, Advanced) BY <3>1, <3>2, KeepsSame DEF RequestOutcome
    <3> QED BY <1>2, <3>1, <3>2, <3>3, KeepsThen DEF Turn
  <2>2. CASE disconnect
    <3>1. PICK s : Turn(DisconnectCall, s) /\ DisconnectOutcome(s) BY <1>1, <2>2, DisconnectCases
    <3>2. Keeps(s.c, c) BY <1>1, <3>1, KeepsSame DEF DisconnectOutcome
    <3> QED BY <1>2, <3>1, <3>2 DEF Turn
  <2>3. CASE \E op \in {"publish", "subscribe", "unsubscribe"} : Refused(op)
    <3>1. PICK k, s : Turn(k, s) /\ RefusedOutcome(s) BY <1>1, <2>3, RefusedCases
    <3>2. Keeps(s.c, c) BY <1>1, <3>1, KeepsSame DEF RefusedOutcome
    <3> QED BY <1>2, <3>1, <3>2 DEF Turn
  <2> QED BY <1>4, <2>1, <2>2, <2>3, LevelsType DEF App_call
<1>5. CASE App_yield
  <2>1. yield BY <1>5 DEF App_yield
  <2>2. PICK s : Turn(NoCall, s) /\ YieldOutcome(s) BY <1>1, <2>1, YieldCases
  <2>3. Keeps(s.c, c) BY <1>1, <2>2, KeepsSame DEF YieldOutcome
  <2> QED BY <1>2, <2>2, <2>3 DEF Turn
<1>6. CASE Client
  <2>1. CASE Turns
    <3>1. PICK p \in Input, n \in Nat : turn(p, n) BY <1>1, <2>1, InputOfTurn
    <3>2. PICK r, s : /\ Cycles(r, c, p) /\ TurnOK(s) /\ TurnOutcome(r, s, p)
                      /\ TurnWith(call, Both(r, s), n)
      BY <1>1, <3>1, TurnCases
    <3>3. Keeps(s.c, c) BY <1>1, <3>2, KeepsTurned
    <3>4. Both(r, s).c = s.c BY <3>2 DEF Both, TurnOK
    <3> QED BY <1>2, <3>2, <3>3, <3>4
  <2>2. CASE timer_over
    <3>1. PICK s, more : UnansweredOutcome(s, c) /\ TurnWith(call, s, more) BY <1>1, <2>2, TimerCases
    <3>2. Keeps(s.c, c) BY <1>1, <3>1, KeepsUnanswered
    <3> QED BY <1>2, <3>1, <3>2
  <2>3. CASE idle_over \/ ping_over
    <3>1. Core(c') = Core(c) BY <1>1, <2>3, TimersOnly
    <3> QED BY <1>1, <3>1, KeepsSame
  <2> QED BY <1>6, <2>1, <2>2, <2>3 DEF Client, Within, Turns
<1>7. CASE Broker \/ Broker_forward \/ Break \/ Reopen \/ UNCHANGED vars
  <2>1. c' = c
    BY <1>7 DEF Broker, Broker_connect, Broker_refuse, Broker_close, Broker_publish, Broker_pubrel,
       Broker_ack, Broker_subscribe, Broker_suback, Broker_unsubscribe, Broker_ping, Broker_forward,
       BrokerOnly, Break, Reopen, vars, clientVars
  <2> QED BY <2>1 DEF Keeps
<1> QED BY <1>3, <1>4, <1>5, <1>6, <1>7 DEF Next

\* The publish in flight awaits an acknowledgment.
Tracked == c.inflight.id # 0 => AckAwaited(c.inflight.qos) # "none"

\* QoS 2 is compiled in, or the application does without it.
QoSFits == MQTTCLIENT_QOS2 \/ 2 \notin QoSs

LEMMA AwaitsAck ==
  ASSUME QoSFits, NEW q \in QoSs
  PROVE  q \in Levels /\ (q # 0 => AckAwaited(q) # "none")
<1>1. q \in Levels /\ q \in 0..2 /\ (q = 2 => MQTTCLIENT_QOS2) BY LevelsType DEF QoSFits
<1> QED BY <1>1 DEF AckAwaited

LEMMA TrackedNext ==
  ASSUME QoSFits, Types, Tracked, [Next]_vars
  PROVE  Tracked'
<1>1. CASE App_publish
  <2>1. PICK m \in OutMsgs, q \in QoSs : publish(m, q) BY <1>1 DEF App_publish
  <2>2. q \in Levels /\ (q # 0 => AckAwaited(q) # "none") BY AwaitsAck
  <2> DEFINE e == Saved(Numbered(q), PublishId(q), q, m)
             p == PublishPacket(PublishId(q), q, m)
             k == PublishCall(q, m)
  <2>3. ClientTypes BY DEF Types
  <2>4. /\ e \in Object
        /\ c.cleansession => e.inflight = c.inflight
        /\ ~c.cleansession => e.inflight = [id |-> PublishId(q), qos |-> q, msg |-> m]
    BY <2>2, <2>3, NumberedType
  <2>5. \E s : Turn(k, s) /\ PublishOutcome(s, e, p, q, k, FALSE)
    BY <2>1, <2>2, <2>3, PublishStarts
  <2>6. q = 0 => PublishId(q) = 0 BY DEF PublishId
  <2> HIDE DEF e, p, k
  <2>7. PICK s : Turn(k, s) /\ PublishOutcome(s, e, p, q, k, FALSE) BY <2>5
  <2>8. Core(s.c) = Core(e) \/ Core(s.c) = Core(closeSession(e)) BY <2>7 DEF PublishOutcome
  <2>9. c' = s.c /\ Keeps(s.c, e) BY <2>4, <2>7, <2>8, KeepsSame DEF Turn, TurnWith
  <2>10. e.inflight.id # 0 => AckAwaited(e.inflight.qos) # "none" BY <2>2, <2>4, <2>6 DEF Tracked
  <2> QED BY <2>9, <2>10 DEF Tracked, Keeps
<1>2. CASE ~App_publish
  <2>1. Keeps(c', c) BY <1>2, ClientKeeps
  <2> QED BY <2>1 DEF Tracked, Keeps
<1> QED BY <1>1, <1>2

-----------------------------------------------------------------------------
(***************************************************************************)
(* A connection the broker has not accepted yet is quiet: a packet left    *)
(* over from an earlier one, or an answer to it, is never under way.       *)
(***************************************************************************)
Quiet == /\ link = "up" /\ ~b.on => down = <<>>
         /\ b.on => link = "up"
         /\ b.suback # NoSuback => b.on

LEMMA QuietNext ==
  ASSUME DrainsFirst, Types, Quiet, [Next]_vars
  PROVE  Quiet'
<1>0. down \in Seq(DownPacket) /\ b \in BrokerObject /\ ClientTypes /\ ChannelTypes
  BY DEF Types, ChannelTypes, BrokerTypes
<1>1. CASE App_connect \/ App_publish \/ App_call \/ App_yield \/ Client
  <2>1. b' = b BY <1>1 DEF App_connect, App_publish, App_call, App_yield, Client, Within, Others
  <2>2. CASE Within(Turns)
    <3>1. link' = link BY <1>0, <2>2, InputOfTurn DEF Within
    <3>2. down = <<>> => down' = <<>>
      BY <2>2 DEF Within, Turns, turn_packet, turn_cut, turn_rest, turn_empty
    <3> QED BY <2>1, <3>1, <3>2 DEF Quiet
  <2>3. CASE ~Within(Turns)
    <3>1. link' = link /\ down' = down
      BY <1>1, <2>3 DEF Turns, App_connect, App_publish, App_call, App_yield, Client, Within, connect, publish,
         subscribe, unsubscribe, Request, disconnect, Refused, yield, timer_over, idle_over, ping_over
    <3> QED BY <2>1, <3>1 DEF Quiet
  <2> QED BY <2>2, <2>3
<1>2. CASE Break \/ Broker_close
  <2>1. link' = "down" /\ b' = [b EXCEPT !.on = FALSE, !.suback = NoSuback]
    BY <1>2 DEF Break, Broker_close, Cut
  <2>2. ~b'.on /\ b'.suback = NoSuback BY <1>0, <2>1 DEF BrokerObject
  <2> QED BY <2>1, <2>2 DEF Quiet
<1>3. CASE Broker_refuse
  <2>1. link' = "down" /\ b' = b /\ ~b.on BY <1>3 DEF Broker_refuse
  <2> QED BY <2>1 DEF Quiet
<1>4. CASE Reopen
  <2>1. link' = "up" /\ link = "down" /\ down = <<>> /\ down' = down /\ b' = b
    BY <1>4 DEF Reopen, brokerVars
  <2> QED BY <2>1 DEF Quiet
<1>5. CASE Broker_connect
  <2>1. link' = "up" /\ b'.on /\ b'.suback = b.suback
    BY <1>0, <1>5 DEF Broker_connect, Reads, BrokerObject
  <2> QED BY <2>1 DEF Quiet
<1>6. CASE \/ Broker_publish \/ Broker_pubrel \/ Broker_ack \/ Broker_subscribe
           \/ Broker_unsubscribe \/ Broker_ping
  <2>1. link' = link /\ b.on
    BY <1>6 DEF Broker_publish, Broker_pubrel, Broker_ack, Broker_subscribe, Broker_unsubscribe,
       Broker_ping
  <2>2. b'.on = b.on
    BY <1>0, <1>6 DEF Broker_publish, Broker_pubrel, Broker_ack, Broker_subscribe,
       Broker_unsubscribe, Broker_ping, BrokerObject
  <2> QED BY <2>1, <2>2 DEF Quiet
<1>7. CASE Broker_suback
  <2>1. link' = link /\ b.suback # NoSuback /\ b'.on = b.on
    BY <1>0, <1>7 DEF Broker_suback, BrokerObject
  <2> QED BY <2>1 DEF Quiet
<1>8. CASE Broker_forward
  <2>1. link' = link /\ (~b.on => down' = down)
    BY <1>8 DEF Broker_forward
  <2>2. b'.on = b.on /\ b'.suback = b.suback
    BY <1>0, <1>8 DEF Broker_forward, BrokerObject
  <2> QED BY <2>1, <2>2 DEF Quiet
<1>9. CASE UNCHANGED vars BY <1>9 DEF vars, Quiet
<1> QED BY <1>1, <1>2, <1>3, <1>4, <1>5, <1>6, <1>7, <1>8, <1>9 DEF Next, Broker

-----------------------------------------------------------------------------
(* When a session begins. *)

LEMMA ResentConnects ==
  ASSUME NEW d \in Object, d.inflight.id # 0 => AckAwaited(d.inflight.qos) # "none",
         NEW s, NEW rc, NEW k, ResendOutcome(s, d, rc, k), ~d.isconnected, s.c.isconnected
  PROVE  rc = SUCCESS
<1>1. CASE Core(s.c) = Core(d) BY <1>1 DEF Core
<1>2. CASE Core(s.c) = Core(closeSession(d)) BY <1>2, CloseType DEF Core
<1> QED BY <1>1, <1>2 DEF ResendOutcome

LEMMA UnansweredConnects ==
  ASSUME NEW d \in Object, d.inflight.id # 0 => AckAwaited(d.inflight.qos) # "none",
         NEW s, UnansweredOutcome(s, d), ~d.isconnected
  PROVE  ~s.c.isconnected
<1> SUFFICES ASSUME s.c.isconnected PROVE FALSE OBVIOUS
<1>1. SUCCESS # FAILURE BY DEF SUCCESS, FAILURE
<1>2. ~ResendOutcome(s, d, FAILURE, call) BY <1>1, ResentConnects
<1>3. ~closeSession(d).isconnected BY CloseType
<1> QED BY <1>2, <1>3 DEF UnansweredOutcome

\* Only the turn that reads the answer connect waits for makes a session.
LEMMA TurnConnects ==
  ASSUME Types, Tracked, NEW p \in Input, NEW r, NEW s, Cycles(r, c, p), TurnOutcome(r, s, p),
         ~c.isconnected, s.c.isconnected
  PROVE  p.type = call.await /\ AnsweredOutcome(s, r.c, p)
<1>1. c \in Object BY DEF Types, ClientTypes
<1>2. r.c \in Object /\ ~r.c.isconnected BY <1>1 DEF Cycles, Core
<1>3. r.c.inflight.id # 0 => AckAwaited(r.c.inflight.qos) # "none"
  <2>1. Core(r.c) = Core(c) BY DEF Cycles
  <2> QED BY <2>1 DEF Core, Tracked
<1>4. ~UnansweredOutcome(s, r.c) BY <1>2, <1>3, UnansweredConnects
<1>5. s # Wait(r.c, NoWrite, call) BY <1>2 DEF Wait
<1> QED BY <1>4, <1>5 DEF TurnOutcome

LEMMA NewSession ==
  ASSUME QoSFits, Types, Tracked, [Next]_vars, ~c.isconnected, c'.isconnected
  PROVE  Within(turn_packet) /\ down # <<>> /\ down' = Tail(down)
<1>1. ClientTypes /\ ChannelTypes /\ c \in Object BY DEF Types, ClientTypes
<1>2. ASSUME NEW k, NEW s, NEW more, TurnWith(k, s, more)
      PROVE  s.c.isconnected
  BY <1>2 DEF TurnWith
<1>3. ~App_connect
  <2> SUFFICES ASSUME App_connect PROVE FALSE OBVIOUS
  <2>1. connect BY DEF App_connect
  <2>2. PICK s : Turn(ConnectCall, s) /\ ConnectOutcome(s) BY <1>1, <2>1, ConnectCases
  <2>3. s.c.isconnected BY <1>2, <2>2 DEF Turn
  <2> QED BY <2>2, <2>3 DEF ConnectOutcome
<1>4. ~App_publish BY DEF App_publish, publish
<1>5. ~App_call
  <2> SUFFICES ASSUME App_call PROVE FALSE OBVIOUS
  <2>1. ASSUME disconnect PROVE FALSE
    <3>1. PICK s : Turn(DisconnectCall, s) /\ DisconnectOutcome(s) BY <1>1, <2>1, DisconnectCases
    <3>2. s.c.isconnected = closeSession(c).isconnected BY <3>1 DEF DisconnectOutcome, Core
    <3>3. ~closeSession(c).isconnected BY <1>1, CloseType
    <3> QED BY <1>2, <3>1, <3>2, <3>3 DEF Turn
  <2>2. ASSUME NEW op \in {"publish", "subscribe", "unsubscribe"}, Refused(op) PROVE FALSE
    <3>1. PICK k, s : Turn(k, s) /\ RefusedOutcome(s) BY <1>1, <2>2, RefusedCases
    <3>2. ~s.c.isconnected BY <1>1, <3>1, CloseType DEF RefusedOutcome
    <3> QED BY <1>2, <3>1, <3>2 DEF Turn
  <2> QED BY <2>1, <2>2 DEF App_call, subscribe, unsubscribe, Request
<1>6. ~App_yield
  <2> SUFFICES ASSUME App_yield PROVE FALSE OBVIOUS
  <2>1. yield BY DEF App_yield
  <2>2. PICK s : Turn(NoCall, s) /\ YieldOutcome(s) BY <1>1, <2>1, YieldCases
  <2> QED BY <1>2, <2>2 DEF Turn, YieldOutcome
<1>7. ~(Broker \/ Broker_forward \/ Break \/ Reopen \/ UNCHANGED vars)
  BY DEF Broker, Broker_connect, Broker_refuse, Broker_close, Broker_publish, Broker_pubrel,
     Broker_ack, Broker_subscribe, Broker_suback, Broker_unsubscribe, Broker_ping, Broker_forward,
     BrokerOnly, Break, Reopen, vars, clientVars
<1>8. Client BY <1>3, <1>4, <1>5, <1>6, <1>7 DEF Next
<1>9. ~timer_over
  <2> SUFFICES ASSUME timer_over PROVE FALSE OBVIOUS
  <2>1. PICK s, more : UnansweredOutcome(s, c) /\ TurnWith(call, s, more) BY <1>1, TimerCases
  <2>2. ~s.c.isconnected BY <1>1, <2>1, UnansweredConnects DEF Tracked
  <2> QED BY <1>2, <2>1, <2>2
<1>10. ~(idle_over \/ ping_over) BY <1>1, TimersOnly DEF Core
<1>11. PICK p \in Input, n \in Nat : turn(p, n) /\ TakenAs(p, n)
  BY <1>1, <1>8, <1>9, <1>10, InputOfTurn DEF Client, Within, Turns
<1>12. p.type = call.await
  <2>1. PICK r, s : /\ Cycles(r, c, p) /\ TurnOK(s) /\ TurnOutcome(r, s, p)
                    /\ TurnWith(call, Both(r, s), n)
    BY <1>1, <1>11, TurnCases
  <2>2. Both(r, s).c = s.c BY <2>1 DEF Both, TurnOK
  <2>3. s.c.isconnected BY <1>2, <2>1, <2>2
  <2> QED BY <2>1, <2>3, TurnConnects
<1>13. call.await \notin {TIMEOUT, SHORT}
  BY <1>1 DEF ClientTypes, Waiting, Call, TIMEOUT, SHORT
<1>14. p # Rest /\ p # [type |-> TIMEOUT] BY <1>12, <1>13 DEF Rest
<1>15. down # <<>> /\ Head(down).type # SHORT /\ down' = Tail(down) /\ turn(Head(down), 0)
  BY <1>11, <1>14 DEF TakenAs
<1>16. turn_packet BY <1>15 DEF turn_packet
<1>17. Others /\ UNCHANGED <<fresh, promised, calls>> BY <1>8 DEF Client, Within
<1> QED BY <1>15, <1>16, <1>17 DEF Within

Begun == Types /\ Tracked /\ Quiet

LEMMA BegunInvariant ==
  ASSUME DrainsFirst, QoSFits
  PROVE  Spec => []Begun
<1>1. Init => Begun
  <2> SUFFICES ASSUME Init PROVE Begun OBVIOUS
  <2>1. Types BY InitTypes
  <2>2. Tracked BY DEF Init, ClientInit, NewClient, NoInflight, Tracked
  <2>3. Quiet BY DEF Init, Quiet
  <2> QED BY <2>1, <2>2, <2>3 DEF Begun
<1>2. Begun /\ [Next]_vars => Begun'
  BY NextTypes, TrackedNext, QuietNext DEF Begun
<1> QED BY <1>1, <1>2, PTL DEF Spec

\* connect ends in a session that the broker has accepted on this very
\* connection, if the application reads out what is left of the old one before
\* it opens another, and asks for QoS 2 only when it is compiled in (a publish
\* at QoS 2 kept in flight is otherwise sent again and taken for the CONNACK).
THEOREM SessionsAreAccepted ==
  ASSUME DrainsFirst, MQTTCLIENT_QOS2 \/ 2 \notin QoSs
  PROVE  Spec => ConnectedMeansAccepted
<1>1. QoSFits BY DEF QoSFits
<1>2. ASSUME Begun, [Next]_vars
      PROVE  [~c.isconnected /\ c'.isconnected => b.on \/ link = "down"]_vars
  <2> SUFFICES ASSUME ~c.isconnected, c'.isconnected PROVE b.on \/ link = "down" OBVIOUS
  <2>1. down # <<>> BY <1>1, <1>2, NewSession DEF Begun
  <2>2. link \in {"up", "down"} BY <1>2 DEF Begun, Types, ChannelTypes
  <2> QED BY <1>2, <2>1, <2>2 DEF Begun, Quiet
<1>3. Begun /\ [Next]_vars => [~c.isconnected /\ c'.isconnected => b.on \/ link = "down"]_vars
  BY <1>2
<1>4. Spec => []Begun BY <1>1, BegunInvariant
<1> QED BY <1>3, <1>4, PTL DEF Spec, ConnectedMeansAccepted

-----------------------------------------------------------------------------
(***************************************************************************)
(* When a session ends.                                                    *)
(***************************************************************************)

\* While connect is under way there is no session.
Offline == call.op = "connect" => ~c.isconnected

LEMMA OfflineResent ==
  ASSUME NEW d \in Object, NEW s, NEW rc, ResendOutcome(s, d, rc, call)
  PROVE  s.call = NoCall \/ s.c.isconnected = d.isconnected
BY DEF ResendOutcome, Core

LEMMA OfflineUnanswered ==
  ASSUME NEW d \in Object, NEW s, UnansweredOutcome(s, d)
  PROVE  s.call = NoCall \/ (call.op = "connect" /\ s.c.isconnected = d.isconnected)
BY OfflineResent DEF UnansweredOutcome, Over

LEMMA OfflineTurned ==
  ASSUME c \in Object, Offline, NEW p, NEW r, NEW s, Cycles(r, c, p), TurnOutcome(r, s, p)
  PROVE  s.call.op = "connect" => ~s.c.isconnected
<1>1. r.c \in Object /\ (~c.isconnected => ~r.c.isconnected) BY DEF Cycles, Core
<1>2. CASE s = Wait(r.c, NoWrite, call)
  <2>1. s.c = r.c /\ s.call = call BY <1>2 DEF Wait
  <2> QED BY <1>1, <2>1 DEF Offline
<1>3. CASE s # Wait(r.c, NoWrite, call)
  <2>1. s.call = NoCall \/ (call.op = "connect" /\ s.c.isconnected = r.c.isconnected)
    <3>1. CASE UnansweredOutcome(s, r.c) BY <1>1, <3>1, OfflineUnanswered
    <3>2. CASE AnsweredOutcome(s, r.c, p) BY <1>1, <3>2, OfflineResent DEF AnsweredOutcome, Over
    <3> QED BY <1>3, <3>1, <3>2 DEF TurnOutcome
  <2> QED BY <1>1, <2>1, NoCallType DEF Offline
<1> QED BY <1>2, <1>3

LEMMA OfflineNext ==
  ASSUME Types, Offline, [Next]_vars
  PROVE  Offline'
<1>1. ClientTypes /\ ChannelTypes /\ c \in Object BY DEF Types, ClientTypes
<1>2. ASSUME NEW k, NEW s, NEW more, TurnWith(k, s, more), s.call.op = "connect" => ~s.c.isconnected
      PROVE  Offline'
  BY <1>2 DEF TurnWith, Offline
<1>3. CASE App_connect
  <2>1. connect BY <1>3 DEF App_connect
  <2>2. PICK s : Turn(ConnectCall, s) /\ ConnectOutcome(s) BY <1>1, <2>1, ConnectCases
  <2>3. s.call.op = "connect" => ~s.c.isconnected BY <2>2, NoCallType DEF ConnectOutcome
  <2> QED BY <1>2, <2>2, <2>3 DEF Turn
<1>4. CASE App_publish
  <2>1. PICK m \in OutMsgs, q \in Levels : publish(m, q) BY <1>4, LevelsType DEF App_publish
  <2> DEFINE k == PublishCall(q, m)
  <2>2. PICK s : /\ Turn(k, s)
                 /\ \E e, p : PublishOutcome(s, e, p, q, k, FALSE)
    BY <1>1, <2>1, PublishStarts
  <2>3. k.op = "publish" /\ [k EXCEPT !.await = AckAwaited(q)].op = "publish"
    BY DEF PublishCall, Starts
  <2> HIDE DEF k
  <2>4. s.call = NoCall \/ s.call = [k EXCEPT !.await = AckAwaited(q)] BY <2>2 DEF PublishOutcome
  <2>5. s.call.op # "connect" BY <2>3, <2>4, NoCallType
  <2> QED BY <1>2, <2>2, <2>5 DEF Turn
<1>5. CASE App_call
  <2>1. CASE \/ \E t \in Topics, q \in Levels : subscribe(t, q)
             \/ \E t \in Topics : unsubscribe(t)
    <3>1. PICK k, s : Turn(k, s) /\ RequestOutcome(s, k) /\ k.op # "connect"
      BY <1>1, <2>1, SubscribeStarts, UnsubscribeStarts
    <3>2. s.call.op # "connect" BY <3>1, NoCallType DEF RequestOutcome
    <3> QED BY <1>2, <3>1, <3>2 DEF Turn
  <2>2. CASE disconnect
    <3>1. PICK s : Turn(DisconnectCall, s) /\ DisconnectOutcome(s) BY <1>1, <2>2, DisconnectCases
    <3>2. s.call.op # "connect" BY <3>1, NoCallType DEF DisconnectOutcome
    <3> QED BY <1>2, <3>1, <3>2 DEF Turn
  <2>3. CASE \E op \in {"publish", "subscribe", "unsubscribe"} : Refused(op)
    <3>1. PICK k, s : Turn(k, s) /\ RefusedOutcome(s) BY <1>1, <2>3, RefusedCases
    <3>2. s.call.op # "connect" BY <3>1, NoCallType DEF RefusedOutcome, Over
    <3> QED BY <1>2, <3>1, <3>2 DEF Turn
  <2> QED BY <1>5, <2>1, <2>2, <2>3, LevelsType DEF App_call
<1>6. CASE App_yield
  <2>1. yield BY <1>6 DEF App_yield
  <2>2. PICK s : Turn(NoCall, s) /\ YieldOutcome(s) BY <1>1, <2>1, YieldCases
  <2>3. s.call.op # "connect" BY <1>1, <2>1, <2>2, YieldCases DEF YieldOutcome
  <2> QED BY <1>2, <2>2, <2>3 DEF Turn
<1>7. CASE Client
  <2>1. CASE Turns
    <3>1. PICK p \in Input, n \in Nat : turn(p, n) BY <1>1, <2>1, InputOfTurn
    <3>2. PICK r, s : /\ Cycles(r, c, p) /\ TurnOK(s) /\ TurnOutcome(r, s, p)
                      /\ TurnWith(call, Both(r, s), n)
      BY <1>1, <3>1, TurnCases
    <3>3. s.call.op = "connect" => ~s.c.isconnected BY <1>1, <3>2, OfflineTurned
    <3>4. Both(r, s).c = s.c /\ Both(r, s).call = s.call BY <3>2 DEF Both, TurnOK
    <3> QED BY <1>2, <3>2, <3>3, <3>4
  <2>2. CASE timer_over
    <3>1. PICK s, more : UnansweredOutcome(s, c) /\ TurnWith(call, s, more) BY <1>1, <2>2, TimerCases
    <3>2. s.call.op = "connect" => ~s.c.isconnected
      BY <1>1, <3>1, OfflineUnanswered, NoCallType DEF Offline
    <3> QED BY <1>2, <3>1, <3>2
  <2>3. CASE idle_over \/ ping_over
    <3>1. Core(c') = Core(c) /\ call' = call BY <1>1, <2>3, TimersOnly
    <3> QED BY <3>1 DEF Core, Offline
  <2> QED BY <1>7, <2>1, <2>2, <2>3 DEF Client, Within, Turns
<1>8. CASE Broker \/ Broker_forward \/ Break \/ Reopen \/ UNCHANGED vars
  <2>1. c' = c /\ call' = call
    BY <1>8 DEF Broker, Broker_connect, Broker_refuse, Broker_close, Broker_publish, Broker_pubrel,
       Broker_ack, Broker_subscribe, Broker_suback, Broker_unsubscribe, Broker_ping, Broker_forward,
       BrokerOnly, Break, Reopen, vars, clientVars
  <2> QED BY <2>1 DEF Offline
<1> QED BY <1>3, <1>4, <1>5, <1>6, <1>7, <1>8 DEF Next

\* A turn that is given a part of a packet leaves no session.
LEMMA RestEnds ==
  ASSUME QoSFits, Types, Tracked, NEW n, turn(Rest, n)
  PROVE  ~c'.isconnected
<1>1. ClientTypes /\ c \in Object /\ Rest.type = SHORT BY DEF Types, ClientTypes, Rest
<1>2. Rest \in Input BY DEF Rest, Input, DownPacket
<1>3. PICK r, s : /\ Cycles(r, c, Rest) /\ TurnOK(s) /\ TurnOutcome(r, s, Rest)
                  /\ TurnWith(call, Both(r, s), n)
  BY <1>1, <1>2, TurnCases
<1>4. c' = s.c BY <1>3 DEF Both, TurnOK, TurnWith
<1>5. SHORT # call.await BY <1>1 DEF ClientTypes, Waiting, Call, SHORT
<1> SUFFICES ASSUME s.c.isconnected PROVE FALSE BY <1>4
<1>6. c.isconnected BY <1>1, <1>2, <1>3, <1>5, TurnConnects
<1>7. ~r.c.isconnected /\ r.c \in Object BY <1>1, <1>3 DEF Cycles
<1>8. r.c.inflight.id # 0 => AckAwaited(r.c.inflight.qos) # "none"
  <2>1. Core(r.c) = Core(c) \/ Core(r.c) = Core(closeSession(c)) BY <1>3 DEF Cycles
  <2>2. Keeps(r.c, c) BY <1>1, <1>7, <2>1, KeepsSame
  <2> QED BY <2>2 DEF Tracked, Keeps
<1>9. ~UnansweredOutcome(s, r.c) BY <1>7, <1>8, UnansweredConnects
<1>10. s # Wait(r.c, NoWrite, call) BY <1>7 DEF Wait
<1> QED BY <1>1, <1>3, <1>5, <1>9, <1>10 DEF TurnOutcome

\* On a connection that is up every packet comes whole, but the first when a
\* timer has cut it, which ended the session.
Whole == link = "up" =>
           \A i \in 1..Len(down) : down[i].type = SHORT => i = 1 /\ ~c.isconnected

LEMMA WholeAppended ==
  ASSUME Whole, c'.isconnected => c.isconnected, down \in Seq(DownPacket), NEW S, NEW s \in Seq(S),
         \A i \in 1..Len(s) : s[i].type # SHORT, down' = down \o s, link' = link
  PROVE  Whole'
<1> DEFINE T == DownPacket \cup S
<1>0. down \in Seq(T) /\ s \in Seq(T) OBVIOUS
<1> HIDE DEF T
<1> SUFFICES ASSUME link = "up", NEW i \in 1..Len(down'), down'[i].type = SHORT
             PROVE  i = 1 /\ ~c'.isconnected
  BY DEF Whole
<1>1. Len(down) \in Nat /\ Len(s) \in Nat OBVIOUS
<1>2. /\ Len(down') = Len(down) + Len(s)
      /\ \A j \in 1..(Len(down) + Len(s)) :
           down'[j] = IF j <= Len(down) THEN down[j] ELSE s[j - Len(down)]
  BY <1>0, ConcatProperties
<1>3. CASE i <= Len(down)
  <2>1. i \in 1..Len(down) /\ down'[i] = down[i] BY <1>1, <1>2, <1>3
  <2> QED BY <2>1 DEF Whole
<1>4. CASE ~(i <= Len(down))
  <2>1. i - Len(down) \in 1..Len(s) /\ down'[i] = s[i - Len(down)] BY <1>1, <1>2, <1>4
  <2> QED BY <2>1
<1> QED BY <1>3, <1>4

LEMMA WholeOne ==
  ASSUME Whole, c'.isconnected => c.isconnected, down \in Seq(DownPacket), NEW p, p.type # SHORT,
         down' = down \o <<p>>, link' = link
  PROVE  Whole'
<1>1. <<p>> \in Seq({p}) /\ Len(<<p>>) = 1 /\ <<p>>[1] = p OBVIOUS
<1>2. \A i \in 1..Len(<<p>>) : <<p>>[i].type # SHORT BY <1>1
<1> QED BY <1>1, <1>2, WholeAppended

LEMMA WholeTail ==
  ASSUME Whole, down \in Seq(DownPacket), down # <<>>, down' = Tail(down), link' = link
  PROVE  Whole'
<1>1. /\ Len(down') = Len(down) - 1 /\ Len(down) \in Nat
      /\ \A i \in 1..Len(down') : down'[i] = down[i + 1]
  BY HeadTailProperties
<1>2. \A i \in 1..Len(down') : i + 1 \in 1..Len(down) /\ i + 1 # 1 BY <1>1
<1> QED BY <1>1, <1>2 DEF Whole

LEMMA WholeThinned ==
  ASSUME Whole, down \in Seq(DownPacket), Thinned(down', down), link' = link, ~c'.isconnected
  PROVE  Whole'
<1> SUFFICES ASSUME link = "up", NEW i \in 1..Len(down'), down'[i].type = SHORT, i # 1 PROVE FALSE
  BY DEF Whole
<1>1. PICK k \in 0..Len(down) :
        /\ Len(down') = Len(down) - k
        /\ \A j \in 1..Len(down') : down'[j] = down[j + k] \/ j = 1
  BY DEF Thinned
<1>2. Len(down) \in Nat /\ k \in Nat OBVIOUS
<1>3. i + k \in 1..Len(down) /\ i + k # 1 BY <1>1, <1>2
<1> QED BY <1>1, <1>3 DEF Whole

LEMMA WholeNext ==
  ASSUME QoSFits, Types, Tracked, Whole, [Next]_vars
  PROVE  Whole'
<1>0. /\ down \in Seq(DownPacket) /\ b \in BrokerObject /\ ChannelTypes
      /\ SHORT \notin {"CONNACK", "PUBLISH", "PUBACK", "PUBREC", "PUBREL", "PUBCOMP",
                       "SUBACK", "UNSUBACK", "PINGRESP"}
  BY DEF Types, ChannelTypes, BrokerTypes, SHORT
<1>a. CASE c'.isconnected /\ ~c.isconnected
  <2>1. down # <<>> /\ down' = Tail(down) /\ turn_packet BY <1>a, NewSession DEF Within
  <2>2. link' = link BY <2>1 DEF turn_packet, turn
  <2> QED BY <1>0, <2>1, <2>2, WholeTail
<1>b. SUFFICES ASSUME c'.isconnected => c.isconnected PROVE Whole' BY <1>a
<1>1. ASSUME link' = link, down' = down PROVE Whole' BY <1>1, <1>b DEF Whole
<1>2. CASE \/ App_connect \/ App_publish \/ App_call \/ App_yield
           \/ Within(timer_over) \/ Within(idle_over) \/ Within(ping_over) \/ UNCHANGED vars
  <2>1. link' = link /\ down' = down
    BY <1>2 DEF App_connect, App_publish, App_call, App_yield, Within, connect, publish,
       subscribe, unsubscribe, Request, disconnect, Refused, yield, timer_over, idle_over, ping_over,
       vars
  <2> QED BY <1>1, <2>1
<1>3. CASE Within(Turns)
  <2>1. PICK p \in Input, n \in Nat : turn(p, n) /\ TakenAs(p, n)
    BY <1>0, <1>3, InputOfTurn DEF Within
  <2>2. link' = link BY <2>1 DEF turn
  <2>3. CASE down # <<>> /\ down' = Tail(down) BY <1>0, <2>2, <2>3, WholeTail
  <2>4. CASE p = Rest /\ Thinned(down', down)
    <3>1. ~c'.isconnected BY <2>1, <2>4, RestEnds
    <3> QED BY <1>0, <2>2, <2>4, <3>1, WholeThinned
  <2>5. CASE down' = down BY <1>1, <2>2, <2>5
  <2> QED BY <2>1, <2>3, <2>4, <2>5 DEF TakenAs
<1>4. CASE Break \/ Broker_close \/ Broker_refuse
  <2>1. link' = "down" BY <1>4 DEF Break, Broker_close, Broker_refuse, Cut
  <2> QED BY <2>1 DEF Whole
<1>5. CASE Reopen
  <2>1. down' = down /\ \A i \in DOMAIN down : down[i].type # SHORT BY <1>5 DEF Reopen
  <2>2. DOMAIN down = 1..Len(down) BY <1>0
  <2> QED BY <2>1, <2>2 DEF Whole
<1>6. CASE Broker_connect
  <2> DEFINE a == [type |-> "CONNACK", rc |-> SUCCESS]
             s == <<a>> \o Again(b'.out)
  <2>1. down' = down \o s /\ link' = link BY <1>6 DEF Broker_connect, Answers
  <2>2. b' \in BrokerObject BY <1>6, BrokerConnectTypes DEF Types, BrokerTypes
  <2>3. /\ Again(b'.out) \in Seq(DownPacket) /\ Len(Again(b'.out)) \in Nat
        /\ \A i \in 1..Len(Again(b'.out)) : Again(b'.out)[i].type \in {"PUBREL", "PUBLISH"}
    BY <2>2, AgainType DEF BrokerObject
  <2>4. a \in DownPacket /\ a.type = "CONNACK" BY DEF DownPacket
  <2> HIDE DEF a
  <2>5. <<a>> \in Seq(DownPacket) /\ Len(<<a>>) = 1 /\ <<a>>[1] = a BY <2>4
  <2>6. s \in Seq(DownPacket) BY <2>3, <2>5, ConcatProperties
  <2>7. ASSUME NEW i \in 1..Len(s) PROVE s[i].type # SHORT
    <3>1. /\ Len(s) = 1 + Len(Again(b'.out))
          /\ s[i] = IF i <= 1 THEN <<a>>[i] ELSE Again(b'.out)[i - 1]
      BY <2>3, <2>5, <2>7, ConcatProperties
    <3>2. CASE i <= 1
      <4>1. i = 1 BY <3>2
      <4> QED BY <1>0, <2>4, <2>5, <3>1, <4>1
    <3>3. CASE ~(i <= 1)
      <4>1. i - 1 \in 1..Len(Again(b'.out)) BY <2>3, <3>1, <3>3
      <4> QED BY <1>0, <2>3, <3>1, <3>3, <4>1
    <3> QED BY <3>2, <3>3
  <2> HIDE DEF s
  <2> QED BY <1>0, <1>b, <2>1, <2>6, <2>7, WholeAppended
<1>7. CASE Broker_publish
  <2>1. link' = link /\ Answers(CASE Head(up).qos = 0 -> <<>>
                 [] Head(up).qos = 1 -> <<[type |-> "PUBACK", id |-> Head(up).id]>>
                 [] Head(up).qos = 2 -> <<[type |-> "PUBREC", id |-> Head(up).id]>>)
    BY <1>7 DEF Broker_publish
  <2>2. Head(up).qos \in 0..2
    <3>1. Head(up) \in UpPacket /\ Head(up).type = "PUBLISH"
      BY <1>7, HeadUp DEF Types, ClientTypes, Broker_publish, Reads
    <3> QED BY <3>1, UpFields, LevelsType
  <2> DEFINE puback == [type |-> "PUBACK", id |-> Head(up).id]
             pubrec == [type |-> "PUBREC", id |-> Head(up).id]
             q == Head(up).qos
  <2>3. down' = down \o (CASE q = 0 -> <<>> [] q = 1 -> <<puback>> [] q = 2 -> <<pubrec>>)
    BY <2>1 DEF Answers
  <2>5. puback.type = "PUBACK" /\ pubrec.type = "PUBREC" OBVIOUS
  <2> HIDE DEF puback, pubrec, q
  <2>6. down' \in {down \o <<>>, down \o <<puback>>, down \o <<pubrec>>}
    <3>1. q \in {0, 1, 2} BY <2>2 DEF q
    <3>2. CASE q = 0 BY <2>3, <3>2
    <3>3. CASE q = 1 BY <2>3, <3>3
    <3>4. CASE q = 2 BY <2>3, <3>4
    <3> QED BY <3>1, <3>2, <3>3, <3>4
  <2>4. CASE down' = down \o <<>>
    <3>1. down' = down BY <1>0, <2>4, ConcatEmptySeq
    <3> QED BY <1>1, <2>1, <3>1
  <2> QED BY <1>0, <1>b, <2>1, <2>4, <2>5, <2>6, WholeOne
<1>8. CASE Broker_pubrel \/ Broker_unsubscribe \/ Broker_ping \/ Broker_suback
  <2>1. PICK p : link' = link /\ down' = down \o <<p>> /\ p.type \in {"PUBCOMP", "UNSUBACK", "PINGRESP", "SUBACK"}
    <3>1. CASE Broker_pubrel
      <4> DEFINE p == [type |-> "PUBCOMP", id |-> Head(up).id]
      <4>1. link' = link /\ down' = down \o <<p>> BY <3>1 DEF Broker_pubrel, Answers
      <4>2. p.type = "PUBCOMP" OBVIOUS
      <4> HIDE DEF p
      <4> QED BY <4>1, <4>2
    <3>2. CASE Broker_unsubscribe
      <4> DEFINE p == [type |-> "UNSUBACK", id |-> Head(up).id]
      <4>1. link' = link /\ down' = down \o <<p>> BY <3>2 DEF Broker_unsubscribe, Answers
      <4>2. p.type = "UNSUBACK" OBVIOUS
      <4> HIDE DEF p
      <4> QED BY <4>1, <4>2
    <3>3. CASE Broker_ping
      <4> DEFINE p == [type |-> "PINGRESP"]
      <4>1. link' = link /\ down' = down \o <<p>> BY <3>3 DEF Broker_ping, Answers
      <4>2. p.type = "PINGRESP" OBVIOUS
      <4> HIDE DEF p
      <4> QED BY <4>1, <4>2
    <3>4. CASE Broker_suback
      <4>1. link' = link /\ down' = down \o <<b.suback>> /\ b.suback # NoSuback
        BY <3>4 DEF Broker_suback, Answers
      <4>2. b.suback.type = "SUBACK" BY <1>0, <4>1 DEF BrokerObject, Suback
      <4> QED BY <4>1, <4>2
    <3> QED BY <1>8, <3>1, <3>2, <3>3, <3>4
  <2> QED BY <1>0, <1>b, <2>1, WholeOne
<1>9. CASE Broker_ack
  <2>1. link' = link /\ (down' = down \/ down' = down \o <<[type |-> "PUBREL", id |-> Head(up).id]>>)
    BY <1>9 DEF Broker_ack, Answers
  <2> QED BY <1>0, <1>b, <1>1, <2>1, WholeOne
<1>10. CASE Broker_subscribe BY <1>1, <1>10 DEF Broker_subscribe
<1>11. CASE Broker_forward
  <2>1. PICK p : link' = link /\ p.type = "PUBLISH" /\ (down' = down \/ down' = Append(down, p))
    BY <1>11 DEF Broker_forward
  <2>2. down' = down \/ down' = down \o <<p>> BY <1>0, <2>1, AppendIsConcat
  <2> QED BY <1>0, <1>b, <1>1, <2>1, <2>2, WholeOne
<1> QED BY <1>2, <1>3, <1>4, <1>5, <1>6, <1>7, <1>8, <1>9, <1>10, <1>11 DEF Next, Broker, Client, Within, Turns

\* As many slots as there are filters are enough: one is free, or has the filter.
HandlersSuffice == IsFiniteSet(Topics) /\ Cardinality(Topics) <= MAX_MESSAGE_HANDLERS

LEMMA SlotToHave ==
  ASSUME HandlersSuffice, NEW h \in [Slots -> Topics \cup {NoTopic}], HandlersOnce(h), NEW t \in Topics
  PROVE  \E i \in Slots : h[i] \in {NoTopic, t}
<1> SUFFICES ASSUME \A i \in Slots : h[i] \notin {NoTopic, t} PROVE FALSE OBVIOUS
<1> DEFINE others == Topics \ {t}
<1>1. IsFiniteSet(Slots) /\ Cardinality(Slots) = MAX_MESSAGE_HANDLERS
  BY ClientAssumption, FS_Interval DEF Slots
<1>2. IsFiniteSet(others) /\ Cardinality(others) = Cardinality(Topics) - 1
  BY FS_RemoveElement DEF HandlersSuffice
<1>3. Cardinality(Topics) \in Nat BY FS_CardinalityType DEF HandlersSuffice
<1>4. h \in [Slots -> others] OBVIOUS
<1> HIDE DEF others
<1>5. Cardinality(others) < Cardinality(Slots)
  BY <1>1, <1>2, <1>3, ClientAssumption DEF HandlersSuffice
<1>6. \E i, j \in Slots : i # j /\ h[i] = h[j] BY <1>1, <1>2, <1>4, <1>5, FS_PigeonHole
<1> QED BY <1>6 DEF HandlersOnce

\* What ends a session on a connection that is up.
LEMMA TurnCloses ==
  ASSUME HandlersSuffice, QoSFits, Types, Once(c), Offline,
         NEW p \in Input, p.type # SHORT, NEW r, NEW s, Cycles(r, c, p), TurnOK(s),
         TurnOutcome(r, s, p), c.isconnected, ~s.c.isconnected
  PROVE  r.out.failed > 0 \/ PingFails(c)
<1>1. c \in Object /\ call.op # "connect" BY DEF Types, ClientTypes, Offline
<1>2. Unexpected = {SHORT} BY DEF Unexpected, Acks, Qos2Used, QoSFits
<1>3. CASE ~r.c.isconnected BY <1>2, <1>3 DEF Cycles
<1>4. CASE r.c.isconnected
  <2>1. Core(r.c) = Core(c) /\ r.c \in Object /\ r.rc # FAILURE
    BY <1>1, <1>4, CloseType DEF Cycles, Core
  <2>2. s # Wait(r.c, NoWrite, call) BY <1>4 DEF Wait
  <2>3. AnsweredOutcome(s, r.c, p) BY <2>1, <2>2 DEF TurnOutcome
  <2>4. PICK h \in Object : /\ Session(h) = Session(r.c)
                            /\ \/ s.c = h
                               \/ /\ call.topic \in Topics
                                  /\ \A i \in Slots : r.c.handlers[i] \notin {NoTopic, call.topic}
    BY <1>1, <1>4, <2>3 DEF AnsweredOutcome
  <2>5. h.isconnected BY <1>4, <2>4 DEF Session
  <2>6. call.topic \in Topics /\ \A i \in Slots : r.c.handlers[i] \notin {NoTopic, call.topic}
    BY <2>4, <2>5
  <2>7. Once(r.c) /\ r.c.handlers \in [Slots -> Topics \cup {NoTopic}]
    BY <1>1, <2>1, OnceSame DEF Object
  <2> QED BY <2>6, <2>7, SlotToHave DEF Once
<1> QED BY <1>3, <1>4

LEMMA ClosesForCause ==
  ASSUME HandlersSuffice, QoSFits, Types, Once(c), Offline, Whole, [Next]_vars,
         c.isconnected, ~c'.isconnected, link # "down"
  PROVE  faults' > faults \/ PingFails(c) \/ ret'.call.op = "disconnect"
<1>1. ClientTypes /\ ChannelTypes /\ c \in Object /\ faults \in Nat
  BY APIAssumption DEF Types, ClientTypes
<1>2. ASSUME NEW k, NEW s, NEW more \in Nat, TurnWith(k, s, more), TurnOK(s),
             more > 0 \/ s.out.failed > 0
      PROVE  faults' > faults
  BY <1>1, <1>2 DEF TurnWith, TurnOK
<1>3. ASSUME NEW k, NEW s, NEW more, TurnWith(k, s, more)
      PROVE  ~s.c.isconnected
  BY <1>3 DEF TurnWith
<1>4. CASE App_connect
  <2>1. connect BY <1>4 DEF App_connect
  <2>2. PICK s : Turn(ConnectCall, s) /\ ConnectOutcome(s) BY <1>1, <2>1, ConnectCases
  <2> QED BY <1>3, <2>2 DEF Turn, ConnectOutcome
<1>5. CASE App_publish
  <2>1. PICK m \in OutMsgs, q \in Levels : publish(m, q) BY <1>5, LevelsType DEF App_publish
  <2> DEFINE e == Saved(Numbered(q), PublishId(q), q, m)
             p == PublishPacket(PublishId(q), q, m)
             k == PublishCall(q, m)
  <2>2. e \in Object /\ e.isconnected BY <1>1, <2>1, NumberedType
  <2>3. \E s : TurnOK(s) /\ Turn(k, s) /\ PublishOutcome(s, e, p, q, k, FALSE) BY <1>1, <2>1, PublishStarts
  <2> HIDE DEF e, p, k
  <2>4. PICK s : TurnOK(s) /\ Turn(k, s) /\ PublishOutcome(s, e, p, q, k, FALSE) BY <2>3
  <2>5. ~s.c.isconnected BY <1>3, <2>4 DEF Turn
  <2>6. s.out.failed > 0 BY <2>2, <2>4, <2>5 DEF PublishOutcome, Core
  <2> QED BY <1>2, <2>4, <2>6 DEF Turn
<1>6. CASE App_call
  <2>1. CASE \/ \E t \in Topics, q \in Levels : subscribe(t, q)
             \/ \E t \in Topics : unsubscribe(t)
    <3>1. PICK k, s : TurnOK(s) /\ Turn(k, s) /\ RequestOutcome(s, k)
      BY <1>1, <2>1, SubscribeStarts, UnsubscribeStarts
    <3>2. Advanced.isconnected /\ ~s.c.isconnected BY <1>1, <1>3, <3>1, AdvancedType DEF Turn
    <3>3. s.out.failed > 0 BY <3>1, <3>2 DEF RequestOutcome, Core
    <3> QED BY <1>2, <3>1, <3>3 DEF Turn
  <2>2. CASE disconnect
    <3>1. DisconnectCall.op = "disconnect" BY <1>1, <2>2, DisconnectCases
    <3>2. PICK s : Turn(DisconnectCall, s) /\ DisconnectOutcome(s) BY <1>1, <2>2, DisconnectCases
    <3>3. ret' = [call |-> DisconnectCall, rc |-> s.rc] BY <3>2 DEF Turn, TurnWith, DisconnectOutcome
    <3> QED BY <3>1, <3>3
  <2>3. ~\E op \in {"publish", "subscribe", "unsubscribe"} : Refused(op) BY DEF Refused
  <2> QED BY <1>6, <2>1, <2>2, <2>3, LevelsType DEF App_call
<1>7. CASE App_yield
  <2>1. yield BY <1>7 DEF App_yield
  <2>2. PICK s : Turn(NoCall, s) /\ YieldOutcome(s) BY <1>1, <2>1, YieldCases
  <2> QED BY <1>3, <2>2 DEF Turn, YieldOutcome
<1>8. CASE Client
  <2>1. CASE Turns
    <3>1. PICK p \in Input, n \in Nat : turn(p, n) /\ TakenAs(p, n) BY <1>1, <2>1, InputOfTurn
    <3>3. PICK r, s : /\ Cycles(r, c, p) /\ TurnOK(s) /\ TurnOutcome(r, s, p)
                      /\ TurnOK(Both(r, s)) /\ TurnWith(call, Both(r, s), n)
      BY <1>1, <3>1, TurnCases
    <3>2. n > 0 \/ p.type # SHORT
      <4>1. ~(down # <<>> /\ Head(down).type = SHORT)
        <5>1. link = "up" /\ down \in Seq(DownPacket) BY <1>1 DEF ChannelTypes
        <5>2. down # <<>> => 1 \in 1..Len(down) /\ Head(down) = down[1] BY <5>1
        <5> QED BY <5>1, <5>2 DEF Whole
      <4>2. [type |-> TIMEOUT].type # SHORT BY DEF TIMEOUT, SHORT
      <4> QED BY <3>1, <4>1, <4>2 DEF TakenAs
    <3>4. Both(r, s).c = s.c /\ Both(r, s).out.failed = r.out.failed + s.out.failed
      BY <3>3 DEF Both, TurnOK, Then
    <3>5. ~s.c.isconnected BY <1>3, <3>3, <3>4
    <3>6. n > 0 \/ r.out.failed > 0 \/ PingFails(c) BY <3>2, <3>3, <3>5, TurnCloses
    <3>7. CASE r.out.failed > 0
      <4>1. Both(r, s).out.failed > 0 BY <3>3, <3>4, <3>7 DEF Cycles, TurnOK
      <4> QED BY <1>2, <3>3, <4>1
    <3>8. CASE n > 0 BY <1>2, <3>3, <3>8
    <3> QED BY <3>6, <3>7, <3>8
  <2>2. CASE timer_over
    <3>1. PICK s : TurnOK(s) /\ UnansweredOutcome(s, c) /\ TurnWith(call, s, Missed)
      BY <1>1, <2>2, TimerCases
    <3>2. ~s.c.isconnected BY <1>3, <3>1
    <3>3. call.op # "yield" /\ Answerable
      BY <1>1, <3>1, <3>2 DEF UnansweredOutcome, Offline, ChannelTypes, Answerable
    <3>4. TurnWith(call, s, 1) BY <3>1, <3>3 DEF Missed
    <3> QED BY <1>2, <3>1, <3>4
  <2>3. CASE idle_over \/ ping_over
    <3>1. Core(c') = Core(c) BY <1>1, <2>3, TimersOnly
    <3> QED BY <3>1 DEF Core
  <2> QED BY <1>8, <2>1, <2>2, <2>3 DEF Client, Within, Turns
<1>9. ~(Broker \/ Broker_forward \/ Break \/ Reopen \/ UNCHANGED vars)
  BY DEF Broker, Broker_connect, Broker_refuse, Broker_close, Broker_publish, Broker_pubrel,
     Broker_ack, Broker_subscribe, Broker_suback, Broker_unsubscribe, Broker_ping, Broker_forward,
     BrokerOnly, Break, Reopen, vars, clientVars
<1> QED BY <1>4, <1>5, <1>6, <1>7, <1>8, <1>9 DEF Next

Settled == Types /\ Once(c) /\ Offline /\ Tracked /\ Whole

LEMMA SettledInvariant ==
  ASSUME QoSFits
  PROVE  Spec => []Settled
<1>1. Init => Settled
  <2> SUFFICES ASSUME Init PROVE Settled OBVIOUS
  <2>1. Types BY InitTypes
  <2>2. c.handlers = [i \in Slots |-> NoTopic] BY DEF Init, ClientInit, NewClient
  <2>3. Once(c) BY <2>2 DEF Once, HandlersOnce
  <2>4. Offline BY DEF Init, ClientInit, NewClient, Offline
  <2>5. Whole BY DEF Init, Whole
  <2>6. Tracked BY DEF Init, ClientInit, NewClient, NoInflight, Tracked
  <2> QED BY <2>1, <2>3, <2>4, <2>5, <2>6 DEF Settled
<1>2. Settled /\ [Next]_vars => Settled'
  <2> SUFFICES ASSUME Settled, [Next]_vars PROVE Settled' OBVIOUS
  <2>1. Types' BY NextTypes DEF Settled
  <2>2. Once(c)' BY OnceNext DEF Settled
  <2>3. Offline' BY OfflineNext DEF Settled
  <2>4. Tracked' BY TrackedNext DEF Settled
  <2>5. Whole' BY WholeNext DEF Settled
  <2> QED BY <2>1, <2>2, <2>3, <2>4, <2>5 DEF Settled
<1> QED BY <1>1, <1>2, PTL DEF Spec

\* The client ends a session on a connection that works only when the
\* application disconnects, a write fails, the timer of a call is over while an
\* answer could come or cuts short the packet that is being read, or a ping
\* stays unanswered: nothing a broker sends makes it by what it says, if the
\* application uses no more filters than there are slots for handlers (else the
\* SUBACK of one too many ends it) and asks for QoS 2 only when it is compiled
\* in (else its PUBREC does).
THEOREM ClosedForCause ==
  ASSUME IsFiniteSet(Topics), Cardinality(Topics) <= MAX_MESSAGE_HANDLERS,
         MQTTCLIENT_QOS2 \/ 2 \notin QoSs
  PROVE  Spec => NoNeedlessClose
<1>1. HandlersSuffice /\ QoSFits BY DEF HandlersSuffice, QoSFits
<1>2. Settled /\ [Next]_vars
        => [c.isconnected /\ ~c'.isconnected
              => \/ link = "down" \/ faults' > faults \/ PingFails(c)
                 \/ ret'.call.op = "disconnect"]_vars
  BY <1>1, ClosesForCause DEF Settled
<1>3. Spec => []Settled BY <1>1, SettledInvariant
<1> QED BY <1>2, <1>3, PTL DEF Spec, NoNeedlessClose
===============================================================================
