---------------------------- MODULE MQTTSession -----------------------------
(***************************************************************************)
(* The private methods of MQTT::Client, as operators on c, the record of   *)
(* the object's fields.  A method that sends takes w, what becomes of the  *)
(* bytes it writes, and returns a record: the object afterwards, the       *)
(* return code, the packets written and the message given to handlers.     *)
(*                                                                         *)
(* A packet type stands for itself as a return code.  readPacket's other   *)
(* results are 0, nothing came in time, called TIMEOUT here, and 1, a      *)
(* packet whose body did not come in time, SHORT.  Every packet fits the   *)
(* client's buffer.                                                        *)
(***************************************************************************)
EXTENDS Integers, Sequences, FiniteSets

CONSTANTS MQTTCLIENT_QOS2,      \* the build option, off in the firmware
          MAX_MESSAGE_HANDLERS, \* slots for topic filters (5)
          MAX_INCOMING_QOS2_MESSAGES,
          MAX_PACKET_ID,        \* 65535
          KeepAlive,            \* options.keepAliveInterval > 0
          Topics

\* a slot without a filter
NoTopic == "none"

ASSUME ClientAssumption ==
  /\ MQTTCLIENT_QOS2 \in BOOLEAN /\ KeepAlive \in BOOLEAN
  /\ MAX_MESSAGE_HANDLERS \in Nat \ {0}
  /\ MAX_INCOMING_QOS2_MESSAGES \in Nat \ {0}
  /\ MAX_PACKET_ID \in Nat \ {0}
  /\ NoTopic \notin Topics

SUCCESS == "SUCCESS"
FAILURE == "FAILURE"
TIMEOUT == "TIMEOUT"
SHORT == "SHORT"

Slots == 1..MAX_MESSAGE_HANDLERS

\* slot i of the table of incoming QoS 2 ids; 0 is a free one
QoS2Slots == 1..MAX_INCOMING_QOS2_MESSAGES

NoInflight == [id |-> 0, qos |-> 0, msg |-> 0]

\* The lowest slot that satisfies a test, as the for loops find it.
First(S) == CHOOSE i \in S : \A j \in S : i <= j

-----------------------------------------------------------------------------
cleanSession(c) ==
  [c EXCEPT !.handlers = [i \in Slots |-> NoTopic],
            !.inflight = [@ EXCEPT !.id = 0, !.qos = 0], !.pubrel = FALSE,
            !.incoming = [i \in QoS2Slots |-> 0]]

\* slip: a session that is not clean is forgotten as well
closeSession_Cleans(c) ==
  cleanSession([c EXCEPT !.ping_outstanding = FALSE, !.isconnected = FALSE])
closeSession(c) ==
  LET d == [c EXCEPT !.ping_outstanding = FALSE, !.isconnected = FALSE]
  IN  IF c.cleansession THEN cleanSession(d) ELSE d

\* The object after its constructor, which leaves keepAliveInterval unset.
\* A Countdown starts expired.
NewClient(keepAlive) ==
  [isconnected |-> FALSE, ping_outstanding |-> FALSE, cleansession |-> TRUE,
   handlers |-> [i \in Slots |-> NoTopic],
   inflight |-> NoInflight, pubrel |-> FALSE,
   incoming |-> [i \in QoS2Slots |-> 0],
   nextId |-> 0,
   keepAlive |-> keepAlive, sentDue |-> TRUE, recvDue |-> TRUE, pingDue |-> TRUE]

\* slip: wraps one id too late
getNext_Late(c) == IF c.nextId > MAX_PACKET_ID THEN 1 ELSE c.nextId + 1
getNext(c) == IF c.nextId = MAX_PACKET_ID THEN 1 ELSE c.nextId + 1

-----------------------------------------------------------------------------
(* The table of incoming QoS 2 messages (compiled in with MQTTCLIENT_QOS2). *)

\* slip: a message is taken for new whenever there is room
isQoS2msgidFree_Always(c, id) == TRUE
isQoS2msgidFree(c, id) == \A i \in QoS2Slots : c.incoming[i] # id

RoomForQoS2(c) == {i \in QoS2Slots : c.incoming[i] = 0}

useQoS2msgid(c, id) ==
  [c EXCEPT !.incoming = [@ EXCEPT ![First(RoomForQoS2(c))] = id]]

freeQoS2msgid(c, id) ==
  LET S == {i \in QoS2Slots : c.incoming[i] = id}
  IN  IF S = {} THEN c ELSE [c EXCEPT !.incoming = [@ EXCEPT ![First(S)] = 0]]

-----------------------------------------------------------------------------
(***************************************************************************)
(* setMessageHandler, for a handler (adding) or for 0 (removing): the slot *)
(* that has the filter, else, when adding, a free one.                     *)
(***************************************************************************)
\* slip: a filter that has a slot is given another one
SlotsWith_None(c, topic) == {}
SlotsWith(c, topic) == {i \in Slots : c.handlers[i] = topic}

setMessageHandler(c, topic, adding) ==
  LET same == SlotsWith(c, topic)
      free == {i \in Slots : c.handlers[i] = NoTopic}
      slot == First(IF same # {} THEN same ELSE free)
  IN  IF ~adding
      THEN [c  |-> IF same = {} THEN c
                   ELSE [c EXCEPT !.handlers = [@ EXCEPT ![First(same)] = NoTopic]],
            rc |-> IF same = {} THEN FAILURE ELSE SUCCESS]
      ELSE IF same \cup free = {} THEN [c |-> c, rc |-> FAILURE]
      ELSE [c |-> [c EXCEPT !.handlers = [@ EXCEPT ![slot] = topic]], rc |-> SUCCESS]

NoDelivery == [msg |-> 0, times |-> 0]

\* deliverMessage calls the handler of every slot that matches.  No default
\* handler is ever set, and a filter here matches its own topic only.
deliverMessage(c, p) ==
  [msg |-> p.msg, times |-> Cardinality({i \in Slots : c.handlers[i] = p.topic})]

-----------------------------------------------------------------------------
(***************************************************************************)
(* Writing.  tcp_write and tcp_output take all of a packet or fail:        *)
(*   sent    all of it queued, and reported so                             *)
(*   failed  nothing queued, -1                                            *)
(*   late    queued, but -2 because tcp_output had an error                *)
(* What some writes come to is the packets that get out, in order, and how *)
(* many of the writes were reported as failed.                             *)
(***************************************************************************)
NoWrite == [sent |-> <<>>, failed |-> 0]
Write(p, w) == [sent   |-> IF w = "failed" THEN <<>> ELSE <<p>>,
                failed |-> IF w = "sent" THEN 0 ELSE 1]
Then(out1, out2) == [sent   |-> out1.sent \o out2.sent,
                     failed |-> out1.failed + out2.failed]

sendPacket(c, p, w) ==
  [c   |-> IF w = "sent" /\ c.keepAlive THEN [c EXCEPT !.sentDue = FALSE] ELSE c,
   rc  |-> IF w = "sent" THEN SUCCESS ELSE FAILURE,
   out |-> Write(p, w)]

\* slip: an overdue answer is not a failure
PingFails_Never(c) == FALSE
PingFails(c) == c.ping_outstanding /\ c.pingDue

keepalive(c, w) ==
  LET ping == sendPacket(c, [type |-> "PINGREQ"], w)
  IN  IF ~c.keepAlive
      THEN [c |-> c, rc |-> SUCCESS, out |-> NoWrite]
      ELSE IF PingFails(c)
      THEN [c |-> c, rc |-> FAILURE, out |-> NoWrite]
      ELSE IF c.ping_outstanding \/ ~(c.sentDue \/ c.recvDue)
      THEN [c |-> c, rc |-> SUCCESS, out |-> NoWrite]
      ELSE [ping EXCEPT !.c = IF ping.rc = SUCCESS
                              THEN [@ EXCEPT !.ping_outstanding = TRUE,
                                             !.pingDue = FALSE]
                              ELSE @]

-----------------------------------------------------------------------------
(***************************************************************************)
(* cycle: one packet, what the client has to do about it, and keepalive.   *)
(***************************************************************************)
\* slip: the answer to PUBREL has no case
Ignored_NoPubcomp == {TIMEOUT, "CONNACK", "PUBACK", "SUBACK", "UNSUBACK"}
\* slip: nor has the answer to UNSUBSCRIBE
Ignored_NoUnsuback == {TIMEOUT, "CONNACK", "PUBACK", "SUBACK", "PUBCOMP"}
Ignored == {TIMEOUT, "CONNACK", "PUBACK", "SUBACK", "UNSUBACK"}
               \cup (IF MQTTCLIENT_QOS2 THEN {"PUBCOMP"} ELSE {})

Keep(c) == [c |-> c, rc |-> SUCCESS, out |-> NoWrite, got |-> NoDelivery]

\* Is the message of PUBLISH p one to give to a handler?
IsNew(c, p) == ~MQTTCLIENT_QOS2 \/ p.qos # 2
                 \/ (isQoS2msgidFree(c, p.id) /\ RoomForQoS2(c) # {})

AckOf(p) == [type |-> IF p.qos = 1 THEN "PUBACK" ELSE "PUBREC", id |-> p.id]

onPublish(c, p, w) ==
  LET d   == IF MQTTCLIENT_QOS2 /\ p.qos = 2 /\ IsNew(c, p)
             THEN useQoS2msgid(c, p.id) ELSE c
      got == IF IsNew(c, p) THEN deliverMessage(c, p) ELSE NoDelivery
      s   == sendPacket(d, AckOf(p), w)
  IN  IF p.qos = 0 THEN [Keep(d) EXCEPT !.got = got]
                   ELSE [c |-> s.c, rc |-> s.rc, out |-> s.out, got |-> got]

onPubrecPubrel(c, p, w) ==
  LET s == sendPacket(c, [type |-> IF p.type = "PUBREC" THEN "PUBREL" ELSE "PUBCOMP",
                          id |-> p.id], w)
  IN  [c   |-> IF s.rc = SUCCESS /\ p.type = "PUBREL" THEN freeQoS2msgid(s.c, p.id)
                                                      ELSE s.c,
       rc  |-> s.rc, out |-> s.out, got |-> NoDelivery]

\* What the switch does; types it has no case for end the session.
onPacket(c, p, w) ==
  IF p.type \in Ignored THEN Keep(c)
  ELSE IF p.type = "PUBLISH" THEN onPublish(c, p, w)
  ELSE IF p.type = "PINGRESP" THEN Keep([c EXCEPT !.ping_outstanding = FALSE])
  ELSE IF MQTTCLIENT_QOS2 /\ p.type \in {"PUBREC", "PUBREL"}
  THEN onPubrecPubrel(c, p, w)
  ELSE [Keep(c) EXCEPT !.rc = p.type]

AtExit(c) == IF c.isconnected THEN closeSession(c) ELSE c

cycle(c, p, w, w2) ==
  LET read == IF p.type \in {TIMEOUT, SHORT} \/ ~c.keepAlive
              THEN c ELSE [c EXCEPT !.recvDue = FALSE]
      r == onPacket(read, p, w)
      k == keepalive(r.c, w2)
  IN  IF r.rc # SUCCESS THEN [r EXCEPT !.c = AtExit(r.c)]
      ELSE IF k.rc # SUCCESS
      THEN [c |-> AtExit(k.c), rc |-> FAILURE, out |-> Then(r.out, k.out), got |-> r.got]
      ELSE [c |-> k.c, rc |-> p.type, out |-> Then(r.out, k.out), got |-> r.got]
=============================================================================
