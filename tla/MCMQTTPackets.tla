---------------------------- MODULE MCMQTTPackets ----------------------------
(***************************************************************************)
(* Streams that between them hold every packet and both sides of the first *)
(* boundary of the remaining length, and one for each short topic.         *)
(***************************************************************************)
EXTENDS MQTTReader, TLC

a == 97
b == 98
Run(n) == [i \in 1..n |-> i % 256]
Publish(dup, qos, retained, topic, id, payload) ==
  [type |-> PUBLISH, dup |-> dup, qos |-> qos, retained |-> retained, topic |-> topic, id |-> id,
   payload |-> payload]
Ack(type, id) == [type |-> type, dup |-> FALSE, id |-> id]
Connect(version, will, username, password) ==
  [type |-> CONNECT, version |-> version, cleansession |-> version = 4, keepalive |-> 300,
   clientID |-> <<a, b>>, will |-> will, username |-> username, password |-> password]

\* Topics and filters of up to four characters whose levels are not empty.
Proper(s) == /\ s # <<>> /\ s[1] # Slash /\ s[Len(s)] # Slash
             /\ \A i \in 1..(Len(s) - 1) : <<s[i], s[i + 1]>> # <<Slash, Slash>>
Strings(chars, n) == UNION {[1..k -> chars] : k \in 1..n}
Topics == {s \in Strings({a, b, Slash}, 4) : Proper(s)}
\* A wildcard fills its level, and # is the last.
MCFilters ==
  {s \in Strings({a, Slash, Plus, Hash}, 5) :
     /\ Proper(s)
     /\ \A i \in DOMAIN s : s[i] \in {Plus, Hash} =>
          /\ i > 1 => s[i - 1] = Slash
          /\ i < Len(s) => s[i] = Plus /\ s[i + 1] = Slash}

Down ==
  { <<[type |-> CONNACK, sessionPresent |-> TRUE, rc |-> 5],
      [type |-> SUBACK, id |-> 258, granted |-> <<2>>], Publish(FALSE, 0, FALSE, <<a>>, 0, <<7>>)>>,
    <<Publish(TRUE, 2, TRUE, <<a, Slash, b>>, 65535, <<>>), Ack(PUBREL, 256), [type |-> PINGRESP]>>,
    <<Ack(PUBACK, 1), [type |-> UNSUBACK, id |-> 2], Ack(PUBREC, 3), Ack(PUBCOMP, 255)>>,
    <<Publish(FALSE, 1, FALSE, <<a>>, 9, Run(122)), [type |-> PINGRESP]>>,
    <<Publish(FALSE, 1, FALSE, <<a>>, 9, Run(123)), [type |-> PINGRESP]>> }
Up ==
  { <<Connect(4, <<[topic |-> <<a>>, message |-> <<>>, qos |-> 2, retained |-> TRUE]>>, <<>>, <<>>),
      [type |-> DISCONNECT]>>,
    <<Connect(3, <<>>, <<<<a>>>>, <<<<b, b>>>>), [type |-> PINGREQ]>>,
    <<[type |-> SUBSCRIBE, dup |-> FALSE, id |-> 7, filters |-> << <<<<a>>, 1>>, <<<<Hash>>, 2>> >>],
      [type |-> UNSUBSCRIBE, dup |-> TRUE, id |-> 8, filters |-> << <<a>>, <<Plus>> >>]>> }
OneTopic == {<<Publish(FALSE, 0, FALSE, t, 0, <<>>)>> : t \in Topics}

MCSegments(ps) == IF Len(BytesOf(ps)) > 100 THEN {33, 100} ELSE {1}
MCStreams(r) == Down \cup OneTopic \cup (IF r \in {"read", "nb"} THEN Up ELSE {})
==============================================================================
