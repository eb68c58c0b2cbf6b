----------------------------- MODULE MQTTSystem -----------------------------
(***************************************************************************)
(* The client with an application that calls it, the TCP connection below  *)
(* it and a broker that keeps to MQTT 3.1.                                 *)
(***************************************************************************)
EXTENDS MQTTClient, SequencesExt

CONSTANTS Reopens,      \* the application opens a new connection for a broken one
          Topic,        \* the topic of every message of others
          InQoSs,       \* the QoS values they are published with
          DrainsFirst,  \* and reads out what is left of the broken one before
          Refuses,      \* the broker may refuse a session or a subscription
          MaxBreaks,    \* bound on broken connections
          MaxCalls,     \* bound on calls other than connect, publish and yield
          MaxQueue      \* bound on packets on their way up when connect is called

ASSUME SystemAssumption ==
  /\ Reopens \in BOOLEAN /\ DrainsFirst \in BOOLEAN
  /\ Refuses \in BOOLEAN
  /\ Topic \in Topics /\ InQoSs \subseteq 0..2
  /\ MaxBreaks \in Nat /\ MaxCalls \in Nat /\ MaxQueue \in Nat

(***************************************************************************)
(* The broker: it has accepted a CONNECT on this connection (on), subs is  *)
(* the QoS it grants the client for each topic, suback the answer it owes, *)
(* released the ids of QoS 2 messages of the client it has and waits to    *)
(* see released, out the messages for the client not yet acknowledged.     *)
(***************************************************************************)
VARIABLES b,
          got,    \* how often the broker has each of the client's messages
          acked,  \* the client's messages it has sent the last ack for
          fresh,  \* messages nobody has published yet
          promised, \* the client's messages published at QoS 1 or 2
          breaks, calls

vars == <<clientVars, link, down, faults, b, got, acked, fresh, promised, breaks, calls>>
brokerVars == <<b, got, acked, fresh>>

NotSubscribed == -1
NoSuback == [type |-> "none"]

Init == /\ ClientInit
        /\ link = "up" /\ down = <<>> /\ faults = 0
        /\ b = [on |-> FALSE, subs |-> [t \in Topics |-> NotSubscribed],
                suback |-> NoSuback, held |-> {}, out |-> <<>>]
        /\ got = [m \in OutMsgs |-> 0]
        /\ acked = {}
        /\ fresh = InMsgs \cup OutMsgs /\ promised = {}
        /\ breaks = 0 /\ calls = 0

-----------------------------------------------------------------------------
(***************************************************************************)
(* The connection.  When it breaks, what is on its way up is lost, and of  *)
(* what is on its way down a part may have reached the ring, the last      *)
(* packet without its body.  A new connection finds it there:              *)
(* IPStack::connect leaves the ring alone.  A packet cut short is read out *)
(* before, or bytes of the new connection would be taken for its body.     *)
(***************************************************************************)
Cut == /\ link' = "down"
       /\ up' = <<>>
       /\ \E n \in 0..Len(down) :
            \/ down' = SubSeq(down, 1, n)
            \/ n < Len(down) /\ down' = Append(SubSeq(down, 1, n), Rest)

Break == /\ link = "up" /\ breaks < MaxBreaks
         /\ breaks' = breaks + 1
         /\ Cut
         /\ b' = [b EXCEPT !.on = FALSE, !.suback = NoSuback]
         /\ UNCHANGED <<c, call, ret, heard, faults, got, acked, fresh, promised, calls>>

Reopen == /\ Reopens /\ link = "down" /\ Idle
          /\ DrainsFirst => down = <<>>
          /\ \A i \in DOMAIN down : down[i].type # SHORT
          /\ link' = "up"
          /\ UNCHANGED <<clientVars, down, faults, brokerVars, promised, breaks, calls>>

-----------------------------------------------------------------------------
(* The broker.                                                             *)

\* It reads packet p and answers.
Reads(p) == link = "up" /\ up # <<>> /\ Head(up).type = p /\ up' = Tail(up)
Answers(s) == down' = down \o s

BrokerOnly == UNCHANGED <<c, call, ret, heard, faults, breaks, calls,
                        fresh, promised>>

\* Messages of the session are sent again, or their release.
Again(out) == [i \in DOMAIN out |-> IF out[i].rel
                 THEN [type |-> "PUBREL", id |-> out[i].id]
                 ELSE [type |-> "PUBLISH", id |-> out[i].id, qos |-> out[i].qos,
                       msg |-> out[i].msg, topic |-> Topic]]

Broker_connect ==
  /\ Reads("CONNECT") /\ ~b.on
  /\ b' = IF Head(up).clean
          THEN [b EXCEPT !.on = TRUE, !.subs = [t \in Topics |-> NotSubscribed],
                         !.held = {}, !.out = <<>>]
          ELSE [b EXCEPT !.on = TRUE]
  /\ Answers(<<[type |-> "CONNACK", rc |-> SUCCESS]>> \o Again(b'.out))
  /\ UNCHANGED <<link, got, acked>> /\ BrokerOnly

\* A refusal: the CONNACK says so and the broker closes the connection.
Broker_refuse ==
  /\ Refuses /\ breaks < MaxBreaks /\ breaks' = breaks + 1
  /\ link = "up" /\ up # <<>> /\ Head(up).type = "CONNECT" /\ ~b.on
  /\ link' = "down" /\ up' = <<>>
  /\ Answers(<<[type |-> "CONNACK", rc |-> "refused"]>>)
  /\ UNCHANGED <<c, call, ret, heard, faults, calls, fresh, promised,
                 b, got, acked>>

\* It closes the connection on a DISCONNECT, on a second CONNECT and on
\* anything before the first.
Broker_close ==
  /\ link = "up" /\ up # <<>>
  /\ \/ b.on /\ Head(up).type \in {"CONNECT", "DISCONNECT"}
     \/ ~b.on /\ Head(up).type # "CONNECT"
  /\ Cut
  /\ b' = [b EXCEPT !.on = FALSE, !.suback = NoSuback]
  /\ UNCHANGED <<got, acked>> /\ BrokerOnly

Broker_publish ==
  /\ Reads("PUBLISH") /\ b.on
  /\ LET p == Head(up)
         new == p.qos # 2 \/ \A h \in b.held : h.id # p.id
     IN  /\ got' = IF new THEN [got EXCEPT ![p.msg] = @ + 1] ELSE got
         /\ b' = IF p.qos = 2 /\ new THEN [b EXCEPT !.held = @ \cup {[id |-> p.id, msg |-> p.msg]}] ELSE b
         /\ acked' = IF p.qos = 1 THEN acked \cup {p.msg} ELSE acked
         /\ Answers(CASE p.qos = 0 -> <<>>
                      [] p.qos = 1 -> <<[type |-> "PUBACK", id |-> p.id]>>
                      [] p.qos = 2 -> <<[type |-> "PUBREC", id |-> p.id]>>)
  /\ UNCHANGED link /\ BrokerOnly

Broker_pubrel ==
  /\ Reads("PUBREL") /\ b.on
  /\ LET these == {h \in b.held : h.id = Head(up).id}
     IN  /\ b' = [b EXCEPT !.held = @ \ these]
         /\ acked' = acked \cup {h.msg : h \in these}
  /\ Answers(<<[type |-> "PUBCOMP", id |-> Head(up).id]>>)
  /\ UNCHANGED <<link, got>> /\ BrokerOnly

\* The client's acknowledgments.  No two messages kept have the same id.
Without(out, id) ==
  LET S == {k \in DOMAIN out : out[k].id = id}
  IN  IF S = {} THEN out ELSE RemoveAt(out, First(S))

Broker_ack ==
  /\ link = "up" /\ b.on /\ up # <<>> /\ up' = Tail(up)
  /\ LET p == Head(up)
     IN  \/ /\ p.type \in {"PUBACK", "PUBCOMP"}
            /\ b' = [b EXCEPT !.out = Without(@, p.id)]
            /\ UNCHANGED down
         \/ /\ p.type = "PUBREC"
            /\ b' = [b EXCEPT !.out = [i \in DOMAIN @ |->
                       IF @[i].id = p.id THEN [@[i] EXCEPT !.rel = TRUE] ELSE @[i]]]
            /\ Answers(<<[type |-> "PUBREL", id |-> p.id]>>)
  /\ UNCHANGED <<link, got, acked>> /\ BrokerOnly

Broker_subscribe ==
  /\ Reads("SUBSCRIBE") /\ b.on /\ b.suback = NoSuback
  /\ LET p == Head(up)
     IN \/ b' = [b EXCEPT !.subs = [@ EXCEPT ![p.topic] = p.qos],
                          !.suback = [type |-> "SUBACK", id |-> p.id, qos |-> p.qos]]
        \/ /\ Refuses
           /\ b' = [b EXCEPT !.suback = [type |-> "SUBACK", id |-> p.id, qos |-> 128]]
  /\ UNCHANGED <<link, down, got, acked>> /\ BrokerOnly

Broker_suback ==
  /\ b.suback # NoSuback
  /\ Answers(<<b.suback>>)
  /\ b' = [b EXCEPT !.suback = NoSuback]
  /\ UNCHANGED <<up, link, got, acked>> /\ BrokerOnly

Broker_unsubscribe ==
  /\ Reads("UNSUBSCRIBE") /\ b.on
  /\ b' = [b EXCEPT !.subs = [@ EXCEPT ![Head(up).topic] = NotSubscribed]]
  /\ Answers(<<[type |-> "UNSUBACK", id |-> Head(up).id]>>)
  /\ UNCHANGED <<link, got, acked>> /\ BrokerOnly

Broker_ping ==
  /\ Reads("PINGREQ") /\ b.on
  /\ Answers(<<[type |-> "PINGRESP"]>>)
  /\ UNCHANGED <<link, b, got, acked>> /\ BrokerOnly

\* Someone publishes a message: it is for the client if it subscribes, at
\* the lower of the two QoS values, and kept until acknowledged.  It may come
\* before the SUBACK.
FreeId(out) == CHOOSE i \in 1..(Len(out) + 1) : \A k \in DOMAIN out : out[k].id # i

Broker_forward ==
  \E m \in InMsgs \cap fresh, q \in InQoSs :
    LET qos == IF b.subs[Topic] < q THEN b.subs[Topic] ELSE q
        p   == [type |-> "PUBLISH", id |-> FreeId(b.out), qos |-> qos, msg |-> m,
                topic |-> Topic]
    IN  /\ b.subs[Topic] # NotSubscribed
        /\ fresh' = fresh \ {m}
        /\ b' = IF qos = 0 THEN b
                ELSE [b EXCEPT !.out = Append(@, [id |-> p.id, qos |-> qos, msg |-> m,
                                                  rel |-> FALSE])]
        /\ down' = IF b.on THEN Append(down, p) ELSE down
        /\ UNCHANGED <<c, call, ret, heard, faults, breaks, calls, promised,
                       up, link, got, acked>>

Broker == \/ Broker_connect \/ Broker_refuse \/ Broker_close \/ Broker_publish
          \/ Broker_pubrel \/ Broker_ack \/ Broker_subscribe \/ Broker_suback
          \/ Broker_unsubscribe \/ Broker_ping

-----------------------------------------------------------------------------
(***************************************************************************)
(* The application: any call at any time, each message published once.     *)
(***************************************************************************)
Others == UNCHANGED <<b, got, acked, breaks>>

App_connect == Len(up) < MaxQueue /\ connect /\ Others /\ UNCHANGED <<fresh, promised, calls>>

App_publish ==
  \E m \in OutMsgs \cap fresh, q \in QoSs :
    /\ publish(m, q)
    /\ fresh' = fresh \ {m}
    /\ promised' = IF q = 0 THEN promised ELSE promised \cup {m}
    /\ Others /\ UNCHANGED calls

App_call ==
  /\ calls < MaxCalls /\ calls' = calls + 1
  /\ \/ \E t \in Topics, q \in QoSs : subscribe(t, q)
     \/ \E t \in Topics : unsubscribe(t)
     \/ disconnect
     \/ \E op \in {"publish", "subscribe", "unsubscribe"} : Refused(op)
  /\ Others /\ UNCHANGED <<fresh, promised>>

App_yield == yield /\ Others /\ UNCHANGED <<fresh, promised, calls>>

Within(A) == A /\ Others /\ UNCHANGED <<fresh, promised, calls>>

Client == \/ Within(turn_packet) \/ Within(turn_cut) \/ Within(turn_rest)
          \/ Within(turn_empty) \/ Within(timer_over)
          \/ Within(idle_over) \/ Within(ping_over)

Next == \/ App_connect \/ App_publish \/ App_call \/ App_yield \/ Client
        \/ Broker \/ Broker_forward \/ Break \/ Reopen

Spec == Init /\ [][Next]_vars

(***************************************************************************)
(* The application keeps calling yield, and connect when it finds itself   *)
(* disconnected, like the loop of main; a call it keeps making is not      *)
(* always over before its first turn.  Timers run out.  The broker answers *)
(* and a broken connection is replaced if the application does so at all.  *)
(***************************************************************************)
Reconnect == App_connect /\ ~c.isconnected
CallsEnd == Within(timer_over) /\ (call.op = "yield" \/ ~Answerable)

Fairness ==
  /\ SF_vars(App_yield) /\ SF_vars(Reconnect) /\ SF_vars(Reopen)
  /\ SF_vars(Within(turn_packet) \/ Within(turn_rest) \/ Within(turn_empty)) /\ WF_vars(CallsEnd)
  /\ WF_vars(Within(idle_over)) /\ WF_vars(Within(ping_over))
  /\ WF_vars(Broker)

FairSpec == Spec /\ Fairness

-----------------------------------------------------------------------------
(* The client's object, its calls and the counters keep to their types.    *)
Ids == 0..MAX_PACKET_ID

TypeOK ==
  /\ c.isconnected \in BOOLEAN /\ c.ping_outstanding \in BOOLEAN
  /\ c.handlers \in [Slots -> Topics \cup {NoTopic}]
  /\ c.inflight \in [id : Ids, qos : 0..2, msg : OutMsgs \cup {0}]
  /\ c.incoming \in [QoS2Slots -> Nat] /\ c.nextId \in Ids
  /\ call.op \in {"none", "connect", "publish", "subscribe", "unsubscribe", "yield"}
  /\ call.await \in {"none", "CONNACK", "PUBACK", "PUBCOMP", "SUBACK", "UNSUBACK"}
  /\ link \in {"up", "down"} /\ (link = "down" => up = <<>>)
  /\ heard \in [InMsgs -> Nat] /\ got \in [OutMsgs -> Nat]
  /\ faults \in 0..MaxFaults /\ breaks \in 0..MaxBreaks /\ calls \in 0..MaxCalls

\* connect ends in a session the broker has accepted on this connection, if
\* the connection is still there: no failure of its wait, no answer of an
\* earlier connect and no resent publish stands in for the CONNACK.
ConnectedMeansAccepted ==
  [][~c.isconnected /\ c'.isconnected => b.on \/ link = "down"]_vars

\* publish "waits for all acks to complete": when it returns success for a
\* message at QoS 1 or 2, the broker has acknowledged that very message.  True
\* of an application that drains the ring before it opens a new connection:
\* an acknowledgment left in it by an earlier publish is taken for this one's.
PublishAcked ==
  ret.call.op = "publish" /\ ret.rc = SUCCESS /\ ret.call.qos > 0
    => ret.call.msg \in acked

\* In a session that is not clean no message published at QoS 1 or 2 gets
\* lost: the broker has it, or it is the publish in flight that the next
\* connect sends again.  No later publish takes its place too early.
NothingLost ==
  \A m \in promised : got[m] > 0 \/ (c.inflight.id # 0 /\ c.inflight.msg = m)

\* A message at QoS 2 reaches the application once at most, however often the
\* broker sends it again over new connections.
HeardOnce == \A m \in InMsgs : heard[m] <= 1

\* A filter never has two slots: a message would be given to it twice.
HandlersUnique ==
  \A i, j \in Slots : i # j /\ c.handlers[i] = c.handlers[j] => c.handlers[i] = NoTopic

\* The client ends a session only for cause: the application says so, a write
\* fails, an answer is overdue, the connection is gone, or a packet it could
\* read is slower to come than the timer allows.  No packet a broker sends
\* within the protocol makes it do so once it is read as a whole.
NoNeedlessClose ==
  [][c.isconnected /\ ~c'.isconnected
       => \/ link = "down" \/ faults' > faults \/ PingFails(c)
          \/ ret'.call.op = "disconnect"]_vars

\* A yield during which the session ends says so.
CloseReported ==
  [][c.isconnected /\ ~c'.isconnected /\ call.op = "yield"
       => ret'.call.op = "yield" /\ ret'.rc = FAILURE]_vars

\* A connection that breaks under a connected client, unseen by it, is
\* noticed: the keep-alive ends the session.
DeadLinkNoticed == link = "down" ~> ~c.isconnected

\* However often the connection breaks, the client has a session again in
\* the end, on the next connection and with the next connect.
Reconnects == []<>c.isconnected

\* Every message published at QoS 1 in a session that is not clean reaches the
\* broker, whatever breaks or times out, as long as the application reconnects.
EventuallyReceived == \A m \in OutMsgs : m \in promised ~> got[m] > 0
=============================================================================
