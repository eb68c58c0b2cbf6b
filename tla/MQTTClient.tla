----------------------------- MODULE MQTTClient -----------------------------
(***************************************************************************)
(* MQTT::Client's API.  connect, publish, subscribe, unsubscribe and yield *)
(* are loops around cycle: they write a packet, then handle what comes in  *)
(* until the answer they wait for (yield: none), a failure or the end of   *)
(* their timer.  The application is one thread; it makes one call at a     *)
(* time, and the network and the timers move between two turns of a loop.  *)
(***************************************************************************)
EXTENDS MQTTSession

CONSTANTS CleanSession, \* options.cleansession of connect
          Writes,       \* what may become of a write, see MQTTSession
          OutMsgs,      \* messages the application publishes, each once
          InMsgs,       \* messages others publish
          QoSs,         \* the QoS values the application uses
          MaxFaults     \* bound on failed writes, timeouts, broken links

ASSUME APIAssumption ==
  /\ CleanSession \in BOOLEAN
  /\ Writes \subseteq {"sent", "failed", "late"} /\ "sent" \in Writes
  /\ OutMsgs \cap InMsgs = {} /\ QoSs \subseteq 0..2 /\ MaxFaults \in Nat

VARIABLES c,    \* the object
          call, \* the API call under way, and what it waits for
          ret,  \* the call that returned last, and its return code
          link, \* "up" or "down": the TCP connection
          up,   \* packets on their way to the broker
          down  \* packets on their way to readPacket, in the ring included

\* What happened so far: calls of handlers for each message, and faults, to
\* bound them.
VARIABLES heard, faults

clientVars == <<c, call, ret, up, heard>>

NoCall == [op |-> "none", await |-> "none", qos |-> 0, topic |-> NoTopic, msg |-> 0]

NoReturn == [call |-> NoCall, rc |-> "none"]

ClientInit == /\ \E keepAlive \in BOOLEAN : c = NewClient(keepAlive)
              /\ call = NoCall
              /\ ret = NoReturn
              /\ up = <<>>
              /\ heard = [m \in InMsgs |-> 0]

Idle == call = NoCall

-----------------------------------------------------------------------------
(* A turn of a call ends with it going on (Wait) or returning (Return).    *)

Wait(d, out, k) == [c |-> d, out |-> out, call |-> k, rc |-> "none"]
Return(d, out, rc) == [c |-> d, out |-> out, call |-> NoCall, rc |-> rc]

\* What may become of a write that is made only if it matters.
Outcomes(matters) == IF matters /\ faults < MaxFaults THEN Writes ELSE {"sent"}

\* Call k makes the turn s, with so many faults besides the failed writes.
\* What is written to a link that is down is lost.
TurnWith(k, s, more) ==
  /\ c' = s.c
  /\ call' = s.call
  /\ ret' = IF s.call = NoCall THEN [call |-> k, rc |-> s.rc] ELSE NoReturn
  /\ up' = IF link = "up" THEN up \o s.out.sent ELSE up
  /\ faults' = faults + more + s.out.failed
  /\ faults' <= MaxFaults

Turn(k, s) == TurnWith(k, s, 0)

Starts(op, qos, topic, msg) ==
  [op |-> op, await |-> "none", qos |-> qos, topic |-> topic, msg |-> msg]

NothingHeard == UNCHANGED heard

-----------------------------------------------------------------------------
(***************************************************************************)
(* publish(len, timer, qos), the part that connect and publish share: send *)
(* a packet and wait for what its QoS calls for.  Without MQTTCLIENT_QOS2  *)
(* that is nothing for QoS 2.  A timer that is over fails the wait at once.*)
(***************************************************************************)
PublishPacket(id, qos, msg) == [type |-> "PUBLISH", id |-> id, qos |-> qos, msg |-> msg]

AckAwaited(qos) == IF qos = 1 THEN "PUBACK"
                   ELSE IF qos = 2 /\ MQTTCLIENT_QOS2 THEN "PUBCOMP" ELSE "none"

publish_packet(d, p, qos, w, k, expired) ==
  LET s == sendPacket(d, p, w)
  IN  IF s.rc # SUCCESS
      THEN Return(closeSession(s.c), s.out, FAILURE)
      ELSE IF AckAwaited(qos) = "none"
      THEN Return(s.c, s.out, SUCCESS)
      ELSE IF expired
      THEN Return(closeSession(s.c), s.out, FAILURE)
      ELSE Wait(s.c, s.out, [k EXCEPT !.await = AckAwaited(qos)])

\* connect's exit.
\* slip: success is returned and not recorded
connect_exit_Unrecorded(s) == s
connect_exit(s) ==
  IF s.call = NoCall /\ s.rc = SUCCESS
  THEN [s EXCEPT !.c = [@ EXCEPT !.isconnected = TRUE, !.ping_outstanding = FALSE]]
  ELSE s

\* slip: what became of the wait is not looked at
resend_Unchecked(d, rc, w, k, expired) == connect_exit(Return(d, NoWrite, SUCCESS))

\* connect after its wait for the CONNACK, which came to rc: whatever that
\* is, a publish still in flight is sent again and decides the outcome.
resend(d, rc, w, k, expired) ==
  IF d.inflight.id = 0
  THEN connect_exit(Return(d, NoWrite, rc))
  ELSE LET p == IF MQTTCLIENT_QOS2 /\ d.inflight.qos = 2 /\ d.pubrel
                THEN [type |-> "PUBREL", id |-> d.inflight.id]
                ELSE PublishPacket(d.inflight.id, d.inflight.qos, d.inflight.msg)
       IN  connect_exit(publish_packet(d, p, d.inflight.qos, w, k, expired))

Acked(d, id) == IF d.inflight.id = id THEN [d EXCEPT !.inflight = [@ EXCEPT !.id = 0]] ELSE d

-----------------------------------------------------------------------------
(* The calls: what each does up to its first wait.                         *)

connect ==
  /\ Idle /\ NothingHeard
  /\ LET k == [Starts("connect", 0, NoTopic, 0) EXCEPT !.await = "CONNACK"]
     IN \E w \in Outcomes(TRUE) :
          LET s == sendPacket([c EXCEPT !.keepAlive = KeepAlive,
                                        !.cleansession = CleanSession],
                              [type |-> "CONNECT", clean |-> CleanSession], w)
          IN IF c.isconnected
             THEN Turn(k, Return(c, NoWrite, FAILURE))
             ELSE Turn(k, IF s.rc = SUCCESS
                             THEN Wait([s.c EXCEPT !.recvDue = s.c.recvDue /\ ~KeepAlive],
                                  s.out, k)
                             ELSE Return(s.c, s.out, FAILURE))
  /\ UNCHANGED <<link, down>>

\* Every call but connect refuses a session that is closed, subscribe and
\* unsubscribe closing it once more.
Refused(op) ==
  /\ Idle /\ NothingHeard /\ ~c.isconnected
  /\ Turn(Starts(op, 0, NoTopic, 0),
          Return(IF op = "publish" THEN c ELSE closeSession(c), NoWrite, FAILURE))
  /\ UNCHANGED <<link, down>>

\* The publish in flight is kept for the next connect of the session.
Saved(d, id, qos, msg) ==
  IF d.cleansession THEN d
  ELSE [d EXCEPT !.inflight = [id |-> id, qos |-> qos, msg |-> msg], !.pubrel = FALSE]

publish(msg, qos) ==
  /\ Idle /\ NothingHeard /\ c.isconnected
  /\ \E w \in Outcomes(TRUE) :
       LET id == IF qos = 0 THEN 0 ELSE getNext(c)
           d  == IF qos = 0 THEN c ELSE [c EXCEPT !.nextId = id]
           k  == Starts("publish", qos, NoTopic, msg)
       IN  /\ Turn(k, publish_packet(Saved(d, id, qos, msg),
                                     PublishPacket(id, qos, msg), qos, w, k, FALSE))
  /\ UNCHANGED <<link, down>>

\* subscribe and unsubscribe up to their wait.
Request(k, p) ==
  /\ Idle /\ NothingHeard /\ c.isconnected
  /\ \E w \in Outcomes(TRUE) :
       LET s == sendPacket([c EXCEPT !.nextId = getNext(c)], p, w)
       IN  /\ Turn(k, IF s.rc = SUCCESS THEN Wait(s.c, s.out, k)
                      ELSE Return(closeSession(s.c), s.out, FAILURE))
  /\ UNCHANGED <<link, down>>

subscribe(topic, qos) ==
  Request([Starts("subscribe", qos, topic, 0) EXCEPT !.await = "SUBACK"],
          [type |-> "SUBSCRIBE", id |-> getNext(c), topic |-> topic, qos |-> qos])

unsubscribe(topic) ==
  Request([Starts("unsubscribe", 0, topic, 0) EXCEPT !.await = "UNSUBACK"],
          [type |-> "UNSUBSCRIBE", id |-> getNext(c), topic |-> topic])

yield ==
  /\ Idle /\ NothingHeard
  /\ Turn(NoCall, Wait(c, NoWrite, Starts("yield", 0, NoTopic, 0)))
  /\ UNCHANGED <<link, down>>

disconnect ==
  /\ Idle /\ NothingHeard
  /\ \E w \in Outcomes(TRUE) :
       LET s == sendPacket(c, [type |-> "DISCONNECT"], w)
       IN  /\ Turn(Starts("disconnect", 0, NoTopic, 0),
                   Return(closeSession(s.c), s.out, s.rc))
  /\ UNCHANGED <<link, down>>

-----------------------------------------------------------------------------
(* The turns of the loops, waitfor's and yield's.                          *)

\* The answer p has come: what the call does with it.
answered(d, p, w) ==
  CASE call.op = "connect" /\ call.await = "CONNACK" -> resend(d, p.rc, w, call, FALSE)
    [] call.op = "connect" /\ call.await # "CONNACK" ->
         connect_exit(Return(Acked(d, p.id), NoWrite, SUCCESS))
    [] call.op = "publish" -> Return(Acked(d, p.id), NoWrite, SUCCESS)
    [] call.op = "subscribe" ->
         LET h == setMessageHandler(d, call.topic, TRUE)
         IN  IF p.qos = 128 THEN Return(d, NoWrite, SUCCESS)
             ELSE Return(IF h.rc = FAILURE THEN closeSession(h.c) ELSE h.c, NoWrite, h.rc)
    [] call.op = "unsubscribe" ->
         Return(setMessageHandler(d, call.topic, FALSE).c, NoWrite, SUCCESS)

\* The wait is over without the answer: cycle failed, or the timer is over.
unanswered(d, w, expired) ==
  CASE call.op = "connect" /\ call.await = "CONNACK" -> resend(d, FAILURE, w, call, expired)
    [] call.op = "yield" -> Return(d, NoWrite, IF expired THEN SUCCESS ELSE FAILURE)
    [] OTHER -> Return(closeSession(d), NoWrite, FAILURE)

Hear(got) ==
  IF got = NoDelivery THEN NothingHeard
  ELSE heard' = [heard EXCEPT ![got.msg] = @ + got.times]

\* One turn, with packet p, or TIMEOUT when none came in time, and so many
\* faults besides the failed writes.  (x \in {e} has TLC evaluate e once.)
turn(p, more) ==
  /\ ~Idle
  /\ \E w1 \in Outcomes(p.type \in {"PUBLISH", "PUBREC", "PUBREL"}),
        w2 \in Outcomes(c.keepAlive), w3 \in Outcomes(call.op = "connect") :
       \E r \in {cycle(c, p, w1, w2)} :
       \E s \in {IF r.rc = FAILURE THEN unanswered(r.c, w3, FALSE)
                 ELSE IF r.rc = call.await THEN answered(r.c, p, w3)
                 ELSE Wait(r.c, NoWrite, call)} :
       \E t \in {[s EXCEPT !.out = Then(r.out, s.out)]} :
         TurnWith(call, t, more) /\ Hear(r.got)
  /\ UNCHANGED link

Rest == [type |-> SHORT]
HasBody(p) == p.type \notin {"PINGRESP", SHORT}

turn_packet ==
  /\ down # <<>> /\ Head(down).type # SHORT
  /\ down' = Tail(down) /\ turn(Head(down), 0)

\* The timer is over between two reads of a packet: what was read of it is
\* lost, and its rest comes next.
turn_cut ==
  /\ down # <<>> /\ HasBody(Head(down))
  /\ down' = <<Rest>> \o Tail(down) /\ turn(Rest, 1)

\* The rest of a packet is read as a packet, without a case, that may swallow
\* some of those behind it, the last of them in part.
turn_rest ==
  /\ down # <<>> /\ Head(down).type = SHORT
  /\ \E n \in DOMAIN down :
       LET left == SubSeq(down, n + 1, Len(down))
       IN  down' = left \/ (n > 1 /\ HasBody(down[n]) /\ down' = <<Rest>> \o left)
  /\ turn(Rest, 0)

turn_empty == down = <<>> /\ UNCHANGED down /\ turn([type |-> TIMEOUT], 0)

\* An answer can still come.
Answerable == link = "up" /\ (c.isconnected \/ up # <<>> \/ down # <<>>)

\* The call's timer is over between two turns; a fault when an answer could
\* have come.
timer_over ==
  /\ ~Idle /\ NothingHeard
  /\ \E w \in Outcomes(TRUE) :
       TurnWith(call, unanswered(c, w, TRUE),
                IF call.op # "yield" /\ Answerable THEN 1 ELSE 0)
  /\ UNCHANGED <<link, down>>

\* The object's own timers: last_sent and last_received, which also stand
\* for quiet times, and ping_sent, a fault when the answer could have come.
idle_over ==
  /\ c.keepAlive
  /\ \/ ~c.sentDue /\ c' = [c EXCEPT !.sentDue = TRUE]
     \/ ~c.recvDue /\ c' = [c EXCEPT !.recvDue = TRUE]
  /\ UNCHANGED <<call, ret, link, up, down, heard, faults>>

ping_over ==
  /\ c.ping_outstanding /\ ~c.pingDue
  /\ c' = [c EXCEPT !.pingDue = TRUE]
  /\ faults' = IF link = "up" THEN faults + 1 ELSE faults
  /\ faults' <= MaxFaults
  /\ UNCHANGED <<call, ret, link, up, down, heard>>
=============================================================================
