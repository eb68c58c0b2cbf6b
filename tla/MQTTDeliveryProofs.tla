-------------------------- MODULE MQTTDeliveryProofs --------------------------
(***************************************************************************)
(* What becomes of a message at QoS 1 or 2.  First one that the client     *)
(* publishes: the packets under way that carry it and its acknowledgments, *)
(* what the broker holds of it, and what the client has kept of it.  Then  *)
(* one that the broker publishes, which the client hears once.             *)
(***************************************************************************)
EXTENDS MQTTSystemProofs

(***************************************************************************)
(* Packets that carry a publish on: the client's on their way up, but only *)
(* those the broker will read in this session, and the answers on their    *)
(* way down.  A CONNECT the broker has not accepted yet comes first, and   *)
(* nothing after another one is read.                                      *)
(***************************************************************************)
UpToken(p) == p.type = "PUBREL" \/ (p.type = "PUBLISH" /\ p.qos # 0)
DownToken(p) == p.type \in {"PUBACK", "PUBREC", "PUBCOMP"}

Live(u, on, i) == \A j \in 1..i : u[j].type = "CONNECT" <=> (~on /\ j = 1)
UpPlaces(u, on) == {i \in 1..Len(u) : UpToken(u[i]) /\ Live(u, on, i)}
DownPlaces(w) == {i \in 1..Len(w) : DownToken(w[i])}

InTransit(u, on, w) == {u[i] : i \in UpPlaces(u, on)} \cup {w[i] : i \in DownPlaces(w)}

Single(u, on, w) ==
  /\ \A i, j \in UpPlaces(u, on) : i = j
  /\ \A i, j \in DownPlaces(w) : i = j
  /\ UpPlaces(u, on) = {} \/ DownPlaces(w) = {}

\* What is sent next will be read.
Open(u, on) == (on \/ u # <<>>) /\ Live(u, on, Len(u))

HasConnect(u) == \E i \in 1..Len(u) : u[i].type = "CONNECT"
HasConnack(w) == \E i \in 1..Len(w) : w[i].type = "CONNACK"
Accepted(w) == \E i \in 1..Len(w) : w[i].type = "CONNACK" /\ w[i].rc = SUCCESS
FirstOnly(w) == \A i \in 1..Len(w) : w[i].type = "CONNACK" => i = 1

\* Nothing is under way after a step that was not before.
Fewer(u1, on1, w1, u, on, w) ==
  /\ InTransit(u1, on1, w1) \subseteq InTransit(u, on, w)
  /\ Single(u, on, w) => Single(u1, on1, w1)

LEMMA FewerPlaces ==
  ASSUME NEW u1, NEW on1, NEW w1, NEW u, NEW on, NEW w, NEW n \in Nat, NEW m \in Nat,
         \A i \in UpPlaces(u1, on1) : i \in Nat /\ i + n \in UpPlaces(u, on) /\ u1[i] = u[i + n],
         \A i \in DownPlaces(w1) : i \in Nat /\ i + m \in DownPlaces(w) /\ w1[i] = w[i + m]
  PROVE  Fewer(u1, on1, w1, u, on, w)
<1>1. InTransit(u1, on1, w1) \subseteq InTransit(u, on, w) BY DEF InTransit
<1>2. ASSUME Single(u, on, w) PROVE Single(u1, on1, w1)
  <2>1. ASSUME NEW i \in UpPlaces(u1, on1), NEW j \in UpPlaces(u1, on1) PROVE i = j
    <3>1. i + n = j + n BY <1>2, <2>1 DEF Single
    <3>2. i \in Nat /\ j \in Nat BY <2>1
    <3> QED BY <3>1, <3>2
  <2>2. ASSUME NEW i \in DownPlaces(w1), NEW j \in DownPlaces(w1) PROVE i = j
    <3>1. i + m = j + m BY <1>2, <2>2 DEF Single
    <3>2. i \in Nat /\ j \in Nat BY <2>2
    <3> QED BY <3>1, <3>2
  <2>3. UpPlaces(u1, on1) = {} \/ DownPlaces(w1) = {} BY <1>2 DEF Single
  <2> QED BY <2>1, <2>2, <2>3 DEF Single
<1> QED BY <1>1, <1>2 DEF Fewer

\* One packet more on its way up.
Placed(v, u, on, p, i) ==
  \/ i \in UpPlaces(u, on) /\ v[i] = u[i]
  \/ i = Len(u) + 1 /\ v[i] = p /\ UpToken(p) /\ (p.type # "CONNECT" => Open(u, on))

LEMMA UpPlaced ==
  ASSUME NEW u \in Seq(UpPacket), NEW on \in BOOLEAN, NEW p \in UpPacket
  PROVE  /\ \A i \in UpPlaces(Append(u, p), on) : Placed(Append(u, p), u, on, p, i)
         /\ HasConnect(Append(u, p)) => HasConnect(u) \/ p.type = "CONNECT"
         /\ Open(Append(u, p), on) => IF p.type = "CONNECT" THEN ~on /\ u = <<>> ELSE Open(u, on)
<1> DEFINE v == Append(u, p)
<1>1. Len(u) \in Nat OBVIOUS
<1>2. /\ v \in Seq(UpPacket) /\ v # <<>> /\ Len(v) = Len(u) + 1
      /\ \A i \in 1..Len(u) : v[i] = u[i]
      /\ v[Len(u) + 1] = p
  BY AppendProperties
<1>3. u = <<>> <=> Len(u) = 0 BY EmptySeq
<1> HIDE DEF v
<1>4. \A i \in 1..Len(v) : i \in 1..Len(u) \/ i = Len(u) + 1 BY <1>1, <1>2
<1>5. ASSUME NEW i \in 1..Len(u), Live(v, on, i) PROVE Live(u, on, i)
  <2>1. \A j \in 1..i : j \in 1..Len(u) BY <1>1
  <2> QED BY <1>2, <1>5, <2>1 DEF Live
<1>6. ASSUME Live(v, on, Len(u) + 1), p.type # "CONNECT"
      PROVE  Open(u, on)
  <2>1. \A j \in 1..Len(u) : j \in 1..(Len(u) + 1) BY <1>1
  <2>2. Live(u, on, Len(u)) BY <1>2, <1>6, <2>1 DEF Live
  <2>3. on \/ u # <<>>
    <3>1. SUFFICES ASSUME ~on, u = <<>> PROVE FALSE OBVIOUS
    <3>2. Len(u) + 1 = 1 /\ 1 \in 1..(Len(u) + 1) BY <1>1, <1>3, <3>1
    <3> QED BY <1>2, <1>6, <3>1, <3>2 DEF Live
  <2> QED BY <2>2, <2>3 DEF Open
<1>7. ASSUME NEW i \in UpPlaces(v, on)
      PROVE  Placed(v, u, on, p, i)
  <2>1. i \in 1..Len(v) /\ UpToken(v[i]) /\ Live(v, on, i) BY <1>7 DEF UpPlaces
  <2>2. CASE i \in 1..Len(u) BY <1>2, <1>5, <2>1, <2>2 DEF UpPlaces, Placed
  <2>3. CASE i = Len(u) + 1 BY <1>2, <1>6, <2>1, <2>3 DEF Placed
  <2> QED BY <1>4, <2>1, <2>2, <2>3
<1>8. HasConnect(v) => HasConnect(u) \/ p.type = "CONNECT" BY <1>2, <1>4 DEF HasConnect
<1>9. ASSUME Open(v, on) PROVE IF p.type = "CONNECT" THEN ~on /\ u = <<>> ELSE Open(u, on)
  <2>1. Live(v, on, Len(u) + 1) BY <1>2, <1>9 DEF Open
  <2>2. CASE p.type = "CONNECT"
    <3>1. Len(u) + 1 \in 1..(Len(u) + 1) BY <1>1
    <3>2. ~on /\ Len(u) + 1 = 1 BY <1>2, <2>1, <2>2, <3>1 DEF Live
    <3>3. Len(u) = 0 BY <1>1, <3>2
    <3> QED BY <1>3, <2>2, <3>2, <3>3
  <2>3. CASE p.type # "CONNECT" BY <1>6, <2>1, <2>3
  <2> QED BY <2>2, <2>3
<1> QED BY <1>7, <1>8, <1>9 DEF v

LEMMA SendPlain ==
  ASSUME NEW u \in Seq(UpPacket), NEW on \in BOOLEAN, NEW p \in UpPacket, NEW w,
         ~UpToken(p) \/ (p.type # "CONNECT" /\ ~Open(u, on))
  PROVE  Fewer(Append(u, p), on, w, u, on, w)
<1> DEFINE v == Append(u, p)
<1>8. p.type = "CONNECT" => ~UpToken(p) BY DEF UpToken
<1>9. ~(UpToken(p) /\ (p.type # "CONNECT" => Open(u, on))) BY <1>8
<1>10. \A i \in UpPlaces(v, on) : Placed(v, u, on, p, i) BY UpPlaced
<1>1. \A i \in UpPlaces(v, on) : i \in UpPlaces(u, on) /\ v[i] = u[i] BY <1>9, <1>10 DEF Placed
<1> HIDE DEF v
<1>2. \A i \in UpPlaces(v, on) : i \in Nat /\ i + 0 = i BY DEF UpPlaces
<1>3. \A i \in DownPlaces(w) : i \in Nat /\ i + 0 = i BY DEF DownPlaces
<1>4. 0 \in Nat OBVIOUS
<1>5. \A i \in UpPlaces(v, on) : i \in Nat /\ i + 0 \in UpPlaces(u, on) /\ v[i] = u[i + 0] BY <1>1, <1>2
<1>6. \A i \in DownPlaces(w) : i \in Nat /\ i + 0 \in DownPlaces(w) /\ w[i] = w[i + 0] BY <1>3
<1>7. Fewer(v, on, w, u, on, w) BY <1>4, <1>5, <1>6, FewerPlaces
<1> QED BY <1>7 DEF v

LEMMA Nothing ==
  ASSUME NEW u, NEW on, NEW w
  PROVE  InTransit(u, on, w) = {} <=> UpPlaces(u, on) = {} /\ DownPlaces(w) = {}
BY DEF InTransit

LEMMA SendToken ==
  ASSUME NEW u \in Seq(UpPacket), NEW on \in BOOLEAN, NEW p \in UpPacket, NEW w,
         InTransit(u, on, w) = {}
  PROVE  /\ Single(Append(u, p), on, w) /\ InTransit(Append(u, p), on, w) \subseteq {p}
         /\ InTransit(Append(u, p), on, w) # {} /\ p.type # "CONNECT" => Open(u, on)
<1> DEFINE v == Append(u, p)
<1>1. UpPlaces(u, on) = {} /\ DownPlaces(w) = {} BY Nothing
<1>5. \A i \in UpPlaces(v, on) : Placed(v, u, on, p, i) BY UpPlaced
<1>2. \A i \in UpPlaces(v, on) : i = Len(u) + 1 /\ v[i] = p BY <1>1, <1>5 DEF Placed
<1> HIDE DEF v
<1>3. Single(v, on, w) BY <1>1, <1>2 DEF Single
<1>4. InTransit(v, on, w) \subseteq {p} BY <1>1, <1>2 DEF InTransit
<1>6. ASSUME InTransit(v, on, w) # {}, p.type # "CONNECT" PROVE Open(u, on)
  <2>1. PICK i \in UpPlaces(v, on) : TRUE BY <1>1, <1>6, Nothing
  <2> QED BY <1>1, <1>5, <1>6, <2>1 DEF Placed
<1> QED BY <1>3, <1>4, <1>6 DEF v

\* One packet less on its way down.
LEMMA DownRead ==
  ASSUME NEW u, NEW on, NEW w \in Seq(DownPacket), w # <<>>
  PROVE  /\ Fewer(u, on, Tail(w), u, on, w)
         /\ DownToken(Head(w)) => /\ Head(w) \in InTransit(u, on, w)
                                  /\ Single(u, on, w) => InTransit(u, on, Tail(w)) = {}
         /\ HasConnack(Tail(w)) => HasConnack(w)
         /\ Accepted(Tail(w)) => Accepted(w)
         /\ FirstOnly(w) => ~HasConnack(Tail(w))
<1> DEFINE t == Tail(w)
<1>1. Len(w) \in Nat \ {0} BY EmptySeq
<1>2. /\ t \in Seq(DownPacket) /\ Len(t) = Len(w) - 1
      /\ \A i \in 1..Len(t) : t[i] = w[i + 1]
  BY HeadTailProperties
<1>3. Head(w) = w[1] /\ 1 \in 1..Len(w) BY <1>1
<1> HIDE DEF t
<1>4. \A i \in 1..Len(t) : i \in Nat /\ i + 1 \in 1..Len(w) /\ i + 1 # 1 /\ t[i] = w[i + 1] BY <1>1, <1>2
<1>5. \A i \in DownPlaces(t) : i \in Nat /\ i + 1 \in DownPlaces(w) /\ i + 1 # 1 /\ t[i] = w[i + 1]
  BY <1>4 DEF DownPlaces
<1>6. \A i \in UpPlaces(u, on) : i \in Nat /\ i + 0 \in UpPlaces(u, on) /\ u[i] = u[i + 0]
  <2>1. \A i \in UpPlaces(u, on) : i \in Nat /\ i + 0 = i BY DEF UpPlaces
  <2> QED BY <2>1
<1>7. Fewer(u, on, t, u, on, w)
  <2>1. 0 \in Nat /\ 1 \in Nat OBVIOUS
  <2> QED BY <1>5, <1>6, <2>1, FewerPlaces
<1>8. ASSUME DownToken(Head(w))
      PROVE  Head(w) \in InTransit(u, on, w) /\ (Single(u, on, w) => InTransit(u, on, t) = {})
  <2>1. 1 \in DownPlaces(w) BY <1>3, <1>8 DEF DownPlaces
  <2>2. Head(w) \in InTransit(u, on, w) BY <1>3, <2>1 DEF InTransit
  <2>3. ASSUME Single(u, on, w) PROVE InTransit(u, on, t) = {}
    <3>1. UpPlaces(u, on) = {} BY <2>1, <2>3 DEF Single
    <3>2. DownPlaces(t) = {} BY <1>5, <2>1, <2>3 DEF Single
    <3> QED BY <3>1, <3>2, Nothing
  <2> QED BY <2>2, <2>3
<1>9. HasConnack(t) => HasConnack(w) BY <1>4 DEF HasConnack
<1>10. Accepted(t) => Accepted(w) BY <1>4 DEF Accepted
<1>11. FirstOnly(w) => ~HasConnack(t) BY <1>4 DEF FirstOnly, HasConnack
<1> QED BY <1>7, <1>8, <1>9, <1>10, <1>11 DEF t

\* The broker reads a packet, or accepts a CONNECT.
LEMMA UpRead ==
  ASSUME NEW u \in Seq(UpPacket), NEW on \in BOOLEAN, NEW w, u # <<>>,
         on <=> Head(u).type # "CONNECT"
  PROVE  /\ Fewer(Tail(u), TRUE, w, u, on, w)
         /\ UpToken(Head(u)) => /\ Head(u) \in InTransit(u, on, w)
                                /\ Single(u, on, w) => InTransit(Tail(u), TRUE, w) = {}
         /\ HasConnect(Tail(u)) => HasConnect(u)
         /\ Open(Tail(u), TRUE) => Open(u, on)
<1> DEFINE t == Tail(u)
<1>1. Len(u) \in Nat \ {0} BY EmptySeq
<1>2. /\ t \in Seq(UpPacket) /\ Len(t) = Len(u) - 1
      /\ \A i \in 1..Len(t) : t[i] = u[i + 1]
  BY HeadTailProperties
<1>3. Head(u) = u[1] /\ 1 \in 1..Len(u) BY <1>1
<1> HIDE DEF t
<1>4. \A i \in 1..Len(t) : i \in Nat /\ i + 1 \in 1..Len(u) /\ i + 1 # 1 /\ t[i] = u[i + 1] BY <1>1, <1>2
<1>5. Live(u, on, 1)
  <2>1. \A j \in 1..1 : j = 1 OBVIOUS
  <2> QED BY <1>3, <2>1 DEF Live
<1>6. ASSUME NEW i \in 0..Len(t), Live(t, TRUE, i) PROVE Live(u, on, i + 1)
  <2> SUFFICES ASSUME NEW j \in 1..(i + 1) PROVE u[j].type = "CONNECT" <=> (~on /\ j = 1) BY DEF Live
  <2>1. CASE j = 1 BY <1>3, <2>1
  <2>2. CASE j # 1
    <3>1. j - 1 \in 1..i /\ j - 1 \in 1..Len(t) /\ (j - 1) + 1 = j BY <1>2, <2>2
    <3>2. t[j - 1].type # "CONNECT" BY <1>6, <3>1 DEF Live
    <3> QED BY <1>4, <2>2, <3>1, <3>2
  <2> QED BY <2>1, <2>2
<1>7. \A i \in UpPlaces(t, TRUE) : i \in Nat /\ i + 1 \in UpPlaces(u, on) /\ i + 1 # 1 /\ t[i] = u[i + 1]
  <2> TAKE i \in UpPlaces(t, TRUE)
  <2>1. i \in 1..Len(t) /\ UpToken(t[i]) /\ Live(t, TRUE, i) BY DEF UpPlaces
  <2>2. i \in 0..Len(t) BY <2>1
  <2> QED BY <1>4, <1>6, <2>1, <2>2 DEF UpPlaces
<1>8. \A i \in DownPlaces(w) : i \in Nat /\ i + 0 \in DownPlaces(w) /\ w[i] = w[i + 0]
  <2>1. \A i \in DownPlaces(w) : i \in Nat /\ i + 0 = i BY DEF DownPlaces
  <2> QED BY <2>1
<1>9. Fewer(t, TRUE, w, u, on, w)
  <2>1. 0 \in Nat /\ 1 \in Nat OBVIOUS
  <2> QED BY <1>7, <1>8, <2>1, FewerPlaces
<1>10. ASSUME UpToken(Head(u))
       PROVE  Head(u) \in InTransit(u, on, w) /\ (Single(u, on, w) => InTransit(t, TRUE, w) = {})
  <2>1. 1 \in UpPlaces(u, on) BY <1>3, <1>5, <1>10 DEF UpPlaces
  <2>2. Head(u) \in InTransit(u, on, w) BY <1>3, <2>1 DEF InTransit
  <2>3. ASSUME Single(u, on, w) PROVE InTransit(t, TRUE, w) = {}
    <3>1. DownPlaces(w) = {} BY <2>1, <2>3 DEF Single
    <3>2. UpPlaces(t, TRUE) = {} BY <1>7, <2>1, <2>3 DEF Single
    <3> QED BY <3>1, <3>2, Nothing
  <2> QED BY <2>2, <2>3
<1>11. HasConnect(t) => HasConnect(u) BY <1>4 DEF HasConnect
<1>12. ASSUME Open(t, TRUE) PROVE Open(u, on)
  <2>1. Len(t) \in 0..Len(t) /\ Len(t) + 1 = Len(u) BY <1>1, <1>2
  <2>2. Live(u, on, Len(u)) BY <1>6, <1>12, <2>1 DEF Open
  <2> QED BY <2>2 DEF Open
<1> QED BY <1>9, <1>10, <1>11, <1>12 DEF t

\* Packets more on their way down.
LEMMA DownPlaced ==
  ASSUME NEW w \in Seq(DownPacket), NEW s \in Seq(DownPacket)
  PROVE  /\ \A i \in DownPlaces(w \o s) :
              \/ i \in DownPlaces(w) /\ (w \o s)[i] = w[i]
              \/ i - Len(w) \in DownPlaces(s) /\ (w \o s)[i] = s[i - Len(w)]
         /\ HasConnack(w \o s) => HasConnack(w) \/ HasConnack(s)
         /\ Accepted(w \o s) => Accepted(w) \/ Accepted(s)
         /\ FirstOnly(w) /\ ~HasConnack(s) => FirstOnly(w \o s)
<1> DEFINE v == w \o s
<1>1. Len(w) \in Nat /\ Len(s) \in Nat OBVIOUS
<1>2. /\ Len(v) = Len(w) + Len(s)
      /\ \A i \in 1..(Len(w) + Len(s)) : v[i] = IF i <= Len(w) THEN w[i] ELSE s[i - Len(w)]
  BY ConcatProperties
<1> HIDE DEF v
<1>3. ASSUME NEW i \in 1..Len(v)
      PROVE  \/ i \in 1..Len(w) /\ v[i] = w[i]
             \/ i - Len(w) \in 1..Len(s) /\ v[i] = s[i - Len(w)]
  BY <1>1, <1>2
<1>4. \A i \in DownPlaces(v) : \/ i \in DownPlaces(w) /\ v[i] = w[i]
                               \/ i - Len(w) \in DownPlaces(s) /\ v[i] = s[i - Len(w)]
  BY <1>3 DEF DownPlaces
<1>5. HasConnack(v) => HasConnack(w) \/ HasConnack(s) BY <1>3 DEF HasConnack
<1>6. Accepted(v) => Accepted(w) \/ Accepted(s) BY <1>3 DEF Accepted
<1>7. FirstOnly(w) /\ ~HasConnack(s) => FirstOnly(v) BY <1>3 DEF FirstOnly, HasConnack
<1> QED BY <1>4, <1>5, <1>6, <1>7 DEF v

LEMMA AnswerPlain ==
  ASSUME NEW u, NEW on, NEW w \in Seq(DownPacket), NEW s \in Seq(DownPacket), DownPlaces(s) = {}
  PROVE  Fewer(u, on, w \o s, u, on, w)
<1> DEFINE v == w \o s
<1>1. \A i \in DownPlaces(v) : i \in DownPlaces(w) /\ v[i] = w[i] BY DownPlaced
<1>2. \A i \in UpPlaces(u, on) : i \in Nat /\ i + 0 = i BY DEF UpPlaces
<1>3. \A i \in DownPlaces(v) : i \in Nat /\ i + 0 = i BY DEF DownPlaces
<1> HIDE DEF v
<1>4. 0 \in Nat OBVIOUS
<1>5. \A i \in UpPlaces(u, on) : i \in Nat /\ i + 0 \in UpPlaces(u, on) /\ u[i] = u[i + 0] BY <1>2
<1>6. \A i \in DownPlaces(v) : i \in Nat /\ i + 0 \in DownPlaces(w) /\ v[i] = w[i + 0] BY <1>1, <1>3
<1>7. Fewer(u, on, v, u, on, w) BY <1>4, <1>5, <1>6, FewerPlaces
<1> QED BY <1>7 DEF v

LEMMA OnePlace ==
  ASSUME NEW p \in DownPacket
  PROVE  /\ <<p>> \in Seq(DownPacket) /\ Len(<<p>>) = 1 /\ <<p>>[1] = p
         /\ \A i \in DownPlaces(<<p>>) : i = 1 /\ DownToken(p)
         /\ HasConnack(<<p>>) => p.type = "CONNACK"
         /\ Accepted(<<p>>) => p.type = "CONNACK" /\ p.rc = SUCCESS
<1>1. <<p>> \in Seq(DownPacket) /\ Len(<<p>>) = 1 /\ <<p>>[1] = p OBVIOUS
<1>2. \A i \in 1..Len(<<p>>) : i = 1 BY <1>1
<1> QED BY <1>1, <1>2 DEF DownPlaces, HasConnack, Accepted

LEMMA AnswerToken ==
  ASSUME NEW u, NEW on, NEW w \in Seq(DownPacket), NEW p \in DownPacket, InTransit(u, on, w) = {}
  PROVE  Single(u, on, w \o <<p>>) /\ InTransit(u, on, w \o <<p>>) \subseteq {p}
<1> DEFINE v == w \o <<p>>
<1>1. UpPlaces(u, on) = {} /\ DownPlaces(w) = {} BY Nothing
<1>2. Len(w) \in Nat OBVIOUS
<1>3. ASSUME NEW i \in DownPlaces(v) PROVE i = Len(w) + 1 /\ v[i] = p
  <2>3. <<p>> \in Seq(DownPacket) BY OnePlace
  <2>4. i - Len(w) \in DownPlaces(<<p>>) /\ v[i] = <<p>>[i - Len(w)] BY <1>1, <1>3, <2>3, DownPlaced
  <2>1. i - Len(w) = 1 /\ v[i] = <<p>>[i - Len(w)] BY <2>4, OnePlace
  <2>2. i \in Int BY <1>3 DEF DownPlaces
  <2> QED BY <1>2, <2>1, <2>2, OnePlace
<1> HIDE DEF v
<1>4. Single(u, on, v) BY <1>1, <1>3 DEF Single
<1>5. InTransit(u, on, v) \subseteq {p} BY <1>1, <1>3 DEF InTransit
<1> QED BY <1>4, <1>5 DEF v

\* The connection is lost.
LEMMA LostPlaces ==
  ASSUME NEW u, NEW on, NEW w \in Seq(DownPacket), NEW v \in Seq(DownPacket),
         \A i \in 1..Len(v) : (i \in 1..Len(w) /\ v[i] = w[i]) \/ v[i] = Rest
  PROVE  /\ Fewer(<<>>, FALSE, v, u, on, w)
         /\ HasConnack(v) => HasConnack(w)
         /\ Accepted(v) => Accepted(w)
         /\ FirstOnly(w) => FirstOnly(v)
         /\ ~HasConnect(<<>>) /\ ~Open(<<>>, FALSE) /\ UpPlaces(<<>>, FALSE) = {}
<1> DEFINE short == Rest
<1>1. ~DownToken(short) /\ short.type # "CONNACK" BY DEF DownToken, Rest, SHORT
<1>2. \A i \in 1..Len(v) : (i \in 1..Len(w) /\ v[i] = w[i]) \/ v[i] = short OBVIOUS
<1> HIDE DEF short
<1>3. Len(<<>>) = 0 BY EmptySeq
<1>4. UpPlaces(<<>>, FALSE) = {} BY <1>3 DEF UpPlaces
<1>5. \A i \in DownPlaces(v) : i \in DownPlaces(w) /\ v[i] = w[i] BY <1>1, <1>2 DEF DownPlaces
<1>6. \A i \in DownPlaces(v) : i \in Nat /\ i + 0 = i BY DEF DownPlaces
<1>7. Fewer(<<>>, FALSE, v, u, on, w)
  <2>1. 0 \in Nat OBVIOUS
  <2>2. \A i \in DownPlaces(v) : i \in Nat /\ i + 0 \in DownPlaces(w) /\ v[i] = w[i + 0] BY <1>5, <1>6
  <2>3. \A i \in UpPlaces(<<>>, FALSE) : i \in Nat /\ i + 0 \in UpPlaces(u, on) /\ <<>>[i] = u[i + 0]
    BY <1>4
  <2> QED BY <2>1, <2>2, <2>3, FewerPlaces
<1>8. HasConnack(v) => HasConnack(w) BY <1>1, <1>2 DEF HasConnack
<1>9. Accepted(v) => Accepted(w) BY <1>1, <1>2 DEF Accepted
<1>10. FirstOnly(w) => FirstOnly(v) BY <1>1, <1>2 DEF FirstOnly
<1>11. ~HasConnect(<<>>) /\ ~Open(<<>>, FALSE) BY <1>3 DEF HasConnect, Open
<1> QED BY <1>4, <1>7, <1>8, <1>9, <1>10, <1>11

\* A part of a packet is read.
LEMMA ThinnedPlaces ==
  ASSUME NEW u, NEW on, NEW w \in Seq(DownPacket), NEW v \in Seq(DownPacket), Thinned(v, w)
  PROVE  /\ Fewer(u, on, v, u, on, w)
         /\ HasConnack(v) => HasConnack(w)
         /\ Accepted(v) => Accepted(w)
         /\ FirstOnly(w) => FirstOnly(v)
<1> DEFINE short == Rest
<1>1. ~DownToken(short) /\ short.type # "CONNACK" BY DEF DownToken, Rest, SHORT
<1>2. PICK k \in 0..Len(w) :
        /\ Len(v) = Len(w) - k
        /\ \A i \in 1..Len(v) : \/ v[i] = w[i + k] /\ (i > 1 \/ k > 0)
                                \/ i = 1 /\ v[1] = short
  BY DEF Thinned
<1> HIDE DEF short
<1>3. Len(w) \in Nat /\ k \in Nat OBVIOUS
<1>4. \A i \in 1..Len(v) : i \in Nat /\ i + k \in 1..Len(w) /\ (i > 1 \/ k > 0 => i + k # 1)
  BY <1>2, <1>3
<1>5. \A i \in 1..Len(v) : (v[i] = w[i + k] /\ i + k # 1) \/ v[i] = short BY <1>2, <1>4
<1>6. \A i \in DownPlaces(v) : i \in Nat /\ i + k \in DownPlaces(w) /\ v[i] = w[i + k]
  BY <1>1, <1>4, <1>5 DEF DownPlaces
<1>7. \A i \in UpPlaces(u, on) : i \in Nat /\ i + 0 \in UpPlaces(u, on) /\ u[i] = u[i + 0]
  <2>1. \A i \in UpPlaces(u, on) : i \in Nat /\ i + 0 = i BY DEF UpPlaces
  <2> QED BY <2>1
<1>8. Fewer(u, on, v, u, on, w)
  <2>1. 0 \in Nat OBVIOUS
  <2> QED BY <1>3, <1>6, <1>7, <2>1, FewerPlaces
<1>9. HasConnack(v) => HasConnack(w) BY <1>1, <1>4, <1>5 DEF HasConnack
<1>10. Accepted(v) => Accepted(w) BY <1>1, <1>4, <1>5 DEF Accepted
<1>11. FirstOnly(w) => FirstOnly(v) BY <1>1, <1>4, <1>5 DEF FirstOnly
<1> QED BY <1>8, <1>9, <1>10, <1>11

-----------------------------------------------------------------------------
(***************************************************************************)
(* The publish under way, or the one in flight, and what is known of it.   *)
(* Parameters: the object d, its call k, the packets u on their way up and *)
(* w on their way down, whether the broker has accepted a session (on) on  *)
(* a link that is lk, what it holds, and the messages it has acknowledged. *)
(***************************************************************************)
Cur(d, k) == IF k.op = "publish" THEN [id |-> d.nextId, qos |-> k.qos, msg |-> k.msg]
             ELSE d.inflight

Known(k) == k.op = "publish" \/ ~CleanSession

Entry(r) == [id |-> r.id, msg |-> r.msg]

\* Packet p is about publish r.
Match(p, r, held, ak) ==
  /\ p.id = r.id /\ r.id # 0
  /\ p.type = "PUBLISH" => p.qos = r.qos /\ p.msg = r.msg
  /\ p.type \in {"PUBREL", "PUBREC"} => r.qos = 2 /\ Entry(r) \in held
  /\ p.type = "PUBACK" => r.qos = 1 /\ r.msg \in ak
  /\ p.type = "PUBCOMP" => r.qos = 2 /\ r.msg \in ak /\ held = {}

Waits(lk, on) == lk = "up" /\ ~on

\* A CONNECT or a CONNACK under way is no connected client's, and none of the
\* publishes it will send comes behind another's packets.
Ordered(d, k, u, on, w, lk) ==
  /\ Waits(lk, on) /\ HasConnect(u) => ~d.isconnected /\ k.op # "publish"
  /\ HasConnack(w) => ~d.isconnected
  /\ k.op = "connect" /\ k.await = "CONNACK" /\ Open(u, on) => InTransit(u, on, w) = {}
  /\ HasConnack(w) \/ Waits(lk, on) => InTransit(u, on, w) = {} \/ d.inflight.id # 0

\* Between two publishes of a session nothing is left of the first.
Calm(d, k, u, on, held, w) ==
  d.isconnected /\ k.op # "publish" =>
    InTransit(u, on, w) = {} /\ held = {} /\ d.inflight.id = 0

\* All that is under way is about one publish.
Carries(d, k, u, on, held, w, ak) ==
  Known(k) => /\ \A p \in InTransit(u, on, w) : Match(p, Cur(d, k), held, ak)
              /\ \A h \in held : h = Entry(Cur(d, k)) /\ Cur(d, k).qos = 2 /\ Cur(d, k).id # 0

Cleans(d, k, held, w) ==
  /\ CleanSession /\ Accepted(w) => held = {}
  /\ d.cleansession => d.inflight.id = 0
  /\ CleanSession => d.cleansession
  /\ d.isconnected \/ k.op \notin {"none", "yield"} => d.cleansession = CleanSession
  /\ ~d.pubrel
  /\ k.op = "connect" /\ k.await # "CONNACK" => ~CleanSession
  /\ k.op = "publish" /\ ~CleanSession => d.inflight = Cur(d, k)

Safe(d, k, u, on, held, w, lk, ak) ==
  /\ Single(u, on, w) /\ FirstOnly(w)
  /\ Ordered(d, k, u, on, w, lk)
  /\ Calm(d, k, u, on, held, w)
  /\ Carries(d, k, u, on, held, w, ak)
  /\ Cleans(d, k, held, w)

Delivery == Safe(c, call, up, b.on, b.held, down, link, acked)

\* What the broker holds or has acknowledged it has.
Received == /\ \A h \in b.held : got[h.msg] > 0
            /\ \A m \in acked : got[m] > 0

-----------------------------------------------------------------------------
(* What may happen to the object, the call and the packets, one at a time. *)

\* Fields that have no say change.
LEMMA Stay ==
  ASSUME NEW d, NEW e, Session(e) = Session(d), NEW k, NEW u, NEW on, NEW held, NEW w, NEW lk, NEW ak,
         Safe(d, k, u, on, held, w, lk, ak)
  PROVE  Safe(e, k, u, on, held, w, lk, ak)
<1>1. /\ e.isconnected = d.isconnected /\ e.cleansession = d.cleansession
      /\ e.inflight = d.inflight /\ e.pubrel = d.pubrel /\ e.nextId = d.nextId
  BY DEF Session
<1>2. Cur(e, k) = Cur(d, k) BY <1>1 DEF Cur
<1>3. Ordered(e, k, u, on, w, lk) BY <1>1 DEF Safe, Ordered
<1>4. Calm(e, k, u, on, held, w) BY <1>1 DEF Safe, Calm
<1>5. Carries(e, k, u, on, held, w, ak) BY <1>2 DEF Safe, Carries
<1>6. Cleans(e, k, held, w) BY <1>1, <1>2 DEF Safe, Cleans
<1> QED BY <1>3, <1>4, <1>5, <1>6 DEF Safe

LEMMA CoreSession ==
  ASSUME NEW d, NEW e, Core(e) = Core(d)
  PROVE  Session(e) = Session(d)
BY DEF Core, Session

\* Nothing is under way and nothing is held.
LEMMA Clear ==
  ASSUME NEW d, NEW k, NEW u, NEW on, NEW held, NEW w, NEW lk, NEW ak,
         InTransit(u, on, w) = {}, held = {}, FirstOnly(w),
         Waits(lk, on) /\ HasConnect(u) => ~d.isconnected /\ k.op # "publish",
         HasConnack(w) => ~d.isconnected,
         d.isconnected /\ k.op # "publish" => d.inflight.id = 0,
         Cleans(d, k, held, w)
  PROVE  Safe(d, k, u, on, held, w, lk, ak)
<1>1. Single(u, on, w)
  <2>1. UpPlaces(u, on) = {} /\ DownPlaces(w) = {} BY Nothing
  <2> QED BY <2>1 DEF Single
<1> QED BY <1>1 DEF Safe, Ordered, Calm, Carries

\* No session begins or is asked for, and what is sent next is read only if it was before.
Milder(u1, on1, w1, lk1, u, on, w, lk) ==
  /\ Open(u1, on1) => Open(u, on)
  /\ Waits(lk1, on1) /\ HasConnect(u1) => HasConnect(u)
  /\ Waits(lk1, on1) => Waits(lk, on)
  /\ FirstOnly(w) => FirstOnly(w1)
  /\ HasConnack(w1) => HasConnack(w)
  /\ Accepted(w1) => Accepted(w)

\* Packets are lost, read or sent that carry nothing.
Less(u1, on1, w1, lk1, u, on, w, lk) ==
  Fewer(u1, on1, w1, u, on, w) /\ Milder(u1, on1, w1, lk1, u, on, w, lk)

LEMMA Lose ==
  ASSUME NEW d, NEW k, NEW u, NEW on, NEW held, NEW w, NEW lk, NEW ak,
         NEW u1, NEW on1, NEW w1, NEW lk1,
         Safe(d, k, u, on, held, w, lk, ak), Less(u1, on1, w1, lk1, u, on, w, lk)
  PROVE  Safe(d, k, u1, on1, held, w1, lk1, ak)
<1>1. InTransit(u1, on1, w1) \subseteq InTransit(u, on, w) BY DEF Less, Fewer
<1>2. Single(u1, on1, w1) /\ FirstOnly(w1) BY DEF Safe, Less, Fewer, Milder
<1>3. InTransit(u, on, w) = {} => InTransit(u1, on1, w1) = {} BY <1>1
<1>4. Ordered(d, k, u1, on1, w1, lk1) BY <1>3 DEF Safe, Ordered, Less, Milder
<1>5. Calm(d, k, u1, on1, held, w1) BY <1>3 DEF Safe, Calm
<1>6. Carries(d, k, u1, on1, held, w1, ak) BY <1>1 DEF Safe, Carries
<1>7. Cleans(d, k, held, w1) BY DEF Safe, Cleans, Less, Milder
<1> QED BY <1>2, <1>4, <1>5, <1>6, <1>7 DEF Safe

\* The publish in flight is the same.
Remembers(e, d) == e.inflight.id = d.inflight.id /\ e.inflight.msg = d.inflight.msg

LEMMA RemembersCore ==
  ASSUME NEW d, NEW e, Core(e) = Core(d)
  PROVE  Remembers(e, d) /\ e.isconnected = d.isconnected /\ e.inflight = d.inflight
         /\ e.pubrel = d.pubrel /\ e.nextId = d.nextId /\ e.cleansession = d.cleansession
BY DEF Core, Remembers

\* The session is closed.
LEMMA CloseSafe ==
  ASSUME NEW d \in Object, NEW e, Core(e) = Core(closeSession(d)),
         NEW k, NEW u, NEW on, NEW held, NEW w, NEW lk, NEW ak,
         Safe(d, k, u, on, held, w, lk, ak)
  PROVE  /\ Safe(e, k, u, on, held, w, lk, ak) /\ ~e.isconnected
         /\ Remembers(e, d) /\ e.nextId = d.nextId
<1> DEFINE x == closeSession(d)
<1>1. /\ ~x.isconnected /\ x.cleansession = d.cleansession /\ x.nextId = d.nextId
      /\ d.cleansession => x.inflight = [d.inflight EXCEPT !.id = 0, !.qos = 0] /\ x.pubrel = FALSE
      /\ ~d.cleansession => x.inflight = d.inflight /\ x.pubrel = d.pubrel
  BY CloseType
<1> HIDE DEF x
<1>2. d.inflight \in [id : Ids, qos : Levels, msg : OutMsgs \cup {0}] BY DEF Object
<1>3. x.inflight.id = d.inflight.id
  <2>1. CASE d.cleansession
    <3>1. d.inflight.id = 0 BY <2>1 DEF Safe, Cleans
    <3>2. [d.inflight EXCEPT !.id = 0, !.qos = 0].id = 0 BY <1>2
    <3> QED BY <1>1, <2>1, <3>1, <3>2
  <2>2. CASE ~d.cleansession BY <1>1, <2>2
  <2> QED BY <2>1, <2>2
<1>4. ~x.pubrel BY <1>1 DEF Safe, Cleans
<1>5. Known(k) => Cur(x, k) = Cur(d, k) \/ (k.op # "publish" /\ d.inflight.id = 0)
  <2>1. CASE k.op = "publish" BY <1>1, <2>1 DEF Cur
  <2>2. CASE k.op # "publish" /\ d.cleansession BY <2>2 DEF Safe, Cleans
  <2>3. CASE k.op # "publish" /\ ~d.cleansession BY <1>1, <2>3 DEF Cur
  <2> QED BY <2>1, <2>2, <2>3
<1>6. Ordered(x, k, u, on, w, lk) BY <1>1, <1>3 DEF Safe, Ordered
<1>7. Calm(x, k, u, on, held, w) BY <1>1 DEF Calm
<1>8. Carries(x, k, u, on, held, w, ak)
  <2> SUFFICES ASSUME Known(k)
               PROVE  /\ \A p \in InTransit(u, on, w) : Match(p, Cur(x, k), held, ak)
                      /\ \A h \in held : h = Entry(Cur(x, k)) /\ Cur(x, k).qos = 2 /\ Cur(x, k).id # 0
    BY DEF Carries
  <2>1. /\ \A p \in InTransit(u, on, w) : Match(p, Cur(d, k), held, ak)
        /\ \A h \in held : h = Entry(Cur(d, k)) /\ Cur(d, k).qos = 2 /\ Cur(d, k).id # 0
    BY DEF Safe, Carries
  <2>2. CASE Cur(x, k) = Cur(d, k) BY <2>1, <2>2
  <2>3. CASE k.op # "publish" /\ d.inflight.id = 0
    <3>1. Cur(d, k).id = 0 BY <2>3 DEF Cur
    <3>2. InTransit(u, on, w) = {} /\ held = {} BY <2>1, <3>1 DEF Match
    <3> QED BY <3>2
  <2> QED BY <1>5, <2>2, <2>3
<1>9. Cleans(x, k, held, w)
  <2>1. k.op = "publish" /\ ~CleanSession => x.inflight = Cur(x, k)
    <3> SUFFICES ASSUME k.op = "publish", ~CleanSession PROVE x.inflight = Cur(x, k) OBVIOUS
    <3>1. d.inflight = Cur(d, k) /\ d.cleansession = CleanSession BY DEF Safe, Cleans
    <3>2. Cur(x, k) = Cur(d, k) BY <1>1 DEF Cur
    <3>3. ~d.cleansession BY <3>1
    <3> QED BY <1>1, <3>1, <3>2, <3>3
  <2>2. /\ x.cleansession => x.inflight.id = 0
        /\ CleanSession => x.cleansession
        /\ x.isconnected \/ k.op \notin {"none", "yield"} => x.cleansession = CleanSession
        /\ k.op = "connect" /\ k.await # "CONNACK" => ~CleanSession
        /\ CleanSession /\ Accepted(w) => held = {}
    BY <1>1, <1>3 DEF Safe, Cleans
  <2> QED BY <1>4, <2>1, <2>2 DEF Cleans
<1>10. Safe(x, k, u, on, held, w, lk, ak) BY <1>6, <1>7, <1>8, <1>9 DEF Safe
<1>11. Session(e) = Session(x) BY CoreSession DEF x
<1>12. e.isconnected = x.isconnected /\ e.inflight = x.inflight /\ e.nextId = x.nextId BY <1>11 DEF Session
<1>13. x.inflight.msg = d.inflight.msg
  <2>1. [d.inflight EXCEPT !.id = 0, !.qos = 0].msg = d.inflight.msg BY <1>2
  <2> QED BY <1>1, <2>1
<1>14. Remembers(e, d) BY <1>3, <1>12, <1>13 DEF Remembers
<1>15. Safe(e, k, u, on, held, w, lk, ak) BY <1>10, <1>11, Stay
<1> QED BY <1>1, <1>12, <1>14, <1>15

\* The call returns.
LEMMA EndSafe ==
  ASSUME NEW d, NEW k, NEW u, NEW on, NEW held, NEW w, NEW lk, NEW ak,
         Safe(d, k, u, on, held, w, lk, ak), k.op = "publish" => ~d.isconnected
  PROVE  Safe(d, NoCall, u, on, held, w, lk, ak)
<1>1. NoCall.op = "none" BY NoCallType
<1>2. ~CleanSession => Cur(d, NoCall) = Cur(d, k)
  <2>1. CASE k.op = "publish"
    <3>1. ~CleanSession => d.inflight = Cur(d, k) BY <2>1 DEF Safe, Cleans
    <3> QED BY <1>1, <3>1 DEF Cur
  <2>2. CASE k.op # "publish" BY <1>1, <2>2 DEF Cur
  <2> QED BY <2>1, <2>2
<1>3. Ordered(d, NoCall, u, on, w, lk) BY <1>1 DEF Safe, Ordered
<1>4. Calm(d, NoCall, u, on, held, w) BY <1>1 DEF Safe, Calm
<1>5. Carries(d, NoCall, u, on, held, w, ak) BY <1>1, <1>2 DEF Safe, Carries, Known
<1>6. Cleans(d, NoCall, held, w) BY <1>1 DEF Safe, Cleans
<1> QED BY <1>3, <1>4, <1>5, <1>6 DEF Safe

\* A call other than connect and publish begins.
LEMMA BeginSafe ==
  ASSUME NEW d, NEW e, NEW k, NEW u, NEW on, NEW held, NEW w, NEW lk, NEW ak,
         Safe(d, NoCall, u, on, held, w, lk, ak),
         k.op = "yield" \/ (k.op \in {"subscribe", "unsubscribe"} /\ d.isconnected),
         e.isconnected = d.isconnected, e.cleansession = d.cleansession,
         e.inflight = d.inflight, e.pubrel = d.pubrel
  PROVE  Safe(e, k, u, on, held, w, lk, ak)
<1>1. NoCall.op = "none" BY NoCallType
<1>2. k.op \notin {"connect", "publish"} OBVIOUS
<1>3. Cur(e, k) = Cur(d, NoCall) BY <1>1, <1>2 DEF Cur
<1>4. Known(k) <=> Known(NoCall) BY <1>1, <1>2 DEF Known
<1>5. Ordered(e, k, u, on, w, lk) BY <1>1, <1>2 DEF Safe, Ordered
<1>6. Calm(e, k, u, on, held, w) BY <1>1, <1>2 DEF Safe, Calm
<1>7. Carries(e, k, u, on, held, w, ak) BY <1>3, <1>4 DEF Safe, Carries
<1>8. Cleans(e, k, held, w)
  <2>1. e.isconnected \/ k.op \notin {"none", "yield"} => e.cleansession = CleanSession
    BY DEF Safe, Cleans
  <2> QED BY <1>1, <1>2, <2>1 DEF Safe, Cleans
<1> QED BY <1>5, <1>6, <1>7, <1>8 DEF Safe

\* A packet that carries the publish is answered by the next one.
LEMMA Pass ==
  ASSUME NEW d, NEW k, NEW u, NEW on, NEW held, NEW w, NEW lk, NEW ak,
         NEW u1, NEW on1, NEW w1, NEW lk1, NEW held1, NEW ak1, NEW t, NEW p,
         Safe(d, k, u, on, held, w, lk, ak), t \in InTransit(u, on, w),
         Single(u1, on1, w1), InTransit(u1, on1, w1) \subseteq {p},
         Milder(u1, on1, w1, lk1, u, on, w, lk),
         Known(k) => /\ Match(p, Cur(d, k), held1, ak1)
                     /\ \A h \in held1 : h = Entry(Cur(d, k)) /\ Cur(d, k).qos = 2 /\ Cur(d, k).id # 0,
         CleanSession /\ Accepted(w) => held1 = {}
  PROVE  Safe(d, k, u1, on1, held1, w1, lk1, ak1)
<1>1. InTransit(u, on, w) # {} OBVIOUS
<1>2. FirstOnly(w1) BY DEF Safe, Milder
<1>3. Ordered(d, k, u1, on1, w1, lk1) BY <1>1 DEF Safe, Ordered, Milder
<1>4. Calm(d, k, u1, on1, held1, w1) BY <1>1 DEF Safe, Calm
<1>5. Carries(d, k, u1, on1, held1, w1, ak1) BY DEF Carries
<1>6. Cleans(d, k, held1, w1) BY DEF Safe, Cleans, Milder
<1> QED BY <1>2, <1>3, <1>4, <1>5, <1>6 DEF Safe

LEMMA NoConnack ==
  ASSUME NEW w, ~HasConnack(w)
  PROVE  FirstOnly(w) /\ ~Accepted(w)
BY DEF HasConnack, FirstOnly, Accepted

\* What the client sends.
LEMMA SendMilder ==
  ASSUME NEW u \in Seq(UpPacket), NEW on \in BOOLEAN, NEW p \in UpPacket, NEW w, NEW lk,
         p.type # "CONNECT"
  PROVE  Milder(Append(u, p), on, w, lk, u, on, w, lk)
<1>1. HasConnect(Append(u, p)) => HasConnect(u) BY UpPlaced
<1>2. Open(Append(u, p), on) => Open(u, on) BY UpPlaced
<1> QED BY <1>1, <1>2 DEF Milder

LEMMA SendLess ==
  ASSUME NEW u \in Seq(UpPacket), NEW on \in BOOLEAN, NEW p \in UpPacket, NEW w, NEW lk,
         p.type # "CONNECT", ~UpToken(p) \/ ~Open(u, on)
  PROVE  Less(Append(u, p), on, w, lk, u, on, w, lk)
BY SendMilder, SendPlain DEF Less

\* What the client reads.
LEMMA ReadMilder ==
  ASSUME NEW u, NEW on, NEW w \in Seq(DownPacket), w # <<>>, NEW lk
  PROVE  Milder(u, on, Tail(w), lk, u, on, w, lk)
<1>1. /\ HasConnack(Tail(w)) => HasConnack(w)
      /\ Accepted(Tail(w)) => Accepted(w)
      /\ FirstOnly(w) => ~HasConnack(Tail(w))
  BY DownRead
<1>2. FirstOnly(w) => FirstOnly(Tail(w)) BY <1>1, NoConnack
<1> QED BY <1>1, <1>2 DEF Milder

LEMMA ReadLess ==
  ASSUME NEW u, NEW on, NEW w \in Seq(DownPacket), w # <<>>, NEW lk
  PROVE  Less(u, on, Tail(w), lk, u, on, w, lk)
BY ReadMilder, DownRead DEF Less

\* What the broker reads in a session.
LEMMA TakeMilder ==
  ASSUME NEW u \in Seq(UpPacket), NEW w, NEW lk, u # <<>>, Head(u).type # "CONNECT"
  PROVE  Milder(Tail(u), TRUE, w, lk, u, TRUE, w, lk)
<1>1. /\ HasConnect(Tail(u)) => HasConnect(u)
      /\ Open(Tail(u), TRUE) => Open(u, TRUE)
  BY UpRead
<1> QED BY <1>1 DEF Milder

LEMMA TakeLess ==
  ASSUME NEW u \in Seq(UpPacket), NEW w, NEW lk, u # <<>>, Head(u).type # "CONNECT"
  PROVE  Less(Tail(u), TRUE, w, lk, u, TRUE, w, lk)
<1>1. Fewer(Tail(u), TRUE, w, u, TRUE, w) BY UpRead
<1> QED BY <1>1, TakeMilder DEF Less

\* What the broker sends in a session.
LEMMA GiveMilder ==
  ASSUME NEW u, NEW on, NEW w \in Seq(DownPacket), NEW s \in Seq(DownPacket), NEW lk, ~HasConnack(s)
  PROVE  Milder(u, on, w \o s, lk, u, on, w, lk)
<1>1. /\ HasConnack(w \o s) => HasConnack(w) \/ HasConnack(s)
      /\ Accepted(w \o s) => Accepted(w) \/ Accepted(s)
      /\ FirstOnly(w) /\ ~HasConnack(s) => FirstOnly(w \o s)
  BY DownPlaced
<1>2. ~Accepted(s) BY NoConnack
<1> QED BY <1>1, <1>2 DEF Milder

LEMMA GiveLess ==
  ASSUME NEW u, NEW on, NEW w \in Seq(DownPacket), NEW s \in Seq(DownPacket), NEW lk,
         ~HasConnack(s), DownPlaces(s) = {}
  PROVE  Less(u, on, w \o s, lk, u, on, w, lk)
BY GiveMilder, AnswerPlain DEF Less

LEMMA LessThen ==
  ASSUME NEW u, NEW on, NEW w, NEW lk, NEW u1, NEW on1, NEW w1, NEW lk1, NEW u2, NEW on2, NEW w2, NEW lk2
  PROVE  /\ Less(u1, on1, w1, lk1, u, on, w, lk) /\ Less(u2, on2, w2, lk2, u1, on1, w1, lk1)
              => Less(u2, on2, w2, lk2, u, on, w, lk)
         /\ Milder(u1, on1, w1, lk1, u, on, w, lk) /\ Milder(u2, on2, w2, lk2, u1, on1, w1, lk1)
              => Milder(u2, on2, w2, lk2, u, on, w, lk)
<1>1. Milder(u1, on1, w1, lk1, u, on, w, lk) /\ Milder(u2, on2, w2, lk2, u1, on1, w1, lk1)
        => Milder(u2, on2, w2, lk2, u, on, w, lk)
  BY DEF Milder
<1>2. Fewer(u1, on1, w1, u, on, w) /\ Fewer(u2, on2, w2, u1, on1, w1) => Fewer(u2, on2, w2, u, on, w)
  BY DEF Fewer
<1> QED BY <1>1, <1>2 DEF Less

-----------------------------------------------------------------------------
(* What the client does. *)

\* What is written to a link that is down is lost.
Sends(lk, u, s) == IF lk = "up" THEN u \o s ELSE u

LEMMA SendsOne ==
  ASSUME NEW u \in Seq(UpPacket), NEW lk
  PROVE  /\ Sends(lk, u, <<>>) = u
         /\ \A p \in UpPacket : Sends(lk, u, <<p>>) = IF lk = "up" THEN Append(u, p) ELSE u
         /\ \A p \in UpPacket : Append(u, p) \in Seq(UpPacket)
BY ConcatEmptySeq, AppendIsConcat, AppendProperties DEF Sends

LEMMA SendsThen ==
  ASSUME NEW u \in Seq(UpPacket), NEW lk, NEW s \in Seq(UpPacket), NEW t \in Seq(UpPacket)
  PROVE  /\ Sends(lk, u, s) \in Seq(UpPacket)
         /\ Sends(lk, u, s \o t) = Sends(lk, Sends(lk, u, s), t)
<1>1. u \o s \in Seq(UpPacket) BY ConcatProperties
<1>2. (u \o s) \o t = u \o (s \o t) BY ConcatAssociative
<1> QED BY <1>1, <1>2 DEF Sends

\* Nothing comes before the broker has accepted a session, and nothing goes
\* anywhere on a link that is down.
Still(u, on, w, lk) == /\ Waits(lk, on) => w = <<>>
                       /\ lk # "up" => u = <<>> /\ ~on

LEMMA NotOpen ==
  ASSUME NEW u, NEW on, NEW w, NEW lk, Still(u, on, w, lk), lk # "up"
  PROVE  ~Open(u, on)
BY DEF Still, Open

LEMMA OpenWaits ==
  ASSUME NEW u \in Seq(UpPacket), NEW on \in BOOLEAN, Open(u, on), ~on
  PROVE  HasConnect(u)
<1>1. Len(u) \in Nat \ {0} BY EmptySeq DEF Open
<1>2. 1 \in 1..Len(u) BY <1>1
<1>3. u[1].type = "CONNECT" BY <1>2 DEF Open, Live
<1> QED BY <1>2, <1>3 DEF HasConnect

\* connect asks for a session.
LEMMA AsksSafe ==
  ASSUME NEW d, NEW e, NEW k, NEW u, NEW v, NEW on, NEW held, NEW w, NEW lk, NEW ak,
         Safe(d, NoCall, u, on, held, w, lk, ak), k = NoCall \/ k = ConnectCall,
         ~e.isconnected, e.cleansession = CleanSession,
         e.inflight = d.inflight, e.pubrel = d.pubrel,
         Fewer(v, on, w, u, on, w),
         k = ConnectCall /\ Open(v, on) => InTransit(u, on, w) = {}
  PROVE  Safe(e, k, v, on, held, w, lk, ak)
<1>1. NoCall.op = "none" /\ ConnectCall.op = "connect" /\ ConnectCall.await = "CONNACK"
  BY NoCallType, ConnectCallType
<1>2. k.op # "publish" /\ (k.op = "connect" => k = ConnectCall /\ k.await = "CONNACK") BY <1>1
<1>3. Cur(e, k) = Cur(d, NoCall) BY <1>1, <1>2 DEF Cur
<1>4. Known(k) <=> Known(NoCall) BY <1>1, <1>2 DEF Known
<1>5. InTransit(v, on, w) \subseteq InTransit(u, on, w) BY DEF Fewer
<1>6. InTransit(u, on, w) = {} => InTransit(v, on, w) = {} BY <1>5
<1>7. Single(v, on, w) BY DEF Safe, Fewer
<1>8. Ordered(e, k, v, on, w, lk) BY <1>2, <1>6 DEF Safe, Ordered
<1>9. Calm(e, k, v, on, held, w) BY DEF Calm
<1>10. Carries(e, k, v, on, held, w, ak) BY <1>3, <1>4, <1>5 DEF Safe, Carries
<1>11. Cleans(e, k, held, w)
  <2>1. CleanSession => e.inflight.id = 0 BY DEF Safe, Cleans
  <2> QED BY <1>2, <2>1 DEF Safe, Cleans
<1> QED BY <1>7, <1>8, <1>9, <1>10, <1>11 DEF Safe

LEMMA ConnectSafe ==
  ASSUME NEW d, NEW e, NEW u \in Seq(UpPacket), NEW on \in BOOLEAN, NEW held, NEW w, NEW lk, NEW ak,
         Safe(d, NoCall, u, on, held, w, lk, ak), Still(u, on, w, lk), ConnectPacket \in UpPacket,
         ~e.isconnected, e.cleansession = CleanSession,
         e.inflight = d.inflight, e.pubrel = d.pubrel
  PROVE  /\ Safe(e, NoCall, u, on, held, w, lk, ak)
         /\ Safe(e, NoCall, Sends(lk, u, <<ConnectPacket>>), on, held, w, lk, ak)
         /\ Safe(e, ConnectCall, Sends(lk, u, <<ConnectPacket>>), on, held, w, lk, ak)
<1>1. NoCall # ConnectCall
  <2>1. NoCall.op = "none" /\ ConnectCall.op = "connect" BY NoCallType, ConnectCallType
  <2> QED BY <2>1
<1>2. Fewer(u, on, w, u, on, w) BY DEF Fewer
<1>3. Safe(e, NoCall, u, on, held, w, lk, ak) BY <1>1, <1>2, AsksSafe
<1> DEFINE v == Append(u, ConnectPacket)
<1>4. CASE lk = "up"
  <2>1. Sends(lk, u, <<ConnectPacket>>) = v BY <1>4, SendsOne
  <2>2. ConnectPacket.type = "CONNECT" BY DEF ConnectPacket
  <2>3. ~UpToken(ConnectPacket) BY <2>2 DEF UpToken
  <2>4. Fewer(v, on, w, u, on, w) BY <2>3, SendPlain
  <2>5. Open(v, on) => ~on /\ u = <<>> BY <2>2, UpPlaced
  <2>6. ASSUME ~on, u = <<>> PROVE InTransit(u, on, w) = {}
    <3>1. w = <<>> BY <1>4, <2>6 DEF Still, Waits
    <3>2. Len(u) = 0 /\ Len(w) = 0 BY <2>6, <3>1, EmptySeq
    <3>3. UpPlaces(u, on) = {} /\ DownPlaces(w) = {} BY <3>2 DEF UpPlaces, DownPlaces
    <3> QED BY <3>3, Nothing
  <2> HIDE DEF v
  <2>7. Safe(e, NoCall, v, on, held, w, lk, ak) BY <1>1, <2>4, AsksSafe
  <2>8. Open(v, on) => InTransit(u, on, w) = {} BY <2>5, <2>6
  <2>9. Safe(e, ConnectCall, v, on, held, w, lk, ak) BY <2>4, <2>8, AsksSafe
  <2> QED BY <1>3, <2>1, <2>7, <2>9
<1>5. CASE lk # "up"
  <2>1. Sends(lk, u, <<ConnectPacket>>) = u BY <1>5 DEF Sends
  <2>2. ~Open(u, on) BY <1>5, NotOpen
  <2>3. Safe(e, ConnectCall, u, on, held, w, lk, ak) BY <1>2, <2>2, AsksSafe
  <2> QED BY <1>3, <2>1, <2>3
<1> QED BY <1>4, <1>5

\* publish begins: nothing is left of an earlier one.
LEMMA PublishSafe ==
  ASSUME NEW d, NEW e, NEW k, NEW p \in UpPacket,
         NEW u \in Seq(UpPacket), NEW on \in BOOLEAN, NEW held, NEW w, NEW lk, NEW ak,
         Safe(d, NoCall, u, on, held, w, lk, ak),
         d.isconnected, e.isconnected, e.cleansession = d.cleansession, ~e.pubrel,
         k.op = "publish", Cur(e, k).id # 0,
         p.type = "PUBLISH", p.id = Cur(e, k).id, p.qos = Cur(e, k).qos, p.msg = Cur(e, k).msg,
         d.cleansession => e.inflight = d.inflight,
         ~d.cleansession => e.inflight = Cur(e, k)
  PROVE  /\ Safe(e, k, u, on, held, w, lk, ak)
         /\ Safe(e, k, Append(u, p), on, held, w, lk, ak)
<1>1. NoCall.op = "none" BY NoCallType
<1>2. InTransit(u, on, w) = {} /\ held = {} BY <1>1 DEF Safe, Calm
<1>3. ~(Waits(lk, on) /\ HasConnect(u)) /\ ~HasConnack(w) /\ FirstOnly(w) BY DEF Safe, Ordered
<1>4. Cleans(e, k, held, w)
  <2>1. d.cleansession = CleanSession /\ (d.cleansession => d.inflight.id = 0) BY DEF Safe, Cleans
  <2>2. e.cleansession => e.inflight.id = 0 BY <2>1
  <2>3. ~CleanSession => e.inflight = Cur(e, k)
    <3>1. ~CleanSession => ~d.cleansession BY <2>1
    <3> QED BY <3>1
  <2>4. (CleanSession => e.cleansession) /\ e.cleansession = CleanSession BY <2>1
  <2> QED BY <1>2, <2>2, <2>3, <2>4 DEF Cleans
<1>5. Safe(e, k, u, on, held, w, lk, ak) BY <1>2, <1>3, <1>4, Clear
<1> DEFINE v == Append(u, p)
<1>6. /\ Single(v, on, w) /\ InTransit(v, on, w) \subseteq {p}
      /\ InTransit(v, on, w) # {} => Open(u, on)
      /\ HasConnect(v) => HasConnect(u)
  BY <1>2, SendToken, UpPlaced
<1> HIDE DEF v
<1>7. Waits(lk, on) => InTransit(v, on, w) = {}
  <2>1. Waits(lk, on) /\ Open(u, on) => HasConnect(u) BY OpenWaits DEF Waits
  <2> QED BY <1>3, <1>6, <2>1
<1>8. Ordered(e, k, v, on, w, lk) BY <1>3, <1>6, <1>7 DEF Ordered
<1>9. Calm(e, k, v, on, held, w) BY DEF Calm
<1>10. Match(p, Cur(e, k), held, ak) BY DEF Match
<1>11. Carries(e, k, v, on, held, w, ak) BY <1>2, <1>6, <1>10 DEF Carries
<1>12. Safe(e, k, v, on, held, w, lk, ak) BY <1>3, <1>4, <1>6, <1>8, <1>9, <1>11 DEF Safe
<1> QED BY <1>5, <1>12 DEF v

\* A publish at QoS 0 leaves nothing to wait for.
LEMMA PlainSafe ==
  ASSUME NEW d, NEW e, NEW u, NEW on, NEW held, NEW w, NEW lk, NEW ak,
         Safe(d, NoCall, u, on, held, w, lk, ak), d.isconnected,
         e.cleansession = d.cleansession, ~e.pubrel, e.inflight.id = 0
  PROVE  Safe(e, NoCall, u, on, held, w, lk, ak)
<1>1. NoCall.op = "none" BY NoCallType
<1>2. InTransit(u, on, w) = {} /\ held = {} BY <1>1 DEF Safe, Calm
<1>3. ~(Waits(lk, on) /\ HasConnect(u)) /\ ~HasConnack(w) /\ FirstOnly(w) BY DEF Safe, Ordered
<1>4. Cleans(e, NoCall, held, w) BY <1>1, <1>2 DEF Safe, Cleans
<1> QED BY <1>2, <1>3, <1>4, Clear

\* A turn reads a packet, or nothing, and answers it; it may close the session.
LEMMA AnswerSafe ==
  ASSUME NEW d, NEW k, NEW u \in Seq(UpPacket), NEW on \in BOOLEAN, NEW held, NEW w \in Seq(DownPacket),
         NEW lk, NEW ak, Safe(d, k, u, on, held, w, lk, ak), w # <<>>, Acknowledged(Head(w))
  PROVE  Safe(d, k, Append(u, Answer(Head(w))), on, held, Tail(w), lk, ak)
<1> DEFINE p == Head(w)  a == Answer(p)  v == Append(u, a)
<1>1. p \in DownPacket /\ Tail(w) \in Seq(DownPacket) BY HeadTailProperties
<1>2. p \in Input BY <1>1 DEF Input
<1>3. /\ a \in UpPacket /\ a.type \in Acks /\ a.id = p.id
      /\ a.type = "PUBREL" <=> p.type = "PUBREC"
  BY <1>2, AnswerType
<1>4. a.type # "CONNECT" /\ a.type # "PUBLISH" BY <1>3 DEF Acks
<1> HIDE DEF a
<1>5. Milder(v, on, Tail(w), lk, u, on, Tail(w), lk) BY <1>3, <1>4, SendMilder
<1>6. CASE p.type = "PUBREC"
  <2>7. DownToken(p) /\ Single(u, on, w) BY <1>6 DEF DownToken, Safe
  <2>1. p \in InTransit(u, on, w) /\ InTransit(u, on, Tail(w)) = {} BY <2>7, DownRead
  <2>2. Single(v, on, Tail(w)) /\ InTransit(v, on, Tail(w)) \subseteq {a} BY <1>3, <2>1, SendToken
  <2>3. Milder(v, on, Tail(w), lk, u, on, w, lk)
    <3> DEFINE t == Tail(w)
    <3>1. Milder(u, on, t, lk, u, on, w, lk) BY ReadMilder
    <3> HIDE DEF v, t
    <3>2. Milder(v, on, t, lk, u, on, w, lk) BY <1>5, <3>1, LessThen DEF t
    <3> QED BY <3>2 DEF t
  <2>4. Known(k) => /\ Match(a, Cur(d, k), held, ak)
                    /\ \A h \in held : h = Entry(Cur(d, k)) /\ Cur(d, k).qos = 2 /\ Cur(d, k).id # 0
    <3> SUFFICES ASSUME Known(k)
                 PROVE  /\ Match(a, Cur(d, k), held, ak)
                        /\ \A h \in held : h = Entry(Cur(d, k)) /\ Cur(d, k).qos = 2 /\ Cur(d, k).id # 0
      OBVIOUS
    <3>1. /\ Match(p, Cur(d, k), held, ak)
          /\ \A h \in held : h = Entry(Cur(d, k)) /\ Cur(d, k).qos = 2 /\ Cur(d, k).id # 0
      BY <2>1 DEF Safe, Carries
    <3>2. a.type = "PUBREL" BY <1>3, <1>6
    <3>3. Match(a, Cur(d, k), held, ak) BY <1>3, <1>6, <3>1, <3>2 DEF Match
    <3> QED BY <3>1, <3>3
  <2>5. CleanSession /\ Accepted(w) => held = {} BY DEF Safe, Cleans
  <2> HIDE DEF p, v
  <2>6. Safe(d, k, v, on, held, Tail(w), lk, ak) BY <2>1, <2>2, <2>3, <2>4, <2>5, Pass
  <2> QED BY <2>6 DEF p, v, a
<1>7. CASE p.type # "PUBREC"
  <2>1. ~UpToken(a) BY <1>3, <1>4, <1>7 DEF UpToken
  <2>2. Less(v, on, Tail(w), lk, u, on, Tail(w), lk) BY <1>3, <1>4, <2>1, SendLess
  <2>3. Less(v, on, Tail(w), lk, u, on, w, lk) BY <2>2, ReadLess, LessThen
  <2> HIDE DEF p, v
  <2>4. Safe(d, k, v, on, held, Tail(w), lk, ak) BY <2>3, Lose
  <2> QED BY <2>4 DEF p, v, a
<1> QED BY <1>6, <1>7

LEMMA PingPacket == Ping \in UpPacket /\ Ping.type # "CONNECT" /\ ~UpToken(Ping)
BY DEF Ping, UpPacket, UpToken

LEMMA PingSafe ==
  ASSUME NEW d, NEW k, NEW u \in Seq(UpPacket), NEW on \in BOOLEAN, NEW held, NEW w, NEW lk, NEW ak,
         Safe(d, k, u, on, held, w, lk, ak)
  PROVE  Safe(d, k, Append(u, Ping), on, held, w, lk, ak)
<1>1. Less(Append(u, Ping), on, w, lk, u, on, w, lk) BY PingPacket, SendLess
<1> QED BY <1>1, Lose

LEMMA AfterCycle ==
  ASSUME NEW d \in Object, NEW r, NEW p, Cycles(r, d, p),
         NEW k, NEW u, NEW on, NEW held, NEW w, NEW lk, NEW ak, Safe(d, k, u, on, held, w, lk, ak)
  PROVE  /\ Safe(r.c, k, u, on, held, w, lk, ak)
         /\ Remembers(r.c, d) /\ r.c.nextId = d.nextId
         /\ ~d.isconnected => Core(r.c) = Core(d)
<1>1. CASE Core(r.c) = Core(d) BY <1>1, CoreSession, Stay, RemembersCore
<1>2. CASE d.isconnected /\ Core(r.c) = Core(closeSession(d)) BY <1>2, CloseSafe
<1> QED BY <1>1, <1>2 DEF Cycles

\* What a turn that reads packet p sends.
LEMMA SentInTurn ==
  ASSUME NEW u \in Seq(UpPacket), NEW lk, NEW p \in Input, NEW s \in Sendable(p)
  PROVE  /\ Sends(lk, u, s) \in Seq(UpPacket)
         /\ \/ Sends(lk, u, s) = u \/ Sends(lk, u, s) = Append(u, Ping)
            \/ /\ Acknowledged(p)
               /\ \/ Sends(lk, u, s) = Append(u, Answer(p))
                  \/ Sends(lk, u, s) = Append(Append(u, Answer(p)), Ping)
<1>1. s \in Seq(UpPacket) BY SendableType
<1>2. Sends(lk, u, s) \in Seq(UpPacket) BY <1>1, SendsThen
<1>3. CASE s = <<>> BY <1>2, <1>3, SendsOne
<1>4. CASE s = <<Ping>> BY <1>2, <1>4, PingPacket, SendsOne
<1>5. CASE Acknowledged(p) /\ s = <<Answer(p)>>
  <2>1. Answer(p) \in UpPacket BY <1>5, AnswerType
  <2> QED BY <1>2, <1>5, <2>1, SendsOne
<1>6. CASE Acknowledged(p) /\ s = <<Answer(p), Ping>>
  <2>1. Answer(p) \in UpPacket BY <1>6, AnswerType
  <2> DEFINE s1 == <<Answer(p)>>  s2 == <<Ping>>
  <2>2. s = s1 \o s2 BY <1>6, ShortConcat
  <2>3. s1 \in Seq(UpPacket) /\ s2 \in Seq(UpPacket) BY <2>1, PingPacket
  <2>4. Sends(lk, u, s1) = IF lk = "up" THEN Append(u, Answer(p)) ELSE u BY <2>1, SendsOne
  <2>5. Sends(lk, u, s1) \in Seq(UpPacket) BY <2>3, SendsThen
  <2>6. Sends(lk, Sends(lk, u, s1), s2) = IF lk = "up" THEN Append(Sends(lk, u, s1), Ping) ELSE Sends(lk, u, s1)
    BY <2>5, PingPacket, SendsOne
  <2> HIDE DEF s1, s2
  <2>7. Sends(lk, u, s) = Sends(lk, Sends(lk, u, s1), s2) BY <2>2, <2>3, SendsThen
  <2> QED BY <1>2, <1>6, <2>4, <2>6, <2>7
<1> QED BY <1>3, <1>4, <1>5, <1>6 DEF Sendable

LEMMA CycleSafe ==
  ASSUME NEW d \in Object, NEW r, NEW k, NEW u \in Seq(UpPacket), NEW on \in BOOLEAN, NEW held,
         NEW w \in Seq(DownPacket), NEW lk, NEW ak, Safe(d, k, u, on, held, w, lk, ak), w # <<>>,
         Cycles(r, d, Head(w))
  PROVE  /\ Sends(lk, u, r.out.sent) \in Seq(UpPacket)
         /\ Safe(r.c, k, Sends(lk, u, r.out.sent), on, held, Tail(w), lk, ak)
         /\ Remembers(r.c, d) /\ r.c.nextId = d.nextId
         /\ ~d.isconnected => Core(r.c) = Core(d)
         /\ Head(w).type \in {"PUBACK", "PUBCOMP"} =>
              InTransit(Sends(lk, u, r.out.sent), on, Tail(w)) = {}
         /\ ~Acknowledged(Head(w)) /\ InTransit(u, on, w) = {} =>
              InTransit(Sends(lk, u, r.out.sent), on, Tail(w)) = {}
<1> DEFINE p == Head(w)  v == Sends(lk, u, r.out.sent)
<1>1. p \in Input BY HeadTailProperties DEF Input
<1>2. r.out.sent \in Sendable(p) BY DEF Cycles
<1>3. /\ v \in Seq(UpPacket)
      /\ \/ v = u \/ v = Append(u, Ping)
         \/ /\ Acknowledged(p)
            /\ v = Append(u, Answer(p)) \/ v = Append(Append(u, Answer(p)), Ping)
  <2> HIDE DEF p
  <2> QED BY <1>1, <1>2, SentInTurn
<1>4. Safe(d, k, u, on, held, Tail(w), lk, ak) BY ReadLess, Lose
<1> HIDE DEF v
<1>5. Safe(d, k, v, on, held, Tail(w), lk, ak)
  <2>1. CASE v = u BY <1>4, <2>1
  <2>2. CASE v = Append(u, Ping) BY <1>4, <2>2, PingSafe
  <2>3. CASE Acknowledged(p) /\ v = Append(u, Answer(p)) BY <2>3, AnswerSafe
  <2>4. CASE Acknowledged(p) /\ v = Append(Append(u, Answer(p)), Ping)
    <3>1. Answer(p) \in UpPacket BY <1>1, <2>4, AnswerType
    <3>2. Append(u, Answer(p)) \in Seq(UpPacket) BY <3>1, AppendProperties
    <3>3. Safe(d, k, Append(u, Answer(p)), on, held, Tail(w), lk, ak) BY <2>4, AnswerSafe
    <3> QED BY <2>4, <3>2, <3>3, PingSafe
  <2> QED BY <1>3, <2>1, <2>2, <2>3, <2>4
<1>6. /\ Safe(r.c, k, v, on, held, Tail(w), lk, ak)
      /\ Remembers(r.c, d) /\ r.c.nextId = d.nextId
      /\ ~d.isconnected => Core(r.c) = Core(d)
  BY <1>5, AfterCycle
<1>8. ASSUME ~Acknowledged(p) PROVE Fewer(v, on, Tail(w), u, on, Tail(w))
  <2>1. CASE v = u BY <2>1 DEF Fewer
  <2>2. CASE v = Append(u, Ping) BY <2>2, PingPacket, SendPlain
  <2> QED BY <1>3, <1>8, <2>1, <2>2
<1>7. ASSUME p.type \in {"PUBACK", "PUBCOMP"} PROVE InTransit(v, on, Tail(w)) = {}
  <2>1. DownToken(p) /\ ~Acknowledged(p) BY <1>7 DEF DownToken, Acknowledged
  <2>2. InTransit(u, on, Tail(w)) = {} BY <2>1, DownRead DEF Safe
  <2>3. Fewer(v, on, Tail(w), u, on, Tail(w)) BY <1>8, <2>1
  <2> QED BY <2>2, <2>3 DEF Fewer
<1>9. ASSUME ~Acknowledged(p), InTransit(u, on, w) = {} PROVE InTransit(v, on, Tail(w)) = {}
  <2>1. Fewer(v, on, Tail(w), u, on, Tail(w)) BY <1>8, <1>9
  <2>2. Fewer(u, on, Tail(w), u, on, w) BY DownRead
  <2> QED BY <1>9, <2>1, <2>2 DEF Fewer
<1> QED BY <1>3, <1>6, <1>7, <1>9 DEF v

\* A turn that reads nothing.
LEMMA EmptyCycleSafe ==
  ASSUME NEW d \in Object, NEW r, NEW k, NEW u \in Seq(UpPacket), NEW on \in BOOLEAN, NEW held,
         NEW w, NEW lk, NEW ak, Safe(d, k, u, on, held, w, lk, ak),
         NEW p \in Input, p.type \in {TIMEOUT, SHORT}, Cycles(r, d, p)
  PROVE  /\ Sends(lk, u, r.out.sent) \in Seq(UpPacket)
         /\ Safe(r.c, k, Sends(lk, u, r.out.sent), on, held, w, lk, ak)
         /\ Remembers(r.c, d) /\ (~d.isconnected => Core(r.c) = Core(d))
<1> DEFINE v == Sends(lk, u, r.out.sent)
<1>1. ~Acknowledged(p) BY DEF Acknowledged, TIMEOUT, SHORT
<1>2. r.out.sent \in Sendable(p) BY DEF Cycles
<1>3. v \in Seq(UpPacket) /\ (v = u \/ v = Append(u, Ping)) BY <1>1, <1>2, SentInTurn
<1> HIDE DEF v
<1>4. Safe(d, k, v, on, held, w, lk, ak) BY <1>3, PingSafe
<1>5. /\ Safe(r.c, k, v, on, held, w, lk, ak)
      /\ Remembers(r.c, d) /\ (~d.isconnected => Core(r.c) = Core(d))
  BY <1>4, AfterCycle
<1> QED BY <1>3, <1>5 DEF v

\* The acknowledgment p that the call waits for: cycle makes r of the object d,
\* and the call e of that.
AckRead(d, r, e, k, p, u, v, on, held, w, w1, lk, ak) ==
  /\ Safe(d, k, u, on, held, w, lk, ak) /\ Safe(r, k, v, on, held, w1, lk, ak)
  /\ k.op \in {"connect", "publish"} /\ k.await = p.type /\ p.type \in {"PUBACK", "PUBCOMP"}
  /\ p \in InTransit(u, on, w) /\ InTransit(v, on, w1) = {}
  /\ ~Waits(lk, on) /\ ~HasConnack(w1)
  /\ r.nextId = d.nextId /\ (k.op = "connect" => r.inflight = d.inflight)
  /\ e.inflight = IF r.inflight.id = p.id THEN [r.inflight EXCEPT !.id = 0] ELSE r.inflight
  /\ r.inflight \in [id : Ids, qos : Levels, msg : OutMsgs \cup {0}]
  /\ e.pubrel = r.pubrel /\ e.cleansession = r.cleansession

\* The publish is over.
LEMMA AckSafe ==
  ASSUME NEW d, NEW r, NEW e, NEW k, NEW p, NEW u, NEW v, NEW on, NEW held, NEW w, NEW w1, NEW lk, NEW ak,
         AckRead(d, r, e, k, p, u, v, on, held, w, w1, lk, ak)
  PROVE  /\ Safe(e, NoCall, v, on, held, w1, lk, ak)
         /\ k.op = "publish" => k.msg \in ak
         /\ r.inflight.id # 0 => r.inflight.msg \in ak
<1> USE DEF AckRead
<1>1. NoCall.op = "none" BY NoCallType
<1>2. Known(k) BY DEF Safe, Cleans, Known
<1>3. /\ Match(p, Cur(d, k), held, ak)
      /\ \A h \in held : h = Entry(Cur(d, k)) /\ Cur(d, k).qos = 2 /\ Cur(d, k).id # 0
  BY <1>2 DEF Safe, Carries
<1>4. held = {}
  <2>1. CASE p.type = "PUBACK"
    <3>1. Cur(d, k).qos = 1 BY <1>3, <2>1 DEF Match
    <3>2. 1 # 2 OBVIOUS
    <3> QED BY <1>3, <3>1, <3>2
  <2>2. CASE p.type = "PUBCOMP" BY <1>3, <2>2 DEF Match
  <2> QED BY <2>1, <2>2
<1>5. Cur(d, k).id = p.id /\ Cur(d, k).msg \in ak BY <1>3 DEF Match
<1>6. CleanSession => r.inflight.id = 0 BY DEF Safe, Cleans
<1>7. ~CleanSession => r.inflight = Cur(d, k)
  <2>1. CASE k.op = "connect" BY <2>1 DEF Cur
  <2>2. CASE k.op = "publish"
    <3>1. Cur(r, k) = Cur(d, k) BY <2>2 DEF Cur
    <3> QED BY <2>2, <3>1 DEF Safe, Cleans
  <2> QED BY <2>1, <2>2
<1>8. e.inflight.id = 0
  <2>1. CASE r.inflight.id = p.id
    <3>1. [r.inflight EXCEPT !.id = 0].id = 0 OBVIOUS
    <3> QED BY <2>1, <3>1
  <2>2. CASE r.inflight.id # p.id
    <3>1. CleanSession BY <1>5, <1>7, <2>2
    <3> QED BY <1>6, <2>2, <3>1
  <2> QED BY <2>1, <2>2
<1>9. Cleans(e, NoCall, held, w1)
  <2>1. (CleanSession => e.cleansession) /\ e.cleansession = CleanSession /\ ~e.pubrel
    BY DEF Safe, Cleans
  <2> QED BY <1>1, <1>4, <1>8, <2>1 DEF Cleans
<1>10. FirstOnly(w1) BY NoConnack
<1>11. Safe(e, NoCall, v, on, held, w1, lk, ak) BY <1>4, <1>8, <1>9, <1>10, Clear
<1>12. k.op = "publish" => k.msg \in ak BY <1>5 DEF Cur
<1>13. r.inflight.id # 0 => r.inflight.msg \in ak BY <1>5, <1>6, <1>7
<1> QED BY <1>11, <1>12, <1>13

\* connect after its wait for the CONNACK, whatever came of it: with nothing
\* in flight it returns, else it sends the publish again.
LEMMA ResentSafe ==
  ASSUME NEW d \in Object, SavedOK(d), NEW k, NEW u \in Seq(UpPacket), NEW on \in BOOLEAN, NEW held,
         NEW w, NEW lk, NEW ak, Safe(d, k, u, on, held, w, lk, ak),
         k.op = "connect", k.await = "CONNACK", d.inflight.id # 0
  PROVE  /\ Resent(d) \in UpPacket /\ ~CleanSession /\ d.cleansession = CleanSession
         /\ Safe(d, NoCall, u, on, held, w, lk, ak)
         /\ Safe(d, NoCall, Append(u, Resent(d)), on, held, w, lk, ak)
<1> DEFINE p == Resent(d)  v == Append(u, p)
<1>1. p \in UpPacket BY ResentType
<1>2. ~d.pubrel /\ ~d.cleansession BY DEF Safe, Cleans
<1>3. ~CleanSession
  <2>1. d.cleansession = CleanSession BY DEF Safe, Cleans
  <2> QED BY <1>2, <2>1
<1>4. p = PublishPacket(d.inflight.id, d.inflight.qos, d.inflight.msg) BY <1>2 DEF Resent
<1>5. /\ p.type = "PUBLISH" /\ p.id = d.inflight.id /\ p.qos = d.inflight.qos
      /\ p.msg = d.inflight.msg
  BY <1>4 DEF PublishPacket
<1>6. NoCall.op = "none" BY NoCallType
<1>7. Safe(d, NoCall, u, on, held, w, lk, ak) BY EndSafe
<1>10. d.cleansession = CleanSession BY DEF Safe, Cleans
<1> HIDE DEF p
<1>8. CASE ~Open(u, on)
  <2>1. Less(v, on, w, lk, u, on, w, lk) BY <1>1, <1>5, <1>8, SendLess
  <2> HIDE DEF v
  <2>2. Safe(d, NoCall, v, on, held, w, lk, ak) BY <1>7, <2>1, Lose
  <2> QED BY <1>1, <1>3, <1>7, <1>10, <2>2 DEF v, p
<1>9. CASE Open(u, on)
  <2>1. InTransit(u, on, w) = {} BY <1>9 DEF Safe, Ordered
  <2>2. Single(v, on, w) /\ InTransit(v, on, w) \subseteq {p} BY <1>1, <2>1, SendToken
  <2>3. HasConnect(v) => HasConnect(u) BY <1>1, <1>5, UpPlaced
  <2> HIDE DEF v
  <2>4. Cur(d, NoCall) = d.inflight BY <1>6 DEF Cur
  <2>5. Match(p, Cur(d, NoCall), held, ak) BY <1>5, <2>4 DEF Match
  <2>6. Ordered(d, NoCall, v, on, w, lk) BY <1>6, <1>7, <2>3 DEF Safe, Ordered
  <2>7. ~d.isconnected BY <1>6, <1>7 DEF Safe, Calm
  <2>8. Calm(d, NoCall, v, on, held, w) BY <2>7 DEF Calm
  <2>9. Carries(d, NoCall, v, on, held, w, ak) BY <1>7, <2>2, <2>5 DEF Safe, Carries
  <2>10. Safe(d, NoCall, v, on, held, w, lk, ak) BY <1>7, <2>2, <2>6, <2>8, <2>9 DEF Safe
  <2> QED BY <1>1, <1>3, <1>7, <1>10, <2>10 DEF v, p
<1> QED BY <1>8, <1>9

\* It waits for the acknowledgment then.
LEMMA WaitsSafe ==
  ASSUME NEW d, NEW k, k.op = "connect", k.await # "CONNACK", NEW u, NEW on, NEW held, NEW w, NEW lk, NEW ak,
         Safe(d, NoCall, u, on, held, w, lk, ak), ~CleanSession, d.cleansession = CleanSession
  PROVE  Safe(d, k, u, on, held, w, lk, ak)
<1>1. NoCall.op = "none" BY NoCallType
<1>2. Cur(d, k) = Cur(d, NoCall) BY <1>1 DEF Cur
<1>3. Known(k) <=> Known(NoCall) BY <1>1 DEF Known
<1>4. Ordered(d, k, u, on, w, lk) BY <1>1 DEF Safe, Ordered
<1>5. Calm(d, k, u, on, held, w) BY <1>1 DEF Safe, Calm
<1>6. Carries(d, k, u, on, held, w, ak) BY <1>2, <1>3 DEF Safe, Carries
<1>7. Cleans(d, k, held, w) BY DEF Safe, Cleans
<1> QED BY <1>4, <1>5, <1>6, <1>7 DEF Safe

LEMMA ResendSafe ==
  ASSUME NEW d \in Object, SavedOK(d), NEW k \in Call, k.op = "connect", k.await = "CONNACK",
         NEW u \in Seq(UpPacket), NEW on \in BOOLEAN, NEW held, NEW w, NEW lk, NEW ak,
         Safe(d, k, u, on, held, w, lk, ak), ~d.isconnected,
         d.inflight.id # 0 => AckAwaited(d.inflight.qos) # "none",
         NEW s, NEW rc, ResendOutcome(s, d, rc, k),
         rc = SUCCESS /\ d.inflight.id = 0 =>
           InTransit(u, on, w) = {} /\ held = {} /\ ~Waits(lk, on) /\ ~HasConnack(w)
  PROVE  /\ Safe(s.c, s.call, Sends(lk, u, s.out.sent), on, held, w, lk, ak)
         /\ Remembers(s.c, d)
<1>1. CASE d.inflight.id = 0
  <2>1. s.call = NoCall /\ Sends(lk, u, s.out.sent) = u BY <1>1, NoWriteType, SendsOne DEF ResendOutcome
  <2>2. CASE rc = SUCCESS
    <3>1. s.c.inflight = d.inflight /\ s.c.pubrel = d.pubrel /\ s.c.cleansession = d.cleansession
      BY <1>1, <2>2 DEF ResendOutcome
    <3>2. NoCall.op = "none" BY NoCallType
    <3>3. d.cleansession = CleanSession BY DEF Safe, Cleans
    <3>4. Cleans(s.c, NoCall, held, w) BY <2>2, <1>1, <3>1, <3>2, <3>3 DEF Safe, Cleans
    <3>5. FirstOnly(w) BY DEF Safe
    <3>6. s.c.inflight.id = 0 BY <1>1, <3>1
    <3>7. Safe(s.c, NoCall, u, on, held, w, lk, ak) BY <1>1, <2>2, <3>4, <3>5, <3>6, Clear
    <3> QED BY <2>1, <3>1, <3>7 DEF Remembers
  <2>3. CASE rc # SUCCESS
    <3>1. s.c = d BY <1>1, <2>3 DEF ResendOutcome
    <3>2. Safe(d, NoCall, u, on, held, w, lk, ak) BY EndSafe
    <3> QED BY <2>1, <3>1, <3>2 DEF Remembers
  <2> QED BY <2>2, <2>3
<1>2. CASE d.inflight.id # 0
  <2> DEFINE v == Sends(lk, u, s.out.sent)
  <2>1. /\ Resent(d) \in UpPacket /\ ~CleanSession /\ d.cleansession = CleanSession
        /\ Safe(d, NoCall, u, on, held, w, lk, ak)
        /\ Safe(d, NoCall, Append(u, Resent(d)), on, held, w, lk, ak)
    BY <1>2, ResentSafe
  <2>2. s.out.sent = <<>> \/ s.out.sent = <<Resent(d)>> BY <1>2 DEF ResendOutcome
  <2>3. v = u \/ v = Append(u, Resent(d))
    <3> DEFINE p == Resent(d)
    <3>1. p \in UpPacket BY <2>1
    <3> HIDE DEF p
    <3>2. Sends(lk, u, <<>>) = u BY SendsOne
    <3>3. Sends(lk, u, <<p>>) = IF lk = "up" THEN Append(u, p) ELSE u BY <3>1, SendsOne
    <3>4. s.out.sent = <<>> \/ s.out.sent = <<p>> BY <2>2 DEF p
    <3>5. v = u \/ v = Append(u, p) BY <3>2, <3>3, <3>4
    <3> QED BY <3>5 DEF p
  <2> HIDE DEF v
  <2>4. Safe(d, NoCall, v, on, held, w, lk, ak) BY <2>1, <2>3
  <2>5. CASE s.call = NoCall /\ Core(s.c) = Core(closeSession(d))
    <3>1. Safe(s.c, NoCall, v, on, held, w, lk, ak) /\ Remembers(s.c, d) BY <2>4, <2>5, CloseSafe
    <3> QED BY <2>5, <3>1 DEF v
  <2>6. CASE /\ s.call = [k EXCEPT !.await = AckAwaited(d.inflight.qos)]
             /\ Core(s.c) = Core(d)
    <3>1. d.inflight.qos \in Levels /\ AckAwaited(d.inflight.qos) # "none" BY <1>2 DEF Object
    <3>2. AckAwaited(d.inflight.qos) # "CONNACK" BY DEF AckAwaited
    <3>3. s.call.op = "connect" /\ s.call.await # "CONNACK" BY <2>6, <3>2 DEF Call
    <3>4. Session(s.c) = Session(d) /\ Remembers(s.c, d) /\ s.c.cleansession = d.cleansession
      BY <2>6, CoreSession, RemembersCore
    <3>5. Safe(s.c, NoCall, v, on, held, w, lk, ak) BY <2>4, <3>4, Stay
    <3>6. s.c.cleansession = CleanSession BY <2>1, <3>4
    <3>7. Safe(s.c, s.call, v, on, held, w, lk, ak) BY <2>1, <3>3, <3>5, <3>6, WaitsSafe
    <3> QED BY <3>4, <3>7 DEF v
  <2> QED BY <1>2, <2>5, <2>6 DEF ResendOutcome
<1> QED BY <1>1, <1>2

\* The end of a call that closes the session, or leaves it as it is.
LEMMA OverSafe ==
  ASSUME NEW d \in Object, NEW k, NEW u \in Seq(UpPacket), NEW on, NEW held, NEW w, NEW lk, NEW ak,
         Safe(d, k, u, on, held, w, lk, ak), NEW s, NEW rcs, Over(s, rcs),
         s.c = closeSession(d) \/ (s.c = d /\ k.op # "publish")
  PROVE  /\ Safe(s.c, s.call, Sends(lk, u, s.out.sent), on, held, w, lk, ak)
         /\ Remembers(s.c, d)
<1>1. s.call = NoCall /\ Sends(lk, u, s.out.sent) = u BY NoWriteType, SendsOne DEF Over
<1>2. CASE s.c = closeSession(d)
  <2>1. Core(s.c) = Core(closeSession(d)) BY <1>2
  <2>2. /\ Safe(s.c, k, u, on, held, w, lk, ak) /\ ~s.c.isconnected
        /\ Remembers(s.c, d)
    BY <2>1, CloseSafe
  <2> QED BY <1>1, <2>2, EndSafe
<1>3. CASE s.c = d /\ k.op # "publish" BY <1>1, <1>3, EndSafe DEF Remembers
<1> QED BY <1>2, <1>3

LEMMA UnansweredSafe ==
  ASSUME NEW d \in Object, SavedOK(d), Waiting(call),
         NEW u \in Seq(UpPacket), NEW on \in BOOLEAN, NEW held, NEW w, NEW lk, NEW ak,
         Safe(d, call, u, on, held, w, lk, ak), call.op = "connect" => ~d.isconnected,
         d.inflight.id # 0 => AckAwaited(d.inflight.qos) # "none",
         NEW s, UnansweredOutcome(s, d)
  PROVE  /\ Safe(s.c, s.call, Sends(lk, u, s.out.sent), on, held, w, lk, ak)
         /\ Remembers(s.c, d)
<1>1. CASE call.op = "connect" /\ call.await = "CONNACK" /\ ResendOutcome(s, d, FAILURE, call)
  <2>1. call \in Call /\ FAILURE # SUCCESS BY DEF Waiting, FAILURE, SUCCESS
  <2> QED BY <1>1, <2>1, ResendSafe
<1>2. CASE call.op = "yield" /\ s.c = d /\ Over(s, {SUCCESS, FAILURE}) BY <1>2, OverSafe
<1>3. CASE s.c = closeSession(d) /\ Over(s, {FAILURE}) BY <1>3, OverSafe
<1> QED BY <1>1, <1>2, <1>3 DEF UnansweredOutcome

LEMMA AnsweredSafe ==
  ASSUME NEW d \in Object, SavedOK(d), Waiting(call),
         NEW u \in Seq(UpPacket), NEW on \in BOOLEAN, NEW held, NEW w, NEW lk, NEW ak,
         Safe(d, call, u, on, held, w, lk, ak), call.op = "connect" => ~d.isconnected,
         d.inflight.id # 0 => AckAwaited(d.inflight.qos) # "none",
         NEW d0, NEW u0, NEW w0, Safe(d0, call, u0, on, held, w0, lk, ak),
         d.nextId = d0.nextId, call.op = "connect" => d.inflight = d0.inflight,
         NEW p \in Input, p.type = call.await, ~Waits(lk, on), ~HasConnack(w),
         p.type = "CONNACK" /\ p.rc = SUCCESS /\ d.inflight.id = 0 =>
           InTransit(u, on, w) = {} /\ held = {},
         p.type \in {"PUBACK", "PUBCOMP"} => p \in InTransit(u0, on, w0) /\ InTransit(u, on, w) = {},
         NEW s, AnsweredOutcome(s, d, p)
  PROVE  /\ Safe(s.c, s.call, Sends(lk, u, s.out.sent), on, held, w, lk, ak)
         /\ Remembers(s.c, d) \/ (d.inflight.id # 0 => d.inflight.msg \in ak)
         /\ call.op = "publish" => call.msg \in ak
<1>1. CASE call.op = "connect" /\ call.await = "CONNACK" /\ ResendOutcome(s, d, p.rc, call)
  <2>1. call \in Call /\ call.op # "publish" BY <1>1 DEF Waiting
  <2>2. Safe(s.c, s.call, Sends(lk, u, s.out.sent), on, held, w, lk, ak) /\ Remembers(s.c, d)
    BY <1>1, <2>1, ResendSafe
  <2> QED BY <2>1, <2>2
<1>2. CASE /\ call.op \in {"connect", "publish"} /\ call.await \in {"PUBACK", "PUBCOMP"}
           /\ Over(s, {SUCCESS})
           /\ s.c.inflight = Acked(d, p.id).inflight /\ s.c.handlers = d.handlers
           /\ s.c.pubrel = d.pubrel /\ s.c.nextId = d.nextId /\ s.c.cleansession = d.cleansession
  <2>1. s.call = NoCall /\ Sends(lk, u, s.out.sent) = u BY <1>2, NoWriteType, SendsOne DEF Over
  <2> DEFINE e == s.c
  <2>2. e.inflight = IF d.inflight.id = p.id THEN [d.inflight EXCEPT !.id = 0] ELSE d.inflight
    BY <1>2, AckedType
  <2>3. e.pubrel = d.pubrel /\ e.cleansession = d.cleansession BY <1>2
  <2>4. d.inflight \in [id : Ids, qos : Levels, msg : OutMsgs \cup {0}] BY DEF Object
  <2>5. p.type \in {"PUBACK", "PUBCOMP"} BY <1>2
  <2>6. call.await = p.type /\ call.op \in {"connect", "publish"} BY <1>2
  <2>8. p \in InTransit(u0, on, w0) /\ InTransit(u, on, w) = {} BY <2>5
  <2> HIDE DEF e
  <2>7. /\ Safe(e, NoCall, u, on, held, w, lk, ak)
        /\ call.op = "publish" => call.msg \in ak
        /\ d.inflight.id # 0 => d.inflight.msg \in ak
    <3>1. AckRead(d0, d, e, call, p, u0, u, on, held, w0, w, lk, ak)
      BY <2>2, <2>3, <2>4, <2>5, <2>6, <2>8 DEF AckRead
    <3> QED BY <3>1, AckSafe
  <2> QED BY <2>1, <2>7 DEF e
<1>3. CASE call.op \in {"subscribe", "unsubscribe"}
  <2>1. PICK h \in Object : /\ Session(h) = Session(d)
                            /\ s.c = h \/ s.c = closeSession(h)
    BY <1>3 DEF AnsweredOutcome
  <2>2. Over(s, {SUCCESS, FAILURE}) BY <1>3 DEF AnsweredOutcome
  <2>3. Safe(h, call, u, on, held, w, lk, ak) BY <2>1, Stay
  <2>4. call.op # "publish" BY <1>3
  <2>5. Safe(s.c, s.call, Sends(lk, u, s.out.sent), on, held, w, lk, ak) /\ Remembers(s.c, h)
    BY <2>1, <2>2, <2>3, <2>4, OverSafe
  <2>6. h.inflight = d.inflight BY <2>1 DEF Session
  <2> QED BY <2>4, <2>5, <2>6 DEF Remembers
<1> QED BY <1>1, <1>2, <1>3 DEF AnsweredOutcome

-----------------------------------------------------------------------------
(***************************************************************************)
(* Steps of the client.  What they say of a publish is so: it is forgotten *)
(* (Settles) and reported (Tells) only when the broker has acknowledged it.*)
(***************************************************************************)
Sound == Types /\ Tracked /\ Quiet /\ Offline /\ Delivery

Settles(e) == c.inflight.id # 0 /\ e.inflight.id = 0 => c.inflight.msg \in acked

Tells(k, s) == k.op = "publish" /\ s.call = NoCall /\ s.rc = SUCCESS /\ k.qos > 0 => k.msg \in acked

LEMMA StillNow ==
  ASSUME Types, Quiet
  PROVE  Still(up, b.on, down, link) /\ b.on \in BOOLEAN
<1>1. b.on \in BOOLEAN BY DEF Types, BrokerTypes, BrokerObject
<1>2. link \in {"up", "down"} /\ (link = "down" => up = <<>>) BY DEF Types, ChannelTypes
<1> QED BY <1>1, <1>2 DEF Quiet, Still, Waits

\* What cycle leaves of the hypotheses above.
LEMMA AfterCycleTypes ==
  ASSUME Types, Tracked, Offline, NEW r, NEW p, Cycles(r, c, p), Remembers(r.c, c),
         ~c.isconnected => Core(r.c) = Core(c)
  PROVE  /\ r.c \in Object /\ SavedOK(r.c)
         /\ call.op = "connect" => ~r.c.isconnected /\ r.c.inflight = c.inflight
         /\ r.c.inflight.id # 0 => AckAwaited(r.c.inflight.qos) # "none"
<1>1. c \in Object /\ SavedOK(c) BY DEF Types, ClientTypes
<1>2. r.c \in Object /\ (Core(r.c) = Core(c) \/ Core(r.c) = Core(closeSession(c))) BY DEF Cycles
<1>3. SavedOK(r.c) BY <1>1, <1>2, SavedSame
<1>4. Keeps(r.c, c) BY <1>1, <1>2, KeepsSame
<1>5. r.c.inflight.id # 0 => AckAwaited(r.c.inflight.qos) # "none" BY <1>4 DEF Keeps, Tracked
<1>6. call.op = "connect" => ~r.c.isconnected /\ r.c.inflight = c.inflight
  BY RemembersCore DEF Offline
<1> QED BY <1>2, <1>3, <1>5, <1>6

\* What the call does after cycle, if it does anything.
LEMMA GoesOnSafe ==
  ASSUME NEW d, NEW k, NEW u \in Seq(UpPacket), NEW on, NEW held, NEW w, NEW lk, NEW ak,
         Safe(d, k, u, on, held, w, lk, ak), NEW s, s = Wait(d, NoWrite, k)
  PROVE  /\ Safe(s.c, s.call, Sends(lk, u, s.out.sent), on, held, w, lk, ak)
         /\ Remembers(s.c, d) /\ s.call = k
<1>1. s.c = d /\ s.call = k /\ s.out.sent = <<>> BY NoWriteType DEF Wait
<1> QED BY <1>1, SendsOne DEF Remembers

LEMMA PacketTurnSafe ==
  ASSUME Sound, down # <<>>, NEW r, NEW s, Cycles(r, c, Head(down)), TurnOutcome(r, s, Head(down))
  PROVE  /\ Safe(s.c, s.call, Sends(link, Sends(link, up, r.out.sent), s.out.sent),
                 b.on, b.held, Tail(down), link, acked)
         /\ Settles(s.c) /\ Tells(call, s)
<1> DEFINE p == Head(down)  v == Sends(link, up, r.out.sent)  w == Tail(down)
<1>1. /\ c \in Object /\ Waiting(call) /\ up \in Seq(UpPacket) /\ down \in Seq(DownPacket)
      /\ Safe(c, call, up, b.on, b.held, down, link, acked)
  BY DEF Sound, Types, ClientTypes, ChannelTypes, Delivery
<1>2. Still(up, b.on, down, link) /\ b.on \in BOOLEAN BY StillNow DEF Sound
<1>3. ~Waits(link, b.on) BY <1>2 DEF Still
<1>4. p \in DownPacket /\ p \in Input BY <1>1, HeadTailProperties DEF Input
<1>5. /\ v \in Seq(UpPacket)
      /\ Safe(r.c, call, v, b.on, b.held, w, link, acked)
      /\ Remembers(r.c, c) /\ r.c.nextId = c.nextId
      /\ ~c.isconnected => Core(r.c) = Core(c)
      /\ p.type \in {"PUBACK", "PUBCOMP"} => InTransit(v, b.on, w) = {}
      /\ ~Acknowledged(p) /\ InTransit(up, b.on, down) = {} => InTransit(v, b.on, w) = {}
  BY <1>1, <1>2, CycleSafe
<1>6. /\ r.c \in Object /\ SavedOK(r.c)
      /\ call.op = "connect" => ~r.c.isconnected /\ r.c.inflight = c.inflight
      /\ r.c.inflight.id # 0 => AckAwaited(r.c.inflight.qos) # "none"
  BY <1>5, AfterCycleTypes DEF Sound
<1>7. FirstOnly(down) => ~HasConnack(w) BY <1>1, DownRead
<1>8. ~HasConnack(w) BY <1>1, <1>7 DEF Safe
<1>9. p.type \in {"PUBACK", "PUBCOMP"} => p \in InTransit(up, b.on, down)
  <2>1. DownToken(p) => p \in InTransit(up, b.on, down) BY <1>1, DownRead
  <2> QED BY <2>1 DEF DownToken
<1>10. p.type = "CONNACK" => HasConnack(down) /\ (p.rc = SUCCESS => Accepted(down))
  <2>1. Len(down) \in Nat \ {0} BY <1>1, EmptySeq
  <2>2. 1 \in 1..Len(down) /\ p = down[1] BY <2>1
  <2> HIDE DEF p
  <2> QED BY <2>2 DEF HasConnack, Accepted
<1>11. Remembers(s.c, r.c) => Settles(s.c) BY <1>5 DEF Remembers, Settles
<1> HIDE DEF p, v, w
<1>12. CASE UnansweredOutcome(s, r.c)
  <2>1. /\ Safe(s.c, s.call, Sends(link, v, s.out.sent), b.on, b.held, w, link, acked)
        /\ Remembers(s.c, r.c)
    BY <1>1, <1>2, <1>5, <1>6, <1>12, UnansweredSafe
  <2>2. Tells(call, s)
    <3>1. call.op = "publish" => s.rc = FAILURE BY <1>12 DEF UnansweredOutcome, Over
    <3> QED BY <3>1 DEF Tells, SUCCESS, FAILURE
  <2> QED BY <1>11, <2>1, <2>2 DEF v, w
<1>13. CASE AnsweredOutcome(s, r.c, p) /\ p.type = call.await
  <2>1. p.type = "CONNACK" /\ p.rc = SUCCESS /\ r.c.inflight.id = 0 =>
           InTransit(v, b.on, w) = {} /\ b.held = {}
    <3> SUFFICES ASSUME p.type = "CONNACK", p.rc = SUCCESS, r.c.inflight.id = 0
                 PROVE  InTransit(v, b.on, w) = {} /\ b.held = {}
      OBVIOUS
    <3>1. c.inflight.id = 0 BY <1>5 DEF Remembers
    <3>2. InTransit(up, b.on, down) = {} BY <1>1, <1>10, <3>1 DEF Safe, Ordered
    <3>3. ~Acknowledged(p) BY DEF Acknowledged
    <3>4. CleanSession => b.held = {} BY <1>1, <1>10 DEF Safe, Cleans
    <3>5. ASSUME ~CleanSession PROVE b.held = {}
      <4>1. call.op # "publish" BY <1>1, <1>13 DEF Waiting, AckAwaited
      <4>2. Cur(c, call).id = 0 BY <3>1, <4>1 DEF Cur
      <4> QED BY <1>1, <3>5, <4>2 DEF Safe, Carries, Known
    <3> QED BY <1>5, <3>2, <3>3, <3>4, <3>5
  <2>2. p.type \in {"PUBACK", "PUBCOMP"} => p \in InTransit(up, b.on, down) /\ InTransit(v, b.on, w) = {}
    BY <1>5, <1>9
  <2>3. /\ Safe(s.c, s.call, Sends(link, v, s.out.sent), b.on, b.held, w, link, acked)
        /\ Remembers(s.c, r.c) \/ (r.c.inflight.id # 0 => r.c.inflight.msg \in acked)
        /\ call.op = "publish" => call.msg \in acked
    BY <1>1, <1>2, <1>3, <1>4, <1>5, <1>6, <1>8, <1>13, <2>1, <2>2, AnsweredSafe
  <2>4. Settles(s.c) BY <1>5, <1>11, <2>3 DEF Settles, Remembers
  <2>5. Tells(call, s) BY <2>3 DEF Tells
  <2> QED BY <2>3, <2>4, <2>5 DEF v, w
<1>14. CASE s = Wait(r.c, NoWrite, call)
  <2>1. /\ Safe(s.c, s.call, Sends(link, v, s.out.sent), b.on, b.held, w, link, acked)
        /\ Remembers(s.c, r.c) /\ s.call = call
    BY <1>5, <1>14, GoesOnSafe
  <2>2. Tells(call, s) BY <2>1, NoCallType DEF Tells
  <2> QED BY <1>11, <2>1, <2>2 DEF v, w
<1>15. TurnOutcome(r, s, p) BY DEF p
<1> QED BY <1>12, <1>13, <1>14, <1>15 DEF TurnOutcome

\* A turn without a packet, or with a part of one.
LEMMA EmptyTurnSafe ==
  ASSUME Sound, NEW p \in Input, p.type \in {TIMEOUT, SHORT},
         NEW w, Safe(c, call, up, b.on, b.held, w, link, acked),
         NEW r, NEW s, Cycles(r, c, p), TurnOutcome(r, s, p)
  PROVE  /\ Safe(s.c, s.call, Sends(link, Sends(link, up, r.out.sent), s.out.sent),
                 b.on, b.held, w, link, acked)
         /\ Settles(s.c) /\ Tells(call, s)
<1> DEFINE v == Sends(link, up, r.out.sent)
<1>1. c \in Object /\ Waiting(call) /\ up \in Seq(UpPacket)
  BY DEF Sound, Types, ClientTypes, ChannelTypes, Delivery
<1>2. b.on \in BOOLEAN BY StillNow DEF Sound
<1>5. /\ v \in Seq(UpPacket)
      /\ Safe(r.c, call, v, b.on, b.held, w, link, acked)
      /\ Remembers(r.c, c) /\ (~c.isconnected => Core(r.c) = Core(c))
  BY <1>1, <1>2, EmptyCycleSafe
<1>6. /\ r.c \in Object /\ SavedOK(r.c)
      /\ call.op = "connect" => ~r.c.isconnected /\ r.c.inflight = c.inflight
      /\ r.c.inflight.id # 0 => AckAwaited(r.c.inflight.qos) # "none"
  BY <1>5, AfterCycleTypes DEF Sound
<1>11. Remembers(s.c, r.c) => Settles(s.c) BY <1>5 DEF Remembers, Settles
<1> HIDE DEF v
<1>12. CASE UnansweredOutcome(s, r.c)
  <2>1. /\ Safe(s.c, s.call, Sends(link, v, s.out.sent), b.on, b.held, w, link, acked)
        /\ Remembers(s.c, r.c)
    BY <1>1, <1>2, <1>5, <1>6, <1>12, UnansweredSafe
  <2>2. Tells(call, s)
    <3>1. call.op = "publish" => s.rc = FAILURE BY <1>12 DEF UnansweredOutcome, Over
    <3> QED BY <3>1 DEF Tells, SUCCESS, FAILURE
  <2> QED BY <1>11, <2>1, <2>2 DEF v
<1>14. CASE s = Wait(r.c, NoWrite, call)
  <2>1. /\ Safe(s.c, s.call, Sends(link, v, s.out.sent), b.on, b.held, w, link, acked)
        /\ Remembers(s.c, r.c) /\ s.call = call
    BY <1>5, <1>14, GoesOnSafe
  <2>2. Tells(call, s) BY <2>1, NoCallType DEF Tells
  <2> QED BY <1>11, <2>1, <2>2 DEF v
<1>15. p.type # call.await BY <1>1 DEF Waiting, Call, TIMEOUT, SHORT
<1> QED BY <1>12, <1>14, <1>15 DEF TurnOutcome

LEMMA TimerSafe ==
  ASSUME Sound, NEW s, UnansweredOutcome(s, c)
  PROVE  /\ Safe(s.c, s.call, Sends(link, up, s.out.sent), b.on, b.held, down, link, acked)
         /\ Settles(s.c) /\ Tells(call, s)
<1>1. /\ c \in Object /\ SavedOK(c) /\ Waiting(call) /\ up \in Seq(UpPacket)
      /\ Safe(c, call, up, b.on, b.held, down, link, acked)
  BY DEF Sound, Types, ClientTypes, ChannelTypes, Delivery
<1>2. b.on \in BOOLEAN BY StillNow DEF Sound
<1>3. /\ call.op = "connect" => ~c.isconnected
      /\ c.inflight.id # 0 => AckAwaited(c.inflight.qos) # "none"
  BY DEF Sound, Offline, Tracked
<1>4. /\ Safe(s.c, s.call, Sends(link, up, s.out.sent), b.on, b.held, down, link, acked)
      /\ Remembers(s.c, c)
  BY <1>1, <1>2, <1>3, UnansweredSafe
<1>5. call.op = "publish" => s.rc = FAILURE BY DEF UnansweredOutcome, Over
<1> QED BY <1>4, <1>5 DEF Settles, Remembers, Tells, SUCCESS, FAILURE

\* The state after a turn.
LEMMA TurnDelivers ==
  ASSUME NEW k, NEW s, NEW more, TurnWith(k, s, more), link' = link, UNCHANGED <<b, acked>>,
         Safe(s.c, s.call, Sends(link, up, s.out.sent), b.on, b.held, down', link, acked),
         Tells(k, s)
  PROVE  Delivery' /\ PublishAcked' /\ c' = s.c
<1>1. c' = s.c /\ call' = s.call /\ up' = Sends(link, up, s.out.sent) BY DEF TurnWith, Sends
<1>2. Delivery' BY <1>1 DEF Delivery
<1>3. CASE s.call = NoCall
  <2>1. ret' = [call |-> k, rc |-> s.rc] BY <1>3 DEF TurnWith
  <2>2. ret'.call = k /\ ret'.rc = s.rc BY <2>1
  <2> QED BY <1>1, <1>2, <1>3, <2>2 DEF Tells, PublishAcked
<1>4. CASE s.call # NoCall
  <2>1. ret' = NoReturn BY <1>4 DEF TurnWith
  <2>2. ret'.call = NoCall BY <2>1 DEF NoReturn
  <2>3. ret'.call.op # "publish" BY <2>2, NoCallType
  <2> QED BY <1>1, <1>2, <2>3 DEF PublishAcked
<1> QED BY <1>3, <1>4

LEMMA Now ==
  ASSUME Sound
  PROVE  /\ c \in Object /\ SavedOK(c) /\ up \in Seq(UpPacket) /\ b.on \in BOOLEAN
         /\ Safe(c, call, up, b.on, b.held, down, link, acked)
         /\ Still(up, b.on, down, link) /\ ClientTypes /\ ChannelTypes
BY StillNow DEF Sound, Types, ClientTypes, ChannelTypes, Delivery

LEMMA ConnectDelivers ==
  ASSUME Sound, connect, UNCHANGED <<b, acked>>
  PROVE  Delivery' /\ PublishAcked' /\ Settles(c')
<1>1. call = NoCall /\ link' = link /\ down' = down BY DEF connect, Idle
<1>2. PICK s : Turn(ConnectCall, s) /\ ConnectOutcome(s) BY Now, ConnectCases
<1>3. Safe(c, NoCall, up, b.on, b.held, down, link, acked) BY <1>1, Now
<1>4. ConnectCall.op = "connect" BY ConnectCallType
<1>5. Tells(ConnectCall, s) BY <1>4 DEF Tells
<1> DEFINE v == Sends(link, up, s.out.sent)
<1>6. CASE c.isconnected
  <2>4. s.c = c /\ s.call = NoCall /\ s.out = NoWrite BY <1>2, <1>6 DEF ConnectOutcome
  <2>1. s.c = c /\ s.call = NoCall /\ v = up BY <2>4, Now, NoWriteType, SendsOne
  <2> HIDE DEF v
  <2>2. Safe(s.c, s.call, v, b.on, b.held, down', link, acked) BY <1>1, <1>3, <2>1
  <2>3. Delivery' /\ PublishAcked' /\ c' = s.c BY <1>1, <1>2, <1>5, <2>2, TurnDelivers DEF v, Turn
  <2> QED BY <2>1, <2>3 DEF Settles
<1>7. CASE ~c.isconnected
  <2>1. /\ ~s.c.isconnected /\ s.c.cleansession = CleanSession
        /\ s.c.inflight = c.inflight /\ s.c.pubrel = c.pubrel
        /\ \/ s.out.sent = <<ConnectPacket>> /\ s.call = ConnectCall
           \/ s.out.sent \in {<<>>, <<ConnectPacket>>} /\ s.call = NoCall
    BY <1>2, <1>7 DEF ConnectOutcome
  <2>2. ConnectPacket \in UpPacket BY DEF ConnectPacket, UpPacket
  <2>3. /\ Safe(s.c, NoCall, up, b.on, b.held, down, link, acked)
        /\ Safe(s.c, NoCall, Sends(link, up, <<ConnectPacket>>), b.on, b.held, down, link, acked)
        /\ Safe(s.c, ConnectCall, Sends(link, up, <<ConnectPacket>>), b.on, b.held, down, link, acked)
    BY <1>3, <2>1, <2>2, Now, ConnectSafe
  <2>4. Sends(link, up, <<>>) = up BY Now, SendsOne
  <2>5. Safe(s.c, s.call, v, b.on, b.held, down', link, acked) BY <1>1, <2>1, <2>3, <2>4
  <2> HIDE DEF v
  <2>6. Delivery' /\ PublishAcked' /\ c' = s.c BY <1>1, <1>2, <1>5, <2>5, TurnDelivers DEF v, Turn
  <2> QED BY <2>1, <2>6 DEF Settles
<1> QED BY <1>6, <1>7

\* A publish begins, keeps itself in a session that is not clean, and finds no
\* other there.
LEMMA PublishDelivers ==
  ASSUME QoSFits, Sound, NEW m \in OutMsgs, NEW q \in QoSs, publish(m, q), UNCHANGED <<b, acked>>
  PROVE  /\ Delivery' /\ PublishAcked' /\ c.inflight.id = 0
         /\ q # 0 /\ ~CleanSession => c'.inflight.id # 0 /\ c'.inflight.msg = m
<1> DEFINE e == Saved(Numbered(q), PublishId(q), q, m)
           p == PublishPacket(PublishId(q), q, m)
           k == PublishCall(q, m)
<1>1. call = NoCall /\ link' = link /\ down' = down BY DEF publish, Idle
<1>2. q \in Levels /\ (q # 0 => AckAwaited(q) # "none") BY AwaitsAck
<1>3. /\ e \in Object /\ SavedOK(e)
      /\ e.isconnected = c.isconnected /\ e.cleansession = c.cleansession
      /\ q # 0 => e.nextId = PublishId(q) /\ PublishId(q) # 0
      /\ c.cleansession => e.inflight = c.inflight /\ e.pubrel = c.pubrel
      /\ ~c.cleansession => e.inflight = [id |-> PublishId(q), qos |-> q, msg |-> m] /\ ~e.pubrel
      /\ PublishId(q) \in Ids
  BY <1>2, Now, NumberedType
<1>4. \E s : Turn(k, s) /\ c.isconnected /\ PublishOutcome(s, e, p, q, k, FALSE)
  BY <1>2, Now, PublishStarts
<1>5. p \in UpPacket BY <1>2, <1>3 DEF PublishPacket, UpPacket
<1>6. p.type = "PUBLISH" /\ p.id = PublishId(q) /\ p.qos = q /\ p.msg = m BY DEF PublishPacket
<1>7. k.op = "publish" /\ k.qos = q /\ k.msg = m BY DEF PublishCall, Starts
<1>8. [k EXCEPT !.await = AckAwaited(q)].op = "publish" /\ [k EXCEPT !.await = AckAwaited(q)].qos = q
      /\ [k EXCEPT !.await = AckAwaited(q)].msg = m
  BY DEF PublishCall, Starts
<1>9. q = 0 => PublishId(q) = 0 /\ AckAwaited(q) = "none" BY DEF PublishId, AckAwaited
<1> HIDE DEF e, p, k
<1>10. PICK s : Turn(k, s) /\ c.isconnected /\ PublishOutcome(s, e, p, q, k, FALSE) BY <1>4
<1> DEFINE v == Sends(link, up, s.out.sent)
           kk == [k EXCEPT !.await = AckAwaited(q)]
<1>11. Safe(c, NoCall, up, b.on, b.held, down, link, acked) BY <1>1, Now
<1>12. c.inflight.id = 0 /\ c.cleansession = CleanSession /\ ~c.pubrel
  BY <1>10, <1>11, NoCallType DEF Safe, Calm, Cleans
<1>13. ~e.pubrel BY <1>3, <1>12
<1>14. v = up \/ v = Append(up, p)
  <2>1. s.out.sent = <<>> \/ s.out.sent = <<p>> BY <1>10 DEF PublishOutcome
  <2>2. Sends(link, up, <<>>) = up BY Now, SendsOne
  <2>3. Sends(link, up, <<p>>) = IF link = "up" THEN Append(up, p) ELSE up BY <1>5, Now, SendsOne
  <2> QED BY <2>1, <2>2, <2>3
<1>15. \/ s.call = NoCall /\ s.rc = FAILURE /\ Core(s.c) = Core(closeSession(e))
       \/ AckAwaited(q) = "none" /\ Core(s.c) = Core(e) /\ s.call = NoCall
       \/ AckAwaited(q) # "none" /\ Core(s.c) = Core(e) /\ s.call = kk
  BY <1>10 DEF PublishOutcome
<1> HIDE DEF v
<1>16. CASE q # 0
  <2> HIDE DEF kk
  <2>1. Cur(e, k) = [id |-> PublishId(q), qos |-> q, msg |-> m] BY <1>3, <1>7, <1>16 DEF Cur
  <2>2. Cur(e, kk) = [id |-> PublishId(q), qos |-> q, msg |-> m] BY <1>3, <1>8, <1>16 DEF Cur, kk
  <2>3. PublishId(q) # 0 BY <1>3, <1>16
  <2>4. kk.op = "publish" BY <1>8 DEF kk
  <2>5. /\ Safe(e, k, up, b.on, b.held, down, link, acked)
        /\ Safe(e, k, Append(up, p), b.on, b.held, down, link, acked)
    <3>1. Cur(e, k).id = PublishId(q) /\ Cur(e, k).qos = q /\ Cur(e, k).msg = m BY <2>1
    <3>2. ~c.cleansession => e.inflight = Cur(e, k) BY <1>3, <2>1
    <3>3. /\ p.id = Cur(e, k).id /\ p.qos = Cur(e, k).qos /\ p.msg = Cur(e, k).msg
          /\ Cur(e, k).id # 0
      BY <1>6, <2>3, <3>1
    <3> QED BY <1>3, <1>5, <1>6, <1>7, <1>10, <1>11, <1>13, <3>2, <3>3, Now, PublishSafe
  <2>6. /\ Safe(e, kk, up, b.on, b.held, down, link, acked)
        /\ Safe(e, kk, Append(up, p), b.on, b.held, down, link, acked)
    <3>1. Cur(e, kk).id = PublishId(q) /\ Cur(e, kk).qos = q /\ Cur(e, kk).msg = m BY <2>2
    <3>2. ~c.cleansession => e.inflight = Cur(e, kk) BY <1>3, <2>2
    <3>3. /\ p.id = Cur(e, kk).id /\ p.qos = Cur(e, kk).qos /\ p.msg = Cur(e, kk).msg
          /\ Cur(e, kk).id # 0
      BY <1>6, <2>3, <3>1
    <3> QED BY <1>3, <1>5, <1>6, <1>10, <1>11, <1>13, <2>4, <3>2, <3>3, Now, PublishSafe
  <2>7. Safe(e, k, v, b.on, b.held, down, link, acked) /\ Safe(e, kk, v, b.on, b.held, down, link, acked)
    BY <1>14, <2>5, <2>6
  <2>8. ~CleanSession => e.inflight.id # 0 /\ e.inflight.msg = m
    <3>1. ~CleanSession => e.inflight = [id |-> PublishId(q), qos |-> q, msg |-> m] BY <1>3, <1>12
    <3> QED BY <2>3, <3>1
  <2>9. CASE s.call = NoCall /\ s.rc = FAILURE /\ Core(s.c) = Core(closeSession(e))
    <3>1. /\ Safe(s.c, k, v, b.on, b.held, down, link, acked) /\ ~s.c.isconnected
          /\ Remembers(s.c, e)
      BY <1>3, <2>7, <2>9, CloseSafe
    <3>2. Safe(s.c, NoCall, v, b.on, b.held, down, link, acked) BY <3>1, EndSafe
    <3>3. Tells(k, s) BY <2>9 DEF Tells, SUCCESS, FAILURE
    <3>4. Safe(s.c, s.call, v, b.on, b.held, down', link, acked) BY <1>1, <2>9, <3>2
    <3>5. Delivery' /\ PublishAcked' /\ c' = s.c BY <1>1, <1>10, <3>3, <3>4, TurnDelivers DEF v, Turn
    <3> QED BY <1>12, <2>8, <3>1, <3>5 DEF Remembers
  <2>10. CASE Core(s.c) = Core(e) /\ s.call = kk
    <3>1. Session(s.c) = Session(e) /\ Remembers(s.c, e) BY <2>10, CoreSession, RemembersCore
    <3>2. Safe(s.c, kk, v, b.on, b.held, down, link, acked) BY <2>7, <3>1, Stay
    <3>3. Tells(k, s) BY <2>4, <2>10, NoCallType DEF Tells
    <3>4. Safe(s.c, s.call, v, b.on, b.held, down', link, acked) BY <1>1, <2>10, <3>2
    <3>5. Delivery' /\ PublishAcked' /\ c' = s.c BY <1>1, <1>10, <3>3, <3>4, TurnDelivers DEF v, Turn
    <3> QED BY <1>12, <2>8, <3>1, <3>5 DEF Remembers
  <2> QED BY <1>2, <1>15, <1>16, <2>9, <2>10
<1>17. CASE q = 0
  <2>1. e.inflight.id = 0
    <3>1. CASE c.cleansession BY <1>3, <1>12, <3>1
    <3>2. CASE ~c.cleansession BY <1>3, <1>9, <1>17, <3>2
    <3> QED BY <3>1, <3>2
  <2>2. Safe(e, NoCall, up, b.on, b.held, down, link, acked)
    BY <1>3, <1>10, <1>11, <1>13, <2>1, PlainSafe
  <2>3. Safe(e, NoCall, Append(up, p), b.on, b.held, down, link, acked)
    <3>1. ~UpToken(p) /\ p.type # "CONNECT" BY <1>6, <1>17 DEF UpToken
    <3>2. Less(Append(up, p), b.on, down, link, up, b.on, down, link) BY <1>5, <3>1, Now, SendLess
    <3> QED BY <2>2, <3>2, Lose
  <2>4. Safe(e, NoCall, v, b.on, b.held, down, link, acked) BY <1>14, <2>2, <2>3
  <2>5. s.call = NoCall /\ (Core(s.c) = Core(closeSession(e)) \/ Core(s.c) = Core(e))
    BY <1>9, <1>15, <1>17
  <2>6. Safe(s.c, NoCall, v, b.on, b.held, down, link, acked)
    BY <1>3, <2>4, <2>5, CloseSafe, CoreSession, Stay
  <2>7. Safe(s.c, s.call, v, b.on, b.held, down', link, acked) BY <1>1, <2>5, <2>6
  <2>8. Tells(k, s) BY <1>7, <1>17 DEF Tells
  <2>9. Delivery' /\ PublishAcked' BY <1>1, <1>10, <2>7, <2>8, TurnDelivers DEF v, Turn
  <2> QED BY <1>12, <1>17, <2>9
<1> QED BY <1>16, <1>17


\* subscribe and unsubscribe begin.
LEMMA RequestDelivers ==
  ASSUME Sound, call = NoCall, link' = link, down' = down, UNCHANGED <<b, acked>>,
         NEW k, k.op \in {"subscribe", "unsubscribe"}, NEW s, Turn(k, s), RequestOutcome(s, k)
  PROVE  Delivery' /\ PublishAcked' /\ Settles(c')
<1> DEFINE e == Advanced  v == Sends(link, up, s.out.sent)
<1>1. /\ e \in Object /\ e.isconnected = c.isconnected /\ e.cleansession = c.cleansession
      /\ e.inflight = c.inflight /\ e.pubrel = c.pubrel
  BY Now, AdvancedType
<1>2. Safe(c, NoCall, up, b.on, b.held, down, link, acked) BY Now
<1>3. c.isconnected BY DEF RequestOutcome
<1>4. \/ s.call = k /\ Core(s.c) = Core(e)
      \/ s.call = NoCall /\ Core(s.c) = Core(closeSession(e))
  BY DEF RequestOutcome
<1> HIDE DEF e
<1>5. Safe(e, k, up, b.on, b.held, down, link, acked) BY <1>1, <1>2, <1>3, BeginSafe
<1>6. Safe(e, k, v, b.on, b.held, down, link, acked)
  <2>1. CASE s.out.sent = <<>>
    <3>1. v = up BY <2>1, Now, SendsOne
    <3> QED BY <1>5, <3>1
  <2>2. ASSUME NEW p \in UpPacket, p.type \in {"SUBSCRIBE", "UNSUBSCRIBE"}, s.out.sent = <<p>>
        PROVE  Safe(e, k, v, b.on, b.held, down, link, acked)
    <3>1. Sends(link, up, <<p>>) = IF link = "up" THEN Append(up, p) ELSE up BY Now, SendsOne
    <3>2. v = up \/ v = Append(up, p) BY <2>2, <3>1
    <3> HIDE DEF v
    <3>3. ~UpToken(p) /\ p.type # "CONNECT" BY <2>2 DEF UpToken
    <3>4. Less(Append(up, p), b.on, down, link, up, b.on, down, link) BY <3>3, Now, SendLess
    <3>5. Safe(e, k, Append(up, p), b.on, b.held, down, link, acked) BY <1>5, <3>4, Lose
    <3> QED BY <1>5, <3>2, <3>5
  <2> QED BY <2>1, <2>2 DEF RequestOutcome
<1> HIDE DEF v
<1>7. Safe(s.c, s.call, v, b.on, b.held, down, link, acked) /\ Remembers(s.c, e)
  <2>1. CASE s.call = k /\ Core(s.c) = Core(e) BY <1>6, <2>1, CoreSession, RemembersCore, Stay
  <2>2. CASE s.call = NoCall /\ Core(s.c) = Core(closeSession(e))
    <3>1. Safe(s.c, k, v, b.on, b.held, down, link, acked) /\ Remembers(s.c, e) /\ ~s.c.isconnected
      BY <1>1, <1>6, <2>2, CloseSafe
    <3> QED BY <2>2, <3>1, EndSafe
  <2> QED BY <1>4, <2>1, <2>2
<1>8. Safe(s.c, s.call, v, b.on, b.held, down', link, acked) BY <1>7
<1>9. Tells(k, s) BY DEF Tells
<1>10. Delivery' /\ PublishAcked' /\ c' = s.c BY <1>8, <1>9, TurnDelivers DEF v, Turn
<1>11. Settles(s.c) BY <1>1, <1>7 DEF Remembers, Settles
<1> QED BY <1>10, <1>11

LEMMA RefusedDelivers ==
  ASSUME Sound, NEW op \in {"publish", "subscribe", "unsubscribe"}, Refused(op), UNCHANGED <<b, acked>>
  PROVE  Delivery' /\ PublishAcked' /\ Settles(c')
<1> DEFINE k == RefusedCall(op)
<1>1. call = NoCall /\ link' = link /\ down' = down BY DEF Refused, Idle
<1>2. k.qos = 0 /\ \E s : Turn(k, s) /\ RefusedOutcome(s) BY Now, RefusedCases
<1> HIDE DEF k
<1>3. PICK s : Turn(k, s) /\ RefusedOutcome(s) BY <1>2
<1> DEFINE v == Sends(link, up, s.out.sent)
<1>4. Safe(c, NoCall, up, b.on, b.held, down, link, acked) BY <1>1, Now
<1>5. NoCall.op # "publish" BY NoCallType
<1>6. Over(s, {FAILURE}) /\ (s.c = c \/ s.c = closeSession(c)) BY <1>3 DEF RefusedOutcome
<1>7. Safe(s.c, s.call, v, b.on, b.held, down, link, acked) /\ Remembers(s.c, c)
  BY <1>4, <1>5, <1>6, Now, OverSafe
<1> HIDE DEF v
<1>8. Safe(s.c, s.call, v, b.on, b.held, down', link, acked) BY <1>1, <1>7
<1>9. Tells(k, s) BY <1>2 DEF Tells
<1>10. Delivery' /\ PublishAcked' /\ c' = s.c BY <1>1, <1>3, <1>8, <1>9, TurnDelivers DEF v, Turn
<1>11. Settles(s.c) BY <1>7 DEF Remembers, Settles
<1> QED BY <1>10, <1>11

LEMMA YieldDelivers ==
  ASSUME Sound, yield, UNCHANGED <<b, acked>>
  PROVE  Delivery' /\ PublishAcked' /\ Settles(c')
<1>1. call = NoCall /\ link' = link /\ down' = down BY DEF yield, Idle
<1>2. YieldCall.op = "yield" BY Now, YieldCases
<1>3. PICK s : Turn(NoCall, s) /\ YieldOutcome(s) BY Now, YieldCases
<1> DEFINE v == Sends(link, up, s.out.sent)
<1>4. Safe(c, NoCall, up, b.on, b.held, down, link, acked) BY <1>1, Now
<1>5. Safe(c, YieldCall, up, b.on, b.held, down, link, acked) BY <1>2, <1>4, BeginSafe
<1>6. s.c = c /\ s.call = YieldCall /\ s.out = NoWrite BY <1>3 DEF YieldOutcome
<1>7. v = up BY <1>6, Now, NoWriteType, SendsOne
<1> HIDE DEF v
<1>8. Safe(s.c, s.call, v, b.on, b.held, down', link, acked) BY <1>1, <1>5, <1>6, <1>7
<1>9. Tells(NoCall, s) BY NoCallType DEF Tells
<1>10. Delivery' /\ PublishAcked' /\ c' = s.c BY <1>1, <1>3, <1>8, <1>9, TurnDelivers DEF v, Turn
<1> QED BY <1>6, <1>10 DEF Settles

LEMMA DisconnectDelivers ==
  ASSUME Sound, disconnect, UNCHANGED <<b, acked>>
  PROVE  Delivery' /\ PublishAcked' /\ Settles(c')
<1> DEFINE k == DisconnectCall  p == [type |-> "DISCONNECT"]
<1>1. call = NoCall /\ link' = link /\ down' = down BY DEF disconnect, Idle
<1>2. k.op = "disconnect" BY Now, DisconnectCases
<1>3. PICK s : Turn(k, s) /\ DisconnectOutcome(s) BY Now, DisconnectCases
<1> DEFINE v == Sends(link, up, s.out.sent)
<1>4. Safe(c, NoCall, up, b.on, b.held, down, link, acked) BY <1>1, Now
<1>5. p \in UpPacket /\ ~UpToken(p) /\ p.type # "CONNECT" BY DEF UpPacket, UpToken
<1>6. /\ s.out.sent = <<>> \/ s.out.sent = <<p>>
      /\ s.call = NoCall /\ Core(s.c) = Core(closeSession(c))
  BY <1>3 DEF DisconnectOutcome
<1> HIDE DEF k, p
<1>7. v = up \/ v = Append(up, p)
  <2>1. Sends(link, up, <<>>) = up BY Now, SendsOne
  <2>2. Sends(link, up, <<p>>) = IF link = "up" THEN Append(up, p) ELSE up BY <1>5, Now, SendsOne
  <2> QED BY <1>6, <2>1, <2>2
<1> HIDE DEF v
<1>8. Safe(c, NoCall, v, b.on, b.held, down, link, acked)
  <2>1. Less(Append(up, p), b.on, down, link, up, b.on, down, link) BY <1>5, Now, SendLess
  <2>2. Safe(c, NoCall, Append(up, p), b.on, b.held, down, link, acked) BY <1>4, <2>1, Lose
  <2> QED BY <1>4, <1>7, <2>2
<1>9. Safe(s.c, NoCall, v, b.on, b.held, down, link, acked) /\ Remembers(s.c, c)
  BY <1>6, <1>8, Now, CloseSafe
<1>10. Safe(s.c, s.call, v, b.on, b.held, down', link, acked) BY <1>1, <1>6, <1>9
<1>11. Tells(k, s) BY <1>2 DEF Tells
<1>12. Delivery' /\ PublishAcked' /\ c' = s.c BY <1>1, <1>3, <1>10, <1>11, TurnDelivers DEF v, Turn
<1>13. Settles(s.c) BY <1>9 DEF Remembers, Settles
<1> QED BY <1>12, <1>13

\* What a turn leaves behind.
LEMMA TurnFields ==
  ASSUME NEW x, NEW o, NEW y, NEW z, NEW t, t = [c |-> x, out |-> o, call |-> y, rc |-> z]
  PROVE  t.c = x /\ t.out = o /\ t.call = y /\ t.rc = z
OBVIOUS

LEMMA BothSends ==
  ASSUME NEW r, NEW s, TurnOK(s), NEW u \in Seq(UpPacket), NEW lk, r.out.sent \in Seq(UpPacket)
  PROVE  /\ Both(r, s).c = s.c /\ Both(r, s).call = s.call /\ Both(r, s).rc = s.rc
         /\ Sends(lk, u, Both(r, s).out.sent) = Sends(lk, Sends(lk, u, r.out.sent), s.out.sent)
<1> DEFINE o == Then(r.out, s.out)
<1>1. Both(r, s) = [c |-> s.c, out |-> o, call |-> s.call, rc |-> s.rc] BY DEF Both, TurnOK
<1>2. o.sent = r.out.sent \o s.out.sent BY DEF Then
<1> DEFINE t == Both(r, s)  x == s.c  y == s.call  z == s.rc
<1> HIDE DEF o, t, x, y, z
<1>5. t = [c |-> x, out |-> o, call |-> y, rc |-> z] BY <1>1 DEF t, x, y, z
<1>6. t.c = x /\ t.out = o /\ t.call = y /\ t.rc = z BY <1>5, TurnFields
<1>3. /\ Both(r, s).c = s.c /\ Both(r, s).call = s.call /\ Both(r, s).rc = s.rc
      /\ Both(r, s).out.sent = r.out.sent \o s.out.sent
  BY <1>2, <1>6 DEF t, x, y, z
<1>4. s.out.sent \in Seq(UpPacket) BY DEF TurnOK
<1> QED BY <1>3, <1>4, SendsThen

LEMMA TurnsDeliver ==
  ASSUME Sound, Turns, UNCHANGED <<b, acked>>
  PROVE  Delivery' /\ PublishAcked' /\ Settles(c')
<1>1. link' = link /\ down' \in Seq(DownPacket) BY Now, InputOfTurn
<1>2. PICK p \in Input, n \in Nat : turn(p, n) /\ TakenAs(p, n) BY Now, InputOfTurn
<1>3. PICK r, s : /\ Cycles(r, c, p) /\ TurnOK(s) /\ TurnOutcome(r, s, p)
                  /\ TurnWith(call, Both(r, s), n)
  BY <1>2, Now, TurnCases
<1> DEFINE v == Sends(link, Sends(link, up, r.out.sent), s.out.sent)
<1>4. Safe(s.c, s.call, v, b.on, b.held, down', link, acked) /\ Settles(s.c) /\ Tells(call, s)
  <2>1. CASE down # <<>> /\ p = Head(down) /\ down' = Tail(down)
    BY <1>3, <2>1, PacketTurnSafe
  <2>2. CASE down # <<>> /\ p = Rest /\ Thinned(down', down)
    <3>1. p.type = SHORT BY <2>2 DEF Rest
    <3> DEFINE w == down'
    <3>2. w \in Seq(DownPacket) /\ Thinned(w, down) /\ down \in Seq(DownPacket)
      BY <1>1, <2>2, Now DEF ChannelTypes
    <3> HIDE DEF w
    <3>3. Less(up, b.on, w, link, up, b.on, down, link) BY <3>2, ThinnedPlaces DEF Less, Milder
    <3>4. Safe(c, call, up, b.on, b.held, w, link, acked) BY <3>3, Now, Lose
    <3>5. Safe(s.c, s.call, v, b.on, b.held, w, link, acked) /\ Settles(s.c) /\ Tells(call, s)
      BY <1>3, <3>1, <3>4, EmptyTurnSafe
    <3> QED BY <3>5 DEF w
  <2>3. CASE p = [type |-> TIMEOUT] /\ down' = down
    <3>1. p.type = TIMEOUT BY <2>3
    <3>2. Safe(c, call, up, b.on, b.held, down, link, acked) BY Now
    <3>3. Safe(s.c, s.call, v, b.on, b.held, down, link, acked) /\ Settles(s.c) /\ Tells(call, s)
      BY <1>3, <3>1, <3>2, EmptyTurnSafe
    <3> QED BY <2>3, <3>3
  <2> QED BY <1>2, <2>1, <2>2, <2>3 DEF TakenAs
<1>5. r.out.sent \in Seq(UpPacket) BY <1>3, SendableType DEF Cycles
<1>6. /\ Both(r, s).c = s.c /\ Both(r, s).call = s.call /\ Both(r, s).rc = s.rc
      /\ Sends(link, up, Both(r, s).out.sent) = v
  BY <1>3, <1>5, Now, BothSends
<1> HIDE DEF v
<1> DEFINE t == Both(r, s)
<1>7. Safe(t.c, t.call, Sends(link, up, t.out.sent), b.on, b.held, down', link, acked) /\ Tells(call, t)
  BY <1>4, <1>6 DEF Tells
<1>8. TurnWith(call, t, n) BY <1>3
<1>9. t.c = s.c BY <1>6
<1> HIDE DEF t
<1>10. Delivery' /\ PublishAcked' /\ c' = t.c BY <1>1, <1>7, <1>8, TurnDelivers
<1> QED BY <1>4, <1>9, <1>10

LEMMA TimerDelivers ==
  ASSUME Sound, timer_over, UNCHANGED <<b, acked>>
  PROVE  Delivery' /\ PublishAcked' /\ Settles(c')
<1>1. link' = link /\ down' = down BY DEF timer_over
<1>2. PICK s : UnansweredOutcome(s, c)
               /\ TurnWith(call, s, Missed)
  BY Now, TimerCases
<1>3. /\ Safe(s.c, s.call, Sends(link, up, s.out.sent), b.on, b.held, down', link, acked)
      /\ Settles(s.c) /\ Tells(call, s)
  BY <1>1, <1>2, TimerSafe
<1>4. Delivery' /\ PublishAcked' /\ c' = s.c BY <1>1, <1>2, <1>3, TurnDelivers
<1> QED BY <1>3, <1>4

LEMMA ObjectTimerDelivers ==
  ASSUME Sound, PublishAcked, idle_over \/ ping_over, UNCHANGED <<b, acked>>
  PROVE  Delivery' /\ PublishAcked' /\ Settles(c')
<1>1. /\ Core(c') = Core(c) /\ UNCHANGED <<call, ret, link, up, down>> BY Now, TimersOnly
<1>2. Session(c') = Session(c) /\ Remembers(c', c) BY <1>1, CoreSession, RemembersCore
<1>3. Safe(c', call, up, b.on, b.held, down, link, acked) BY <1>2, Now, Stay
<1>4. Delivery' BY <1>1, <1>3 DEF Delivery
<1>5. PublishAcked' BY <1>1 DEF PublishAcked
<1> QED BY <1>2, <1>4, <1>5 DEF Settles, Remembers

\* Every call of the application and every turn.
LEMMA ClientDelivers ==
  ASSUME QoSFits, Sound, PublishAcked, App_connect \/ App_publish \/ App_call \/ App_yield \/ Client
  PROVE  /\ Delivery' /\ PublishAcked' /\ UNCHANGED <<b, got, acked>>
         /\ App_publish \/ (Settles(c') /\ promised' = promised)
         /\ App_publish =>
              /\ c.inflight.id = 0
              /\ ~CleanSession => \A m \in promised' \ promised : c'.inflight.id # 0 /\ c'.inflight.msg = m
<1>1. UNCHANGED <<b, got, acked>>
  BY DEF App_connect, App_publish, App_call, App_yield, Client, Within, Others
<1> DEFINE Goes == Delivery' /\ PublishAcked' /\ Settles(c') /\ promised' = promised
<1>2. ASSUME App_connect PROVE Goes BY <1>1, <1>2, ConnectDelivers DEF App_connect
<1>3. CASE App_publish
  <2>1. PICK m \in OutMsgs \cap fresh, q \in QoSs :
          publish(m, q) /\ promised' = (IF q = 0 THEN promised ELSE promised \cup {m})
    BY <1>3 DEF App_publish
  <2>2. /\ Delivery' /\ PublishAcked' /\ c.inflight.id = 0
        /\ q # 0 /\ ~CleanSession => c'.inflight.id # 0 /\ c'.inflight.msg = m
    BY <1>1, <2>1, PublishDelivers
  <2>3. ASSUME NEW x \in promised' \ promised PROVE q # 0 /\ x = m BY <2>1, <2>3
  <2> QED BY <1>1, <1>3, <2>2, <2>3
<1>4. ASSUME App_call PROVE Goes
  <2>1. promised' = promised BY <1>4 DEF App_call
  <2>2. ASSUME NEW t \in Topics, NEW q \in QoSs, subscribe(t, q)
        PROVE  Delivery' /\ PublishAcked' /\ Settles(c')
    <3>1. q \in Levels BY AwaitsAck
    <3>2. call = NoCall /\ link' = link /\ down' = down BY <2>2 DEF subscribe, Request, Idle
    <3> DEFINE k == SubscribeCall(t, q)
    <3>3. k.op = "subscribe" /\ \E s : Turn(k, s) /\ RequestOutcome(s, k)
      BY <2>2, <3>1, Now, SubscribeStarts
    <3> HIDE DEF k
    <3> QED BY <1>1, <3>2, <3>3, RequestDelivers
  <2>3. ASSUME NEW t \in Topics, unsubscribe(t)
        PROVE  Delivery' /\ PublishAcked' /\ Settles(c')
    <3>1. call = NoCall /\ link' = link /\ down' = down BY <2>3 DEF unsubscribe, Request, Idle
    <3> DEFINE k == UnsubscribeCall(t)
    <3>2. k.op = "unsubscribe" /\ \E s : Turn(k, s) /\ RequestOutcome(s, k)
      BY <2>3, Now, UnsubscribeStarts
    <3> HIDE DEF k
    <3> QED BY <1>1, <3>1, <3>2, RequestDelivers
  <2>4. ASSUME disconnect PROVE Delivery' /\ PublishAcked' /\ Settles(c')
    BY <1>1, <2>4, DisconnectDelivers
  <2>5. ASSUME NEW op \in {"publish", "subscribe", "unsubscribe"}, Refused(op)
        PROVE  Delivery' /\ PublishAcked' /\ Settles(c')
    BY <1>1, <2>5, RefusedDelivers
  <2>6. \/ \E t \in Topics, q \in QoSs : subscribe(t, q)
        \/ \E t \in Topics : unsubscribe(t)
        \/ disconnect
        \/ \E op \in {"publish", "subscribe", "unsubscribe"} : Refused(op)
    BY <1>4 DEF App_call
  <2>7. Delivery' /\ PublishAcked' /\ Settles(c') BY <2>2, <2>3, <2>4, <2>5, <2>6
  <2> QED BY <2>1, <2>7
<1>5. ASSUME App_yield PROVE Goes BY <1>1, <1>5, YieldDelivers DEF App_yield
<1>6. ASSUME Client PROVE Goes
  <2>1. promised' = promised BY <1>6 DEF Client, Within
  <2>2. Turns \/ timer_over \/ idle_over \/ ping_over BY <1>6 DEF Client, Within, Turns
  <2>3. Delivery' /\ PublishAcked' /\ Settles(c')
    BY <1>1, <2>2, TurnsDeliver, TimerDelivers, ObjectTimerDelivers
  <2> QED BY <2>1, <2>3
<1>7. CASE ~App_publish
  <2>1. Goes BY <1>2, <1>4, <1>5, <1>6, <1>7
  <2> QED BY <1>1, <1>7, <2>1
<1> QED BY <1>3, <1>7

-----------------------------------------------------------------------------
(* What the broker and the link do. *)

\* The broker accepts a CONNECT.
LEMMA AcceptSafe ==
  ASSUME NEW d, NEW k, NEW u, NEW held, NEW w, NEW ak, Safe(d, k, u, FALSE, held, w, "up", ak),
         HasConnect(u), NEW u1, NEW w1, NEW held1, Fewer(u1, TRUE, w1, u, FALSE, w),
         Open(u1, TRUE) => Open(u, FALSE), FirstOnly(w1),
         held1 = IF CleanSession THEN {} ELSE held
  PROVE  Safe(d, k, u1, TRUE, held1, w1, "up", ak)
<1>1. Waits("up", FALSE) /\ ~Waits("up", TRUE) BY DEF Waits
<1>2. ~d.isconnected /\ k.op # "publish" BY <1>1 DEF Safe, Ordered
<1>3. InTransit(u1, TRUE, w1) \subseteq InTransit(u, FALSE, w) BY DEF Fewer
<1>4. InTransit(u, FALSE, w) = {} => InTransit(u1, TRUE, w1) = {} BY <1>3
<1>5. Single(u1, TRUE, w1) BY DEF Safe, Fewer
<1>6. Ordered(d, k, u1, TRUE, w1, "up") BY <1>1, <1>2, <1>4 DEF Safe, Ordered
<1>7. Calm(d, k, u1, TRUE, held1, w1) BY <1>2 DEF Calm
<1>8. Carries(d, k, u1, TRUE, held1, w1, ak)
  <2>1. CASE CleanSession BY <1>2, <2>1 DEF Carries, Known
  <2>2. CASE ~CleanSession BY <1>3, <2>2 DEF Safe, Carries
  <2> QED BY <2>1, <2>2
<1>9. Cleans(d, k, held1, w1) BY DEF Safe, Cleans
<1> QED BY <1>5, <1>6, <1>7, <1>8, <1>9 DEF Safe

\* It refuses one, and closes the connection.
LEMMA RefuseSafe ==
  ASSUME NEW d, NEW k, NEW u, NEW held, NEW w, NEW ak, Safe(d, k, u, FALSE, held, w, "up", ak),
         HasConnect(u), NEW u1, NEW w1, InTransit(u1, FALSE, w1) = {}, ~Open(u1, FALSE),
         FirstOnly(w1), ~Accepted(w1)
  PROVE  Safe(d, k, u1, FALSE, held, w1, "down", ak)
<1>1. Waits("up", FALSE) /\ ~Waits("down", FALSE) BY DEF Waits
<1>2. ~d.isconnected /\ k.op # "publish" BY <1>1 DEF Safe, Ordered
<1>3. UpPlaces(u1, FALSE) = {} /\ DownPlaces(w1) = {} BY Nothing
<1>4. Single(u1, FALSE, w1) BY <1>3 DEF Single
<1>5. Ordered(d, k, u1, FALSE, w1, "down") BY <1>1, <1>2 DEF Ordered
<1>6. Calm(d, k, u1, FALSE, held, w1) BY <1>2 DEF Calm
<1>7. Carries(d, k, u1, FALSE, held, w1, ak) BY DEF Safe, Carries
<1>8. Cleans(d, k, held, w1) BY DEF Safe, Cleans
<1> QED BY <1>4, <1>5, <1>6, <1>7, <1>8 DEF Safe

\* A new connection: nothing is on its way.
LEMMA OpenSafe ==
  ASSUME NEW d, NEW k, NEW held, NEW ak, Safe(d, k, <<>>, FALSE, held, <<>>, "down", ak)
  PROVE  Safe(d, k, <<>>, FALSE, held, <<>>, "up", ak)
<1>1. Len(<<>>) = 0 BY EmptySeq
<1>2. UpPlaces(<<>>, FALSE) = {} /\ DownPlaces(<<>>) = {} BY <1>1 DEF UpPlaces, DownPlaces
<1>3. InTransit(<<>>, FALSE, <<>>) = {} BY <1>2, Nothing
<1>4. ~HasConnect(<<>>) /\ ~HasConnack(<<>>) BY <1>1 DEF HasConnect, HasConnack
<1>5. Ordered(d, k, <<>>, FALSE, <<>>, "up") BY <1>3, <1>4 DEF Ordered
<1> QED BY <1>5 DEF Safe

\* It reads a publish, or the release of one, and acknowledges it.
LEMMA AcknowledgeSafe ==
  ASSUME NEW d, NEW k, NEW u \in Seq(UpPacket), NEW held, NEW w \in Seq(DownPacket), NEW lk, NEW ak,
         Safe(d, k, u, TRUE, held, w, lk, ak), u # <<>>, UpToken(Head(u)), Head(u).type # "CONNECT",
         NEW p \in DownPacket, p.type # "CONNACK", NEW held1, NEW ak1,
         \A r : Match(Head(u), r, held, ak) /\ (\A h \in held : h = Entry(r) /\ r.qos = 2 /\ r.id # 0)
                  => Match(p, r, held1, ak1) /\ (\A h \in held1 : h = Entry(r) /\ r.qos = 2 /\ r.id # 0)
  PROVE  Safe(d, k, Tail(u), TRUE, held1, w \o <<p>>, lk, ak1)
<1> DEFINE t == Head(u)  v == Tail(u)  x == w \o <<p>>
<1>1. <<p>> \in Seq(DownPacket) /\ ~HasConnack(<<p>>) BY OnePlace
<1>2. t \in InTransit(u, TRUE, w) /\ InTransit(v, TRUE, w) = {} BY UpRead DEF Safe
<1>3. Single(v, TRUE, x) /\ InTransit(v, TRUE, x) \subseteq {p} BY <1>2, AnswerToken
<1>4. Milder(v, TRUE, w, lk, u, TRUE, w, lk) BY TakeMilder
<1>5. Milder(v, TRUE, x, lk, v, TRUE, w, lk) BY <1>1, GiveMilder
<1> HIDE DEF t, v, x
<1>6. Milder(v, TRUE, x, lk, u, TRUE, w, lk) BY <1>4, <1>5, LessThen
<1>7. Known(k) => Match(p, Cur(d, k), held1, ak1)
                  /\ \A h \in held1 : h = Entry(Cur(d, k)) /\ Cur(d, k).qos = 2 /\ Cur(d, k).id # 0
  <2> DEFINE r == Cur(d, k)
  <2>1. Known(k) => Match(t, r, held, ak) /\ \A h \in held : h = Entry(r) /\ r.qos = 2 /\ r.id # 0
    BY <1>2 DEF Safe, Carries
  <2> HIDE DEF r
  <2>2. Known(k) => Match(p, r, held1, ak1) /\ \A h \in held1 : h = Entry(r) /\ r.qos = 2 /\ r.id # 0
    BY <2>1 DEF t
  <2> QED BY <2>2 DEF r
<1>8. ~(CleanSession /\ Accepted(w))
  <2>1. SUFFICES ASSUME CleanSession, Accepted(w) PROVE FALSE OBVIOUS
  <2>2. HasConnack(w) BY <2>1 DEF Accepted, HasConnack
  <2>3. d.inflight.id # 0 BY <1>2, <2>2 DEF Safe, Ordered
  <2>4. d.inflight.id = 0 BY <2>1 DEF Safe, Cleans
  <2> QED BY <2>3, <2>4
<1>9. Safe(d, k, v, TRUE, held1, x, lk, ak1) BY <1>2, <1>3, <1>6, <1>7, <1>8, Pass
<1> QED BY <1>9 DEF v, x

\* It reads a packet that carries nothing, or sends one.
LEMMA TakeSafe ==
  ASSUME NEW d, NEW k, NEW u \in Seq(UpPacket), NEW held, NEW w, NEW lk, NEW ak,
         Safe(d, k, u, TRUE, held, w, lk, ak), u # <<>>, Head(u).type # "CONNECT"
  PROVE  Safe(d, k, Tail(u), TRUE, held, w, lk, ak)
<1>1. Less(Tail(u), TRUE, w, lk, u, TRUE, w, lk) BY TakeLess
<1> QED BY <1>1, Lose

LEMMA GiveSafe ==
  ASSUME NEW d, NEW k, NEW u, NEW on, NEW held, NEW w \in Seq(DownPacket), NEW lk, NEW ak,
         Safe(d, k, u, on, held, w, lk, ak), NEW p \in DownPacket, p.type # "CONNACK", ~DownToken(p)
  PROVE  Safe(d, k, u, on, held, w \o <<p>>, lk, ak)
<1>1. <<p>> \in Seq(DownPacket) /\ ~HasConnack(<<p>>) /\ DownPlaces(<<p>>) = {} BY OnePlace
<1>2. Less(u, on, w \o <<p>>, lk, u, on, w, lk) BY <1>1, GiveLess
<1> QED BY <1>2, Lose

\* A step that leaves the client alone.
LEMMA OthersDeliver ==
  ASSUME PublishAcked, UNCHANGED <<c, call, ret>>, acked \subseteq acked',
         Safe(c, call, up', b'.on, b'.held, down', link', acked')
  PROVE  Delivery' /\ PublishAcked'
BY DEF Delivery, PublishAcked

LEMMA CutDelivers ==
  ASSUME Sound, Cut, b' = [b EXCEPT !.on = FALSE, !.suback = NoSuback], UNCHANGED <<c, call, acked>>
  PROVE  Safe(c, call, up', b'.on, b'.held, down', link', acked') /\ b'.held = b.held
<1> DEFINE v == down'
<1>1. down \in Seq(DownPacket) BY Now DEF ChannelTypes
<1>2. /\ link' = "down" /\ up' = <<>> /\ v \in Seq(DownPacket)
      /\ \A i \in 1..Len(v) : (i \in 1..Len(down) /\ v[i] = down[i]) \/ v[i] = Rest
  BY <1>1, CutType
<1>3. b'.on = FALSE /\ b'.held = b.held BY DEF Sound, Types, BrokerTypes, BrokerObject
<1> HIDE DEF v
<1>4. /\ Fewer(<<>>, FALSE, v, up, b.on, down)
      /\ HasConnack(v) => HasConnack(down)
      /\ Accepted(v) => Accepted(down)
      /\ FirstOnly(down) => FirstOnly(v)
      /\ ~HasConnect(<<>>) /\ ~Open(<<>>, FALSE)
  BY <1>1, <1>2, LostPlaces
<1>5. ~Waits("down", FALSE) BY DEF Waits
<1>6. Less(<<>>, FALSE, v, "down", up, b.on, down, link) BY <1>4, <1>5 DEF Less, Milder
<1>7. Safe(c, call, <<>>, FALSE, b.held, v, "down", acked) BY <1>6, Now, Lose
<1> QED BY <1>2, <1>3, <1>7 DEF v

LEMMA ReopenDelivers ==
  ASSUME DrainsFirst, Sound, Reopen
  PROVE  Safe(c, call, up', b'.on, b'.held, down', link', acked')
<1>1. link = "down" /\ link' = "up" /\ down = <<>> /\ UNCHANGED <<up, down, b, acked>>
  BY DEF Reopen, clientVars, brokerVars
<1>2. up = <<>> /\ ~b.on BY <1>1, Now DEF Still
<1>3. b.on = FALSE BY <1>2, Now
<1>4. Safe(c, call, <<>>, FALSE, b.held, <<>>, "down", acked) BY <1>1, <1>2, <1>3, Now
<1>5. Safe(c, call, <<>>, FALSE, b.held, <<>>, "up", acked) BY <1>4, OpenSafe
<1> QED BY <1>1, <1>2, <1>3, <1>5

\* The packet the broker reads comes first.
LEMMA FirstUp ==
  ASSUME up \in Seq(UpPacket), up # <<>>
  PROVE  /\ Head(up) \in UpPacket /\ Tail(up) \in Seq(UpPacket)
         /\ Head(up).type = "CONNECT" => HasConnect(up)
<1>1. Len(up) \in Nat \ {0} BY EmptySeq
<1>2. Head(up) = up[1] /\ 1 \in 1..Len(up) BY <1>1
<1> QED BY <1>2, HeadUp DEF HasConnect

\* The answer to a CONNECT that is accepted.
LEMMA GreetingPlaces ==
  ASSUME NEW out \in Seq(Kept)
  PROVE  LET s == <<[type |-> "CONNACK", rc |-> SUCCESS]>> \o Again(out)
         IN  s \in Seq(DownPacket) /\ DownPlaces(s) = {} /\ FirstOnly(s)
<1> DEFINE p == [type |-> "CONNACK", rc |-> SUCCESS]  t == Again(out)  s == <<p>> \o t
<1>1. /\ t \in Seq(DownPacket) /\ Len(t) = Len(out) /\ Len(out) \in Nat
      /\ \A i \in 1..Len(out) : t[i].type \in {"PUBREL", "PUBLISH"}
  BY AgainType
<1>2. p \in DownPacket /\ p.type = "CONNACK" BY DEF DownPacket
<1> HIDE DEF p, t
<1>3. <<p>> \in Seq(DownPacket) /\ Len(<<p>>) = 1 /\ <<p>>[1] = p BY <1>2, OnePlace
<1>4. /\ s \in Seq(DownPacket) /\ Len(s) = Len(<<p>>) + Len(t)
      /\ \A i \in 1..(Len(<<p>>) + Len(t)) : s[i] = IF i <= Len(<<p>>) THEN <<p>>[i] ELSE t[i - Len(<<p>>)]
  BY <1>1, <1>3, ConcatProperties
<1> HIDE DEF s
<1>5. ASSUME NEW i \in 1..Len(s)
      PROVE  (i = 1 /\ s[i].type = "CONNACK") \/ (i # 1 /\ s[i].type \in {"PUBREL", "PUBLISH"})
  <2>1. CASE i = 1 BY <1>1, <1>2, <1>3, <1>4, <2>1
  <2>2. CASE i # 1
    <3>1. i - 1 \in 1..Len(out) /\ ~(i <= 1) BY <1>1, <1>3, <1>4, <2>2
    <3>2. s[i] = t[i - 1] BY <1>1, <1>3, <1>4, <3>1
    <3> QED BY <1>1, <2>2, <3>1, <3>2
  <2> QED BY <2>1, <2>2
<1>6. DownPlaces(s) = {} BY <1>5 DEF DownPlaces, DownToken
<1>7. FirstOnly(s) BY <1>5 DEF FirstOnly
<1> QED BY <1>4, <1>6, <1>7 DEF s, p, t

LEMMA BrokerConnectDelivers ==
  ASSUME Sound, Broker_connect
  PROVE  Safe(c, call, up', b'.on, b'.held, down', link', acked') /\ b'.held \subseteq b.held
<1> DEFINE s == <<[type |-> "CONNACK", rc |-> SUCCESS]>> \o Again(b'.out)  v == down'  u == Tail(up)
<1>1. /\ link = "up" /\ up # <<>> /\ Head(up).type = "CONNECT" /\ ~b.on /\ up' = u
      /\ v = down \o s /\ UNCHANGED <<link, acked>>
  BY DEF Broker_connect, Reads, Answers
<1>2. b.on = FALSE /\ up \in Seq(UpPacket) BY <1>1, Now
<1>3. Head(up) \in UpPacket /\ u \in Seq(UpPacket) /\ HasConnect(up) BY <1>1, <1>2, FirstUp
<1>4. Head(up).clean = CleanSession BY <1>1, <1>3, UpFields
<1>5. b'.on = TRUE /\ b'.held = (IF CleanSession THEN {} ELSE b.held) /\ b'.out \in Seq(Kept)
  <2>1. b \in BrokerObject BY DEF Sound, Types, BrokerTypes
  <2>2. b.out \in Seq(Kept) /\ <<>> \in Seq(Kept) BY <2>1 DEF BrokerObject
  <2> QED BY <1>4, <2>1, <2>2 DEF Broker_connect, BrokerObject
<1>6. down = <<>> BY <1>1, Now DEF Still, Waits
<1>7. s \in Seq(DownPacket) /\ DownPlaces(s) = {} /\ FirstOnly(s) BY <1>5, GreetingPlaces
<1> HIDE DEF s, v, u
<1>8. v = s BY <1>1, <1>6, <1>7, ConcatEmptySeq
<1>9. Fewer(u, TRUE, down, up, FALSE, down) /\ (Open(u, TRUE) => Open(up, FALSE))
  BY <1>1, <1>2, UpRead DEF u
<1>10. down \in Seq(DownPacket) BY Now DEF ChannelTypes
<1>11. Fewer(u, TRUE, v, u, TRUE, down) BY <1>1, <1>7, <1>10, AnswerPlain
<1>12. Fewer(u, TRUE, v, up, FALSE, down) BY <1>9, <1>11 DEF Fewer
<1>13. Safe(c, call, up, FALSE, b.held, down, "up", acked) BY <1>1, <1>2, Now
<1>14. FirstOnly(v) BY <1>7, <1>8
<1>15. Safe(c, call, u, TRUE, b'.held, v, "up", acked) BY <1>3, <1>5, <1>9, <1>12, <1>13, <1>14, AcceptSafe
<1> QED BY <1>1, <1>5, <1>15 DEF v

LEMMA BrokerRefuseDelivers ==
  ASSUME Sound, Broker_refuse
  PROVE  Safe(c, call, up', b'.on, b'.held, down', link', acked') /\ b'.held = b.held
<1> DEFINE p == [type |-> "CONNACK", rc |-> "refused"]  v == down'
<1>1. /\ link = "up" /\ up # <<>> /\ Head(up).type = "CONNECT" /\ ~b.on /\ up' = <<>> /\ link' = "down"
      /\ v = down \o <<p>> /\ UNCHANGED <<b, acked>>
  BY DEF Broker_refuse, Answers
<1>2. b.on = FALSE /\ up \in Seq(UpPacket) BY <1>1, Now
<1>3. HasConnect(up) BY <1>1, <1>2, FirstUp
<1>4. down = <<>> BY <1>1, Now DEF Still, Waits
<1>5. p \in DownPacket /\ ~DownToken(p) /\ p.rc # SUCCESS BY DEF DownPacket, DownToken, SUCCESS
<1> HIDE DEF p, v
<1>6. <<p>> \in Seq(DownPacket) /\ Len(<<p>>) = 1 /\ DownPlaces(<<p>>) = {} /\ ~Accepted(<<p>>)
  BY <1>5, OnePlace
<1>7. v = <<p>> BY <1>1, <1>4, <1>6, ConcatEmptySeq
<1>8. FirstOnly(<<p>>)
  <2>1. \A i \in 1..1 : i = 1 OBVIOUS
  <2> QED BY <1>6, <2>1 DEF FirstOnly
<1>9. Len(<<>>) = 0 BY EmptySeq
<1>10. UpPlaces(<<>>, FALSE) = {} /\ ~Open(<<>>, FALSE) BY <1>9 DEF UpPlaces, Open
<1>11. InTransit(<<>>, FALSE, v) = {} BY <1>6, <1>7, <1>10, Nothing
<1>12. Safe(c, call, up, FALSE, b.held, down, "up", acked) BY <1>1, <1>2, Now
<1>13. Safe(c, call, <<>>, FALSE, b.held, v, "down", acked)
  BY <1>3, <1>6, <1>7, <1>8, <1>10, <1>11, <1>12, RefuseSafe
<1> QED BY <1>1, <1>2, <1>13 DEF v

\* The broker has a session: it reads packet p.
LEMMA InSession ==
  ASSUME Sound, b.on, up # <<>>
  PROVE  /\ b.on = TRUE /\ up \in Seq(UpPacket) /\ down \in Seq(DownPacket)
         /\ Head(up) \in UpPacket
         /\ Safe(c, call, up, TRUE, b.held, down, link, acked)
         /\ b \in BrokerObject /\ got \in [OutMsgs -> Nat]
<1>1. b.on = TRUE /\ up \in Seq(UpPacket) BY Now
<1> QED BY <1>1, Now, HeadUp DEF Sound, Types, ChannelTypes, BrokerTypes

\* One acknowledgment of a publish leads to another.
LEMMA Acknowledges ==
  ASSUME Sound, b.on, up # <<>>, UpToken(Head(up)), Head(up).type # "CONNECT",
         UNCHANGED link, up' = Tail(up), b'.on = TRUE,
         NEW p \in DownPacket, p.type # "CONNACK", down' = down \o <<p>>,
         \A r : Match(Head(up), r, b.held, acked)
                  /\ (\A h \in b.held : h = Entry(r) /\ r.qos = 2 /\ r.id # 0)
                => Match(p, r, b'.held, acked')
                  /\ (\A h \in b'.held : h = Entry(r) /\ r.qos = 2 /\ r.id # 0)
  PROVE  Safe(c, call, up', b'.on, b'.held, down', link', acked')
<1> DEFINE held1 == b'.held  ak1 == acked'
<1>1. /\ up \in Seq(UpPacket) /\ down \in Seq(DownPacket)
      /\ Safe(c, call, up, TRUE, b.held, down, link, acked)
  BY InSession
<1> HIDE DEF held1, ak1
<1>2. Safe(c, call, Tail(up), TRUE, held1, down \o <<p>>, link, ak1)
  BY <1>1, AcknowledgeSafe DEF held1, ak1
<1> QED BY <1>2 DEF held1, ak1

LEMMA BrokerPublishDelivers ==
  ASSUME Sound, Received, Broker_publish
  PROVE  /\ Safe(c, call, up', b'.on, b'.held, down', link', acked') /\ Received'
         /\ \A m \in OutMsgs : got[m] > 0 => got'[m] > 0
         /\ acked \subseteq acked'
<1> DEFINE p == Head(up)
           new == p.qos # 2 \/ \A h \in b.held : h.id # p.id
           e == [id |-> p.id, msg |-> p.msg]
<1>1. /\ up # <<>> /\ p.type = "PUBLISH" /\ up' = Tail(up) /\ b.on /\ link' = link
      /\ got' = (IF new THEN [got EXCEPT ![p.msg] = @ + 1] ELSE got)
      /\ b' = (IF p.qos = 2 /\ new THEN [b EXCEPT !.held = @ \cup {e}] ELSE b)
      /\ acked' = (IF p.qos = 1 THEN acked \cup {p.msg} ELSE acked)
  BY DEF Broker_publish, Reads
<1>2. down' = down \o (CASE p.qos = 0 -> <<>>
                         [] p.qos = 1 -> <<[type |-> "PUBACK", id |-> p.id]>>
                         [] p.qos = 2 -> <<[type |-> "PUBREC", id |-> p.id]>>)
  BY DEF Broker_publish, Answers
<1>3. /\ b.on = TRUE /\ up \in Seq(UpPacket) /\ down \in Seq(DownPacket) /\ p \in UpPacket
      /\ Safe(c, call, up, TRUE, b.held, down, link, acked)
      /\ b \in BrokerObject /\ got \in [OutMsgs -> Nat] /\ p.id \in Nat /\ p.msg \in OutMsgs
      /\ p.qos \in Levels
  BY <1>1, InSession, UpFields, IdsNat
<1>4. e.id = p.id /\ e.msg = p.msg OBVIOUS
<1>5. \A r : p.id = r.id /\ p.msg = r.msg => e = Entry(r) BY DEF Entry
<1>6. /\ b'.on = TRUE
      /\ b'.held = IF p.qos = 2 /\ new THEN b.held \cup {e} ELSE b.held
  BY <1>1, <1>3 DEF BrokerObject
<1> HIDE DEF e
<1>7. p.qos \in {0, 1, 2}
  <2>1. Levels \subseteq {0, 1, 2} BY DEF Levels
  <2> QED BY <1>3, <2>1
<1>8. Received' /\ \A m \in OutMsgs : got[m] > 0 => got'[m] > 0
  <2>1. \A h \in b.held : h.msg \in OutMsgs BY <1>3 DEF BrokerObject
  <2>2. acked \subseteq OutMsgs BY DEF Sound, Types, BrokerTypes
  <2>3. \A m \in OutMsgs : got[m] > 0 => got'[m] > 0
    <3> TAKE m \in OutMsgs
    <3>1. got[m] \in Nat /\ got[p.msg] \in Nat BY <1>3
    <3>2. got'[m] = got[m] \/ got'[m] = got[m] + 1 BY <1>1, <1>3
    <3> QED BY <3>1, <3>2
  <2>4. new => got'[p.msg] > 0
    <3>1. got[p.msg] \in Nat BY <1>3
    <3>2. new => got'[p.msg] = got[p.msg] + 1 BY <1>1, <1>3
    <3> QED BY <3>1, <3>2
  <2>5. \A h \in b'.held : got'[h.msg] > 0
    <3> TAKE h \in b'.held
    <3>1. CASE h \in b.held BY <2>1, <2>3, <3>1 DEF Received
    <3>2. CASE h \notin b.held
      <4>1. new /\ h = e BY <1>6, <3>2
      <4> QED BY <1>4, <2>4, <4>1
    <3> QED BY <3>1, <3>2
  <2>6. \A m \in acked' : got'[m] > 0
    <3> TAKE m \in acked'
    <3>1. CASE m \in acked BY <2>2, <2>3, <3>1 DEF Received
    <3>2. CASE m \notin acked
      <4>1. p.qos = 1 /\ m = p.msg BY <1>1, <3>2
      <4> QED BY <2>4, <4>1
    <3> QED BY <3>1, <3>2
  <2> QED BY <2>3, <2>5, <2>6 DEF Received
<1>11. acked \subseteq acked' BY <1>1
<1>9. CASE p.qos = 0
  <2>1. down' = down BY <1>2, <1>3, <1>9, ConcatEmptySeq
  <2>2. b'.held = b.held /\ acked' = acked BY <1>1, <1>6, <1>9
  <2>3. Safe(c, call, Tail(up), TRUE, b.held, down, link, acked) BY <1>1, <1>3, TakeSafe
  <2>4. Safe(c, call, up', b'.on, b'.held, down', link', acked') BY <1>1, <1>6, <2>1, <2>2, <2>3
  <2> QED BY <1>8, <1>11, <2>4
<1>10. CASE p.qos # 0
  <2> DEFINE a == [type |-> IF p.qos = 1 THEN "PUBACK" ELSE "PUBREC", id |-> p.id]
  <2>1. down' = down \o <<a>> BY <1>2, <1>7, <1>10
  <2>2. a.id = p.id /\ a.type = IF p.qos = 1 THEN "PUBACK" ELSE "PUBREC" OBVIOUS
  <2>3. a \in DownPacket
    <3>1. p.qos = 2 => Qos2Used BY <1>3, LevelsType
    <3>2. a.type \in Acks BY <1>7, <1>10, <2>2, <3>1 DEF Acks
    <3> QED BY <1>3, <3>2 DEF DownPacket
  <2>4. a.type # "CONNACK" BY <2>2
  <2>5. UpToken(p) /\ p.type # "CONNECT" BY <1>1, <1>10 DEF UpToken
  <2> HIDE DEF a
  <2>6. ASSUME NEW r, Match(p, r, b.held, acked), \A h \in b.held : h = Entry(r) /\ r.qos = 2 /\ r.id # 0
        PROVE  Match(a, r, b'.held, acked') /\ \A h \in b'.held : h = Entry(r) /\ r.qos = 2 /\ r.id # 0
    <3>1. p.id = r.id /\ r.id # 0 /\ p.qos = r.qos /\ p.msg = r.msg BY <1>1, <2>6 DEF Match
    <3>2. CASE p.qos = 1
      <4>1. b'.held = b.held /\ r.msg \in acked' BY <1>1, <1>6, <3>1, <3>2
      <4>2. Match(a, r, b'.held, acked') BY <2>2, <3>1, <3>2, <4>1 DEF Match
      <4> QED BY <2>6, <4>1, <4>2
    <3>3. CASE p.qos = 2
      <4>1. e = Entry(r) BY <1>5, <3>1
      <4>2. \A h \in b'.held : h = Entry(r) BY <1>6, <2>6, <4>1
      <4>3. Entry(r) \in b'.held
        <5>1. CASE new BY <1>6, <3>3, <4>1, <5>1
        <5>2. CASE ~new
          <6>1. PICK h \in b.held : h.id = p.id BY <5>2
          <6> QED BY <1>6, <2>6, <5>2, <6>1
        <5> QED BY <5>1, <5>2
      <4>4. a.type = "PUBREC" BY <2>2, <3>3
      <4>5. Match(a, r, b'.held, acked') BY <2>2, <3>1, <3>3, <4>3, <4>4 DEF Match
      <4> QED BY <3>1, <3>3, <4>2, <4>5
    <3> QED BY <1>7, <1>10, <3>2, <3>3
  <2> HIDE DEF p
  <2>7. Safe(c, call, up', b'.on, b'.held, down', link', acked')
    BY <1>1, <1>6, <2>1, <2>3, <2>4, <2>5, <2>6, Acknowledges DEF p
  <2> QED BY <1>8, <1>11, <2>7
<1> QED BY <1>9, <1>10

LEMMA BrokerPubrelDelivers ==
  ASSUME Sound, Received, Broker_pubrel
  PROVE  Safe(c, call, up', b'.on, b'.held, down', link', acked') /\ Received'
<1> DEFINE p == Head(up)
           these == {h \in b.held : h.id = p.id}
           a == [type |-> "PUBCOMP", id |-> p.id]
<1>1. /\ up # <<>> /\ p.type = "PUBREL" /\ up' = Tail(up) /\ b.on /\ link' = link
      /\ b' = [b EXCEPT !.held = @ \ these]
      /\ acked' = acked \cup {h.msg : h \in these}
      /\ down' = down \o <<a>> /\ got' = got
  BY DEF Broker_pubrel, Reads, Answers
<1>2. p \in UpPacket /\ b \in BrokerObject /\ b.on = TRUE BY <1>1, InSession
<1>3. p.id \in Nat /\ Qos2Used BY <1>1, <1>2, UpFields
<1>4. b'.on = TRUE /\ b'.held = b.held \ these BY <1>1, <1>2 DEF BrokerObject
<1>5. a \in DownPacket /\ a.type = "PUBCOMP" /\ a.id = p.id BY <1>3 DEF DownPacket, Acks
<1>6. UpToken(p) /\ p.type # "CONNECT" BY <1>1 DEF UpToken
<1>7. Received'
  <2>1. \A h \in b'.held : got'[h.msg] > 0 BY <1>1, <1>4 DEF Received
  <2>2. \A m \in acked' : got'[m] > 0 BY <1>1 DEF Received
  <2> QED BY <2>1, <2>2 DEF Received
<1> HIDE DEF a
<1>8. ASSUME NEW r, Match(p, r, b.held, acked), \A h \in b.held : h = Entry(r) /\ r.qos = 2 /\ r.id # 0
      PROVE  Match(a, r, b'.held, acked') /\ \A h \in b'.held : h = Entry(r) /\ r.qos = 2 /\ r.id # 0
  <2>1. p.id = r.id /\ r.id # 0 /\ r.qos = 2 /\ Entry(r) \in b.held BY <1>1, <1>8 DEF Match
  <2>2. Entry(r).id = r.id /\ Entry(r).msg = r.msg BY DEF Entry
  <2>3. Entry(r) \in these BY <2>1, <2>2
  <2>4. r.msg \in acked' BY <1>1, <2>2, <2>3
  <2>5. \A h \in b.held : h \in these BY <1>8, <2>3
  <2>6. b'.held = {} BY <1>4, <2>5
  <2>7. Match(a, r, b'.held, acked') BY <1>5, <2>1, <2>4, <2>6 DEF Match
  <2> QED BY <2>6, <2>7
<1> HIDE DEF p
<1>9. Safe(c, call, up', b'.on, b'.held, down', link', acked')
  BY <1>1, <1>4, <1>5, <1>6, <1>8, Acknowledges DEF p
<1> QED BY <1>7, <1>9

\* What else the broker reads and sends carries no publish of the client's.
LEMMA PlainDelivers ==
  ASSUME Sound, UNCHANGED <<link, acked>>,
         \/ up' = up \/ (b.on /\ up # <<>> /\ Head(up).type # "CONNECT" /\ up' = Tail(up)),
         \/ down' = down
         \/ \E p \in DownPacket : p.type # "CONNACK" /\ ~DownToken(p) /\ down' = down \o <<p>>
  PROVE  Safe(c, call, up', b.on, b.held, down', link', acked')
<1> DEFINE u == up'
<1>1. Safe(c, call, up, b.on, b.held, down, link, acked) /\ down \in Seq(DownPacket)
  BY Now DEF ChannelTypes
<1>2. Safe(c, call, u, b.on, b.held, down, link, acked)
  <2>1. CASE up' = up BY <1>1, <2>1
  <2>2. CASE b.on /\ up # <<>> /\ Head(up).type # "CONNECT" /\ up' = Tail(up)
    <3>1. b.on = TRUE /\ up \in Seq(UpPacket) BY <2>2, Now
    <3>2. Safe(c, call, up, TRUE, b.held, down, link, acked) BY <1>1, <3>1
    <3>3. Safe(c, call, Tail(up), TRUE, b.held, down, link, acked) BY <2>2, <3>1, <3>2, TakeSafe
    <3> QED BY <2>2, <3>1, <3>3
  <2> QED BY <2>1, <2>2
<1> HIDE DEF u
<1>3. ASSUME NEW p \in DownPacket, p.type # "CONNACK", ~DownToken(p), down' = down \o <<p>>
      PROVE  Safe(c, call, u, b.on, b.held, down', link, acked)
  BY <1>1, <1>2, <1>3, GiveSafe
<1>4. Safe(c, call, u, b.on, b.held, down', link, acked) BY <1>2, <1>3
<1> QED BY <1>4 DEF u

LEMMA BrokerPlainDelivers ==
  ASSUME Sound, \/ Broker_ack \/ Broker_subscribe \/ Broker_suback \/ Broker_unsubscribe
                \/ Broker_ping \/ Broker_forward
  PROVE  /\ Safe(c, call, up', b'.on, b'.held, down', link', acked')
         /\ b'.held = b.held /\ UNCHANGED <<acked, got>>
<1>1. b \in BrokerObject BY DEF Sound, Types, BrokerTypes
<1>2. UNCHANGED <<link, acked, got>>
  BY DEF Broker_ack, Broker_subscribe, Broker_suback, Broker_unsubscribe, Broker_ping, Broker_forward
<1>3. b'.on = b.on /\ b'.held = b.held
  <2>1. CASE Broker_ack BY <1>1, <2>1 DEF Broker_ack, BrokerObject
  <2>2. CASE Broker_subscribe BY <1>1, <2>2 DEF Broker_subscribe, BrokerObject
  <2>3. CASE Broker_suback BY <1>1, <2>3 DEF Broker_suback, BrokerObject
  <2>4. CASE Broker_unsubscribe BY <1>1, <2>4 DEF Broker_unsubscribe, BrokerObject
  <2>5. CASE Broker_ping BY <2>5 DEF Broker_ping
  <2>6. CASE Broker_forward
    <3>1. b' = b \/ \E x : b' = [b EXCEPT !.out = x] BY <2>6 DEF Broker_forward
    <3> QED BY <1>1, <3>1 DEF BrokerObject
  <2> QED BY <2>1, <2>2, <2>3, <2>4, <2>5, <2>6
<1> DEFINE Reading == b.on /\ up # <<>> /\ Head(up).type # "CONNECT" /\ up' = Tail(up)
           Giving == \E p \in DownPacket : p.type # "CONNACK" /\ ~DownToken(p) /\ down' = down \o <<p>>
<1>4. /\ up' = up \/ Reading
      /\ down' = down \/ Giving
  <2>1. CASE Broker_ack
    <3> DEFINE p == Head(up)
    <3>1. /\ b.on /\ up # <<>> /\ up' = Tail(up)
          /\ \/ p.type \in {"PUBACK", "PUBCOMP"} /\ down' = down
             \/ p.type = "PUBREC" /\ down' = down \o <<[type |-> "PUBREL", id |-> p.id]>>
      BY <2>1 DEF Broker_ack, Answers
    <3>2. p \in UpPacket BY <3>1, InSession
    <3>3. p.type = "PUBREC" => p.id \in Nat /\ Qos2Used BY <3>2, UpFields
    <3> DEFINE a == [type |-> "PUBREL", id |-> p.id]
    <3>4. p.type = "PUBREC" => a \in DownPacket BY <3>3 DEF DownPacket, Acks
    <3>5. a.type # "CONNACK" /\ ~DownToken(a) BY DEF DownToken
    <3> HIDE DEF a
    <3>6. Reading BY <3>1
    <3>7. down' = down \/ Giving BY <3>1, <3>4, <3>5 DEF a
    <3> QED BY <3>6, <3>7
  <2>2. CASE Broker_subscribe BY <2>2 DEF Broker_subscribe, Reads
  <2>3. CASE Broker_suback
    <3>1. b.suback \in DownPacket /\ b.suback.type = "SUBACK"
      <4>1. b.suback \in Suback BY <1>1, <2>3 DEF Broker_suback, BrokerObject
      <4> QED BY <4>1 DEF Suback, DownPacket
    <3>2. up' = up /\ down' = down \o <<b.suback>> BY <2>3 DEF Broker_suback, Answers
    <3> QED BY <3>1, <3>2 DEF DownToken
  <2>4. CASE Broker_unsubscribe
    <3> DEFINE a == [type |-> "UNSUBACK", id |-> Head(up).id]
    <3>1. /\ b.on /\ up # <<>> /\ up' = Tail(up) /\ Head(up).type = "UNSUBSCRIBE"
          /\ down' = down \o <<a>>
      BY <2>4 DEF Broker_unsubscribe, Reads, Answers
    <3>2. Head(up).id \in Nat BY <3>1, InSession, UpFields, IdsNat
    <3>3. a \in DownPacket /\ a.type # "CONNACK" /\ ~DownToken(a) BY <3>2 DEF DownPacket, DownToken
    <3> HIDE DEF a
    <3> QED BY <3>1, <3>3
  <2>5. CASE Broker_ping
    <3> DEFINE a == [type |-> "PINGRESP"]
    <3>1. /\ b.on /\ up # <<>> /\ up' = Tail(up) /\ Head(up).type = "PINGREQ"
          /\ down' = down \o <<a>>
      BY <2>5 DEF Broker_ping, Reads, Answers
    <3>2. a \in DownPacket /\ a.type # "CONNACK" /\ ~DownToken(a) BY DEF DownPacket, DownToken
    <3> HIDE DEF a
    <3> QED BY <3>1, <3>2
  <2>6. CASE Broker_forward
    <3>1. PICK m \in InMsgs, q \in InQoSs :
            LET qos == IF b.subs[Topic] < q THEN b.subs[Topic] ELSE q
                p   == [type |-> "PUBLISH", id |-> FreeId(b.out), qos |-> qos, msg |-> m,
                        topic |-> Topic]
            IN  /\ b.subs[Topic] # NotSubscribed
                /\ down' = IF b.on THEN Append(down, p) ELSE down
                /\ up' = up
      BY <2>6 DEF Broker_forward
    <3> DEFINE qos == IF b.subs[Topic] < q THEN b.subs[Topic] ELSE q
               p   == [type |-> "PUBLISH", id |-> FreeId(b.out), qos |-> qos, msg |-> m, topic |-> Topic]
    <3>2. FreeId(b.out) \in Nat BY <1>1, FreeIdType DEF BrokerObject
    <3>3. qos \in Levels
      <4>1. b.subs[Topic] \in Levels BY <1>1, <3>1, SystemAssumption DEF BrokerObject
      <4>2. q \in 0..2 BY SystemAssumption
      <4>3. Levels = 0..2 \/ Levels = 0..1 BY DEF Levels
      <4> QED BY <4>1, <4>2, <4>3
    <3>4. p \in DownPacket /\ p.type # "CONNACK" /\ ~DownToken(p)
      <4> HIDE DEF qos
      <4> QED BY <3>2, <3>3 DEF DownPacket, DownToken
    <3>5. down' = down \/ down' = Append(down, p) BY <3>1
    <3>6. up' = up BY <3>1
    <3> HIDE DEF p
    <3>7. Append(down, p) = down \o <<p>>
      <4>1. down \in Seq(DownPacket) BY Now DEF ChannelTypes
      <4> QED BY <3>4, <4>1, AppendIsConcat
    <3> QED BY <3>4, <3>5, <3>6, <3>7
  <2> QED BY <2>1, <2>2, <2>3, <2>4, <2>5, <2>6
<1>5. Safe(c, call, up', b.on, b.held, down', link', acked') BY <1>2, <1>4, PlainDelivers
<1> QED BY <1>2, <1>3, <1>5

-----------------------------------------------------------------------------
(* Every step. *)

\* Steps of the broker and the link.
LEMMA OthersStep ==
  ASSUME DrainsFirst, Sound, Received, PublishAcked, Broker \/ Broker_forward \/ Break \/ Reopen
  PROVE  /\ Delivery' /\ Received' /\ PublishAcked' /\ UNCHANGED <<c, promised>>
         /\ \A m \in OutMsgs : got[m] > 0 => got'[m] > 0
<1>1. UNCHANGED <<c, call, ret, promised>>
  <2>1. CASE Broker
    BY <2>1 DEF Broker, Broker_connect, Broker_refuse, Broker_close, Broker_publish, Broker_pubrel,
                Broker_ack, Broker_subscribe, Broker_suback, Broker_unsubscribe, Broker_ping, BrokerOnly
  <2>2. CASE Broker_forward \/ Break \/ Reopen BY <2>2 DEF Broker_forward, Break, Reopen, clientVars
  <2> QED BY <2>1, <2>2
<1> DEFINE After == Safe(c, call, up', b'.on, b'.held, down', link', acked')
<1>2. CASE Broker_publish
  <2>1. /\ After /\ Received' /\ acked \subseteq acked'
        /\ \A m \in OutMsgs : got[m] > 0 => got'[m] > 0
    BY <1>2, BrokerPublishDelivers
  <2> QED BY <1>1, <2>1, OthersDeliver
<1>3. CASE Broker_pubrel
  <2>1. After /\ Received' BY <1>3, BrokerPubrelDelivers
  <2>2. acked \subseteq acked' /\ got' = got BY <1>3 DEF Broker_pubrel
  <2>3. \A m \in OutMsgs : got[m] > 0 => got'[m] > 0 BY <2>2
  <2> HIDE DEF After
  <2>4. Delivery' /\ PublishAcked' BY <1>1, <2>1, <2>2, OthersDeliver DEF After
  <2> QED BY <1>1, <2>1, <2>3, <2>4
<1>4. ASSUME After, b'.held \subseteq b.held, UNCHANGED <<acked, got>>
      PROVE  /\ Delivery' /\ Received' /\ PublishAcked'
             /\ \A m \in OutMsgs : got[m] > 0 => got'[m] > 0
  <2>1. Received' BY <1>4 DEF Received
  <2>2. \A m \in OutMsgs : got[m] > 0 => got'[m] > 0 BY <1>4
  <2>3. acked \subseteq acked' BY <1>4
  <2>4. Delivery' /\ PublishAcked' BY <1>1, <1>4, <2>3, OthersDeliver
  <2> QED BY <2>1, <2>2, <2>4
<1>5. ASSUME ~Broker_publish, ~Broker_pubrel
      PROVE  After /\ b'.held \subseteq b.held /\ UNCHANGED <<acked, got>>
  <2>1. CASE Broker_connect BY <2>1, BrokerConnectDelivers DEF Broker_connect
  <2>2. CASE Broker_refuse BY <2>2, BrokerRefuseDelivers DEF Broker_refuse
  <2>3. CASE Broker_close \/ Break
    <3>1. /\ Cut /\ b' = [b EXCEPT !.on = FALSE, !.suback = NoSuback] /\ UNCHANGED <<acked, got>>
      BY <2>3 DEF Broker_close, Break
    <3> QED BY <1>1, <3>1, CutDelivers
  <2>4. CASE Reopen
    <3>1. UNCHANGED <<b, acked, got>> BY <2>4 DEF Reopen, brokerVars
    <3> QED BY <2>4, <3>1, ReopenDelivers
  <2>5. CASE \/ Broker_ack \/ Broker_subscribe \/ Broker_suback \/ Broker_unsubscribe
             \/ Broker_ping \/ Broker_forward
    BY <2>5, BrokerPlainDelivers
  <2> QED BY <1>5, <2>1, <2>2, <2>3, <2>4, <2>5 DEF Broker
<1> HIDE DEF After
<1> QED BY <1>1, <1>2, <1>3, <1>4, <1>5

\* All of it together.
Delivers == Sound /\ Received /\ PublishAcked

LEMMA DeliversNext ==
  ASSUME DrainsFirst, QoSFits, Delivers, [Next]_vars
  PROVE  Delivers' /\ (~CleanSession /\ NothingLost => NothingLost')
<1>1. Sound /\ Received /\ PublishAcked BY DEF Delivers
<1>2. Types' /\ Tracked' /\ Quiet' /\ Offline'
  BY <1>1, NextTypes, TrackedNext, QuietNext, OfflineNext DEF Sound
<1>3. promised \subseteq OutMsgs /\ Types BY <1>1 DEF Sound, Types, BrokerTypes
<1>4. CASE App_connect \/ App_publish \/ App_call \/ App_yield \/ Client
  <2>1. /\ Delivery' /\ PublishAcked' /\ UNCHANGED <<b, got, acked>>
        /\ App_publish \/ (Settles(c') /\ promised' = promised)
        /\ App_publish =>
             /\ c.inflight.id = 0
             /\ ~CleanSession => \A m \in promised' \ promised : c'.inflight.id # 0 /\ c'.inflight.msg = m
    BY <1>1, <1>4, ClientDelivers
  <2>2. Received' BY <1>1, <2>1 DEF Received
  <2>3. ASSUME ~CleanSession, NothingLost PROVE NothingLost'
    <3> SUFFICES ASSUME NEW m \in promised'
                 PROVE  got'[m] > 0 \/ (c'.inflight.id # 0 /\ c'.inflight.msg = m)
      BY DEF NothingLost
    <3>1. CASE m \notin promised BY <2>1, <2>3, <3>1
    <3>2. CASE m \in promised /\ got[m] > 0 BY <2>1, <3>2
    <3>3. CASE m \in promised /\ ~(got[m] > 0)
      <4>1. c.inflight.id # 0 /\ c.inflight.msg = m BY <2>3, <3>3 DEF NothingLost
      <4>2. ~App_publish BY <2>1, <4>1
      <4>3. c'.inflight.id # 0
        <5>1. c'.inflight.id = 0 => m \in acked BY <2>1, <4>1, <4>2 DEF Settles
        <5> QED BY <1>1, <3>3, <5>1 DEF Received
      <4>4. c'.inflight = c.inflight BY <1>3, <4>2, <4>3, ClientKeeps DEF Keeps
      <4> QED BY <4>1, <4>3, <4>4
    <3> QED BY <3>1, <3>2, <3>3
  <2> QED BY <1>1, <1>2, <2>1, <2>2, <2>3 DEF Delivers, Sound
<1>5. CASE Broker \/ Broker_forward \/ Break \/ Reopen
  <2>1. /\ Delivery' /\ Received' /\ PublishAcked' /\ UNCHANGED <<c, promised>>
        /\ \A m \in OutMsgs : got[m] > 0 => got'[m] > 0
    BY <1>1, <1>5, OthersStep
  <2>2. NothingLost => NothingLost' BY <1>3, <2>1 DEF NothingLost
  <2> QED BY <1>2, <2>1, <2>2 DEF Delivers, Sound
<1>6. CASE UNCHANGED vars
  <2>1. UNCHANGED <<c, call, ret, up, link, down, b, got, acked, promised>>
    BY <1>6 DEF vars, clientVars
  <2>2. Delivery' /\ Received' /\ PublishAcked' BY <1>1, <2>1 DEF Sound, Delivery, Received, PublishAcked
  <2>3. NothingLost => NothingLost' BY <2>1 DEF NothingLost
  <2> QED BY <1>2, <2>2, <2>3 DEF Delivers, Sound
<1> QED BY <1>4, <1>5, <1>6 DEF Next

LEMMA DeliversFirst == Init => Delivers /\ NothingLost
<1> SUFFICES ASSUME Init PROVE Delivers /\ NothingLost OBVIOUS
<1>1. Types BY InitTypes
<1>2. /\ ~c.isconnected /\ c.cleansession /\ c.inflight.id = 0 /\ ~c.pubrel
      /\ call = NoCall /\ ret = NoReturn /\ up = <<>> /\ down = <<>> /\ promised = {} /\ acked = {}
      /\ b.held = {} /\ b.on = FALSE /\ link = "up"
  BY DEF Init, ClientInit, NewClient, NoInflight
<1>3. NoCall.op = "none" BY NoCallType
<1>4. Tracked /\ Offline BY <1>2 DEF Tracked, Offline
<1>5. Quiet BY DEF Init, Quiet
<1>6. Delivery
  <2>1. Len(<<>>) = 0 BY EmptySeq
  <2>2. /\ UpPlaces(<<>>, FALSE) = {} /\ DownPlaces(<<>>) = {}
        /\ ~HasConnect(<<>>) /\ ~HasConnack(<<>>)
    BY <2>1 DEF UpPlaces, DownPlaces, HasConnect, HasConnack
  <2>3. InTransit(<<>>, FALSE, <<>>) = {} /\ FirstOnly(<<>>) BY <2>2, Nothing, NoConnack
  <2>4. Cleans(c, NoCall, {}, <<>>) BY <1>2, <1>3 DEF Cleans
  <2>5. Safe(c, NoCall, <<>>, FALSE, {}, <<>>, "up", {}) BY <1>2, <1>3, <2>2, <2>3, <2>4, Clear
  <2> QED BY <1>2, <2>5 DEF Delivery
<1>7. Received BY <1>2 DEF Received
<1>8. PublishAcked BY <1>2, <1>3 DEF PublishAcked, NoReturn
<1>9. NothingLost BY <1>2 DEF NothingLost
<1> QED BY <1>1, <1>4, <1>5, <1>6, <1>7, <1>8, <1>9 DEF Delivers, Sound

\* publish returns success for a message at QoS 1 or 2 only when the broker has
\* acknowledged that very message: no acknowledgment of an earlier one is ever
\* left under way, whatever was lost, timed out or sent again, if the application
\* reads out what is left of a connection before it opens another (the stale
\* acknowledgment is otherwise taken for the awaited one) and asks for QoS 2
\* only when it is compiled in (publish does not wait for its answer else).
THEOREM PublishAckedHolds ==
  ASSUME DrainsFirst, MQTTCLIENT_QOS2 \/ 2 \notin QoSs
  PROVE  Spec => []PublishAcked
<1>1. QoSFits BY DEF QoSFits
<1>2. Init => Delivers BY DeliversFirst
<1>3. Delivers /\ [Next]_vars => Delivers' BY <1>1, DeliversNext
<1>4. Delivers => PublishAcked BY DEF Delivers
<1> QED BY <1>2, <1>3, <1>4, PTL DEF Spec

\* In a session that is not clean no message published at QoS 1 or 2 gets lost:
\* the broker has it, or it is the publish in flight that the next connect sends
\* again.  The one slot for it is forgotten only once it is acknowledged, and no
\* later publish finds it taken.
THEOREM NothingLostHolds ==
  ASSUME DrainsFirst, MQTTCLIENT_QOS2 \/ 2 \notin QoSs, ~CleanSession
  PROVE  Spec => []NothingLost
<1>1. QoSFits BY DEF QoSFits
<1> DEFINE Lasts == Delivers /\ NothingLost
<1>2. Init => Lasts BY DeliversFirst
<1>3. Lasts /\ [Next]_vars => Lasts' BY <1>1, DeliversNext
<1>4. Lasts => NothingLost OBVIOUS
<1> QED BY <1>2, <1>3, <1>4, PTL DEF Spec

(***************************************************************************)
(* A message at QoS 2 is heard once: the client's table of ids, the        *)
(* messages under way to it and those the broker keeps for it.             *)
(***************************************************************************)
(***************************************************************************)
(* The table of QoS 2 ids: what the methods do to it.  A session that is   *)
(* clean forgets it when it closes, any other keeps it.                    *)
(***************************************************************************)
SameTable(e, d) ==
  e.cleansession = d.cleansession /\ (~d.cleansession => e.incoming = d.incoming)

LEMMA SameTableThen ==
  ASSUME NEW d, NEW e, NEW f, SameTable(e, d), SameTable(f, e)
  PROVE  SameTable(f, d)
BY DEF SameTable

LEMMA SendTable ==
  ASSUME NEW d \in Object, NEW p \in UpPacket, NEW w \in Fates
  PROVE  SameTable(sendPacket(d, p, w).c, d)
BY SendType DEF SameTable, Core

LEMMA CloseTable ==
  ASSUME NEW d \in Object
  PROVE  SameTable(closeSession(d), d)
<1> DEFINE e == [d EXCEPT !.ping_outstanding = FALSE, !.isconnected = FALSE]
<1>1. closeSession(d).cleansession = d.cleansession BY CloseType
<1>2. ~d.cleansession => closeSession(d) = e BY DEF closeSession
<1>3. e.incoming = d.incoming BY DEF Object
<1> QED BY <1>1, <1>2, <1>3 DEF SameTable

LEMMA CloseSentTable ==
  ASSUME NEW d \in Object, NEW p \in UpPacket, NEW w \in Fates
  PROVE  SameTable(closeSession(sendPacket(d, p, w).c), d)
<1>1. sendPacket(d, p, w).c \in Object BY SendType
<1> QED BY <1>1, SendTable, CloseTable, SameTableThen

LEMMA PublishTable ==
  ASSUME NEW d \in Object, NEW p \in UpPacket, NEW qos, NEW w \in Fates, NEW k, NEW expired
  PROVE  SameTable(publish_packet(d, p, qos, w, k, expired).c, d)
<1> DEFINE t == sendPacket(d, p, w)
           s == publish_packet(d, p, qos, w, k, expired)
<1>1. s \in {Return(closeSession(t.c), t.out, FAILURE), Return(t.c, t.out, SUCCESS),
             Wait(t.c, t.out, [k EXCEPT !.await = AckAwaited(qos)])}
  BY DEF publish_packet
<1>2. s.c \in {closeSession(t.c), t.c} BY <1>1 DEF Return, Wait
<1>3. SameTable(t.c, d) /\ SameTable(closeSession(t.c), d) BY SendTable, CloseSentTable
<1> HIDE DEF s, t
<1>4. SameTable(s.c, d) BY <1>2, <1>3
<1> QED BY <1>4 DEF s

LEMMA ConnectExitTable ==
  ASSUME NEW s, TurnOK(s)
  PROVE  SameTable(connect_exit(s).c, s.c)
<1> DEFINE e == [s.c EXCEPT !.isconnected = TRUE, !.ping_outstanding = FALSE]
<1>1. s.c \in Object /\ s = [c |-> s.c, out |-> s.out, call |-> s.call, rc |-> s.rc] BY DEF TurnOK
<1>2. e.cleansession = s.c.cleansession /\ e.incoming = s.c.incoming BY <1>1 DEF Object
<1>3. connect_exit(s) = IF s.call = NoCall /\ s.rc = SUCCESS
                        THEN [c |-> e, out |-> s.out, call |-> s.call, rc |-> s.rc] ELSE s
  BY <1>1 DEF connect_exit
<1> HIDE DEF e
<1>4. connect_exit(s).c = e \/ connect_exit(s).c = s.c BY <1>3
<1> QED BY <1>2, <1>4 DEF SameTable

LEMMA ResendTable ==
  ASSUME NEW d \in Object, SavedOK(d), NEW rc \in Codes, NEW w \in Fates,
         NEW k \in Call, k.op = "connect", NEW expired \in BOOLEAN
  PROVE  SameTable(resend(d, rc, w, k, expired).c, d)
<1> DEFINE s == resend(d, rc, w, k, expired)
<1>1. CASE d.inflight.id = 0
  <2> DEFINE t == Return(d, NoWrite, rc)
  <2>1. s = connect_exit(t) BY <1>1 DEF resend
  <2>2. TurnOK(t) BY NoWriteType, ReturnType
  <2>3. t.c = d BY DEF Return
  <2> HIDE DEF t
  <2> QED BY <2>1, <2>2, <2>3, ConnectExitTable
<1>2. CASE d.inflight.id # 0
  <2> DEFINE t == publish_packet(d, Resent(d), d.inflight.qos, w, k, expired)
             k1 == [k EXCEPT !.await = AckAwaited(d.inflight.qos)]
  <2>1. s = connect_exit(t) BY <1>2 DEF resend, Resent
  <2>2. Resent(d) \in UpPacket /\ d.inflight.qos \in Levels BY <1>2, ResentType
  <2>3. SameTable(t.c, d) BY <2>2, PublishTable
  <2>4. PublishOutcome(t, d, Resent(d), d.inflight.qos, k, expired) BY <2>2, PublishCases
  <2>5. AckAwaited(d.inflight.qos) # "none" => Waiting(k1) BY <2>2, AwaitType
  <2> HIDE DEF s, t, k1
  <2>6. t.out.sent \in Seq(UpPacket)
    <3>1. <<>> \in Seq(UpPacket) /\ <<Resent(d)>> \in Seq(UpPacket) BY <2>2
    <3> QED BY <2>4, <3>1 DEF PublishOutcome
  <2>7. Waiting(t.call) /\ t.rc \in Codes BY <2>4, <2>5, NoCallType DEF Codes, PublishOutcome, k1
  <2>8. TurnOK(t) BY <2>4, <2>6, <2>7 DEF TurnOK, PublishOutcome
  <2>9. SameTable(s.c, d) BY <2>1, <2>3, <2>8, ConnectExitTable, SameTableThen
  <2> QED BY <2>9 DEF s
<1> QED BY <1>1, <1>2

LEMMA HandlerTable ==
  ASSUME NEW d \in Object, NEW topic, NEW adding \in BOOLEAN
  PROVE  SameTable(setMessageHandler(d, topic, adding).c, d)
<1> DEFINE At(i, t) == [d EXCEPT !.handlers = [d.handlers EXCEPT ![i] = t]]
           e == setMessageHandler(d, topic, adding).c
<1>1. e = d \/ \E i, t : e = At(i, t) BY DEF setMessageHandler, Object
<1>2. \A i, t : At(i, t).cleansession = d.cleansession /\ At(i, t).incoming = d.incoming BY DEF Object
<1> HIDE DEF At, e
<1>3. SameTable(e, d) BY <1>1, <1>2 DEF SameTable
<1> QED BY <1>3 DEF e

LEMMA AckedTable ==
  ASSUME NEW d \in Object, NEW id
  PROVE  SameTable(Acked(d, id), d)
<1>1. Acked(d, id) \in {d, [d EXCEPT !.inflight = [d.inflight EXCEPT !.id = 0]]}
  BY DEF Acked, Object
<1>2. /\ [d EXCEPT !.inflight = [d.inflight EXCEPT !.id = 0]].cleansession = d.cleansession
      /\ [d EXCEPT !.inflight = [d.inflight EXCEPT !.id = 0]].incoming = d.incoming
  BY DEF Object
<1> QED BY <1>1, <1>2 DEF SameTable

LEMMA AnsweredTable ==
  ASSUME NEW d \in Object, SavedOK(d), NEW p \in Input, NEW w \in Fates,
         Waiting(call), p.type = call.await
  PROVE  SameTable(answered(d, p, w).c, d)
<1> DEFINE s == answered(d, p, w)
<1>1. call.op \in {"connect", "publish", "subscribe", "unsubscribe"}
  BY InputFields DEF Waiting, Call, Acks, SHORT, TIMEOUT
<1>2. CASE call.op = "connect" /\ call.await = "CONNACK"
  <2>1. p.rc \in Codes BY <1>2, InputFields DEF Codes
  <2>2. s = resend(d, p.rc, w, call, FALSE) BY <1>2 DEF answered
  <2> QED BY <1>2, <2>1, <2>2, ResendTable DEF Waiting
<1>3. CASE call.op = "connect" /\ call.await # "CONNACK"
  <2> DEFINE t == Return(Acked(d, p.id), NoWrite, SUCCESS)
  <2>1. s = connect_exit(t) BY <1>3 DEF answered
  <2>2. SUCCESS \in Codes BY DEF Codes
  <2>3. TurnOK(t) BY <2>2, AckedType, NoWriteType, ReturnType
  <2>4. t.c = Acked(d, p.id) BY DEF Return
  <2> HIDE DEF t
  <2> QED BY <2>1, <2>3, <2>4, AckedTable, ConnectExitTable, SameTableThen
<1>4. CASE call.op = "publish"
  <2>1. s.c = Acked(d, p.id) BY <1>4 DEF answered, Return
  <2> QED BY <2>1, AckedTable
<1>5. CASE call.op = "subscribe"
  <2> DEFINE h == setMessageHandler(d, call.topic, TRUE)
  <2>1. s = IF p.qos = 128 THEN Return(d, NoWrite, SUCCESS)
            ELSE Return(IF h.rc = FAILURE THEN closeSession(h.c) ELSE h.c, NoWrite, h.rc)
    BY <1>5 DEF answered
  <2>2. h.c \in Object BY <1>5, HandlerType DEF Waiting
  <2>3. SameTable(h.c, d) BY HandlerTable
  <2> HIDE DEF h
  <2>4. s.c \in {d, h.c, closeSession(h.c)} BY <2>1 DEF Return
  <2>5. SameTable(closeSession(h.c), d) BY <2>2, <2>3, CloseTable, SameTableThen
  <2>6. SameTable(d, d) BY DEF SameTable
  <2> HIDE DEF s
  <2>7. SameTable(s.c, d) BY <2>3, <2>4, <2>5, <2>6
  <2> QED BY <2>7 DEF s
<1>6. CASE call.op = "unsubscribe"
  <2>1. s.c = setMessageHandler(d, call.topic, FALSE).c BY <1>6 DEF answered, Return
  <2> QED BY <2>1, HandlerTable
<1> QED BY <1>1, <1>2, <1>3, <1>4, <1>5, <1>6

LEMMA UnansweredTable ==
  ASSUME NEW d \in Object, SavedOK(d), NEW w \in Fates, NEW expired \in BOOLEAN, Waiting(call)
  PROVE  SameTable(unanswered(d, w, expired).c, d)
<1> DEFINE s == unanswered(d, w, expired)
<1>1. CASE call.op = "connect" /\ call.await = "CONNACK"
  <2>1. s = resend(d, FAILURE, w, call, expired) BY <1>1 DEF unanswered
  <2>2. FAILURE \in Codes BY DEF Codes
  <2> QED BY <1>1, <2>1, <2>2, ResendTable DEF Waiting
<1>2. CASE call.op = "yield"
  <2>1. s.c = d BY <1>2 DEF unanswered, Return
  <2> QED BY <2>1 DEF SameTable
<1>3. CASE call.op # "yield" /\ ~(call.op = "connect" /\ call.await = "CONNACK")
  <2>1. s.c = closeSession(d) BY <1>3 DEF unanswered, Return
  <2> QED BY <2>1, CloseTable
<1> QED BY <1>1, <1>2, <1>3

LEMMA KeepaliveTable ==
  ASSUME NEW d \in Object, NEW w \in Fates
  PROVE  SameTable(keepalive(d, w).c, d)
<1> DEFINE s == sendPacket(d, Ping, w)
           e == [s.c EXCEPT !.ping_outstanding = TRUE, !.pingDue = FALSE]
<1>1. Ping \in UpPacket BY DEF Ping, UpPacket
<1>2. s.c \in Object /\ SameTable(s.c, d) BY <1>1, SendType, SendTable
<1>3. e.cleansession = s.c.cleansession /\ e.incoming = s.c.incoming BY <1>2 DEF Object
<1>4. s = [c |-> s.c, rc |-> s.rc, out |-> s.out] BY DEF sendPacket
<1>5. keepalive(d, w) \in {[c |-> d, rc |-> SUCCESS, out |-> NoWrite],
                           [s EXCEPT !.c = IF s.rc = SUCCESS
                              THEN [@ EXCEPT !.ping_outstanding = TRUE, !.pingDue = FALSE]
                              ELSE @],
                           [c |-> d, rc |-> FAILURE, out |-> NoWrite]}
  BY DEF keepalive, Ping
<1>6. keepalive(d, w).c \in {d, s.c, e}
  <2> HIDE DEF s
  <2> QED BY <1>4, <1>5
<1> HIDE DEF s, e
<1> QED BY <1>2, <1>3, <1>6 DEF SameTable

LEMMA AtExitTable ==
  ASSUME NEW d \in Object
  PROVE  SameTable(AtExit(d), d)
<1>1. SameTable(d, d) BY DEF SameTable
<1> QED BY <1>1, CloseTable DEF AtExit

-----------------------------------------------------------------------------
(***************************************************************************)
(* What reading packet p does to the table, and what is heard of it.       *)
(***************************************************************************)
\* The table of QoS 2 ids has this one.
Knows(d, id) == \E i \in QoS2Slots : d.incoming[i] = id

\* A known id is not given to a handler; one that is, is known afterwards; and
\* only its release takes an id from the table of a session that is not clean.
Takes(e, d, p, heardNow) ==
  /\ e.cleansession = d.cleansession
  /\ heardNow = NoDelivery
       \/ (p.type = "PUBLISH" /\ heardNow.msg = p.msg /\ heardNow.times \in {0, 1})
  /\ MQTTCLIENT_QOS2 /\ p.type = "PUBLISH" /\ p.qos = 2 =>
       /\ Knows(d, p.id) => heardNow = NoDelivery
       /\ heardNow # NoDelivery /\ p.id # 0 /\ ~d.cleansession => Knows(e, p.id)
  /\ ~d.cleansession =>
       \A id \in Nat \ {0} : Knows(d, id) /\ ~(p.type = "PUBREL" /\ p.id = id) => Knows(e, id)

LEMMA TakesSame ==
  ASSUME NEW d, NEW e, NEW f, NEW p, NEW g, Takes(e, d, p, g), SameTable(f, e)
  PROVE  Takes(f, d, p, g)
<1>1. ~d.cleansession => \A id : Knows(f, id) <=> Knows(e, id)
  BY DEF Takes, SameTable, Knows
<1> QED BY <1>1 DEF Takes, SameTable

LEMMA TakesFrom ==
  ASSUME NEW d, NEW e, NEW f, NEW p, NEW g, Takes(f, e, p, g), SameTable(e, d),
         e.incoming = d.incoming
  PROVE  Takes(f, d, p, g)
<1>1. \A id : Knows(d, id) <=> Knows(e, id) BY DEF Knows
<1> QED BY <1>1 DEF Takes, SameTable

\* A handler has one slot for a filter, so that a message is given to it once.
LEMMA HeardByOne ==
  ASSUME NEW d \in Object, Once(d), NEW p \in Input, p.type = "PUBLISH"
  PROVE  deliverMessage(d, p).msg = p.msg /\ deliverMessage(d, p).times \in {0, 1}
<1> DEFINE S == {i \in Slots : d.handlers[i] = p.topic}
<1>1. p.topic = Topic /\ Topic # NoTopic
  BY InputFields, ClientAssumption, SystemAssumption
<1>2. \A i, j \in S : i = j BY <1>1 DEF Once, HandlersOnce
<1>3. Cardinality(S) \in {0, 1}
  <2>1. CASE S = {} BY <2>1, FS_EmptySet
  <2>2. CASE S # {}
    <3>1. PICK i : i \in S BY <2>2
    <3>2. S = {i} BY <1>2, <3>1
    <3> HIDE DEF S
    <3> QED BY <3>2, FS_Singleton
  <2> QED BY <2>1, <2>2
<1> QED BY <1>3 DEF deliverMessage

LEMMA KnowsUsed ==
  ASSUME NEW d \in Object, NEW id \in Nat, RoomForQoS2(d) # {}
  PROVE  /\ Knows(useQoS2msgid(d, id), id)
         /\ \A x \in Nat \ {0} : Knows(d, x) => Knows(useQoS2msgid(d, id), x)
<1> DEFINE k == First(RoomForQoS2(d))
           e == useQoS2msgid(d, id)
<1>1. k \in QoS2Slots /\ d.incoming[k] = 0
  <2>1. RoomForQoS2(d) \in SUBSET Nat BY ClientAssumption DEF RoomForQoS2, QoS2Slots
  <2>2. k \in RoomForQoS2(d) BY <2>1, FirstIn
  <2> QED BY <2>2 DEF RoomForQoS2
<1>2. e.incoming = [d.incoming EXCEPT ![k] = id] BY DEF useQoS2msgid, Object
<1>3. d.incoming \in [QoS2Slots -> Nat] BY DEF Object
<1> HIDE DEF k, e
<1>4. e.incoming[k] = id /\ \A i \in QoS2Slots : i # k => e.incoming[i] = d.incoming[i]
  BY <1>1, <1>2, <1>3
<1>5. Knows(e, id) BY <1>1, <1>4 DEF Knows
<1>6. \A x \in Nat \ {0} : Knows(d, x) => Knows(e, x) BY <1>1, <1>4 DEF Knows
<1> QED BY <1>5, <1>6 DEF e

LEMMA KnowsFreed ==
  ASSUME NEW d \in Object, NEW id \in Nat
  PROVE  \A x : x # id /\ Knows(d, x) => Knows(freeQoS2msgid(d, id), x)
<1> DEFINE S == {i \in QoS2Slots : d.incoming[i] = id}
           e == freeQoS2msgid(d, id)
<1>1. CASE S = {} BY <1>1 DEF freeQoS2msgid
<1>2. CASE S # {}
  <2> DEFINE k == First(S)
  <2>1. k \in QoS2Slots /\ d.incoming[k] = id
    <3>1. S \in SUBSET Nat /\ \A i \in S : i \in QoS2Slots /\ d.incoming[i] = id
      BY ClientAssumption DEF QoS2Slots
    <3> HIDE DEF S
    <3> QED BY <1>2, <3>1, FirstIn
  <2>2. e.incoming = [d.incoming EXCEPT ![k] = 0] BY <1>2 DEF freeQoS2msgid, Object
  <2>3. d.incoming \in [QoS2Slots -> Nat] BY DEF Object
  <2> HIDE DEF k, e, S
  <2>4. \A i \in QoS2Slots : i # k => e.incoming[i] = d.incoming[i] BY <2>1, <2>2, <2>3
  <2>5. \A x : x # id /\ Knows(d, x) => Knows(e, x) BY <2>1, <2>4 DEF Knows
  <2> QED BY <2>5 DEF e
<1> QED BY <1>1, <1>2

LEMMA PublishReads ==
  ASSUME NEW d \in Object, Once(d), NEW p \in Input, NEW w \in Fates, p.type = "PUBLISH"
  PROVE  Takes(onPublish(d, p, w).c, d, p, onPublish(d, p, w).got)
<1> DEFINE e   == IF MQTTCLIENT_QOS2 /\ p.qos = 2 /\ IsNew(d, p) THEN useQoS2msgid(d, p.id) ELSE d
           g   == IF IsNew(d, p) THEN deliverMessage(d, p) ELSE NoDelivery
           s   == sendPacket(e, AckOf(p), w)
           r   == onPublish(d, p, w)
<1>1. p.id \in Nat BY InputFields
<1>2. p.qos # 0 => AckOf(p) \in UpPacket BY AnswerType DEF Answer, Acknowledged
<1>3. e \in Object /\ e.cleansession = d.cleansession
  <2>1. CASE MQTTCLIENT_QOS2 /\ p.qos = 2 /\ IsNew(d, p)
    <3>1. RoomForQoS2(d) # {} BY <2>1 DEF IsNew
    <3> QED BY <1>1, <2>1, <3>1, UseType DEF Core
  <2>2. CASE ~(MQTTCLIENT_QOS2 /\ p.qos = 2 /\ IsNew(d, p)) BY <2>2
  <2> QED BY <2>1, <2>2
<1>4. /\ MQTTCLIENT_QOS2 /\ p.qos = 2 /\ IsNew(d, p) => Knows(e, p.id)
      /\ \A id \in Nat \ {0} : Knows(d, id) => Knows(e, id)
  <2>1. CASE MQTTCLIENT_QOS2 /\ p.qos = 2 /\ IsNew(d, p)
    <3>1. RoomForQoS2(d) # {} BY <2>1 DEF IsNew
    <3> QED BY <1>1, <2>1, <3>1, KnowsUsed
  <2>2. CASE ~(MQTTCLIENT_QOS2 /\ p.qos = 2 /\ IsNew(d, p)) BY <2>2
  <2> QED BY <2>1, <2>2
<1>5. g = NoDelivery \/ (g.msg = p.msg /\ g.times \in {0, 1}) BY HeardByOne
<1>6. /\ ~IsNew(d, p) => g = NoDelivery
      /\ MQTTCLIENT_QOS2 /\ p.qos = 2 /\ Knows(d, p.id) => ~IsNew(d, p)
  BY DEF IsNew, isQoS2msgidFree, Knows
<1> HIDE DEF e, g
<1>7. p.qos # 0 => SameTable(s.c, e) BY <1>2, <1>3, SendTable
<1> HIDE DEF s
<1>8. r.got = g /\ (r.c = e \/ (p.qos # 0 /\ r.c = s.c))
  BY DEF onPublish, Keep, e, g, s
<1>9. SameTable(r.c, e)
  <2>1. SameTable(e, e) BY DEF SameTable
  <2> HIDE DEF r
  <2> QED BY <1>7, <1>8, <2>1
<1> HIDE DEF r
<1>10. Takes(e, d, p, g) BY <1>3, <1>4, <1>5, <1>6 DEF Takes
<1>11. Takes(r.c, d, p, r.got) BY <1>8, <1>9, <1>10, TakesSame
<1> QED BY <1>11 DEF r

LEMMA PubrelReads ==
  ASSUME NEW d \in Object, NEW p \in Input, NEW w \in Fates, p.type \in {"PUBREC", "PUBREL"}
  PROVE  Takes(onPubrecPubrel(d, p, w).c, d, p, onPubrecPubrel(d, p, w).got)
<1> DEFINE s == sendPacket(d, Answer(p), w)
           r == onPubrecPubrel(d, p, w)
<1>1. p.id \in Nat /\ Answer(p) \in UpPacket
  BY InputFields, AnswerType DEF Acknowledged
<1>2. Answer(p) = [type |-> IF p.type = "PUBREC" THEN "PUBREL" ELSE "PUBCOMP", id |-> p.id]
  BY DEF Answer
<1>3. s.c \in Object /\ SameTable(s.c, d) /\ s.c.incoming = d.incoming BY <1>1, SendType, SendTable
<1>4. /\ r.c = s.c \/ (p.type = "PUBREL" /\ r.c = freeQoS2msgid(s.c, p.id))
      /\ r.got = NoDelivery
  BY <1>2 DEF onPubrecPubrel
<1> HIDE DEF s, r
<1>5. Takes(r.c, s.c, p, r.got)
  <2>1. CASE r.c = s.c BY <1>4, <2>1 DEF Takes
  <2>2. CASE p.type = "PUBREL" /\ r.c = freeQoS2msgid(s.c, p.id)
    <3>1. s.c \in Object /\ p.id \in Nat BY <1>1, <1>3
    <3>2. \A x : x # p.id /\ Knows(s.c, x) => Knows(r.c, x) BY <2>2, <3>1, KnowsFreed
    <3>3. r.c.cleansession = s.c.cleansession BY <2>2, <3>1, FreeType DEF Core
    <3> QED BY <1>4, <2>2, <3>2, <3>3 DEF Takes
  <2> QED BY <1>4, <2>1, <2>2
<1>6. Takes(r.c, d, p, r.got) BY <1>3, <1>5, TakesFrom
<1> QED BY <1>6 DEF r

LEMMA PacketReads ==
  ASSUME NEW d \in Object, Once(d), NEW p \in Input, NEW w \in Fates
  PROVE  Takes(onPacket(d, p, w).c, d, p, onPacket(d, p, w).got)
<1>1. ASSUME NEW e, e.cleansession = d.cleansession, e.incoming = d.incoming, p.type # "PUBLISH"
      PROVE  Takes(e, d, p, NoDelivery)
  BY <1>1 DEF Takes, Knows
<1>2. CASE p.type = "PUBLISH"
  <2>1. p.type \notin Ignored BY <1>2 DEF Ignored, TIMEOUT
  <2> QED BY <1>2, <2>1, PublishReads DEF onPacket
<1>3. CASE p.type \in Ignored /\ p.type # "PUBLISH"
  <2>1. onPacket(d, p, w).c = d /\ onPacket(d, p, w).got = NoDelivery
    BY <1>3 DEF onPacket, Keep
  <2> QED BY <1>1, <1>3, <2>1
<1>4. CASE p.type \notin Ignored /\ p.type = "PINGRESP"
  <2> DEFINE e == [d EXCEPT !.ping_outstanding = FALSE]
  <2>1. e.cleansession = d.cleansession /\ e.incoming = d.incoming BY DEF Object
  <2>2. onPacket(d, p, w).c = e /\ onPacket(d, p, w).got = NoDelivery
    BY <1>4 DEF onPacket, Keep
  <2> HIDE DEF e
  <2> QED BY <1>1, <1>4, <2>1, <2>2
<1>5. CASE p.type \notin Ignored /\ MQTTCLIENT_QOS2 /\ p.type \in {"PUBREC", "PUBREL"}
  BY <1>5, PubrelReads DEF onPacket
<1>6. CASE /\ p.type \notin Ignored /\ p.type \notin {"PUBLISH", "PINGRESP"}
           /\ ~(MQTTCLIENT_QOS2 /\ p.type \in {"PUBREC", "PUBREL"})
  <2>1. onPacket(d, p, w) = [Keep(d) EXCEPT !.rc = p.type] BY <1>6 DEF onPacket
  <2>2. onPacket(d, p, w).c = d /\ onPacket(d, p, w).got = NoDelivery BY <2>1 DEF Keep
  <2> QED BY <1>1, <1>6, <2>2
<1> QED BY <1>2, <1>3, <1>4, <1>5, <1>6

LEMMA CycleReads ==
  ASSUME NEW d \in Object, Once(d), NEW p \in Input, NEW w \in Fates, NEW w2 \in Fates
  PROVE  Takes(cycle(d, p, w, w2).c, d, p, cycle(d, p, w, w2).got)
<1> DEFINE read == IF p.type \in {TIMEOUT, SHORT} \/ ~d.keepAlive
                   THEN d ELSE [d EXCEPT !.recvDue = FALSE]
           r == onPacket(read, p, w)
           k == keepalive(r.c, w2)
           y == cycle(d, p, w, w2)
<1>1. /\ read \in Object /\ read.handlers = d.handlers
      /\ read.cleansession = d.cleansession /\ read.incoming = d.incoming
  BY DEF Object
<1>2. y = IF r.rc # SUCCESS THEN [r EXCEPT !.c = AtExit(r.c)]
          ELSE IF k.rc # SUCCESS
          THEN [c |-> AtExit(k.c), rc |-> FAILURE, out |-> Then(r.out, k.out), got |-> r.got]
          ELSE [c |-> k.c, rc |-> p.type, out |-> Then(r.out, k.out), got |-> r.got]
  BY DEF cycle
<1> HIDE DEF read
<1>3. Once(read) BY <1>1 DEF Once
<1>4. Takes(r.c, read, p, r.got) BY <1>1, <1>3, PacketReads
<1>5. r.c \in Object BY <1>1, PacketHandled DEF Handles
<1>6. r = [c |-> r.c, rc |-> r.rc, out |-> r.out, got |-> r.got]
  BY DEF onPacket, Keep, onPublish, onPubrecPubrel
<1> HIDE DEF r
<1>7. k.c \in Object /\ SameTable(k.c, r.c) BY <1>5, KeepaliveType, KeepaliveTable
<1>8. SameTable(AtExit(r.c), r.c) /\ SameTable(AtExit(k.c), r.c)
  BY <1>5, <1>7, AtExitTable, SameTableThen
<1> HIDE DEF k
<1>9. y.got = r.got /\ y.c \in {AtExit(r.c), AtExit(k.c), k.c}
  <2>1. CASE r.rc # SUCCESS BY <1>2, <1>6, <2>1
  <2>2. CASE r.rc = SUCCESS BY <1>2, <2>2
  <2> QED BY <2>1, <2>2
<1> HIDE DEF y
<1>10. SameTable(y.c, r.c) BY <1>7, <1>8, <1>9
<1>11. Takes(y.c, read, p, y.got) BY <1>4, <1>9, <1>10, TakesSame
<1>12. SameTable(read, d) BY <1>1 DEF SameTable
<1>13. Takes(y.c, d, p, y.got) BY <1>1, <1>11, <1>12, TakesFrom
<1> QED BY <1>13 DEF y

\* A turn of a call that reads packet p.
LEMMA TurnReads ==
  ASSUME ClientTypes, Once(c), NEW p \in Input, NEW n, turn(p, n)
  PROVE  \E g : Takes(c', c, p, g) /\ Hear(g)
<1>1. PICK w1 \in Fates, w2 \in Fates, w3 \in Fates :
        LET r == cycle(c, p, w1, w2)
            s == IF r.rc = FAILURE THEN unanswered(r.c, w3, FALSE)
                 ELSE IF r.rc = call.await THEN answered(r.c, p, w3)
                 ELSE Wait(r.c, NoWrite, call)
        IN  TurnWith(call, Both(r, s), n) /\ Hear(r.got)
  <2>1. (p.type \in {"PUBLISH", "PUBREC", "PUBREL"}) \in BOOLEAN
        /\ c.keepAlive \in BOOLEAN /\ (call.op = "connect") \in BOOLEAN
    BY DEF ClientTypes, Object
  <2>2. /\ Outcomes(p.type \in {"PUBLISH", "PUBREC", "PUBREL"}) \subseteq Fates
        /\ Outcomes(c.keepAlive) \subseteq Fates /\ Outcomes(call.op = "connect") \subseteq Fates
    BY <2>1, FatesOK
  <2>3. PICK w1 \in Fates, w2 \in Fates, w3 \in Fates :
          \E r \in {cycle(c, p, w1, w2)} :
          \E s \in {IF r.rc = FAILURE THEN unanswered(r.c, w3, FALSE)
                    ELSE IF r.rc = call.await THEN answered(r.c, p, w3)
                    ELSE Wait(r.c, NoWrite, call)} :
          \E t \in {[s EXCEPT !.out = Then(r.out, s.out)]} :
            TurnWith(call, t, n) /\ Hear(r.got)
    BY <2>2, Zenon DEF turn
  <2> DEFINE r == cycle(c, p, w1, w2)
             s == IF r.rc = FAILURE THEN unanswered(r.c, w3, FALSE)
                  ELSE IF r.rc = call.await THEN answered(r.c, p, w3)
                  ELSE Wait(r.c, NoWrite, call)
  <2>4. TurnWith(call, [s EXCEPT !.out = Then(r.out, s.out)], n) /\ Hear(r.got)
    BY <2>3, Zenon
  <2>5. TurnWith(call, Both(r, s), n) /\ Hear(r.got) BY <2>4, Zenon DEF Both
  <2> QED BY <2>5
<1> DEFINE r == cycle(c, p, w1, w2)
           s == IF r.rc = FAILURE THEN unanswered(r.c, w3, FALSE)
                ELSE IF r.rc = call.await THEN answered(r.c, p, w3)
                ELSE Wait(r.c, NoWrite, call)
<1>2. TurnWith(call, Both(r, s), n) /\ Hear(r.got) BY <1>1
<1>3. Cycles(r, c, p) /\ Takes(r.c, c, p, r.got) BY CycleType, CycleReads DEF ClientTypes
<1> HIDE DEF r
<1>4. r.c \in Object /\ SavedOK(r.c) /\ r.rc \in {FAILURE, p.type}
  BY <1>3, SavedSame DEF Cycles, ClientTypes
<1>5. TurnOK(s) /\ SameTable(s.c, r.c)
  <2>1. CASE r.rc = FAILURE
    <3>1. s = unanswered(r.c, w3, FALSE) BY <2>1
    <3> HIDE DEF s
    <3> QED BY <1>4, <3>1, UnansweredCases, UnansweredTable DEF ClientTypes
  <2>2. CASE r.rc # FAILURE /\ r.rc = call.await
    <3>1. s = answered(r.c, p, w3) BY <2>2
    <3>2. p.type = call.await BY <1>4, <2>2
    <3> HIDE DEF s
    <3> QED BY <1>4, <3>1, <3>2, AnsweredCases, AnsweredTable DEF ClientTypes
  <2>3. CASE r.rc # FAILURE /\ r.rc # call.await
    <3>1. s = Wait(r.c, NoWrite, call) BY <2>3
    <3> HIDE DEF s
    <3>2. TurnOK(s) BY <1>4, <3>1, NoWriteType, WaitType DEF ClientTypes
    <3>3. s.c = r.c BY <3>1 DEF Wait
    <3> QED BY <3>2, <3>3 DEF SameTable
  <2> QED BY <2>1, <2>2, <2>3
<1> HIDE DEF s
<1>6. c' = s.c
  <2>1. s = [c |-> s.c, out |-> s.out, call |-> s.call, rc |-> s.rc] BY <1>5 DEF TurnOK
  <2>2. Both(r, s).c = s.c BY <2>1 DEF Both
  <2> QED BY <1>2, <2>2 DEF TurnWith
<1>7. Takes(c', c, p, r.got) BY <1>3, <1>5, <1>6, TakesSame
<1> QED BY <1>2, <1>7

-----------------------------------------------------------------------------
(***************************************************************************)
(* Messages on their way to the client, w, those the broker keeps, out,    *)
(* and how often each was heard, h.                                        *)
(***************************************************************************)
Publishes(p, m) == p.type = "PUBLISH" /\ p.msg = m
Releases(p, id) == p.type = "PUBREL" /\ p.id = id

\* A message is under way twice only in a session that is not clean, at QoS 2,
\* under one id, which is not released in between.
Repeats(w) ==
  \A j, k \in 1..Len(w) :
    j < k /\ w[j].type = "PUBLISH" /\ w[k].type = "PUBLISH" /\ w[j].msg = w[k].msg
      => /\ ~CleanSession
         /\ w[j].qos = 2 /\ w[k].qos = 2 /\ w[j].id = w[k].id
         /\ \A l \in 1..Len(w) : j < l /\ l < k => ~Releases(w[l], w[k].id)

\* One that was heard and is under way is known, and is not released before it
\* comes.
Guarded(d, h, w) ==
  \A k \in 1..Len(w) :
    w[k].type = "PUBLISH" /\ h[w[k].msg] > 0
      => /\ ~CleanSession
         /\ w[k].qos = 2 /\ Knows(d, w[k].id)
         /\ \A l \in 1..Len(w) : l < k => ~Releases(w[l], w[k].id)

\* The same of one that the broker will send again over the next connection.
Resendable(d, h, w, out) ==
  \A n \in 1..Len(out) : ~out[n].rel =>
    /\ out[n].qos = 2
    /\ h[out[n].msg] > 0 =>
         Knows(d, out[n].id) /\ \A l \in 1..Len(w) : ~Releases(w[l], out[n].id)
    /\ \A j \in 1..Len(w) : Publishes(w[j], out[n].msg) =>
         /\ w[j].qos = 2 /\ w[j].id = out[n].id
         /\ \A l \in 1..Len(w) : j < l => ~Releases(w[l], out[n].id)

\* What the broker keeps differs in ids and in messages.
Distinct(out) ==
  \A j, k \in 1..Len(out) : j # k => out[j].id # out[k].id /\ out[j].msg # out[k].msg

\* A message nobody has published yet is nowhere.
Unknown(m, h, w, out) ==
  /\ h[m] = 0
  /\ \A k \in 1..Len(w) : ~Publishes(w[k], m)
  /\ \A k \in 1..Len(out) : out[k].msg # m

Identified(w) == \A k \in 1..Len(w) : w[k].type = "PUBLISH" => w[k].id # 0

Held(d, h, w, out, fr) ==
  /\ \A m \in InMsgs : h[m] <= 1
  /\ Repeats(w) /\ Guarded(d, h, w) /\ Identified(w)
  /\ ~CleanSession => Resendable(d, h, w, out)
  /\ Distinct(out)
  /\ \A m \in fr \cap InMsgs : Unknown(m, h, w, out)

\* SUBSCRIBEs on their way up ask for QoS values of Q.
Asks(s, Q) == \A i \in 1..Len(s) : s[i].type = "SUBSCRIBE" => s[i].qos \in Q
Granted(subs) == \A t \in Topics : subs[t] \in QoSs \cup {NotSubscribed}

\* Before the first connect of a session that is not clean nothing is asked for.
NotBegun(d, k, u, subs, fr) ==
  /\ ~d.isconnected /\ k.op \in {"none", "yield"}
  /\ Asks(u, {})
  /\ \A t \in Topics : subs[t] = NotSubscribed
  /\ InMsgs \subseteq fr

HearsOnce ==
  /\ Held(c, heard, down, b.out, fresh)
  /\ Asks(up, QoSs) /\ Granted(b.subs)
  /\ ~CleanSession /\ c.cleansession => NotBegun(c, call, up, b.subs, fresh)

-----------------------------------------------------------------------------
(* What happens to the messages, one thing at a time. *)

\* What matters under way is what was, n packets further on.
Part(w1, w, n) ==
  \A i \in 1..Len(w1) : w1[i].type \in {"PUBLISH", "PUBREL"} => i + n \in 1..Len(w) /\ w[i + n] = w1[i]

LEMMA PartHeld ==
  ASSUME NEW d, NEW h, NEW w, NEW out, NEW fr, NEW w1, NEW n \in Nat, Part(w1, w, n),
         Held(d, h, w, out, fr)
  PROVE  Held(d, h, w1, out, fr)
<1>1. \A i \in 1..Len(w1) : \A id : Releases(w1[i], id) => i + n \in 1..Len(w) /\ Releases(w[i + n], id)
  BY DEF Part, Releases
<1>2. \A i \in 1..Len(w1) : w1[i].type = "PUBLISH" => i + n \in 1..Len(w) /\ w[i + n] = w1[i]
  BY DEF Part
<1>3. \A i, j \in 1..Len(w1) : i < j => i + n < j + n OBVIOUS
<1>4. Repeats(w1)
  <2> SUFFICES ASSUME NEW j \in 1..Len(w1), NEW k \in 1..Len(w1), j < k,
                      w1[j].type = "PUBLISH", w1[k].type = "PUBLISH", w1[j].msg = w1[k].msg
               PROVE  /\ ~CleanSession
                      /\ w1[j].qos = 2 /\ w1[k].qos = 2 /\ w1[j].id = w1[k].id
                      /\ \A l \in 1..Len(w1) : j < l /\ l < k => ~Releases(w1[l], w1[k].id)
    BY DEF Repeats
  <2>1. j + n \in 1..Len(w) /\ w[j + n] = w1[j] /\ k + n \in 1..Len(w) /\ w[k + n] = w1[k] /\ j + n < k + n
    BY <1>2, <1>3
  <2>2. /\ ~CleanSession
        /\ w1[j].qos = 2 /\ w1[k].qos = 2 /\ w1[j].id = w1[k].id
        /\ \A l \in 1..Len(w) : j + n < l /\ l < k + n => ~Releases(w[l], w1[k].id)
    BY <2>1 DEF Held, Repeats
  <2>3. ASSUME NEW l \in 1..Len(w1), j < l, l < k, Releases(w1[l], w1[k].id) PROVE FALSE
    <3>1. l + n \in 1..Len(w) /\ Releases(w[l + n], w1[k].id) BY <1>1, <2>3
    <3>2. j + n < l + n /\ l + n < k + n BY <1>3, <2>3
    <3> QED BY <2>2, <3>1, <3>2
  <2> QED BY <2>2, <2>3
<1>5. Guarded(d, h, w1)
  <2> SUFFICES ASSUME NEW k \in 1..Len(w1), w1[k].type = "PUBLISH", h[w1[k].msg] > 0
               PROVE  /\ ~CleanSession
                      /\ w1[k].qos = 2 /\ Knows(d, w1[k].id)
                      /\ \A l \in 1..Len(w1) : l < k => ~Releases(w1[l], w1[k].id)
    BY DEF Guarded
  <2>1. k + n \in 1..Len(w) /\ w[k + n] = w1[k] BY <1>2
  <2>2. /\ ~CleanSession
        /\ w1[k].qos = 2 /\ Knows(d, w1[k].id)
        /\ \A l \in 1..Len(w) : l < k + n => ~Releases(w[l], w1[k].id)
    BY <2>1 DEF Held, Guarded
  <2>3. ASSUME NEW l \in 1..Len(w1), l < k, Releases(w1[l], w1[k].id) PROVE FALSE
    <3>1. l + n \in 1..Len(w) /\ Releases(w[l + n], w1[k].id) BY <1>1, <2>3
    <3>2. l + n < k + n BY <1>3, <2>3
    <3> QED BY <2>2, <3>1, <3>2
  <2> QED BY <2>2, <2>3
<1>6. ASSUME ~CleanSession PROVE Resendable(d, h, w1, out)
  <2> SUFFICES ASSUME NEW m \in 1..Len(out), ~out[m].rel
               PROVE  /\ out[m].qos = 2
                      /\ h[out[m].msg] > 0 =>
                           Knows(d, out[m].id) /\ \A l \in 1..Len(w1) : ~Releases(w1[l], out[m].id)
                      /\ \A j \in 1..Len(w1) : Publishes(w1[j], out[m].msg) =>
                           /\ w1[j].qos = 2 /\ w1[j].id = out[m].id
                           /\ \A l \in 1..Len(w1) : j < l => ~Releases(w1[l], out[m].id)
    BY DEF Resendable
  <2>1. Resendable(d, h, w, out) BY <1>6 DEF Held
  <2>2. /\ out[m].qos = 2
        /\ h[out[m].msg] > 0 =>
             Knows(d, out[m].id) /\ \A l \in 1..Len(w) : ~Releases(w[l], out[m].id)
    BY <2>1 DEF Resendable
  <2>3. ASSUME NEW j \in 1..Len(w1), Publishes(w1[j], out[m].msg)
        PROVE  /\ w1[j].qos = 2 /\ w1[j].id = out[m].id
               /\ \A l \in 1..Len(w1) : j < l => ~Releases(w1[l], out[m].id)
    <3>1. j + n \in 1..Len(w) /\ w[j + n] = w1[j] BY <1>2, <2>3 DEF Publishes
    <3>2. /\ w1[j].qos = 2 /\ w1[j].id = out[m].id
          /\ \A l \in 1..Len(w) : j + n < l => ~Releases(w[l], out[m].id)
      BY <2>1, <2>3, <3>1 DEF Resendable
    <3>3. ASSUME NEW l \in 1..Len(w1), j < l, Releases(w1[l], out[m].id) PROVE FALSE
      BY <1>1, <1>3, <3>2, <3>3
    <3> QED BY <3>2, <3>3
  <2> QED BY <1>1, <2>2, <2>3
<1>7. Identified(w1) BY <1>2 DEF Held, Identified
<1>8. \A m \in fr \cap InMsgs : Unknown(m, h, w1, out)
  BY <1>2 DEF Held, Unknown, Publishes
<1> QED BY <1>4, <1>5, <1>6, <1>7, <1>8 DEF Held

LEMMA PartTail ==
  ASSUME NEW w \in Seq(DownPacket), w # <<>>
  PROVE  /\ Part(Tail(w), w, 1) /\ Tail(w) \in Seq(DownPacket) /\ 1 \in 1..Len(w) /\ Head(w) = w[1]
         /\ \A i \in 1..Len(Tail(w)) : i + 1 \in 1..Len(w) /\ Tail(w)[i] = w[i + 1]
<1> DEFINE t == Tail(w)
<1>1. Len(w) \in Nat \ {0} BY EmptySeq
<1>2. /\ t \in Seq(DownPacket) /\ Len(t) = Len(w) - 1
      /\ \A i \in 1..Len(t) : t[i] = w[i + 1]
  BY HeadTailProperties
<1>3. Head(w) = w[1] /\ 1 \in 1..Len(w) BY <1>1
<1> HIDE DEF t
<1>4. \A i \in 1..Len(t) : i + 1 \in 1..Len(w) /\ t[i] = w[i + 1] BY <1>1, <1>2
<1> QED BY <1>2, <1>3, <1>4 DEF Part, t

LEMMA PartCut ==
  ASSUME down \in Seq(DownPacket), Cut
  PROVE  Part(down', down, 0)
<1>1. \A i \in 1..Len(down') :
        (i \in 1..Len(down) /\ down'[i] = down[i]) \/ down'[i] = Rest
  BY CutType
<1>2. Rest.type \notin {"PUBLISH", "PUBREL"} BY DEF Rest, SHORT
<1>3. \A i \in 1..Len(down') : i + 0 = i OBVIOUS
<1> QED BY <1>1, <1>2, <1>3 DEF Part

LEMMA PartThinned ==
  ASSUME NEW w \in Seq(DownPacket), NEW v \in Seq(DownPacket), Thinned(v, w)
  PROVE  \E n \in Nat : Part(v, w, n)
<1> DEFINE short == Rest
<1>1. short.type \notin {"PUBLISH", "PUBREL"} BY DEF Rest, SHORT
<1>2. PICK k \in 0..Len(w) :
        /\ Len(v) = Len(w) - k
        /\ \A i \in 1..Len(v) : \/ v[i] = w[i + k] /\ (i > 1 \/ k > 0)
                                \/ i = 1 /\ v[1] = short
  BY DEF Thinned
<1> HIDE DEF short
<1>3. Len(w) \in Nat /\ k \in Nat OBVIOUS
<1>4. \A i \in 1..Len(v) : i + k \in 1..Len(w) BY <1>2, <1>3
<1>5. \A i \in 1..Len(v) : v[i] = w[i + k] \/ v[i] = short BY <1>2
<1>6. Part(v, w, k) BY <1>1, <1>4, <1>5 DEF Part
<1> QED BY <1>3, <1>6

LEMMA ConcatAt ==
  ASSUME NEW w \in Seq(DownPacket), NEW s \in Seq(DownPacket)
  PROVE  /\ w \o s \in Seq(DownPacket) /\ Len(w \o s) = Len(w) + Len(s)
         /\ \A i \in 1..Len(w) : (w \o s)[i] = w[i]
         /\ \A i \in 1..Len(w \o s) : \/ i \in 1..Len(w) /\ (w \o s)[i] = w[i]
                                      \/ i - Len(w) \in 1..Len(s) /\ (w \o s)[i] = s[i - Len(w)]
<1> DEFINE v == w \o s
<1>1. Len(w) \in Nat /\ Len(s) \in Nat OBVIOUS
<1>2. /\ v \in Seq(DownPacket) /\ Len(v) = Len(w) + Len(s)
      /\ \A i \in 1..(Len(w) + Len(s)) : v[i] = IF i <= Len(w) THEN w[i] ELSE s[i - Len(w)]
  BY ConcatProperties
<1> HIDE DEF v
<1>3. ASSUME NEW i \in 1..Len(v)
      PROVE  \/ i \in 1..Len(w) /\ v[i] = w[i]
             \/ i - Len(w) \in 1..Len(s) /\ v[i] = s[i - Len(w)]
  BY <1>1, <1>2
<1>4. \A i \in 1..Len(w) : v[i] = w[i] BY <1>1, <1>2
<1> QED BY <1>2, <1>3, <1>4 DEF v

LEMMA PartConcat ==
  ASSUME NEW w \in Seq(DownPacket), NEW s \in Seq(DownPacket),
         \A i \in 1..Len(s) : s[i].type \notin {"PUBLISH", "PUBREL"}
  PROVE  Part(w \o s, w, 0)
<1> DEFINE v == w \o s
<1>1. \A i \in 1..Len(v) : \/ i \in 1..Len(w) /\ v[i] = w[i]
                           \/ i - Len(w) \in 1..Len(s) /\ v[i] = s[i - Len(w)]
  BY ConcatAt
<1>2. \A i \in 1..Len(v) : i + 0 = i OBVIOUS
<1> HIDE DEF v
<1>3. Part(v, w, 0) BY <1>1, <1>2 DEF Part
<1> QED BY <1>3 DEF v

LEMMA PartOne ==
  ASSUME NEW w \in Seq(DownPacket), NEW p \in DownPacket, p.type \notin {"PUBLISH", "PUBREL"}
  PROVE  Part(w \o <<p>>, w, 0)
<1>1. <<p>> \in Seq(DownPacket) /\ Len(<<p>>) = 1 /\ <<p>>[1] = p OBVIOUS
<1>2. \A i \in 1..Len(<<p>>) : <<p>>[i].type \notin {"PUBLISH", "PUBREL"} BY <1>1
<1> QED BY <1>1, <1>2, PartConcat

LEMMA PartNothing ==
  ASSUME NEW w \in Seq(DownPacket)
  PROVE  Part(w, w, 0)
<1>1. \A i \in 1..Len(w) : i + 0 = i OBVIOUS
<1> QED BY <1>1 DEF Part

\* The object still knows what matters.
Retains(e, d, h) ==
  \/ CleanSession
  \/ \A m \in InMsgs : h[m] = 0
  \/ \A id \in Nat \ {0} : Knows(d, id) => Knows(e, id)

LEMMA DownAt ==
  ASSUME NEW w \in Seq(DownPacket), NEW i \in 1..Len(w), w[i].type = "PUBLISH"
  PROVE  w[i].msg \in InMsgs /\ w[i].id \in Nat
<1>1. w[i] \in DownPacket OBVIOUS
<1> QED BY <1>1, InputFields DEF Input

LEMMA KeptAt ==
  ASSUME NEW out \in Seq(Kept), NEW i \in 1..Len(out)
  PROVE  out[i].msg \in InMsgs /\ out[i].id \in Nat \ {0} /\ out[i].qos \in Levels \ {0}
         /\ out[i].rel \in BOOLEAN
<1>1. out[i] \in Kept OBVIOUS
<1> QED BY <1>1 DEF Kept

LEMMA RetainsHeld ==
  ASSUME NEW d, NEW e, NEW h \in [InMsgs -> Nat], NEW w \in Seq(DownPacket),
         NEW out \in Seq(Kept), NEW fr,
         Held(d, h, w, out, fr), Retains(e, d, h)
  PROVE  Held(e, h, w, out, fr)
<1>1. Guarded(e, h, w)
  <2> SUFFICES ASSUME NEW k \in 1..Len(w), w[k].type = "PUBLISH", h[w[k].msg] > 0
               PROVE  /\ ~CleanSession
                      /\ w[k].qos = 2 /\ Knows(e, w[k].id)
                      /\ \A l \in 1..Len(w) : l < k => ~Releases(w[l], w[k].id)
    BY DEF Guarded
  <2>1. /\ ~CleanSession
        /\ w[k].qos = 2 /\ Knows(d, w[k].id)
        /\ \A l \in 1..Len(w) : l < k => ~Releases(w[l], w[k].id)
    BY DEF Held, Guarded
  <2>2. w[k].msg \in InMsgs /\ w[k].id \in Nat BY DownAt
  <2>3. h[w[k].msg] # 0 OBVIOUS
  <2>4. w[k].id # 0 BY DEF Held, Identified
  <2> QED BY <2>1, <2>2, <2>3, <2>4 DEF Retains
<1>2. ASSUME ~CleanSession PROVE Resendable(e, h, w, out)
  <2>1. Resendable(d, h, w, out) BY <1>2 DEF Held
  <2>2. ASSUME NEW n \in 1..Len(out), h[out[n].msg] > 0, Knows(d, out[n].id) PROVE Knows(e, out[n].id)
    <3>1. out[n].msg \in InMsgs /\ out[n].id \in Nat \ {0} BY KeptAt
    <3>2. h[out[n].msg] # 0 BY <2>2
    <3> QED BY <1>2, <2>2, <3>1, <3>2 DEF Retains
  <2> QED BY <2>1, <2>2 DEF Resendable
<1> QED BY <1>1, <1>2 DEF Held

\* What is heard afterwards when g is given to a handler.
After(h, g) == IF g = NoDelivery THEN h ELSE [h EXCEPT ![g.msg] = @ + g.times]

LEMMA ReadHeld ==
  ASSUME NEW d, NEW e, NEW h \in [InMsgs -> Nat], NEW w \in Seq(DownPacket), w # <<>>,
         NEW out \in Seq(Kept), NEW fr, NEW g,
         Held(d, h, w, out, fr), Takes(e, d, Head(w), g),
         ~CleanSession => MQTTCLIENT_QOS2,
         ~CleanSession /\ d.cleansession => InMsgs \subseteq fr
  PROVE  Held(e, After(h, g), Tail(w), out, fr)
<1> DEFINE p == Head(w)
           t == Tail(w)
           h1 == After(h, g)
<1>1. /\ Part(t, w, 1) /\ t \in Seq(DownPacket) /\ 1 \in 1..Len(w) /\ p = w[1]
      /\ \A i \in 1..Len(t) : i + 1 \in 1..Len(w) /\ t[i] = w[i + 1]
  BY PartTail
<1>2. Takes(e, d, p, g) OBVIOUS
<1> HIDE DEF p, t
<1>3. Held(d, h, t, out, fr)
  <2>1. 1 \in Nat OBVIOUS
  <2> QED BY <1>1, <2>1, PartHeld
<1>4. CASE g = NoDelivery \/ g.times = 0
  <2>1. h1 = h
    <3>1. CASE g = NoDelivery BY <3>1 DEF After
    <3>2. CASE g # NoDelivery
      <4>1. g.times = 0 /\ g.msg = p.msg /\ p.type = "PUBLISH" BY <1>2, <1>4, <3>2 DEF Takes
      <4>2. g.msg \in InMsgs BY <1>1, <4>1, DownAt
      <4>3. h1 = [h EXCEPT ![g.msg] = @ + 0] BY <3>2, <4>1 DEF After
      <4>4. h[g.msg] + 0 = h[g.msg] BY <4>2
      <4> HIDE DEF h1
      <4> QED BY <4>2, <4>3, <4>4
    <3> QED BY <3>1, <3>2
  <2>2. CASE CleanSession \/ d.cleansession
    <3>1. ~CleanSession => \A m \in InMsgs : h[m] = 0
      <4>1. ~CleanSession => \A m \in InMsgs : m \in fr BY <2>2
      <4> QED BY <4>1 DEF Held, Unknown
    <3>2. Retains(e, d, h) BY <3>1 DEF Retains
    <3> QED BY <1>1, <1>3, <2>1, <3>2, RetainsHeld DEF t
  <2>3. CASE ~CleanSession /\ ~d.cleansession
    <3>1. \A id \in Nat \ {0} : Knows(d, id) /\ ~Releases(p, id) => Knows(e, id)
      BY <1>2, <2>3 DEF Takes, Releases
    <3>2. Guarded(e, h, t)
      <4> SUFFICES ASSUME NEW k \in 1..Len(t), t[k].type = "PUBLISH", h[t[k].msg] > 0
                   PROVE  /\ ~CleanSession
                          /\ t[k].qos = 2 /\ Knows(e, t[k].id)
                          /\ \A l \in 1..Len(t) : l < k => ~Releases(t[l], t[k].id)
        BY DEF Guarded
      <4>1. /\ t[k].qos = 2 /\ Knows(d, t[k].id)
            /\ \A l \in 1..Len(t) : l < k => ~Releases(t[l], t[k].id)
        BY <1>3 DEF Held, Guarded
      <4>2. t[k].id \in Nat \ {0} BY <1>1, <1>3, DownAt DEF Held, Identified
      <4>3. ~Releases(p, t[k].id)
        <5>1. k + 1 \in 1..Len(w) /\ w[k + 1] = t[k] BY <1>1
        <5>2. 1 < k + 1 OBVIOUS
        <5>3. ~Releases(w[1], t[k].id) BY <1>1, <5>1, <5>2 DEF Held, Guarded
        <5> QED BY <1>1, <5>3
      <4> QED BY <2>3, <3>1, <4>1, <4>2, <4>3
    <3>3. Resendable(e, h, t, out)
      <4>1. Resendable(d, h, t, out) BY <1>3, <2>3 DEF Held
      <4>2. ASSUME NEW n \in 1..Len(out), ~out[n].rel, h[out[n].msg] > 0 PROVE Knows(e, out[n].id)
        <5>1. Knows(d, out[n].id) /\ ~Releases(w[1], out[n].id) BY <1>1, <2>3, <4>2 DEF Held, Resendable
        <5>2. out[n].id \in Nat \ {0} BY KeptAt
        <5> QED BY <1>1, <3>1, <5>1, <5>2
      <4> QED BY <4>1, <4>2 DEF Resendable
    <3>4. Held(e, h, t, out, fr) BY <1>3, <3>2, <3>3 DEF Held
    <3> QED BY <2>1, <3>4 DEF t
  <2> QED BY <2>2, <2>3
<1>5. CASE ~(g = NoDelivery \/ g.times = 0)
  <2> DEFINE m == p.msg
  <2>1. p.type = "PUBLISH" /\ g.msg = m /\ g.times = 1 /\ g # NoDelivery BY <1>2, <1>5 DEF Takes
  <2>2. m \in InMsgs BY <1>1, <2>1, DownAt
  <2>3. h[m] = 0
    <3> SUFFICES ASSUME h[m] # 0 PROVE FALSE OBVIOUS
    <3>1. h[m] > 0 BY <2>2
    <3>2. ~CleanSession /\ p.qos = 2 /\ Knows(d, p.id) BY <1>1, <2>1, <3>1 DEF Held, Guarded
    <3> QED BY <1>2, <2>1, <3>2 DEF Takes
  <2>4. m \notin fr BY <1>1, <2>1, <2>2 DEF Held, Unknown, Publishes
  <2>5. h1 = [h EXCEPT ![m] = @ + 1] BY <2>1 DEF After
  <2> HIDE DEF h1
  <2>6. h1[m] = 1 /\ \A x \in InMsgs : x # m => h1[x] = h[x] BY <2>2, <2>3, <2>5
  <2>7. ~CleanSession => /\ \A id \in Nat \ {0} : Knows(d, id) => Knows(e, id)
                         /\ p.qos = 2 => Knows(e, p.id)
    <3>1. ~CleanSession => ~d.cleansession BY <2>2, <2>4
    <3>2. p.id # 0 BY <1>1, <2>1 DEF Held, Identified
    <3>3. p.type # "PUBREL" BY <2>1
    <3> QED BY <1>2, <2>1, <3>1, <3>2, <3>3 DEF Takes
  <2>8. \A x \in InMsgs : h1[x] <= 1 BY <2>6 DEF Held
  <2>9. Guarded(e, h1, t)
    <3> SUFFICES ASSUME NEW k \in 1..Len(t), t[k].type = "PUBLISH", h1[t[k].msg] > 0
                 PROVE  /\ ~CleanSession
                        /\ t[k].qos = 2 /\ Knows(e, t[k].id)
                        /\ \A l \in 1..Len(t) : l < k => ~Releases(t[l], t[k].id)
      BY DEF Guarded
    <3>1. t[k].msg \in InMsgs /\ t[k].id \in Nat \ {0} BY <1>1, <1>3, DownAt DEF Held, Identified
    <3>2. CASE t[k].msg # m
      <4>1. h[t[k].msg] > 0 BY <2>6, <3>1, <3>2
      <4>2. /\ ~CleanSession /\ t[k].qos = 2 /\ Knows(d, t[k].id)
            /\ \A l \in 1..Len(t) : l < k => ~Releases(t[l], t[k].id)
        BY <1>3, <4>1 DEF Held, Guarded
      <4> QED BY <2>7, <3>1, <4>2
    <3>3. CASE t[k].msg = m
      <4>1. k + 1 \in 1..Len(w) /\ w[k + 1] = t[k] /\ 1 < k + 1 BY <1>1
      <4>2. /\ ~CleanSession /\ w[1].qos = 2 /\ w[k + 1].qos = 2 /\ w[1].id = w[k + 1].id
            /\ \A l \in 1..Len(w) : 1 < l /\ l < k + 1 => ~Releases(w[l], w[k + 1].id)
        BY <1>1, <2>1, <3>3, <4>1 DEF Held, Repeats
      <4>3. ASSUME NEW l \in 1..Len(t), l < k PROVE ~Releases(t[l], t[k].id)
        <5>1. l + 1 \in 1..Len(w) /\ w[l + 1] = t[l] BY <1>1
        <5>2. 1 < l + 1 /\ l + 1 < k + 1 BY <4>3
        <5> QED BY <4>1, <4>2, <5>1, <5>2
      <4> QED BY <1>1, <2>7, <4>1, <4>2, <4>3
    <3> QED BY <3>2, <3>3
  <2>10. ASSUME ~CleanSession PROVE Resendable(e, h1, t, out)
    <3>1. Resendable(d, h, t, out) /\ Resendable(d, h, w, out) BY <1>3, <2>10 DEF Held
    <3>2. ASSUME NEW n \in 1..Len(out), ~out[n].rel, h1[out[n].msg] > 0
          PROVE  Knows(e, out[n].id) /\ \A l \in 1..Len(t) : ~Releases(t[l], out[n].id)
      <4>1. out[n].msg \in InMsgs /\ out[n].id \in Nat \ {0} BY KeptAt
      <4>2. CASE out[n].msg # m
        <5>1. h[out[n].msg] > 0 BY <2>6, <3>2, <4>1, <4>2
        <5> QED BY <2>7, <2>10, <3>1, <3>2, <4>1, <5>1 DEF Resendable
      <4>3. CASE out[n].msg = m
        <5>1. Publishes(w[1], out[n].msg) BY <1>1, <2>1, <4>3 DEF Publishes
        <5>2. /\ w[1].qos = 2 /\ w[1].id = out[n].id
              /\ \A l \in 1..Len(w) : 1 < l => ~Releases(w[l], out[n].id)
          BY <1>1, <3>1, <3>2, <5>1 DEF Resendable
        <5>3. ASSUME NEW l \in 1..Len(t) PROVE ~Releases(t[l], out[n].id)
          <6>1. l + 1 \in 1..Len(w) /\ w[l + 1] = t[l] /\ 1 < l + 1 BY <1>1
          <6> QED BY <5>2, <6>1
        <5> QED BY <1>1, <2>7, <2>10, <5>2, <5>3
      <4> QED BY <4>2, <4>3
    <3> QED BY <3>1, <3>2 DEF Resendable
  <2>11. \A x \in fr \cap InMsgs : Unknown(x, h1, t, out)
    BY <1>3, <2>4, <2>6 DEF Held, Unknown
  <2>12. Held(e, h1, t, out, fr) BY <1>3, <2>8, <2>9, <2>10, <2>11 DEF Held
  <2> QED BY <2>12 DEF h1, t
<1> QED BY <1>4, <1>5

\* A message comes for the client in p, and is kept as e at QoS 1 or 2.
Comes(p, e, m, out) ==
  /\ p.type = "PUBLISH" /\ p.msg = m /\ p.id # 0
  /\ p.qos # 0 => e \in Kept
  /\ e.id = p.id /\ e.msg = m /\ e.qos = p.qos
  /\ ~CleanSession => p.qos \in {0, 2}
  /\ \A k \in 1..Len(out) : out[k].id # p.id
Forwards(w1, out1, w, out, p, e) ==
  /\ w1 \in {w, Append(w, p)}
  /\ out1 = IF p.qos = 0 THEN out ELSE Append(out, e)

\* A message is published that nobody had published yet.
LEMMA ForwardHeld ==
  ASSUME NEW d, NEW h \in [InMsgs -> Nat], NEW w \in Seq(DownPacket), NEW out \in Seq(Kept), NEW fr,
         Held(d, h, w, out, fr), NEW m \in InMsgs, m \in fr,
         NEW p \in DownPacket, NEW e, Comes(p, e, m, out),
         NEW w1, NEW out1, Forwards(w1, out1, w, out, p, e)
  PROVE  Held(d, h, w1, out1, fr \ {m})
<1> USE DEF Comes, Forwards
<1>1. h[m] = 0 /\ (\A k \in 1..Len(w) : ~Publishes(w[k], m)) /\ \A k \in 1..Len(out) : out[k].msg # m
  BY DEF Held, Unknown
<1>2. /\ \A i \in 1..Len(w) : i \in 1..Len(w1) /\ w1[i] = w[i]
      /\ \A i \in 1..Len(w1) : (i \in 1..Len(w) /\ w1[i] = w[i]) \/ (i = Len(w) + 1 /\ w1[i] = p)
  <2>1. Len(w) \in Nat OBVIOUS
  <2>2. CASE w1 = w BY <2>2
  <2>3. CASE w1 = Append(w, p)
    <3>1. /\ Len(w1) = Len(w) + 1 /\ w1[Len(w) + 1] = p
          /\ \A i \in 1..Len(w) : w1[i] = w[i]
      BY <2>3, AppendProperties
    <3> QED BY <2>1, <3>1
  <2> QED BY <2>2, <2>3
<1>3. /\ \A i \in 1..Len(out1) : \/ i \in 1..Len(out) /\ out1[i] = out[i]
                                 \/ p.qos # 0 /\ i = Len(out) + 1 /\ out1[i] = e
  <2>1. Len(out) \in Nat OBVIOUS
  <2>2. CASE p.qos = 0 BY <2>2
  <2>3. CASE p.qos # 0
    <3>1. out1 = Append(out, e) BY <2>3
    <3>2. /\ Len(out1) = Len(out) + 1 /\ out1[Len(out) + 1] = e
          /\ \A i \in 1..Len(out) : out1[i] = out[i]
      BY <3>1, AppendProperties
    <3> QED BY <2>1, <2>3, <3>2
  <2> QED BY <2>2, <2>3
<1>4. \A i \in 1..Len(w1) : \A id : Releases(w1[i], id) => i \in 1..Len(w) /\ Releases(w[i], id)
  BY <1>2 DEF Releases
<1>5. \A i \in 1..Len(w1) : w1[i].type = "PUBLISH" /\ w1[i].msg # m => i \in 1..Len(w) /\ w1[i] = w[i]
  BY <1>2
<1>6. \A i \in 1..Len(w1) : w1[i].type = "PUBLISH" /\ w1[i].msg = m => i = Len(w) + 1 /\ w1[i] = p
  BY <1>1, <1>2 DEF Publishes
<1>7. Repeats(w1)
  <2> SUFFICES ASSUME NEW j \in 1..Len(w1), NEW k \in 1..Len(w1), j < k,
                      w1[j].type = "PUBLISH", w1[k].type = "PUBLISH", w1[j].msg = w1[k].msg
               PROVE  /\ ~CleanSession
                      /\ w1[j].qos = 2 /\ w1[k].qos = 2 /\ w1[j].id = w1[k].id
                      /\ \A l \in 1..Len(w1) : j < l /\ l < k => ~Releases(w1[l], w1[k].id)
    BY DEF Repeats
  <2>1. w1[j].msg # m
    <3>1. SUFFICES ASSUME w1[j].msg = m PROVE FALSE OBVIOUS
    <3>2. j = Len(w) + 1 /\ k = Len(w) + 1 BY <1>6, <3>1
    <3> QED BY <3>2
  <2>2. j \in 1..Len(w) /\ w1[j] = w[j] /\ k \in 1..Len(w) /\ w1[k] = w[k] BY <1>5, <2>1
  <2>3. /\ ~CleanSession
        /\ w[j].qos = 2 /\ w[k].qos = 2 /\ w[j].id = w[k].id
        /\ \A l \in 1..Len(w) : j < l /\ l < k => ~Releases(w[l], w[k].id)
    BY <2>2 DEF Held, Repeats
  <2> QED BY <1>4, <2>2, <2>3
<1>8. Guarded(d, h, w1)
  <2> SUFFICES ASSUME NEW k \in 1..Len(w1), w1[k].type = "PUBLISH", h[w1[k].msg] > 0
               PROVE  /\ ~CleanSession
                      /\ w1[k].qos = 2 /\ Knows(d, w1[k].id)
                      /\ \A l \in 1..Len(w1) : l < k => ~Releases(w1[l], w1[k].id)
    BY DEF Guarded
  <2>1. k \in 1..Len(w) /\ w1[k] = w[k] BY <1>1, <1>5
  <2>2. /\ ~CleanSession
        /\ w[k].qos = 2 /\ Knows(d, w[k].id)
        /\ \A l \in 1..Len(w) : l < k => ~Releases(w[l], w[k].id)
    BY <2>1 DEF Held, Guarded
  <2> QED BY <1>4, <2>1, <2>2
<1>9. Identified(w1) BY <1>2 DEF Held, Identified
<1>10. ASSUME ~CleanSession PROVE Resendable(d, h, w1, out1)
  <2> SUFFICES ASSUME NEW n \in 1..Len(out1), ~out1[n].rel
               PROVE  /\ out1[n].qos = 2
                      /\ h[out1[n].msg] > 0 =>
                           Knows(d, out1[n].id) /\ \A l \in 1..Len(w1) : ~Releases(w1[l], out1[n].id)
                      /\ \A j \in 1..Len(w1) : Publishes(w1[j], out1[n].msg) =>
                           /\ w1[j].qos = 2 /\ w1[j].id = out1[n].id
                           /\ \A l \in 1..Len(w1) : j < l => ~Releases(w1[l], out1[n].id)
    BY DEF Resendable
  <2>1. CASE n \in 1..Len(out) /\ out1[n] = out[n]
    <3>1. Resendable(d, h, w, out) BY <1>10 DEF Held
    <3>2. /\ out[n].qos = 2
          /\ h[out[n].msg] > 0 =>
               Knows(d, out[n].id) /\ \A l \in 1..Len(w) : ~Releases(w[l], out[n].id)
      BY <2>1, <3>1 DEF Resendable
    <3>3. ASSUME NEW j \in 1..Len(w1), Publishes(w1[j], out[n].msg)
          PROVE  /\ w1[j].qos = 2 /\ w1[j].id = out[n].id
                 /\ \A l \in 1..Len(w1) : j < l => ~Releases(w1[l], out[n].id)
      <4>1. out[n].msg # m BY <1>1, <2>1
      <4>2. j \in 1..Len(w) /\ w1[j] = w[j] BY <1>5, <3>3, <4>1 DEF Publishes
      <4>3. /\ w[j].qos = 2 /\ w[j].id = out[n].id
            /\ \A l \in 1..Len(w) : j < l => ~Releases(w[l], out[n].id)
        BY <2>1, <3>1, <3>3, <4>2 DEF Resendable
      <4> QED BY <1>4, <4>2, <4>3
    <3> QED BY <1>4, <2>1, <3>2, <3>3
  <2>2. CASE p.qos # 0 /\ n = Len(out) + 1 /\ out1[n] = e
    <3>1. out1[n].qos = 2 /\ p.qos = 2 /\ out1[n].msg = m /\ out1[n].id = p.id BY <1>10, <2>2
    <3>2. ~(h[out1[n].msg] > 0) BY <1>1, <3>1
    <3>3. ASSUME NEW j \in 1..Len(w1), Publishes(w1[j], out1[n].msg)
          PROVE  /\ w1[j].qos = 2 /\ w1[j].id = out1[n].id
                 /\ \A l \in 1..Len(w1) : j < l => ~Releases(w1[l], out1[n].id)
      <4>1. j = Len(w) + 1 /\ w1[j] = p BY <1>6, <3>1, <3>3 DEF Publishes
      <4>2. ASSUME NEW l \in 1..Len(w1), j < l, Releases(w1[l], out1[n].id) PROVE FALSE
        <5>1. l \in 1..Len(w) BY <1>4, <4>2
        <5> QED BY <4>1, <4>2, <5>1
      <4> QED BY <3>1, <4>1, <4>2
    <3> QED BY <3>1, <3>2, <3>3
  <2> QED BY <1>3, <2>1, <2>2
<1>11. Distinct(out1)
  <2> SUFFICES ASSUME NEW j \in 1..Len(out1), NEW k \in 1..Len(out1), j # k
               PROVE  out1[j].id # out1[k].id /\ out1[j].msg # out1[k].msg
    BY DEF Distinct
  <2>1. \A i \in 1..Len(out) : out[i].id # e.id /\ out[i].msg # e.msg BY <1>1
  <2>2. CASE j \in 1..Len(out) /\ k \in 1..Len(out)
    <3>1. out1[j] = out[j] /\ out1[k] = out[k]
      <4>1. Len(out) + 1 \notin 1..Len(out) OBVIOUS
      <4> QED BY <1>3, <2>2, <4>1
    <3> QED BY <2>2, <3>1 DEF Held, Distinct
  <2>3. CASE ~(j \in 1..Len(out) /\ k \in 1..Len(out)) BY <1>3, <2>1, <2>3
  <2> QED BY <2>2, <2>3
<1>12. ASSUME NEW x \in (fr \ {m}) \cap InMsgs PROVE Unknown(x, h, w1, out1)
  <2>1. Unknown(x, h, w, out) /\ x # m BY DEF Held
  <2>2. \A k \in 1..Len(w1) : ~Publishes(w1[k], x) BY <1>5, <2>1 DEF Unknown, Publishes
  <2>3. \A k \in 1..Len(out1) : out1[k].msg # x BY <1>3, <2>1 DEF Unknown
  <2> QED BY <2>1, <2>2, <2>3 DEF Unknown
<1> QED BY <1>7, <1>8, <1>9, <1>10, <1>11, <1>12 DEF Held

\* The broker has the PUBREC of a message it keeps, and answers it.
LEMMA ReleaseHeld ==
  ASSUME NEW d, NEW h, NEW w \in Seq(DownPacket), NEW out \in Seq(Kept), NEW fr,
         Held(d, h, w, out, fr), NEW p \in DownPacket, p.type = "PUBREL",
         NEW out1, Len(out1) = Len(out),
         \A i \in 1..Len(out) : out1[i] = IF out[i].id = p.id THEN [out[i] EXCEPT !.rel = TRUE] ELSE out[i]
  PROVE  Held(d, h, w \o <<p>>, out1, fr)
<1> DEFINE w1 == w \o <<p>>
<1>1. <<p>> \in Seq(DownPacket) /\ Len(<<p>>) = 1 /\ <<p>>[1] = p OBVIOUS
<1>2. /\ \A i \in 1..Len(w1) : \/ i \in 1..Len(w) /\ w1[i] = w[i]
                               \/ i - Len(w) \in 1..Len(<<p>>) /\ w1[i] = <<p>>[i - Len(w)]
      /\ Len(w) \in Nat
  BY <1>1, ConcatAt
<1>3. \A i \in 1..Len(w1) : (i \in 1..Len(w) /\ w1[i] = w[i]) \/ (i > Len(w) /\ w1[i] = p)
  BY <1>1, <1>2
<1> HIDE DEF w1
<1>4. \A i \in 1..Len(w1) : w1[i].type = "PUBLISH" => i \in 1..Len(w) /\ w1[i] = w[i] BY <1>3
<1>5. \A i \in 1..Len(w1) : \A id : Releases(w1[i], id) =>
        (i \in 1..Len(w) /\ Releases(w[i], id)) \/ (i > Len(w) /\ id = p.id)
  BY <1>3 DEF Releases
<1>6. \A i \in 1..Len(out) : /\ out1[i].id = out[i].id /\ out1[i].msg = out[i].msg /\ out1[i].qos = out[i].qos
                             /\ ~out1[i].rel => ~out[i].rel /\ out[i].id # p.id
  <2> TAKE i \in 1..Len(out)
  <2>1. out[i] \in Kept OBVIOUS
  <2>2. CASE out[i].id = p.id
    <3> DEFINE x == [out[i] EXCEPT !.rel = TRUE]
    <3>1. x.id = out[i].id /\ x.msg = out[i].msg /\ x.qos = out[i].qos /\ x.rel BY <2>1 DEF Kept
    <3>2. out1[i] = x BY <2>2
    <3> HIDE DEF x
    <3> QED BY <3>1, <3>2
  <2>3. CASE out[i].id # p.id BY <2>3
  <2> QED BY <2>2, <2>3
<1>7. Repeats(w1)
  <2> SUFFICES ASSUME NEW j \in 1..Len(w1), NEW k \in 1..Len(w1), j < k,
                      w1[j].type = "PUBLISH", w1[k].type = "PUBLISH", w1[j].msg = w1[k].msg
               PROVE  /\ ~CleanSession
                      /\ w1[j].qos = 2 /\ w1[k].qos = 2 /\ w1[j].id = w1[k].id
                      /\ \A l \in 1..Len(w1) : j < l /\ l < k => ~Releases(w1[l], w1[k].id)
    BY DEF Repeats
  <2>1. j \in 1..Len(w) /\ w1[j] = w[j] /\ k \in 1..Len(w) /\ w1[k] = w[k] BY <1>4
  <2>2. /\ ~CleanSession
        /\ w[j].qos = 2 /\ w[k].qos = 2 /\ w[j].id = w[k].id
        /\ \A l \in 1..Len(w) : j < l /\ l < k => ~Releases(w[l], w[k].id)
    BY <2>1 DEF Held, Repeats
  <2>3. ASSUME NEW l \in 1..Len(w1), j < l, l < k, Releases(w1[l], w1[k].id) PROVE FALSE
    <3>1. ~(l > Len(w)) BY <1>2, <2>1, <2>3
    <3>2. l \in 1..Len(w) /\ Releases(w[l], w1[k].id) BY <1>5, <2>3, <3>1
    <3> QED BY <2>1, <2>2, <2>3, <3>2
  <2> QED BY <2>1, <2>2, <2>3
<1>8. Guarded(d, h, w1)
  <2> SUFFICES ASSUME NEW k \in 1..Len(w1), w1[k].type = "PUBLISH", h[w1[k].msg] > 0
               PROVE  /\ ~CleanSession
                      /\ w1[k].qos = 2 /\ Knows(d, w1[k].id)
                      /\ \A l \in 1..Len(w1) : l < k => ~Releases(w1[l], w1[k].id)
    BY DEF Guarded
  <2>1. k \in 1..Len(w) /\ w1[k] = w[k] BY <1>4
  <2>2. /\ ~CleanSession
        /\ w[k].qos = 2 /\ Knows(d, w[k].id)
        /\ \A l \in 1..Len(w) : l < k => ~Releases(w[l], w[k].id)
    BY <2>1 DEF Held, Guarded
  <2>3. ASSUME NEW l \in 1..Len(w1), l < k, Releases(w1[l], w1[k].id) PROVE FALSE
    <3>1. ~(l > Len(w)) BY <1>2, <2>1, <2>3
    <3>2. l \in 1..Len(w) /\ Releases(w[l], w1[k].id) BY <1>5, <2>3, <3>1
    <3> QED BY <2>1, <2>2, <2>3, <3>2
  <2> QED BY <2>1, <2>2, <2>3
<1>9. Identified(w1) BY <1>4 DEF Held, Identified
<1>10. ASSUME ~CleanSession PROVE Resendable(d, h, w1, out1)
  <2> SUFFICES ASSUME NEW n \in 1..Len(out), ~out1[n].rel
               PROVE  /\ out1[n].qos = 2
                      /\ h[out1[n].msg] > 0 =>
                           Knows(d, out1[n].id) /\ \A l \in 1..Len(w1) : ~Releases(w1[l], out1[n].id)
                      /\ \A j \in 1..Len(w1) : Publishes(w1[j], out1[n].msg) =>
                           /\ w1[j].qos = 2 /\ w1[j].id = out1[n].id
                           /\ \A l \in 1..Len(w1) : j < l => ~Releases(w1[l], out1[n].id)
    BY DEF Resendable
  <2>1. /\ ~out[n].rel /\ out[n].id # p.id
        /\ out1[n].id = out[n].id /\ out1[n].msg = out[n].msg /\ out1[n].qos = out[n].qos
    BY <1>6
  <2>2. Resendable(d, h, w, out) BY <1>10 DEF Held
  <2>3. \A l \in 1..Len(w1) : Releases(w1[l], out[n].id) => l \in 1..Len(w) /\ Releases(w[l], out[n].id)
    BY <1>5, <2>1
  <2>4. /\ out[n].qos = 2
        /\ h[out[n].msg] > 0 =>
             Knows(d, out[n].id) /\ \A l \in 1..Len(w) : ~Releases(w[l], out[n].id)
    BY <2>1, <2>2 DEF Resendable
  <2>5. ASSUME NEW j \in 1..Len(w1), Publishes(w1[j], out[n].msg)
        PROVE  /\ w1[j].qos = 2 /\ w1[j].id = out[n].id
               /\ \A l \in 1..Len(w1) : j < l => ~Releases(w1[l], out[n].id)
    <3>1. j \in 1..Len(w) /\ w1[j] = w[j] BY <1>4, <2>5 DEF Publishes
    <3>2. /\ w[j].qos = 2 /\ w[j].id = out[n].id
          /\ \A l \in 1..Len(w) : j < l => ~Releases(w[l], out[n].id)
      BY <2>1, <2>2, <2>5, <3>1 DEF Resendable
    <3> QED BY <2>3, <3>1, <3>2
  <2> QED BY <2>1, <2>3, <2>4, <2>5
<1>11. Distinct(out1) BY <1>6 DEF Held, Distinct
<1>12. \A m \in fr \cap InMsgs : Unknown(m, h, w1, out1)
  BY <1>4, <1>6 DEF Held, Unknown, Publishes
<1>13. Held(d, h, w1, out1, fr) BY <1>7, <1>8, <1>9, <1>10, <1>11, <1>12 DEF Held
<1> QED BY <1>13 DEF w1

\* The broker keeps fewer messages.
KeepsFewer(o1, o) ==
  \E f : /\ \A i \in 1..Len(o1) : f[i] \in 1..Len(o) /\ o1[i] = o[f[i]]
         /\ \A i, j \in 1..Len(o1) : i # j => f[i] # f[j]

LEMMA FewerHeld ==
  ASSUME NEW d, NEW h, NEW w, NEW out, NEW fr, NEW out1, Held(d, h, w, out, fr), KeepsFewer(out1, out)
  PROVE  Held(d, h, w, out1, fr)
<1>1. PICK f : /\ \A i \in 1..Len(out1) : f[i] \in 1..Len(out) /\ out1[i] = out[f[i]]
               /\ \A i, j \in 1..Len(out1) : i # j => f[i] # f[j]
  BY DEF KeepsFewer
<1>2. ASSUME ~CleanSession PROVE Resendable(d, h, w, out1)
  <2> SUFFICES ASSUME NEW n \in 1..Len(out1), ~out1[n].rel
               PROVE  /\ out1[n].qos = 2
                      /\ h[out1[n].msg] > 0 =>
                           Knows(d, out1[n].id) /\ \A l \in 1..Len(w) : ~Releases(w[l], out1[n].id)
                      /\ \A j \in 1..Len(w) : Publishes(w[j], out1[n].msg) =>
                           /\ w[j].qos = 2 /\ w[j].id = out1[n].id
                           /\ \A l \in 1..Len(w) : j < l => ~Releases(w[l], out1[n].id)
    BY DEF Resendable
  <2>1. Resendable(d, h, w, out) BY <1>2 DEF Held
  <2>2. f[n] \in 1..Len(out) /\ out1[n] = out[f[n]] BY <1>1
  <2>3. ~out[f[n]].rel BY <2>2
  <2> QED BY <2>1, <2>2, <2>3 DEF Resendable
<1>3. Distinct(out1) BY <1>1 DEF Held, Distinct
<1>4. \A m \in fr \cap InMsgs : Unknown(m, h, w, out1) BY <1>1 DEF Held, Unknown
<1> QED BY <1>2, <1>3, <1>4 DEF Held

LEMMA FewerWithout ==
  ASSUME NEW out \in Seq(Kept), NEW id
  PROVE  KeepsFewer(Without(out, id), out)
<1> DEFINE S == {k \in DOMAIN out : out[k].id = id}
           o1 == Without(out, id)
<1>1. o1 = IF S = {} THEN out ELSE RemoveAt(out, First(S)) BY DEF Without
<1>2. S \in SUBSET Nat /\ S \subseteq 1..Len(out) /\ Len(out) \in Nat OBVIOUS
<1> HIDE DEF S, o1
<1>3. CASE S = {}
  <2> DEFINE f == [i \in 1..Len(out) |-> i]
  <2>1. \A i \in 1..Len(o1) : f[i] \in 1..Len(out) /\ o1[i] = out[f[i]] BY <1>1, <1>3
  <2>2. \A i, j \in 1..Len(o1) : i # j => f[i] # f[j] BY <1>1, <1>3
  <2> HIDE DEF f
  <2>3. KeepsFewer(o1, out) BY <2>1, <2>2 DEF KeepsFewer
  <2> QED BY <2>3 DEF o1
<1>4. CASE S # {}
  <2> DEFINE k == First(S)
             f == [i \in 1..Len(o1) |-> IF i < k THEN i ELSE i + 1]
  <2>1. k \in 1..Len(out) BY <1>2, <1>4, FirstIn
  <2> HIDE DEF k
  <2>2. /\ Len(o1) = Len(out) - 1
        /\ \A j \in 1..(Len(out) - 1) : o1[j] = IF j < k THEN out[j] ELSE out[j + 1]
    BY <1>1, <1>4, <2>1, RemoveAtSeq DEF k
  <2>3. \A i \in 1..Len(o1) : f[i] = IF i < k THEN i ELSE i + 1 OBVIOUS
  <2> HIDE DEF f
  <2>4. \A i \in 1..Len(o1) : f[i] \in 1..Len(out) /\ o1[i] = out[f[i]] BY <1>2, <2>1, <2>2, <2>3
  <2>5. \A i, j \in 1..Len(o1) : i # j => f[i] # f[j] BY <2>1, <2>3
  <2>6. KeepsFewer(o1, out) BY <2>4, <2>5 DEF KeepsFewer
  <2> QED BY <2>6 DEF o1
<1> QED BY <1>3, <1>4

\* None at all.
LEMMA NoneHeld ==
  ASSUME NEW d, NEW h, NEW w, NEW out, NEW fr, Held(d, h, w, out, fr)
  PROVE  Held(d, h, w, <<>>, fr)
<1>1. \A i \in 1..Len(<<>>) : FALSE OBVIOUS
<1>2. KeepsFewer(<<>>, out) BY <1>1 DEF KeepsFewer
<1> QED BY <1>2, FewerHeld

LEMMA AgainAt ==
  ASSUME NEW out \in Seq(Kept)
  PROVE  /\ Again(out) \in Seq(DownPacket) /\ Len(Again(out)) = Len(out)
         /\ \A i \in 1..Len(out) :
              /\ out[i].rel => Again(out)[i].type = "PUBREL" /\ Again(out)[i].id = out[i].id
              /\ ~out[i].rel => /\ Again(out)[i].type = "PUBLISH" /\ Again(out)[i].id = out[i].id
                                /\ Again(out)[i].qos = out[i].qos /\ Again(out)[i].msg = out[i].msg
<1> DEFINE At(i) == IF out[i].rel THEN [type |-> "PUBREL", id |-> out[i].id]
                    ELSE [type |-> "PUBLISH", id |-> out[i].id, qos |-> out[i].qos,
                          msg |-> out[i].msg, topic |-> Topic]
<1>1. \A i \in 1..Len(out) : Again(out)[i] = At(i) BY DEF Again
<1>2. \A i \in 1..Len(out) :
        /\ out[i].rel => At(i).type = "PUBREL" /\ At(i).id = out[i].id
        /\ ~out[i].rel => /\ At(i).type = "PUBLISH" /\ At(i).id = out[i].id
                          /\ At(i).qos = out[i].qos /\ At(i).msg = out[i].msg
  OBVIOUS
<1> HIDE DEF At
<1> QED BY <1>1, <1>2, AgainType

\* What the broker keeps it sends again over a new connection.
LEMMA AgainHeld ==
  ASSUME NEW d, NEW h, NEW w \in Seq(DownPacket), NEW out \in Seq(Kept), NEW fr,
         Held(d, h, w, out, fr), ~CleanSession
  PROVE  Held(d, h, w \o Again(out), out, fr)
<1> DEFINE s == Again(out)
           w1 == w \o s
           At(i) == i - Len(w)
<1>1. s \in Seq(DownPacket) /\ Len(s) = Len(out) /\ Len(w) \in Nat BY AgainAt
<1>2. /\ \A i \in 1..Len(w1) : \/ i \in 1..Len(w) /\ w1[i] = w[i]
                               \/ At(i) \in 1..Len(s) /\ w1[i] = s[At(i)]
  BY <1>1, ConcatAt
<1>3. \A i \in 1..Len(out) :
        /\ out[i].rel => s[i].type = "PUBREL" /\ s[i].id = out[i].id
        /\ ~out[i].rel => /\ s[i].type = "PUBLISH" /\ s[i].id = out[i].id
                          /\ s[i].qos = out[i].qos /\ s[i].msg = out[i].msg
  BY AgainAt
<1> HIDE DEF s, w1
<1>4. \A i \in Nat : At(i) \in Int /\ (At(i) \in 1..Len(out) => i > Len(w)) BY <1>1
<1>5. \A i, j \in Nat : i < j => At(i) < At(j) BY <1>1
<1>6. \A i \in 1..Len(w1) : i \in Nat OBVIOUS
<1> HIDE DEF At
\* a PUBLISH is one that was under way, or one of those kept
<1>7. ASSUME NEW i \in 1..Len(w1), w1[i].type = "PUBLISH"
      PROVE  \/ i \in 1..Len(w) /\ w1[i] = w[i]
             \/ /\ At(i) \in 1..Len(out) /\ ~out[At(i)].rel /\ i > Len(w)
                /\ w1[i].id = out[At(i)].id /\ w1[i].qos = out[At(i)].qos
                /\ w1[i].msg = out[At(i)].msg
  <2>1. CASE i \in 1..Len(w) /\ w1[i] = w[i] BY <2>1
  <2>2. CASE At(i) \in 1..Len(s) /\ w1[i] = s[At(i)]
    <3>1. At(i) \in 1..Len(out) BY <1>1, <2>2
    <3>2. "PUBLISH" # "PUBREL" OBVIOUS
    <3>3. ~out[At(i)].rel BY <1>3, <1>7, <2>2, <3>1, <3>2
    <3> QED BY <1>3, <1>4, <1>6, <2>2, <3>1, <3>3
  <2> QED BY <1>2, <2>1, <2>2
\* and so is a PUBREL
<1>8. ASSUME NEW i \in 1..Len(w1), NEW id, Releases(w1[i], id)
      PROVE  \/ i \in 1..Len(w) /\ Releases(w[i], id)
             \/ At(i) \in 1..Len(out) /\ out[At(i)].rel /\ out[At(i)].id = id
  <2>1. CASE i \in 1..Len(w) /\ w1[i] = w[i] BY <1>8, <2>1
  <2>2. CASE At(i) \in 1..Len(s) /\ w1[i] = s[At(i)]
    <3>1. At(i) \in 1..Len(out) BY <1>1, <2>2
    <3>2. s[At(i)].type = "PUBREL" /\ s[At(i)].id = id BY <1>8, <2>2 DEF Releases
    <3>3. "PUBLISH" # "PUBREL" OBVIOUS
    <3>4. out[At(i)].rel BY <1>3, <3>1, <3>2, <3>3
    <3> QED BY <1>3, <3>1, <3>2, <3>4
  <2> QED BY <1>2, <2>1, <2>2
\* the ids released again are those of others
<1>9. ASSUME NEW n \in 1..Len(out), ~out[n].rel, NEW l \in 1..Len(w1), Releases(w1[l], out[n].id)
      PROVE  l \in 1..Len(w) /\ Releases(w[l], out[n].id)
  <2>1. SUFFICES ASSUME At(l) \in 1..Len(out), out[At(l)].rel, out[At(l)].id = out[n].id PROVE FALSE
    BY <1>8, <1>9
  <2>2. At(l) # n BY <1>9, <2>1
  <2> QED BY <2>1, <2>2 DEF Held, Distinct
<1>10. Resendable(d, h, w, out) BY DEF Held
<1>11. Repeats(w1)
  <2> SUFFICES ASSUME NEW j \in 1..Len(w1), NEW k \in 1..Len(w1), j < k,
                      w1[j].type = "PUBLISH", w1[k].type = "PUBLISH", w1[j].msg = w1[k].msg
               PROVE  /\ ~CleanSession
                      /\ w1[j].qos = 2 /\ w1[k].qos = 2 /\ w1[j].id = w1[k].id
                      /\ \A l \in 1..Len(w1) : j < l /\ l < k => ~Releases(w1[l], w1[k].id)
    BY DEF Repeats
  <2>1. CASE k \in 1..Len(w) /\ w1[k] = w[k]
    <3>1. ~(j > Len(w)) BY <2>1
    <3>2. j \in 1..Len(w) /\ w1[j] = w[j] BY <1>7, <3>1
    <3>3. /\ w[j].qos = 2 /\ w[k].qos = 2 /\ w[j].id = w[k].id
          /\ \A l \in 1..Len(w) : j < l /\ l < k => ~Releases(w[l], w[k].id)
      BY <2>1, <3>2 DEF Held, Repeats
    <3>4. ASSUME NEW l \in 1..Len(w1), j < l, l < k, Releases(w1[l], w1[k].id) PROVE FALSE
      <4>1. At(l) \notin 1..Len(out) BY <1>1, <1>4, <1>6, <2>1, <3>4
      <4>2. l \in 1..Len(w) /\ Releases(w[l], w1[k].id) BY <1>8, <3>4, <4>1
      <4> QED BY <2>1, <3>3, <3>4, <4>2
    <3> QED BY <2>1, <3>2, <3>3, <3>4
  <2>2. CASE /\ At(k) \in 1..Len(out) /\ ~out[At(k)].rel
             /\ w1[k].id = out[At(k)].id /\ w1[k].qos = out[At(k)].qos
             /\ w1[k].msg = out[At(k)].msg
    <3> DEFINE n == At(k)
    <3>1. out[n].qos = 2 BY <1>10, <2>2 DEF Resendable
    <3>2. CASE j \in 1..Len(w) /\ w1[j] = w[j]
      <4>1. Publishes(w[j], out[n].msg) BY <2>2, <3>2 DEF Publishes
      <4>2. /\ w[j].qos = 2 /\ w[j].id = out[n].id
            /\ \A l \in 1..Len(w) : j < l => ~Releases(w[l], out[n].id)
        BY <1>10, <2>2, <3>2, <4>1 DEF Resendable
      <4>3. ASSUME NEW l \in 1..Len(w1), j < l, Releases(w1[l], w1[k].id) PROVE FALSE
        <5>1. l \in 1..Len(w) /\ Releases(w[l], out[n].id) BY <1>9, <2>2, <4>3
        <5> QED BY <4>2, <4>3, <5>1
      <4> QED BY <2>2, <3>1, <3>2, <4>2, <4>3
    <3>3. CASE At(j) \in 1..Len(out) /\ w1[j].msg = out[At(j)].msg
      <4>1. At(j) < At(k) BY <1>5, <1>6
      <4>2. At(j) # At(k) BY <2>2, <3>3, <4>1
      <4>3. out[At(j)].msg # out[At(k)].msg BY <2>2, <3>3, <4>2 DEF Held, Distinct
      <4> QED BY <2>2, <3>3, <4>3
    <3> QED BY <1>7, <3>2, <3>3
  <2> QED BY <1>7, <2>1, <2>2
<1>12. Guarded(d, h, w1)
  <2> SUFFICES ASSUME NEW k \in 1..Len(w1), w1[k].type = "PUBLISH", h[w1[k].msg] > 0
               PROVE  /\ ~CleanSession
                      /\ w1[k].qos = 2 /\ Knows(d, w1[k].id)
                      /\ \A l \in 1..Len(w1) : l < k => ~Releases(w1[l], w1[k].id)
    BY DEF Guarded
  <2>1. CASE k \in 1..Len(w) /\ w1[k] = w[k]
    <3>1. /\ w[k].qos = 2 /\ Knows(d, w[k].id)
          /\ \A l \in 1..Len(w) : l < k => ~Releases(w[l], w[k].id)
      BY <2>1 DEF Held, Guarded
    <3>2. ASSUME NEW l \in 1..Len(w1), l < k, Releases(w1[l], w1[k].id) PROVE FALSE
      <4>1. At(l) \notin 1..Len(out) BY <1>1, <1>4, <1>6, <2>1, <3>2
      <4>2. l \in 1..Len(w) /\ Releases(w[l], w1[k].id) BY <1>8, <3>2, <4>1
      <4> QED BY <2>1, <3>1, <3>2, <4>2
    <3> QED BY <2>1, <3>1, <3>2
  <2>2. CASE /\ At(k) \in 1..Len(out) /\ ~out[At(k)].rel
             /\ w1[k].id = out[At(k)].id /\ w1[k].qos = out[At(k)].qos
             /\ w1[k].msg = out[At(k)].msg
    <3> DEFINE n == At(k)
    <3>1. h[out[n].msg] > 0 BY <2>2
    <3>2. out[n].qos = 2 /\ Knows(d, out[n].id) /\ \A l \in 1..Len(w) : ~Releases(w[l], out[n].id)
      BY <1>10, <2>2, <3>1 DEF Resendable
    <3>3. \A l \in 1..Len(w1) : ~Releases(w1[l], out[n].id) BY <1>9, <2>2, <3>2
    <3> QED BY <2>2, <3>2, <3>3
  <2> QED BY <1>7, <2>1, <2>2
<1>13. Resendable(d, h, w1, out)
  <2> SUFFICES ASSUME NEW n \in 1..Len(out), ~out[n].rel
               PROVE  /\ out[n].qos = 2
                      /\ h[out[n].msg] > 0 =>
                           Knows(d, out[n].id) /\ \A l \in 1..Len(w1) : ~Releases(w1[l], out[n].id)
                      /\ \A j \in 1..Len(w1) : Publishes(w1[j], out[n].msg) =>
                           /\ w1[j].qos = 2 /\ w1[j].id = out[n].id
                           /\ \A l \in 1..Len(w1) : j < l => ~Releases(w1[l], out[n].id)
    BY DEF Resendable
  <2>1. /\ out[n].qos = 2
        /\ h[out[n].msg] > 0 =>
             Knows(d, out[n].id) /\ \A l \in 1..Len(w) : ~Releases(w[l], out[n].id)
    BY <1>10 DEF Resendable
  <2>2. ASSUME NEW j \in 1..Len(w1), Publishes(w1[j], out[n].msg)
        PROVE  /\ w1[j].qos = 2 /\ w1[j].id = out[n].id
               /\ \A l \in 1..Len(w1) : j < l => ~Releases(w1[l], out[n].id)
    <3>1. CASE j \in 1..Len(w) /\ w1[j] = w[j]
      <4>1. /\ w[j].qos = 2 /\ w[j].id = out[n].id
            /\ \A l \in 1..Len(w) : j < l => ~Releases(w[l], out[n].id)
        BY <1>10, <2>2, <3>1 DEF Resendable
      <4> QED BY <1>9, <3>1, <4>1
    <3>2. CASE /\ At(j) \in 1..Len(out) /\ j > Len(w)
               /\ w1[j].id = out[At(j)].id /\ w1[j].qos = out[At(j)].qos
               /\ w1[j].msg = out[At(j)].msg
      <4>1. out[At(j)].msg = out[n].msg BY <2>2, <3>2 DEF Publishes
      <4>2. At(j) = n BY <3>2, <4>1 DEF Held, Distinct
      <4>3. ASSUME NEW l \in 1..Len(w1), j < l, Releases(w1[l], out[n].id) PROVE FALSE
        <5>1. l \in 1..Len(w) BY <1>9, <4>3
        <5> QED BY <1>1, <3>2, <4>3, <5>1
      <4> QED BY <2>1, <3>2, <4>2, <4>3
    <3>3. w1[j].type = "PUBLISH" BY <2>2 DEF Publishes
    <3> QED BY <1>7, <3>1, <3>2, <3>3
  <2> QED BY <1>9, <2>1, <2>2
<1>14. Identified(w1)
  <2> SUFFICES ASSUME NEW k \in 1..Len(w1), w1[k].type = "PUBLISH" PROVE w1[k].id # 0
    BY DEF Identified
  <2>1. CASE k \in 1..Len(w) /\ w1[k] = w[k] BY <2>1 DEF Held, Identified
  <2>2. CASE At(k) \in 1..Len(out) /\ w1[k].id = out[At(k)].id BY <2>2, KeptAt
  <2> QED BY <1>7, <2>1, <2>2
<1>15. ASSUME NEW m \in fr \cap InMsgs PROVE Unknown(m, h, w1, out)
  <2>1. Unknown(m, h, w, out) BY DEF Held
  <2>2. \A k \in 1..Len(w1) : ~Publishes(w1[k], m) BY <1>7, <2>1 DEF Unknown, Publishes
  <2> QED BY <2>1, <2>2 DEF Unknown
<1>16. Held(d, h, w1, out, fr) BY <1>11, <1>12, <1>13, <1>14, <1>15 DEF Held
<1> QED BY <1>16 DEF w1, s

-----------------------------------------------------------------------------
(* What the client's actions do to the table and to what is asked for. *)

\* connect decides whether the session is a clean one; nothing else happens to
\* the table.
CallTable(e, d) ==
  /\ e.cleansession \in {d.cleansession, CleanSession}
  /\ ~d.cleansession => e.incoming = d.incoming

\* Only a connected client asks for a topic, and only for QoS values of QoSs;
\* before its first connect nothing but yield runs.
Modest ==
  /\ \A Q : (QoSs \subseteq Q \/ ~c.isconnected) /\ Asks(up, Q) => Asks(up', Q)
  /\ ~c.isconnected /\ call.op \in {"none", "yield"}
       => c'.cleansession = CleanSession \/ (~c'.isconnected /\ call'.op \in {"none", "yield"})

LEMMA OneAsks ==
  ASSUME NEW Q
  PROVE  /\ Asks(<<>>, Q)
         /\ \A p : p.type # "SUBSCRIBE" \/ p.qos \in Q => Asks(<<p>>, Q)
<1>1. \A i \in 1..Len(<<>>) : FALSE OBVIOUS
<1>2. ASSUME NEW p, p.type # "SUBSCRIBE" \/ p.qos \in Q PROVE Asks(<<p>>, Q)
  <2>1. Len(<<p>>) = 1 /\ <<p>>[1] = p OBVIOUS
  <2>2. \A i \in 1..Len(<<p>>) : <<p>>[i] = p BY <2>1
  <2> QED BY <1>2, <2>2 DEF Asks
<1> QED BY <1>1, <1>2 DEF Asks

LEMMA ConcatAsks ==
  ASSUME NEW u \in Seq(UpPacket), NEW s \in Seq(UpPacket), NEW Q, Asks(u, Q), Asks(s, Q)
  PROVE  Asks(u \o s, Q)
<1> DEFINE v == u \o s
<1>1. Len(u) \in Nat /\ Len(s) \in Nat OBVIOUS
<1>2. /\ Len(v) = Len(u) + Len(s)
      /\ \A i \in 1..(Len(u) + Len(s)) : v[i] = IF i <= Len(u) THEN u[i] ELSE s[i - Len(u)]
  BY ConcatProperties
<1> HIDE DEF v
<1>3. ASSUME NEW i \in 1..Len(v)
      PROVE  \/ i \in 1..Len(u) /\ v[i] = u[i]
             \/ i - Len(u) \in 1..Len(s) /\ v[i] = s[i - Len(u)]
  BY <1>1, <1>2
<1>4. Asks(v, Q) BY <1>3 DEF Asks
<1> QED BY <1>4 DEF v

LEMMA TailAsks ==
  ASSUME NEW u \in Seq(UpPacket), u # <<>>, NEW Q, Asks(u, Q)
  PROVE  Asks(Tail(u), Q) /\ (Head(u).type = "SUBSCRIBE" => Head(u).qos \in Q)
<1> DEFINE t == Tail(u)
<1>1. Len(u) \in Nat \ {0} BY EmptySeq
<1>2. Len(t) = Len(u) - 1 /\ \A i \in 1..Len(t) : t[i] = u[i + 1] BY HeadTailProperties
<1>3. Head(u) = u[1] /\ 1 \in 1..Len(u) BY <1>1
<1> HIDE DEF t
<1>4. \A i \in 1..Len(t) : i + 1 \in 1..Len(u) /\ t[i] = u[i + 1] BY <1>1, <1>2
<1>5. Asks(t, Q) BY <1>4 DEF Asks
<1> QED BY <1>3, <1>5 DEF Asks, t

LEMMA SentAsks ==
  ASSUME up \in Seq(UpPacket), NEW k, NEW s, NEW more, TurnWith(k, s, more),
         s.out.sent \in Seq(UpPacket), NEW Q, Asks(up, Q), Asks(s.out.sent, Q)
  PROVE  Asks(up', Q)
<1>1. Asks(up \o s.out.sent, Q) BY ConcatAsks
<1> QED BY <1>1 DEF TurnWith

\* A step that asks for no topic.
LEMMA PlainModest ==
  ASSUME ClientTypes, NEW k, NEW s, NEW more, TurnWith(k, s, more), TurnOK(s),
         \A Q : Asks(s.out.sent, Q),
         ~c.isconnected /\ call.op \in {"none", "yield"}
           => s.c.cleansession = CleanSession \/ (~s.c.isconnected /\ s.call.op \in {"none", "yield"})
  PROVE  Modest
<1>1. c' = s.c /\ call' = s.call BY DEF TurnWith
<1>2. up \in Seq(UpPacket) /\ s.out.sent \in Seq(UpPacket) BY DEF ClientTypes, TurnOK
<1>3. ASSUME NEW Q, Asks(up, Q) PROVE Asks(up', Q)
  <2>1. Asks(s.out.sent, Q) OBVIOUS
  <2> QED BY <1>2, <1>3, <2>1, SentAsks
<1> QED BY <1>1, <1>3 DEF Modest

LEMMA ConnectModest ==
  ASSUME ClientTypes, connect
  PROVE  Modest
<1>1. PICK s : TurnOK(s) /\ Turn(ConnectCall, s) /\ ConnectOutcome(s) BY ConnectCases
<1>2. ConnectPacket.type # "SUBSCRIBE" /\ NoWrite.sent = <<>> BY DEF ConnectPacket, NoWrite
<1>3. s.out.sent \in {<<>>, <<ConnectPacket>>} BY <1>1, <1>2 DEF ConnectOutcome
<1>4. \A Q : Asks(s.out.sent, Q) BY <1>2, <1>3, OneAsks
<1>5. ~c.isconnected => s.c.cleansession = CleanSession BY <1>1 DEF ConnectOutcome
<1>6. TurnWith(ConnectCall, s, 0) BY <1>1 DEF Turn
<1> QED BY <1>1, <1>4, <1>5, <1>6, PlainModest

LEMMA ConnectTable ==
  ASSUME ClientTypes, connect
  PROVE  CallTable(c', c)
<1> DEFINE d == [c EXCEPT !.keepAlive = KeepAlive, !.cleansession = CleanSession]
<1>1. d \in Object /\ d.cleansession = CleanSession /\ d.incoming = c.incoming
  BY ClientAssumption, APIAssumption DEF Object, ClientTypes
<1>2. ConnectPacket \in UpPacket BY APIAssumption DEF ConnectPacket, UpPacket
<1>3. PICK w \in Outcomes(TRUE) :
        LET s == sendPacket(d, ConnectPacket, w)
        IN IF c.isconnected
           THEN Turn(ConnectCall, Return(c, NoWrite, FAILURE))
           ELSE Turn(ConnectCall,
                     IF s.rc = SUCCESS
                     THEN Wait([s.c EXCEPT !.recvDue = s.c.recvDue /\ ~KeepAlive], s.out, ConnectCall)
                     ELSE Return(s.c, s.out, FAILURE))
  BY DEF connect, ConnectPacket, ConnectCall
<1>4. w \in Fates BY FatesOK
<1> DEFINE s == sendPacket(d, ConnectPacket, w)
           e == [s.c EXCEPT !.recvDue = s.c.recvDue /\ ~KeepAlive]
<1> HIDE DEF d
<1>5. s.c \in Object /\ SameTable(s.c, d) /\ s.c.incoming = d.incoming
  BY <1>1, <1>2, <1>4, SendType, SendTable
<1>6. c' \in {c, s.c, e} BY <1>3 DEF Turn, TurnWith, Return, Wait
<1> HIDE DEF s
<1>7. e.cleansession = s.c.cleansession /\ e.incoming = s.c.incoming BY <1>5 DEF Object
<1> HIDE DEF e
<1> QED BY <1>1, <1>5, <1>6, <1>7 DEF CallTable, SameTable

LEMMA SameCallTable ==
  ASSUME NEW d, NEW e, SameTable(e, d)
  PROVE  CallTable(e, d)
BY DEF SameTable, CallTable

LEMMA SavedTable ==
  ASSUME ClientTypes, NEW qos \in Levels, NEW msg \in OutMsgs
  PROVE  SameTable(Saved(Numbered(qos), PublishId(qos), qos, msg), c)
<1> DEFINE n == Numbered(qos)
           e == [n EXCEPT !.inflight = [id |-> PublishId(qos), qos |-> qos, msg |-> msg], !.pubrel = FALSE]
<1>1. n.cleansession = c.cleansession /\ n.incoming = c.incoming /\ n \in Object
  BY NextIdType DEF Numbered, ClientTypes, Object
<1>2. Saved(n, PublishId(qos), qos, msg) \in {n, e} BY DEF Saved
<1> HIDE DEF n
<1>3. e.cleansession = n.cleansession /\ e.incoming = n.incoming BY <1>1 DEF Object
<1> HIDE DEF e
<1>4. SameTable(Saved(n, PublishId(qos), qos, msg), c) BY <1>1, <1>2, <1>3 DEF SameTable
<1> QED BY <1>4 DEF n

LEMMA PublishModest ==
  ASSUME ClientTypes, NEW qos \in Levels, NEW msg \in OutMsgs, publish(msg, qos)
  PROVE  CallTable(c', c) /\ Modest
<1> DEFINE e == Saved(Numbered(qos), PublishId(qos), qos, msg)
           p == PublishPacket(PublishId(qos), qos, msg)
           k == PublishCall(qos, msg)
<1>1. c.isconnected /\ \E w \in Outcomes(TRUE) : Turn(k, publish_packet(e, p, qos, w, k, FALSE))
  BY DEF publish, PublishCall, Numbered, PublishId
<1>2. e \in Object /\ SavedOK(e) /\ PublishId(qos) \in Ids BY NumberedType
<1>3. p \in UpPacket /\ p.type # "SUBSCRIBE" BY <1>2 DEF PublishPacket, UpPacket
<1>4. SameTable(e, c) BY SavedTable
<1> HIDE DEF e, p, k
<1>5. PICK w \in Fates : Turn(k, publish_packet(e, p, qos, w, k, FALSE)) BY <1>1, FatesOK
<1>6. SameTable(publish_packet(e, p, qos, w, k, FALSE).c, e) BY <1>2, <1>3, PublishTable
<1>7. c' = publish_packet(e, p, qos, w, k, FALSE).c BY <1>5 DEF Turn, TurnWith
<1>8. CallTable(c', c) BY <1>4, <1>6, <1>7, SameTableThen, SameCallTable
<1>9. PICK s : /\ TurnOK(s) /\ Turn(k, s)
               /\ PublishOutcome(s, e, p, qos, k, FALSE)
  BY PublishStarts DEF e, p, k
<1>10. \A Q : Asks(s.out.sent, Q)
  <2>1. s.out.sent \in {<<>>, <<p>>} BY <1>9 DEF PublishOutcome
  <2> QED BY <1>3, <2>1, OneAsks
<1>11. TurnWith(k, s, 0) BY <1>9 DEF Turn
<1>12. Modest BY <1>1, <1>9, <1>10, <1>11, PlainModest
<1> QED BY <1>8, <1>12

LEMMA RequestModest ==
  ASSUME ClientTypes, NEW k, NEW p \in UpPacket, p.type = "SUBSCRIBE" => p.qos \in QoSs, Request(k, p)
  PROVE  CallTable(c', c) /\ Modest
<1> DEFINE d == Advanced
<1>1. PICK w \in Fates : LET s == sendPacket(d, p, w)
                         IN  Turn(k, IF s.rc = SUCCESS THEN Wait(s.c, s.out, k)
                                     ELSE Return(closeSession(s.c), s.out, FAILURE))
  BY FatesOK DEF Request, Advanced
<1>2. c.isconnected BY DEF Request
<1>3. d \in Object /\ SameTable(d, c) BY AdvancedType DEF Advanced, SameTable, ClientTypes, Object
<1> HIDE DEF d
<1> DEFINE s == sendPacket(d, p, w)
           t == IF s.rc = SUCCESS THEN Wait(s.c, s.out, k) ELSE Return(closeSession(s.c), s.out, FAILURE)
<1>4. s.c \in Object /\ s.out.sent \in Seq(UpPacket) /\ s.out.sent \in {<<>>, <<p>>} /\ SameTable(s.c, d)
  BY <1>3, SendType, SendTable
<1>5. SameTable(closeSession(s.c), d) BY <1>4, CloseTable, SameTableThen
<1>6. t.c \in {s.c, closeSession(s.c)} /\ t.out = s.out BY DEF Wait, Return
<1>7. Turn(k, t) BY <1>1
<1> HIDE DEF s, t
<1>8. SameTable(c', d) BY <1>4, <1>5, <1>6, <1>7 DEF Turn, TurnWith
<1>9. CallTable(c', c) BY <1>3, <1>8, SameTableThen, SameCallTable
<1>10. ASSUME NEW Q, QoSs \subseteq Q, Asks(up, Q) PROVE Asks(up', Q)
  <2>1. Asks(t.out.sent, Q) BY <1>4, <1>6, <1>10, OneAsks
  <2>2. TurnWith(k, t, 0) BY <1>7 DEF Turn
  <2> QED BY <1>4, <1>6, <1>10, <2>1, <2>2, SentAsks DEF ClientTypes
<1> QED BY <1>2, <1>9, <1>10 DEF Modest

LEMMA SubscribeModest ==
  ASSUME ClientTypes,
         \/ \E topic \in Topics, qos \in QoSs : subscribe(topic, qos)
         \/ \E topic \in Topics : unsubscribe(topic)
  PROVE  CallTable(c', c) /\ Modest
<1>1. getNext(c) \in Ids BY NextIdType DEF ClientTypes
<1>2. ASSUME NEW topic \in Topics, NEW qos \in QoSs, subscribe(topic, qos)
      PROVE  CallTable(c', c) /\ Modest
  <2> DEFINE p == [type |-> "SUBSCRIBE", id |-> getNext(c), topic |-> topic, qos |-> qos]
  <2>1. p \in UpPacket /\ p.qos \in QoSs BY <1>1, LevelsType DEF UpPacket
  <2>2. Request(SubscribeCall(topic, qos), p) BY <1>2 DEF subscribe, SubscribeCall
  <2> HIDE DEF p
  <2> QED BY <2>1, <2>2, RequestModest
<1>3. ASSUME NEW topic \in Topics, unsubscribe(topic)
      PROVE  CallTable(c', c) /\ Modest
  <2> DEFINE p == [type |-> "UNSUBSCRIBE", id |-> getNext(c), topic |-> topic]
  <2>1. p \in UpPacket /\ p.type # "SUBSCRIBE" BY <1>1 DEF UpPacket
  <2>2. Request(UnsubscribeCall(topic), p) BY <1>3 DEF unsubscribe, UnsubscribeCall
  <2> HIDE DEF p
  <2> QED BY <2>1, <2>2, RequestModest
<1> QED BY <1>2, <1>3

LEMMA RefusedModest ==
  ASSUME ClientTypes, NEW op \in {"publish", "subscribe", "unsubscribe"}, Refused(op)
  PROVE  CallTable(c', c) /\ Modest
<1>1. PICK s : TurnOK(s) /\ Turn(RefusedCall(op), s) /\ RefusedOutcome(s) BY RefusedCases
<1>2. TurnWith(RefusedCall(op), s, 0) /\ c' = s.c BY <1>1 DEF Turn, TurnWith
<1>3. ~c.isconnected /\ s.c \in {c, closeSession(c)} /\ s.call = NoCall /\ s.out.sent = <<>>
  BY <1>1 DEF RefusedOutcome, Over, NoWrite
<1>4. ~s.c.isconnected /\ SameTable(s.c, c)
  BY <1>3, CloseType, CloseTable DEF ClientTypes, SameTable
<1>5. \A Q : Asks(s.out.sent, Q) BY <1>3, OneAsks
<1>6. Modest BY <1>1, <1>2, <1>3, <1>4, <1>5, NoCallType, PlainModest
<1> QED BY <1>2, <1>4, <1>6, SameCallTable

LEMMA YieldModest ==
  ASSUME ClientTypes, yield
  PROVE  CallTable(c', c) /\ Modest
<1>1. PICK s : TurnOK(s) /\ Turn(NoCall, s) /\ YieldOutcome(s) BY YieldCases
<1>2. TurnWith(NoCall, s, 0) /\ c' = s.c BY <1>1 DEF Turn, TurnWith
<1>3. s.c = c /\ s.call.op = "yield" /\ s.out.sent = <<>>
  BY <1>1, YieldCases DEF YieldOutcome, NoWrite
<1>4. \A Q : Asks(s.out.sent, Q) BY <1>3, OneAsks
<1>5. Modest BY <1>1, <1>2, <1>3, <1>4, PlainModest
<1> QED BY <1>2, <1>3, <1>5 DEF CallTable

LEMMA DisconnectModest ==
  ASSUME ClientTypes, disconnect
  PROVE  CallTable(c', c) /\ Modest
<1> DEFINE p == [type |-> "DISCONNECT"]
<1>1. PICK s : TurnOK(s) /\ Turn(DisconnectCall, s) /\ DisconnectOutcome(s) BY DisconnectCases
<1>2. TurnWith(DisconnectCall, s, 0) BY <1>1 DEF Turn
<1>3. s.out.sent \in {<<>>, <<p>>} /\ s.call = NoCall /\ Core(s.c) = Core(closeSession(c))
  BY <1>1 DEF DisconnectOutcome
<1>4. \A Q : Asks(s.out.sent, Q)
  <2>1. p.type # "SUBSCRIBE" OBVIOUS
  <2> HIDE DEF p
  <2> QED BY <1>3, <2>1, OneAsks
<1>5. ~s.c.isconnected BY <1>3, CloseType DEF Core, ClientTypes
<1>6. Modest BY <1>1, <1>2, <1>3, <1>4, <1>5, NoCallType, PlainModest
<1>7. p \in UpPacket BY DEF UpPacket
<1>8. PICK w \in Fates : LET t == sendPacket(c, p, w)
                         IN  Turn(DisconnectCall, Return(closeSession(t.c), t.out, t.rc))
  BY FatesOK DEF disconnect, DisconnectCall
<1>9. c' = closeSession(sendPacket(c, p, w).c) BY <1>8 DEF Turn, TurnWith, Return
<1>10. SameTable(c', c) BY <1>7, <1>9, CloseSentTable DEF ClientTypes
<1> QED BY <1>6, <1>10, SameCallTable

LEMMA ResentAsks ==
  ASSUME NEW d \in Object, SavedOK(d), NEW s, NEW rc, NEW k, ResendOutcome(s, d, rc, k)
  PROVE  \A Q : Asks(s.out.sent, Q)
<1>1. CASE d.inflight.id = 0 BY <1>1, OneAsks DEF ResendOutcome, NoWrite
<1>2. CASE d.inflight.id # 0
  <2>1. Resent(d).type # "SUBSCRIBE" BY DEF Resent, PublishPacket
  <2>2. s.out.sent \in {<<>>, <<Resent(d)>>} BY <1>2 DEF ResendOutcome
  <2> QED BY <2>1, <2>2, OneAsks
<1> QED BY <1>1, <1>2

LEMMA UnansweredAsks ==
  ASSUME NEW d \in Object, SavedOK(d), NEW s, UnansweredOutcome(s, d)
  PROVE  \A Q : Asks(s.out.sent, Q)
<1>1. s.out = NoWrite => \A Q : Asks(s.out.sent, Q) BY OneAsks DEF NoWrite
<1> QED BY <1>1, ResentAsks DEF UnansweredOutcome, Over

LEMMA TimerModest ==
  ASSUME ClientTypes, timer_over
  PROVE  CallTable(c', c) /\ Modest
<1> DEFINE more == Missed
<1>1. PICK s : TurnOK(s) /\ UnansweredOutcome(s, c) /\ TurnWith(call, s, more) BY TimerCases
<1>2. ~Idle BY DEF timer_over
<1>3. call.op \in {"none", "yield"} => s.c = c /\ s.call = NoCall
  BY <1>1, <1>2 DEF UnansweredOutcome, Over, ClientTypes, Waiting, Idle
<1>4. \A Q : Asks(s.out.sent, Q) BY <1>1, UnansweredAsks DEF ClientTypes
<1> HIDE DEF more
<1>5. Modest BY <1>1, <1>3, <1>4, NoCallType, PlainModest
<1>6. PICK w \in Fates : TurnWith(call, unanswered(c, w, TRUE), more)
  BY FatesOK DEF timer_over, more, Missed
<1>7. c' = unanswered(c, w, TRUE).c BY <1>6 DEF TurnWith
<1>8. SameTable(c', c) BY <1>7, UnansweredTable DEF ClientTypes
<1> QED BY <1>5, <1>8, SameCallTable

LEMMA ObjectTimerModest ==
  ASSUME ClientTypes, idle_over \/ ping_over
  PROVE  CallTable(c', c) /\ Modest
<1>1. c \in Object BY DEF ClientTypes
<1>2. Core(c') = Core(c) /\ UNCHANGED <<call, up>> BY <1>1, TimersOnly
<1>3. c'.incoming = c.incoming BY <1>1 DEF idle_over, ping_over, Object
<1>4. c'.isconnected = c.isconnected /\ c'.cleansession = c.cleansession BY <1>2 DEF Core
<1> QED BY <1>2, <1>3, <1>4 DEF CallTable, Modest

LEMMA TurnModest ==
  ASSUME ClientTypes, NEW p \in Input, NEW n, turn(p, n)
  PROVE  Modest
<1>1. PICK r, s : /\ Cycles(r, c, p) /\ TurnOK(s) /\ TurnOutcome(r, s, p)
                  /\ TurnOK(Both(r, s)) /\ TurnWith(call, Both(r, s), n) /\ Hear(r.got)
  BY TurnCases
<1>2. ~Idle BY DEF turn
<1> DEFINE t == Both(r, s)
<1>3. t.c = s.c /\ t.call = s.call /\ t.out = Then(r.out, s.out)
  <2>1. s = [c |-> s.c, out |-> s.out, call |-> s.call, rc |-> s.rc] BY <1>1 DEF TurnOK
  <2> QED BY <2>1 DEF Both
<1>4. TurnOK(t) /\ TurnWith(call, t, n) BY <1>1
<1> HIDE DEF t
<1>5. r.c \in Object /\ SavedOK(r.c) BY <1>1, SavedSame DEF Cycles, ClientTypes
<1>6. \A Q : Asks(s.out.sent, Q)
  <2>1. s.out = NoWrite => \A Q : Asks(s.out.sent, Q) BY OneAsks DEF NoWrite
  <2>2. CASE UnansweredOutcome(s, r.c) BY <1>5, <2>2, UnansweredAsks
  <2>3. CASE AnsweredOutcome(s, r.c, p) BY <1>5, <2>1, <2>3, ResentAsks DEF AnsweredOutcome, Over
  <2>4. CASE s = Wait(r.c, NoWrite, call) BY <2>1, <2>4 DEF Wait
  <2> QED BY <1>1, <2>2, <2>3, <2>4 DEF TurnOutcome
<1>7. \A Q : Asks(r.out.sent, Q)
  <2>1. Ping.type # "SUBSCRIBE" BY DEF Ping
  <2>2. Acknowledged(p) => Answer(p).type # "SUBSCRIBE" BY AnswerType DEF Acks
  <2>3. r.out.sent \in {<<>>, <<Ping>>} \/ (Acknowledged(p) /\ r.out.sent \in {<<Answer(p)>>, <<Answer(p), Ping>>})
    BY <1>1 DEF Cycles, Sendable
  <2>4. Acknowledged(p) => \A Q : Asks(<<Answer(p), Ping>>, Q)
    <3> SUFFICES ASSUME Acknowledged(p), NEW Q PROVE Asks(<<Answer(p), Ping>>, Q) OBVIOUS
    <3>1. /\ Len(<<Answer(p), Ping>>) = 2
          /\ <<Answer(p), Ping>>[1] = Answer(p) /\ <<Answer(p), Ping>>[2] = Ping
      OBVIOUS
    <3>2. \A i \in 1..Len(<<Answer(p), Ping>>) : i = 1 \/ i = 2 BY <3>1
    <3> QED BY <2>1, <2>2, <3>1, <3>2 DEF Asks
  <2> QED BY <2>1, <2>2, <2>3, <2>4, OneAsks
<1>8. ASSUME NEW Q PROVE Asks(t.out.sent, Q)
  <2>1. /\ r.out.sent \in Seq(UpPacket)
        /\ s.out.sent \in Seq(UpPacket)
    <3>1. r.out.sent \in Seq(UpPacket) BY <1>1, SendableType DEF Cycles
    <3>2. s.out.sent \in Seq(UpPacket)
      <4>1. TurnOK(s) BY <1>1
      <4> QED BY ONLY <4>1 DEF TurnOK
    <3> QED BY <3>1, <3>2
  <2>2. t.out.sent = r.out.sent \o s.out.sent
    <3>1. Then(r.out, s.out).sent = r.out.sent \o s.out.sent BY DEF Then
    <3>2. t.out = Then(r.out, s.out) BY <1>3
    <3> QED BY ONLY <3>1, <3>2
  <2> QED BY <1>6, <1>7, <2>1, <2>2, ConcatAsks
<1>9. ASSUME ~c.isconnected, call.op \in {"none", "yield"}
      PROVE  ~s.c.isconnected /\ s.call.op \in {"none", "yield"}
  <2>1. ~r.c.isconnected BY <1>1, <1>9 DEF Cycles, Core
  <2>2. call.op = "yield" BY <1>2, <1>9 DEF ClientTypes, Waiting, Idle
  <2>3. s.c = r.c /\ s.call \in {NoCall, call}
    BY <1>1, <2>2 DEF TurnOutcome, UnansweredOutcome, AnsweredOutcome, Over, Wait
  <2> QED BY <2>1, <2>2, <2>3, NoCallType
<1> QED BY <1>3, <1>4, <1>8, <1>9, PlainModest

-----------------------------------------------------------------------------
(* Every step keeps the invariant: first the client's. *)

\* What matters of what nobody has published yet.
LEMMA FreshHeld ==
  ASSUME NEW d, NEW h, NEW w, NEW out, NEW fr, NEW fr1, Held(d, h, w, out, fr),
         fr1 \cap InMsgs \subseteq fr
  PROVE  Held(d, h, w, out, fr1)
BY DEF Held

\* What is asked for stays within bounds, and a session that has not begun only
\* begins with the connect that makes it one that is not clean.
LEMMA ModestAsks ==
  ASSUME HearsOnce, Modest, c'.cleansession \in {c.cleansession, CleanSession},
         b' = b, InMsgs \cap fresh \subseteq fresh'
  PROVE  /\ Asks(up', QoSs) /\ Granted(b'.subs)
         /\ ~CleanSession /\ c'.cleansession => NotBegun(c', call', up', b'.subs, fresh')
<1>1. Asks(up', QoSs) BY DEF HearsOnce, Modest
<1>2. ASSUME ~CleanSession, c'.cleansession
      PROVE  NotBegun(c', call', up', b'.subs, fresh')
  <2>1. c'.cleansession # CleanSession /\ c.cleansession BY <1>2
  <2>2. NotBegun(c, call, up, b.subs, fresh) BY <1>2, <2>1 DEF HearsOnce
  <2>3. ~c.isconnected /\ call.op \in {"none", "yield"} /\ Asks(up, {}) BY <2>2 DEF NotBegun
  <2>4. Asks(up', {}) BY <2>3 DEF Modest
  <2>5. ~c'.isconnected /\ call'.op \in {"none", "yield"} BY <2>1, <2>3 DEF Modest
  <2>6. (\A t \in Topics : b'.subs[t] = NotSubscribed) /\ InMsgs \subseteq fresh'
    BY <2>2 DEF NotBegun
  <2> QED BY <2>4, <2>5, <2>6 DEF NotBegun
<1>3. Granted(b'.subs) BY DEF HearsOnce
<1> QED BY <1>1, <1>2, <1>3

\* Before a session that is not clean has begun no message was heard.
LEMMA NothingYet ==
  ASSUME HearsOnce, ~CleanSession, c.cleansession
  PROVE  InMsgs \subseteq fresh /\ \A m \in InMsgs : heard[m] = 0
<1>1. InMsgs \subseteq fresh BY DEF HearsOnce, NotBegun
<1>2. \A m \in fresh \cap InMsgs : heard[m] = 0 BY DEF HearsOnce, Held, Unknown
<1> QED BY <1>1, <1>2

\* A step of the client that reads no packet.
LEMMA CallHears ==
  ASSUME Types, HearsOnce, CallTable(c', c), Modest,
         b' = b, down' = down, heard' = heard, fresh' \cap InMsgs = fresh \cap InMsgs
  PROVE  HearsOnce'
<1>1. heard \in [InMsgs -> Nat] /\ down \in Seq(DownPacket) /\ b.out \in Seq(Kept)
  BY DEF Types, ClientTypes, ChannelTypes, BrokerTypes, BrokerObject
<1>2. Retains(c', c, heard)
  <2>1. CASE CleanSession BY <2>1 DEF Retains
  <2>2. CASE ~CleanSession /\ c.cleansession BY <2>2, NothingYet DEF Retains
  <2>3. CASE ~CleanSession /\ ~c.cleansession
    <3>1. c'.incoming = c.incoming BY <2>3 DEF CallTable
    <3> QED BY <3>1 DEF Retains, Knows
  <2> QED BY <2>1, <2>2, <2>3
<1>3. Held(c, heard, down, b.out, fresh) BY DEF HearsOnce
<1>4. Held(c', heard, down, b.out, fresh) BY <1>1, <1>2, <1>3, RetainsHeld
<1>5. Held(c', heard', down', b'.out, fresh') BY <1>4, FreshHeld
<1>6. c'.cleansession \in {c.cleansession, CleanSession} /\ InMsgs \cap fresh \subseteq fresh'
  BY DEF CallTable
<1> QED BY <1>5, <1>6, ModestAsks DEF HearsOnce

\* A turn of a call, with a packet or without.
LEMMA TurnHears ==
  ASSUME Types, Once(c), HearsOnce, ~CleanSession => MQTTCLIENT_QOS2,
         Turns, b' = b, fresh' = fresh
  PROVE  HearsOnce'
<1>1. /\ heard \in [InMsgs -> Nat] /\ down \in Seq(DownPacket) /\ b.out \in Seq(Kept)
      /\ ClientTypes /\ ChannelTypes
  BY DEF Types, ClientTypes, ChannelTypes, BrokerTypes, BrokerObject
<1>2. PICK p \in Input, k \in Nat : turn(p, k) /\ TakenAs(p, k) BY <1>1, InputOfTurn
<1>11. down' \in Seq(DownPacket) BY <1>1, InputOfTurn
<1>3. PICK g : Takes(c', c, p, g) /\ Hear(g) BY <1>1, <1>2, TurnReads
<1>4. heard' = After(heard, g) BY <1>3 DEF Hear, NothingHeard, After
<1>5. Held(c, heard, down, b.out, fresh) BY DEF HearsOnce
<1>6. c'.cleansession = c.cleansession BY <1>3 DEF Takes
<1>7. ASSUME down # <<>>, p = Head(down), down' = Tail(down)
      PROVE  Held(c', heard', down', b.out, fresh)
  <2>1. ~CleanSession /\ c.cleansession => InMsgs \subseteq fresh BY NothingYet
  <2>2. Takes(c', c, Head(down), g) BY <1>3, <1>7
  <2>3. Held(c', After(heard, g), Tail(down), b.out, fresh)
    BY <1>1, <1>5, <1>7, <2>1, <2>2, ReadHeld
  <2> QED BY <1>4, <1>7, <2>3
<1>8. ASSUME p.type \in {TIMEOUT, SHORT}, \E n \in Nat : Part(down', down, n)
      PROVE  Held(c', heard', down', b.out, fresh)
  <2>2. p.type # "PUBLISH" /\ p.type # "PUBREL" BY <1>8 DEF TIMEOUT, SHORT
  <2>3. g = NoDelivery /\ (~c.cleansession => \A id \in Nat \ {0} : Knows(c, id) => Knows(c', id))
    BY <1>3, <2>2 DEF Takes
  <2>4. Retains(c', c, heard) BY <2>3, NothingYet DEF Retains
  <2>5. Held(c', heard, down, b.out, fresh) BY <1>1, <1>5, <2>4, RetainsHeld
  <2>6. heard' = heard BY <1>4, <2>3 DEF After
  <2>7. Held(c', heard', down', b.out, fresh) BY <1>8, <2>5, <2>6, PartHeld
  <2> QED BY <2>7
<1>9. Held(c', heard', down', b'.out, fresh')
  <2>1. CASE down # <<>> /\ p = Head(down) /\ down' = Tail(down) BY <1>7, <2>1
  <2>2. CASE p = Rest /\ Thinned(down', down)
    <3>1. p.type = SHORT BY <2>2 DEF Rest
    <3>2. \E n \in Nat : Part(down', down, n) BY <1>1, <1>11, <2>2, PartThinned
    <3> QED BY <1>8, <3>1, <3>2
  <2>3. CASE p = [type |-> TIMEOUT] /\ down' = down
    <3>1. p.type = TIMEOUT BY <2>3
    <3>2. Part(down', down, 0) /\ 0 \in Nat BY <1>1, <2>3, PartNothing
    <3>3. \E n \in Nat : Part(down', down, n) BY <3>2
    <3> QED BY <1>8, <3>1, <3>3
  <2> QED BY <1>2, <2>1, <2>2, <2>3 DEF TakenAs
<1>10. Modest BY <1>1, <1>2, TurnModest
<1> QED BY <1>6, <1>9, <1>10, ModestAsks DEF HearsOnce

\* Every call of the application, and every turn and timer of one under way.
LEMMA ClientHears ==
  ASSUME Types, Once(c), HearsOnce, ~CleanSession => MQTTCLIENT_QOS2,
         App_connect \/ App_publish \/ App_call \/ App_yield \/ Client
  PROVE  HearsOnce'
<1>1. ClientTypes /\ b' = b
  BY DEF Types, App_connect, App_publish, App_call, App_yield, Client, Within, Others
<1>2. CASE App_connect
  <2>1. connect /\ fresh' = fresh BY <1>2 DEF App_connect
  <2>2. down' = down /\ heard' = heard BY <2>1 DEF connect, NothingHeard
  <2> QED BY <1>1, <2>1, <2>2, ConnectTable, ConnectModest, CallHears
<1>3. CASE App_publish
  <2>1. PICK m \in OutMsgs \cap fresh, q \in QoSs : publish(m, q) /\ fresh' = fresh \ {m}
    BY <1>3 DEF App_publish
  <2>2. down' = down /\ heard' = heard BY <2>1 DEF publish, NothingHeard
  <2>3. fresh' \cap InMsgs = fresh \cap InMsgs BY <2>1, APIAssumption
  <2>4. CallTable(c', c) /\ Modest BY <1>1, <2>1, LevelsType, PublishModest
  <2> QED BY <1>1, <2>2, <2>3, <2>4, CallHears
<1>4. CASE App_call
  <2>1. /\ fresh' = fresh
        /\ \/ \E t \in Topics, q \in QoSs : subscribe(t, q)
           \/ \E t \in Topics : unsubscribe(t)
           \/ disconnect
           \/ \E op \in {"publish", "subscribe", "unsubscribe"} : Refused(op)
    BY <1>4 DEF App_call
  <2>2. down' = down /\ heard' = heard
    BY <2>1 DEF subscribe, unsubscribe, Request, disconnect, Refused, NothingHeard
  <2>3. CallTable(c', c) /\ Modest
    BY <1>1, <2>1, SubscribeModest, DisconnectModest, RefusedModest
  <2> QED BY <1>1, <2>1, <2>2, <2>3, CallHears
<1>5. CASE App_yield
  <2>1. yield /\ fresh' = fresh BY <1>5 DEF App_yield
  <2>2. down' = down /\ heard' = heard BY <2>1 DEF yield, NothingHeard
  <2> QED BY <1>1, <2>1, <2>2, YieldModest, CallHears
<1>6. CASE Client
  <2>1. /\ fresh' = fresh
        /\ Turns \/ timer_over \/ idle_over \/ ping_over
    BY <1>6 DEF Client, Within, Turns
  <2>2. CASE Turns BY <1>1, <2>1, <2>2, TurnHears
  <2>3. CASE timer_over
    <3>1. down' = down /\ heard' = heard BY <2>3 DEF timer_over, NothingHeard
    <3> QED BY <1>1, <2>1, <2>3, <3>1, TimerModest, CallHears
  <2>4. CASE idle_over \/ ping_over
    <3>1. down' = down /\ heard' = heard BY <2>4 DEF idle_over, ping_over
    <3> QED BY <1>1, <2>1, <2>4, <3>1, ObjectTimerModest, CallHears
  <2> QED BY <2>1, <2>2, <2>3, <2>4
<1> QED BY <1>2, <1>3, <1>4, <1>5, <1>6

-----------------------------------------------------------------------------
(* The connection and the broker. *)

LEMMA HeldNow ==
  ASSUME Types, HearsOnce
  PROVE  /\ Held(c, heard, down, b.out, fresh)
         /\ heard \in [InMsgs -> Nat] /\ down \in Seq(DownPacket) /\ b.out \in Seq(Kept)
         /\ up \in Seq(UpPacket) /\ b \in BrokerObject
BY DEF HearsOnce, Types, ClientTypes, ChannelTypes, BrokerTypes, BrokerObject

\* A step that takes a packet from the way up at most, and grants nothing.
LEMMA BrokerHears ==
  ASSUME Types, HearsOnce, c' = c, call' = call, heard' = heard, fresh' = fresh,
         \/ up' \in {up, <<>>}
         \/ up # <<>> /\ up' = Tail(up),
         \A t \in Topics : b'.subs[t] \in {b.subs[t], NotSubscribed},
         Held(c, heard, down', b'.out, fresh)
  PROVE  HearsOnce'
<1>1. up \in Seq(UpPacket) BY HeldNow
<1>2. ASSUME NEW Q, Asks(up, Q) PROVE Asks(up', Q) BY <1>1, <1>2, OneAsks, TailAsks
<1>3. Asks(up', QoSs) BY <1>2 DEF HearsOnce
<1>4. Granted(b'.subs) BY DEF HearsOnce, Granted
<1>5. ASSUME NotBegun(c, call, up, b.subs, fresh) PROVE NotBegun(c', call', up', b'.subs, fresh')
  <2>1. Asks(up', {}) BY <1>2, <1>5 DEF NotBegun
  <2>2. \A t \in Topics : b'.subs[t] = NotSubscribed BY <1>5 DEF NotBegun
  <2> QED BY <1>5, <2>1, <2>2 DEF NotBegun
<1> QED BY <1>3, <1>4, <1>5 DEF HearsOnce

LEMMA LostHears ==
  ASSUME Types, HearsOnce, Cut, b' = [b EXCEPT !.on = FALSE, !.suback = NoSuback],
         UNCHANGED <<c, call, heard, fresh>>
  PROVE  HearsOnce'
<1>1. b'.subs = b.subs /\ b'.out = b.out BY HeldNow DEF BrokerObject
<1>2. up' = <<>> BY DEF Cut
<1>3. Part(down', down, 0) BY HeldNow, PartCut
<1>4. 0 \in Nat OBVIOUS
<1>5. Held(c, heard, down', b.out, fresh) BY <1>3, <1>4, HeldNow, PartHeld
<1> QED BY <1>1, <1>2, <1>5, BrokerHears

LEMMA LinkHears ==
  ASSUME Types, HearsOnce, Break \/ Reopen \/ Broker_close
  PROVE  HearsOnce'
<1>1. CASE Break
  <2>1. Cut /\ b' = [b EXCEPT !.on = FALSE, !.suback = NoSuback] /\ UNCHANGED <<c, call, heard, fresh>>
    BY <1>1 DEF Break
  <2> QED BY <2>1, LostHears
<1>2. CASE Broker_close
  <2>1. Cut /\ b' = [b EXCEPT !.on = FALSE, !.suback = NoSuback] /\ UNCHANGED <<c, call, heard, fresh>>
    BY <1>2 DEF Broker_close, BrokerOnly
  <2> QED BY <2>1, LostHears
<1>3. CASE Reopen
  <2>1. UNCHANGED <<c, call, up, heard, down, b, fresh>> BY <1>3 DEF Reopen, clientVars, brokerVars
  <2>2. \A t \in Topics : b'.subs[t] \in {b.subs[t], NotSubscribed} BY <2>1
  <2>3. Held(c, heard, down', b'.out, fresh) BY <2>1, HeldNow
  <2> QED BY <2>1, <2>2, <2>3, BrokerHears
<1> QED BY <1>1, <1>2, <1>3

\* An answer that neither is a message nor releases one.
LEMMA InertHeld ==
  ASSUME Types, HearsOnce, NEW p \in DownPacket, p.type \notin {"PUBLISH", "PUBREL"}, Answers(<<p>>)
  PROVE  Held(c, heard, down', b.out, fresh)
<1>1. Part(down \o <<p>>, down, 0) /\ 0 \in Nat BY HeldNow, PartOne
<1>2. Held(c, heard, down \o <<p>>, b.out, fresh) BY <1>1, HeldNow, PartHeld
<1> QED BY <1>2 DEF Answers

\* The broker answers an accepted CONNECT and sends again what it keeps: nothing
\* of a session that is clean.
LEMMA ConnectHears ==
  ASSUME Types, HearsOnce, Broker_connect
  PROVE  HearsOnce'
<1> DEFINE a == [type |-> "CONNACK", rc |-> SUCCESS]
           s == Again(b'.out)
<1>1. /\ up # <<>> /\ up' = Tail(up) /\ Head(up).type = "CONNECT"
      /\ UNCHANGED <<c, call, heard, fresh>> /\ down' = down \o (<<a>> \o s)
  BY DEF Broker_connect, Reads, BrokerOnly, Answers
<1>2. Head(up).clean = CleanSession BY <1>1, HeldNow, HeadUp, UpFields
<1>3. /\ b'.out = IF CleanSession THEN <<>> ELSE b.out
      /\ \A t \in Topics : b'.subs[t] \in {b.subs[t], NotSubscribed}
  BY <1>2, HeldNow DEF Broker_connect, BrokerObject
<1>4. <<>> \in Seq(Kept) OBVIOUS
<1>5. b'.out \in Seq(Kept) BY <1>3, <1>4, HeldNow
<1>6. s \in Seq(DownPacket) /\ Len(s) = Len(b'.out) BY <1>5, AgainAt
<1>7. a \in DownPacket /\ a.type \notin {"PUBLISH", "PUBREL"} BY DEF DownPacket
<1>8. <<a>> \in Seq(DownPacket) BY <1>7
<1>9. down' = (down \o <<a>>) \o s BY <1>1, <1>6, <1>8, HeldNow, ConcatAssociative
<1> HIDE DEF a, s
<1>10. down \o <<a>> \in Seq(DownPacket) BY <1>8, HeldNow, ConcatProperties
<1>11. Held(c, heard, down \o <<a>>, b.out, fresh)
  <2>1. Part(down \o <<a>>, down, 0) /\ 0 \in Nat BY <1>7, HeldNow, PartOne
  <2> QED BY <2>1, HeldNow, PartHeld
<1>12. CASE CleanSession
  <2>1. Len(s) = 0
    <3>1. Len(<<>>) = 0 OBVIOUS
    <3> QED BY <1>3, <1>6, <1>12, <3>1
  <2>2. Part((down \o <<a>>) \o s, down \o <<a>>, 0)
    <3>1. \A i \in 1..Len(s) : s[i].type \notin {"PUBLISH", "PUBREL"} BY <2>1
    <3> QED BY <1>6, <1>10, <3>1, PartConcat
  <2>3. 0 \in Nat OBVIOUS
  <2>4. Held(c, heard, down', b.out, fresh) BY <1>9, <1>11, <2>2, <2>3, PartHeld
  <2>5. Held(c, heard, down', b'.out, fresh) BY <1>3, <1>12, <2>4, NoneHeld
  <2> QED BY <1>1, <1>3, <2>5, BrokerHears
<1>13. CASE ~CleanSession
  <2>1. b'.out = b.out /\ s = Again(b.out) BY <1>3, <1>13 DEF s
  <2>2. Held(c, heard, (down \o <<a>>) \o Again(b.out), b.out, fresh)
    BY <1>10, <1>11, <1>13, HeldNow, AgainHeld
  <2>3. Held(c, heard, down', b'.out, fresh) BY <1>9, <2>1, <2>2
  <2> QED BY <1>1, <1>3, <2>3, BrokerHears
<1> QED BY <1>12, <1>13

\* The answers to what the client sends but for its acknowledgments.
LEMMA AnswerHears ==
  ASSUME Types, HearsOnce,
         \/ Broker_refuse \/ Broker_publish \/ Broker_pubrel \/ Broker_suback
         \/ Broker_unsubscribe \/ Broker_ping
  PROVE  HearsOnce'
<1>1. ASSUME c' = c, call' = call, heard' = heard, fresh' = fresh,
             up' \in {up, <<>>} \/ (up # <<>> /\ up' = Tail(up)),
             \A t \in Topics : b'.subs[t] \in {b.subs[t], NotSubscribed}, b'.out = b.out,
             NEW p \in DownPacket, p.type \notin {"PUBLISH", "PUBREL"}, Answers(<<p>>)
      PROVE  HearsOnce'
  BY <1>1, InertHeld, BrokerHears
<1>2. CASE Broker_refuse
  <2> DEFINE a == [type |-> "CONNACK", rc |-> "refused"]
  <2>1. Answers(<<a>>) /\ up' = <<>> /\ UNCHANGED <<c, call, heard, fresh, b>> BY <1>2 DEF Broker_refuse
  <2>2. a \in DownPacket /\ a.type \notin {"PUBLISH", "PUBREL"} BY DEF DownPacket
  <2> HIDE DEF a
  <2> QED BY <1>1, <2>1, <2>2
<1>3. CASE Broker_publish
  <2> DEFINE p == Head(up)
             a(t) == [type |-> t, id |-> p.id]
  <2>1. p \in UpPacket /\ p.type = "PUBLISH" /\ up # <<>> /\ up' = Tail(up)
        /\ UNCHANGED <<c, call, heard, fresh>>
    BY <1>3, HeldNow, HeadUp DEF Broker_publish, Reads, BrokerOnly
  <2>2. p.id \in Nat /\ p.qos \in Levels BY <2>1, UpFields, IdsNat
  <2>3. b'.subs = b.subs /\ b'.out = b.out
    <3>1. \E h : b' \in {b, [b EXCEPT !.held = h]} BY <1>3 DEF Broker_publish
    <3> QED BY <3>1, HeldNow DEF BrokerObject
  <2>4. Answers(CASE p.qos = 0 -> <<>>
                  [] p.qos = 1 -> <<a("PUBACK")>>
                  [] p.qos = 2 -> <<a("PUBREC")>>)
    BY <1>3 DEF Broker_publish
  <2> HIDE DEF p
  <2>5. CASE p.qos = 0
    <3>1. down' = down \o <<>> BY <2>4, <2>5 DEF Answers
    <3>2. down' = down BY <3>1, HeldNow, ConcatEmptySeq
    <3>3. Held(c, heard, down', b'.out, fresh) BY <2>3, <3>2, HeldNow
    <3> QED BY <2>1, <2>3, <3>3, BrokerHears
  <2>6. CASE p.qos = 1
    <3>1. Answers(<<a("PUBACK")>>) BY <2>4, <2>6
    <3>2. a("PUBACK") \in DownPacket /\ a("PUBACK").type \notin {"PUBLISH", "PUBREL"}
      BY <2>2 DEF DownPacket, Acks
    <3> HIDE DEF a
    <3> QED BY <1>1, <2>1, <2>3, <3>1, <3>2
  <2>7. CASE p.qos = 2
    <3>1. Answers(<<a("PUBREC")>>) BY <2>4, <2>7
    <3>2. Qos2Used BY <2>2, <2>7, LevelsType
    <3>3. a("PUBREC") \in DownPacket /\ a("PUBREC").type \notin {"PUBLISH", "PUBREL"}
      BY <2>2, <3>2 DEF DownPacket, Acks
    <3> HIDE DEF a
    <3> QED BY <1>1, <2>1, <2>3, <3>1, <3>3
  <2>8. p.qos \in {0, 1, 2}
    <3>1. p.qos \in 0..2 BY <2>2, LevelsType
    <3> QED BY <3>1
  <2> QED BY <2>5, <2>6, <2>7, <2>8
<1>4. CASE Broker_pubrel
  <2> DEFINE p == Head(up)
             a == [type |-> "PUBCOMP", id |-> p.id]
  <2>1. p \in UpPacket /\ p.type = "PUBREL" /\ up # <<>> /\ up' = Tail(up)
        /\ UNCHANGED <<c, call, heard, fresh>> /\ Answers(<<a>>)
    BY <1>4, HeldNow, HeadUp DEF Broker_pubrel, Reads, BrokerOnly
  <2>2. p.id \in Nat /\ Qos2Used BY <2>1, UpFields
  <2>3. b'.subs = b.subs /\ b'.out = b.out
    <3>1. \E h : b' = [b EXCEPT !.held = h] BY <1>4 DEF Broker_pubrel
    <3> QED BY <3>1, HeldNow DEF BrokerObject
  <2>4. a \in DownPacket /\ a.type \notin {"PUBLISH", "PUBREL"} BY <2>2 DEF DownPacket, Acks
  <2> HIDE DEF a
  <2> QED BY <1>1, <2>1, <2>3, <2>4
<1>5. CASE Broker_suback
  <2>1. /\ b.suback # NoSuback /\ Answers(<<b.suback>>) /\ b' = [b EXCEPT !.suback = NoSuback]
        /\ UNCHANGED <<up, c, call, heard, fresh>>
    BY <1>5 DEF Broker_suback, BrokerOnly
  <2>2. b.suback \in Suback /\ b'.subs = b.subs /\ b'.out = b.out BY <2>1, HeldNow DEF BrokerObject
  <2>3. b.suback \in DownPacket /\ b.suback.type \notin {"PUBLISH", "PUBREL"}
    BY <2>2 DEF Suback, DownPacket
  <2> QED BY <1>1, <2>1, <2>2, <2>3
<1>6. CASE Broker_unsubscribe
  <2> DEFINE p == Head(up)
             a == [type |-> "UNSUBACK", id |-> p.id]
  <2>1. p \in UpPacket /\ p.type = "UNSUBSCRIBE" /\ up # <<>> /\ up' = Tail(up)
        /\ UNCHANGED <<c, call, heard, fresh>> /\ Answers(<<a>>)
    BY <1>6, HeldNow, HeadUp DEF Broker_unsubscribe, Reads, BrokerOnly
  <2>2. p.id \in Nat /\ p.topic \in Topics BY <2>1, UpFields, IdsNat
  <2>3. b'.out = b.out /\ b'.subs = [b.subs EXCEPT ![p.topic] = NotSubscribed]
    BY <1>6, HeldNow DEF Broker_unsubscribe, BrokerObject
  <2>4. \A t \in Topics : b'.subs[t] \in {b.subs[t], NotSubscribed}
    <3>1. b.subs \in [Topics -> Levels \cup {NotSubscribed}] BY HeldNow DEF BrokerObject
    <3> QED BY <2>2, <2>3, <3>1
  <2>5. a \in DownPacket /\ a.type \notin {"PUBLISH", "PUBREL"} BY <2>2 DEF DownPacket
  <2> HIDE DEF a, p
  <2> QED BY <1>1, <2>1, <2>3, <2>4, <2>5
<1>7. CASE Broker_ping
  <2> DEFINE a == [type |-> "PINGRESP"]
  <2>1. up # <<>> /\ up' = Tail(up) /\ UNCHANGED <<c, call, heard, fresh, b>> /\ Answers(<<a>>)
    BY <1>7 DEF Broker_ping, Reads, BrokerOnly
  <2>2. a \in DownPacket /\ a.type \notin {"PUBLISH", "PUBREL"} BY DEF DownPacket
  <2> HIDE DEF a
  <2> QED BY <1>1, <2>1, <2>2
<1> QED BY <1>2, <1>3, <1>4, <1>5, <1>6, <1>7

\* The client's acknowledgments, its PUBREC answered by a release.
LEMMA AckHears ==
  ASSUME Types, HearsOnce, Broker_ack
  PROVE  HearsOnce'
<1> DEFINE p == Head(up)
           a == [type |-> "PUBREL", id |-> p.id]
           out1 == [i \in DOMAIN b.out |->
                      IF b.out[i].id = p.id THEN [b.out[i] EXCEPT !.rel = TRUE] ELSE b.out[i]]
<1>1. /\ p \in UpPacket /\ up # <<>> /\ up' = Tail(up) /\ UNCHANGED <<c, call, heard, fresh>>
  BY HeldNow, HeadUp DEF Broker_ack, BrokerOnly
<1>2. \/ b' = [b EXCEPT !.out = Without(b.out, p.id)] /\ down' = down
      \/ p.type = "PUBREC" /\ b' = [b EXCEPT !.out = out1] /\ Answers(<<a>>)
  BY DEF Broker_ack
<1> HIDE DEF p, a, out1
<1>3. CASE b' = [b EXCEPT !.out = Without(b.out, p.id)] /\ down' = down
  <2>1. b'.out = Without(b.out, p.id) /\ b'.subs = b.subs BY <1>3, HeldNow DEF BrokerObject
  <2>2. KeepsFewer(b'.out, b.out) BY <2>1, HeldNow, FewerWithout
  <2>3. Held(c, heard, down', b'.out, fresh) BY <1>3, <2>2, HeldNow, FewerHeld
  <2> QED BY <1>1, <2>1, <2>3, BrokerHears
<1>4. CASE p.type = "PUBREC" /\ b' = [b EXCEPT !.out = out1] /\ Answers(<<a>>)
  <2>1. b'.out = out1 /\ b'.subs = b.subs BY <1>4, HeldNow DEF BrokerObject
  <2>2. p.id \in Nat /\ Qos2Used BY <1>1, <1>4, UpFields
  <2>3. a \in DownPacket /\ a.type = "PUBREL" /\ a.id = p.id BY <2>2 DEF DownPacket, Acks, a
  <2>4. out1 \in Seq(Kept) /\ Len(out1) = Len(b.out)
        /\ \A i \in 1..Len(b.out) :
             out1[i] = IF b.out[i].id = p.id THEN [b.out[i] EXCEPT !.rel = TRUE] ELSE b.out[i]
    <3>1. out1 \in Seq(Kept) BY <2>2, HeldNow, ReleaseType DEF out1
    <3>2. DOMAIN b.out = 1..Len(b.out) /\ Len(b.out) \in Nat BY HeldNow
    <3>3. DOMAIN out1 = 1..Len(b.out) BY <3>2 DEF out1
    <3>4. DOMAIN out1 = 1..Len(out1) /\ Len(out1) \in Nat BY <3>1
    <3>5. Len(out1) = Len(b.out) BY <3>2, <3>3, <3>4
    <3> QED BY <3>1, <3>2, <3>5 DEF out1
  <2>5. Held(c, heard, down \o <<a>>, out1, fresh) BY <2>3, <2>4, HeldNow, ReleaseHeld
  <2>6. Held(c, heard, down', b'.out, fresh) BY <1>4, <2>1, <2>5 DEF Answers
  <2> QED BY <1>1, <2>1, <2>6, BrokerHears
<1> QED BY <1>2, <1>3, <1>4

\* A subscription: what is asked for is one of the application's QoS values, and
\* nothing was before a session that is not clean begins.
LEMMA SubscribeHears ==
  ASSUME Types, HearsOnce, Broker_subscribe
  PROVE  HearsOnce'
<1> DEFINE p == Head(up)
<1>1. /\ p \in UpPacket /\ p.type = "SUBSCRIBE" /\ up # <<>> /\ up' = Tail(up)
      /\ UNCHANGED <<c, call, heard, fresh, down>>
  BY HeldNow, HeadUp DEF Broker_subscribe, Reads, BrokerOnly
<1>2. p.topic \in Topics BY <1>1, UpFields
<1>3. b'.out = b.out /\ b'.subs \in {b.subs, [b.subs EXCEPT ![p.topic] = p.qos]}
  BY <1>1, HeldNow DEF Broker_subscribe, BrokerObject
<1> HIDE DEF p
<1>4. Asks(up, QoSs) /\ Granted(b.subs) BY DEF HearsOnce
<1>5. p.qos \in QoSs BY <1>1, <1>4, HeldNow, TailAsks DEF p
<1>6. Asks(up', QoSs) BY <1>1, <1>4, HeldNow, TailAsks
<1>7. Granted(b'.subs)
  <2>1. b.subs \in [Topics -> Levels \cup {NotSubscribed}] BY HeldNow DEF BrokerObject
  <2> QED BY <1>2, <1>3, <1>4, <1>5, <2>1 DEF Granted
<1>8. ~NotBegun(c, call, up, b.subs, fresh)
  <2> SUFFICES ASSUME Asks(up, {}) PROVE FALSE BY DEF NotBegun
  <2>1. p.qos \in {} BY <1>1, HeldNow, TailAsks DEF p
  <2> QED BY <2>1
<1>9. Held(c, heard, down', b'.out, fresh) BY <1>1, <1>3, HeldNow
<1> QED BY <1>1, <1>6, <1>7, <1>8, <1>9 DEF HearsOnce

\* No subscription and no message of others bring a message down at QoS 1, at
\* which it may come again over the next connection.
NeverAtQoS1 == \A g \in QoSs, q \in InQoSs : (IF g < q THEN g ELSE q) # 1

LEMMA ForwardHears ==
  ASSUME Types, HearsOnce, CleanSession \/ NeverAtQoS1, Broker_forward
  PROVE  HearsOnce'
<1>1. PICK m \in InMsgs \cap fresh, q \in InQoSs :
        LET qos == IF b.subs[Topic] < q THEN b.subs[Topic] ELSE q
            p   == [type |-> "PUBLISH", id |-> FreeId(b.out), qos |-> qos, msg |-> m,
                    topic |-> Topic]
        IN  /\ b.subs[Topic] # NotSubscribed
            /\ fresh' = fresh \ {m}
            /\ b' = IF qos = 0 THEN b
                    ELSE [b EXCEPT !.out = Append(@, [id |-> p.id, qos |-> qos, msg |-> m,
                                                      rel |-> FALSE])]
            /\ down' = IF b.on THEN Append(down, p) ELSE down
            /\ UNCHANGED <<c, call, ret, heard, faults, breaks, calls, promised,
                           up, link, got, acked>>
  BY DEF Broker_forward
<1> DEFINE qos == IF b.subs[Topic] < q THEN b.subs[Topic] ELSE q
           p == [type |-> "PUBLISH", id |-> FreeId(b.out), qos |-> qos, msg |-> m, topic |-> Topic]
           e == [id |-> FreeId(b.out), qos |-> qos, msg |-> m, rel |-> FALSE]
<1>2. b.on \in BOOLEAN /\ b.subs \in [Topics -> Levels \cup {NotSubscribed}] /\ Topic \in Topics
  BY HeldNow, SystemAssumption DEF BrokerObject
<1>3. qos \in Levels /\ (~CleanSession => qos \in {0, 2})
  <2>1. b.subs[Topic] \in QoSs BY <1>1, <1>2 DEF HearsOnce, Granted
  <2>2. q \in 0..2 /\ b.subs[Topic] \in Levels BY <2>1, SystemAssumption, LevelsType
  <2>3. qos \in Levels BY <2>2 DEF Levels
  <2>4. ~CleanSession => qos # 1 BY <2>1 DEF NeverAtQoS1
  <2>5. qos \in 0..2 BY <2>3, LevelsType
  <2> HIDE DEF qos
  <2> QED BY <2>3, <2>4, <2>5
<1>4. FreeId(b.out) \in Nat \ {0} /\ \A k \in DOMAIN b.out : b.out[k].id # FreeId(b.out)
  BY HeldNow, FreeIdType
<1>5. /\ b' = IF qos = 0 THEN b ELSE [b EXCEPT !.out = Append(b.out, e)]
      /\ down' = IF b.on THEN Append(down, p) ELSE down
      /\ UNCHANGED <<c, call, heard, up>> /\ fresh' = fresh \ {m}
  BY <1>1
<1> HIDE DEF qos
<1>6. /\ p \in DownPacket /\ p.type = "PUBLISH" /\ p.msg = m /\ p.id = FreeId(b.out) /\ p.qos = qos
      /\ qos # 0 => e \in Kept
      /\ e.id = FreeId(b.out) /\ e.msg = m /\ e.qos = qos
  <2>1. p \in DownPacket BY <1>3, <1>4 DEF DownPacket
  <2>2. FALSE \in (IF Qos2Used THEN BOOLEAN ELSE {FALSE}) OBVIOUS
  <2> QED BY <1>3, <1>4, <2>1, <2>2 DEF Kept
<1> HIDE DEF p, e
<1>7. b'.out = (IF qos = 0 THEN b.out ELSE Append(b.out, e)) /\ b'.subs = b.subs
  BY <1>5, HeldNow DEF BrokerObject
<1>8. Forwards(down', b'.out, down, b.out, p, e) BY <1>5, <1>6, <1>7 DEF Forwards
<1>9. \A k \in 1..Len(b.out) : b.out[k].id # p.id
  <2>1. DOMAIN b.out = 1..Len(b.out) BY HeldNow
  <2> QED BY <1>4, <1>6, <2>1
<1>10. Comes(p, e, m, b.out) BY <1>3, <1>4, <1>6, <1>9 DEF Comes
<1>11. m \in InMsgs /\ m \in fresh OBVIOUS
<1>12. Held(c, heard, down', b'.out, fresh \ {m})
  BY <1>6, <1>8, <1>10, <1>11, HeldNow, ForwardHeld
<1>13. Asks(up', QoSs) /\ Granted(b'.subs) BY <1>5, <1>7 DEF HearsOnce
<1>14. ~NotBegun(c, call, up, b.subs, fresh) BY <1>1, <1>2 DEF NotBegun
<1> QED BY <1>5, <1>12, <1>13, <1>14 DEF HearsOnce

-----------------------------------------------------------------------------
(* The theorem. *)

LEMMA InitHears == Init => HearsOnce
<1> SUFFICES ASSUME Init PROVE HearsOnce OBVIOUS
<1>1. /\ down = <<>> /\ b.out = <<>> /\ up = <<>> /\ heard = [m \in InMsgs |-> 0]
      /\ b.subs = [t \in Topics |-> NotSubscribed] /\ fresh = InMsgs \cup OutMsgs
      /\ ~c.isconnected /\ call.op = "none"
  BY NoCallType DEF Init, ClientInit, NewClient
<1>2. \A i \in 1..Len(<<>>) : FALSE OBVIOUS
<1>3. Held(c, heard, down, b.out, fresh)
  BY <1>1, <1>2 DEF Held, Repeats, Guarded, Identified, Resendable, Distinct, Unknown
<1>4. Asks(up, QoSs) /\ Asks(up, {}) BY <1>1, OneAsks
<1>5. Granted(b.subs) /\ NotBegun(c, call, up, b.subs, fresh) BY <1>1, <1>4 DEF Granted, NotBegun
<1> QED BY <1>3, <1>4, <1>5 DEF HearsOnce

LEMMA HearsNext ==
  ASSUME Types, Once(c), HearsOnce,
         CleanSession \/ (MQTTCLIENT_QOS2 /\ NeverAtQoS1), [Next]_vars
  PROVE  HearsOnce'
<1>1. CASE App_connect \/ App_publish \/ App_call \/ App_yield \/ Client BY <1>1, ClientHears
<1>2. CASE Broker
  BY <1>2, ConnectHears, AnswerHears, AckHears, SubscribeHears, LinkHears DEF Broker
<1>3. CASE Broker_forward BY <1>3, ForwardHears
<1>4. CASE Break \/ Reopen BY <1>4, LinkHears
<1>5. CASE UNCHANGED vars
  <2>1. UNCHANGED <<c, call, up, heard, down, b, fresh>> BY <1>5 DEF vars, clientVars
  <2> QED BY <2>1 DEF HearsOnce
<1> QED BY <1>1, <1>2, <1>3, <1>4, <1>5 DEF Next

\* A message is heard once at most, however often the connection breaks and the
\* broker sends it again: in a clean session, which forgets its table of ids as
\* the broker forgets its messages, and in one that is not clean when QoS 2 is
\* compiled in and no message comes at QoS 1, at which a second copy is allowed.
THEOREM HeardOnceHolds ==
  ASSUME CleanSession \/ (MQTTCLIENT_QOS2 /\ NeverAtQoS1)
  PROVE  Spec => []HeardOnce
<1> DEFINE I == Once(c) /\ HearsOnce
<1>1. Init => I
  <2> SUFFICES ASSUME Init PROVE I OBVIOUS
  <2>1. c.handlers = [i \in Slots |-> NoTopic] BY DEF Init, ClientInit, NewClient
  <2>2. Once(c) BY <2>1 DEF Once, HandlersOnce
  <2> QED BY <2>2, InitHears
<1>2. Types /\ I /\ [Next]_vars => I'
  <2> SUFFICES ASSUME Types, I, [Next]_vars PROVE I' OBVIOUS
  <2>1. Once(c') BY OnceNext
  <2>2. HearsOnce' BY HearsNext
  <2> QED BY <2>1, <2>2
<1>3. I => HeardOnce BY DEF HearsOnce, Held, HeardOnce
<1> QED BY <1>1, <1>2, <1>3, TypesInvariant, PTL DEF Spec

================================================================================
