-------------------------- MODULE IPConnectionProofs --------------------------
(***************************************************************************)
(* For any number of connections and of writes, what write reports is what *)
(* the peer gets: Spec => []PeerGetsWhatWasWritten.                        *)
(***************************************************************************)
EXTENDS IPConnection, SequenceTheorems, TLAPS

States == {"none", "new", "connecting", "up", "closing", "freed"}
Results == {"-2", "-1", Written}

TypeOK ==
  /\ tcp_pcb \in {NULL, UNSET} \cup Connections
  /\ connected \in BOOLEAN /\ ready \in BOOLEAN /\ wild \in BOOLEAN
  /\ calls \in 0..MaxConnects
  /\ pcb \in [Connections -> States]
  /\ queue \in [Connections -> Seq(Nat)] /\ got \in [Connections -> Seq(Nat)]
  /\ given \in Seq(Nat) /\ result \in Seq(Results)
  /\ Len(given) = Len(result)

\* Connections that no call has made are not there.
Unmade == \A c \in Connections : c > calls => pcb[c] = "none"

\* What is true of the packets t that connection c, in state st, has taken, when the
\* writes were for g and have returned r.
Sound(t, c, st, g, r) ==
  /\ t \in Seq(Nat)
  /\ \A i \in DOMAIN t : t[i] \in 1..Len(r)
  /\ \A i, j \in DOMAIN t : i < j => t[i] < t[j]
  /\ \A n \in DOMAIN r :
       /\ Occurs(n, t) => g[n] = c /\ r[n] # "-1"
       /\ g[n] = c /\ r[n] = Written => Occurs(n, t) \/ st = "freed"

AllSound == \A c \in Connections : Sound(got[c] \o queue[c], c, pcb[c], given, result)

\* The property is not inductive: that a new packet comes last needs the range in
\* Sound, and that a new connection has taken none needs Unmade.
IInv == TypeOK /\ Unmade /\ (~wild => AllSound)

(***************************************************************************)
(* Sequences.                                                              *)
(***************************************************************************)
\* A packet that is delivered goes from the end of one sequence to the other.
LEMMA Moved ==
  ASSUME NEW g \in Seq(Nat), NEW q \in Seq(Nat), q # <<>>
  PROVE  /\ Append(g, Head(q)) \in Seq(Nat) /\ Tail(q) \in Seq(Nat)
         /\ Append(g, Head(q)) \o Tail(q) = g \o q
<1>1. /\ Head(q) \in Nat /\ Tail(q) \in Seq(Nat)
      /\ Len(Tail(q)) = Len(q) - 1
      /\ \A i \in 1..Len(Tail(q)) : Tail(q)[i] = q[i + 1]
  BY HeadTailProperties
<1>2. Len(q) \in Nat /\ Len(g) \in Nat /\ Len(q) # 0 /\ Head(q) = q[1]
  BY EmptySeq, LenProperties
<1>3. /\ Append(g, Head(q)) \in Seq(Nat)
      /\ Len(Append(g, Head(q))) = Len(g) + 1
      /\ \A i \in 1..Len(g) : Append(g, Head(q))[i] = g[i]
      /\ Append(g, Head(q))[Len(g) + 1] = Head(q)
  BY <1>1, AppendProperties
<1> DEFINE a == Append(g, Head(q)) \o Tail(q)
           b == g \o q
<1>4. /\ a \in Seq(Nat) /\ Len(a) = Len(g) + 1 + (Len(q) - 1)
      /\ \A i \in 1..(Len(g) + Len(q)) :
           a[i] = IF i <= Len(g) + 1 THEN Append(g, Head(q))[i] ELSE Tail(q)[i - (Len(g) + 1)]
  BY <1>1, <1>2, <1>3, ConcatProperties
<1>5. /\ b \in Seq(Nat) /\ Len(b) = Len(g) + Len(q)
      /\ \A i \in 1..(Len(g) + Len(q)) : b[i] = IF i <= Len(g) THEN g[i] ELSE q[i - Len(g)]
  BY ConcatProperties
<1>6. ASSUME NEW i \in 1..(Len(g) + Len(q)) PROVE a[i] = b[i]
  <2> HIDE DEF a, b
  <2>1. CASE i <= Len(g)
    <3>1. a[i] = Append(g, Head(q))[i] BY <2>1, <1>2, <1>4
    <3>2. i \in 1..Len(g) BY <2>1, <1>2
    <3>3. b[i] = g[i] BY <2>1, <1>5
    <3> QED BY <3>1, <3>2, <3>3, <1>3
  <2>2. CASE i = Len(g) + 1
    <3>1. a[i] = Append(g, Head(q))[i] BY <2>2, <1>2, <1>4
    <3>2. i - Len(g) = 1 /\ ~(i <= Len(g)) BY <2>2, <1>2
    <3>3. b[i] = q[1] BY <3>2, <1>5
    <3> QED BY <2>2, <3>1, <3>3, <1>2, <1>3
  <2>3. CASE i > Len(g) + 1
    <3>1. i - (Len(g) + 1) \in 1..Len(Tail(q)) BY <2>3, <1>1, <1>2
    <3>2. Tail(q)[i - (Len(g) + 1)] = q[(i - (Len(g) + 1)) + 1] BY <3>1, <1>1
    <3>3. (i - (Len(g) + 1)) + 1 = i - Len(g) BY <1>2
    <3>4. a[i] = Tail(q)[i - (Len(g) + 1)] BY <2>3, <1>2, <1>4
    <3>5. b[i] = q[i - Len(g)] BY <2>3, <1>2, <1>5
    <3> QED BY <3>2, <3>3, <3>4, <3>5
  <2> QED BY <2>1, <2>2, <2>3, <1>2
<1>7. a = b
  <2> HIDE DEF a, b
  <2>1. Len(a) = Len(b) BY <1>2, <1>4, <1>5
  <2>2. \A i \in 1..Len(a) : a[i] = b[i] BY <1>2, <1>4, <1>6
  <2> QED BY <2>1, <2>2, <1>4, <1>5, SeqEqual
<1> QED BY <1>1, <1>3, <1>7

\* A packet that is queued comes last.
LEMMA Queued ==
  ASSUME NEW g \in Seq(Nat), NEW q \in Seq(Nat), NEW n \in Nat
  PROVE  /\ Append(q, n) \in Seq(Nat)
         /\ g \o Append(q, n) = Append(g \o q, n)
<1>1. <<n>> \in Seq(Nat) /\ g \o q \in Seq(Nat) BY ConcatProperties
<1>2. Append(q, n) = q \o <<n>> /\ Append(g \o q, n) = (g \o q) \o <<n>> BY <1>1, AppendIsConcat
<1>3. (g \o q) \o <<n>> = g \o (q \o <<n>>) BY <1>1, ConcatAssociative
<1> QED BY <1>2, <1>3, AppendProperties

(***************************************************************************)
(* What steps do to Sound.                                                 *)
(***************************************************************************)
\* A state that only becomes freed.
LEMMA Ages ==
  ASSUME NEW t, NEW c, NEW st, NEW nst, NEW g, NEW r,
         Sound(t, c, st, g, r), st = "freed" => nst = "freed"
  PROVE  Sound(t, c, nst, g, r)
BY DEF Sound

\* A connection that is freed with what is in its queue.
LEMMA Freed ==
  ASSUME NEW g \in Seq(Nat), NEW q \in Seq(Nat), NEW c, NEW st, NEW w, NEW r,
         Sound(g \o q, c, st, w, r)
  PROVE  Sound(g \o <<>>, c, "freed", w, r)
<1>1. g \o <<>> = g BY ConcatEmptySeq
<1>2. /\ Len(g \o q) = Len(g) + Len(q) /\ g \o q \in Seq(Nat)
      /\ \A i \in 1..(Len(g) + Len(q)) : (g \o q)[i] = IF i <= Len(g) THEN g[i] ELSE q[i - Len(g)]
  BY ConcatProperties
<1>3. Len(g) \in Nat /\ Len(q) \in Nat /\ DOMAIN g = 1..Len(g) /\ DOMAIN (g \o q) = 1..Len(g \o q)
  BY <1>2, LenProperties
<1>4. DOMAIN g \subseteq DOMAIN (g \o q) /\ \A i \in DOMAIN g : (g \o q)[i] = g[i]
  BY <1>2, <1>3
<1>5. \A n : Occurs(n, g) => Occurs(n, g \o q) BY <1>4 DEF Occurs
<1> QED BY <1>1, <1>4, <1>5 DEF Sound

\* A write that this connection does not take, because it was for another one or
\* because it failed.
LEMMA NotTaken ==
  ASSUME NEW t, NEW c, NEW st, NEW g \in Seq(Nat), NEW r \in Seq(Results),
         NEW p \in Nat, NEW x \in Results,
         Len(g) = Len(r), Sound(t, c, st, g, r), p = c => x # Written
  PROVE  Sound(t, c, st, Append(g, p), Append(r, x))
<1>1. Len(r) \in Nat /\ DOMAIN r = 1..Len(r) BY LenProperties
<1>2. /\ Append(r, x) \in Seq(Results) /\ Len(Append(r, x)) = Len(r) + 1
      /\ \A i \in 1..Len(r) : Append(r, x)[i] = r[i]
      /\ Append(r, x)[Len(r) + 1] = x
  BY AppendProperties
<1>3. /\ \A i \in 1..Len(r) : Append(g, p)[i] = g[i]
      /\ Append(g, p)[Len(r) + 1] = p
  BY AppendProperties
<1>4. DOMAIN Append(r, x) = 1..(Len(r) + 1) BY <1>2, LenProperties
<1>5. t \in Seq(Nat) /\ \A i \in DOMAIN t : t[i] \in 1..(Len(r) + 1) BY <1>1 DEF Sound
<1>6. ~Occurs(Len(r) + 1, t) BY <1>1 DEF Sound, Occurs
<1>7. ASSUME NEW n \in 1..(Len(r) + 1)
      PROVE  /\ Occurs(n, t) => Append(g, p)[n] = c /\ Append(r, x)[n] # "-1"
             /\ Append(g, p)[n] = c /\ Append(r, x)[n] = Written => Occurs(n, t) \/ st = "freed"
  <2>1. CASE n \in 1..Len(r) BY <2>1, <1>1, <1>2, <1>3 DEF Sound
  <2>2. CASE n = Len(r) + 1 BY <2>2, <1>2, <1>3, <1>6
  <2> QED BY <2>1, <2>2, <1>1
<1> QED BY <1>2, <1>4, <1>5, <1>7 DEF Sound

\* A write that its connection takes.
LEMMA TakenBy ==
  ASSUME NEW t, NEW c \in Nat, NEW st, NEW g \in Seq(Nat), NEW r \in Seq(Results),
         NEW x \in Results,
         Len(g) = Len(r), Sound(t, c, st, g, r), x # "-1"
  PROVE  Sound(Append(t, Len(r) + 1), c, st, Append(g, c), Append(r, x))
<1>1. Len(r) \in Nat /\ DOMAIN r = 1..Len(r) BY LenProperties
<1>2. /\ Append(r, x) \in Seq(Results) /\ Len(Append(r, x)) = Len(r) + 1
      /\ \A i \in 1..Len(r) : Append(r, x)[i] = r[i]
      /\ Append(r, x)[Len(r) + 1] = x
  BY AppendProperties
<1>3. /\ \A i \in 1..Len(r) : Append(g, c)[i] = g[i]
      /\ Append(g, c)[Len(r) + 1] = c
  BY AppendProperties
<1>4. DOMAIN Append(r, x) = 1..(Len(r) + 1) BY <1>2, LenProperties
<1> DEFINE u == Append(t, Len(r) + 1)
<1>5. t \in Seq(Nat) /\ Len(t) \in Nat /\ DOMAIN t = 1..Len(t) BY LenProperties DEF Sound
<1>6. /\ u \in Seq(Nat) /\ Len(u) = Len(t) + 1
      /\ \A i \in 1..Len(t) : u[i] = t[i]
      /\ u[Len(t) + 1] = Len(r) + 1
  BY <1>1, <1>5, AppendProperties
<1>7. DOMAIN u = 1..(Len(t) + 1) BY <1>6, LenProperties
<1> HIDE DEF u
<1>8. ASSUME NEW i \in DOMAIN u PROVE u[i] \in 1..(Len(r) + 1)
  <2>1. CASE i \in 1..Len(t)
    <3>1. u[i] = t[i] /\ t[i] \in 1..Len(r) BY <2>1, <1>5, <1>6 DEF Sound
    <3> QED BY <3>1, <1>1
  <2>2. CASE i = Len(t) + 1 BY <2>2, <1>1, <1>6
  <2> QED BY <2>1, <2>2, <1>5, <1>7
<1>9. ASSUME NEW i \in DOMAIN u, NEW j \in DOMAIN u, i < j PROVE u[i] < u[j]
  <2>1. i \in 1..Len(t) BY <1>5, <1>7, <1>9
  <2>2. u[i] = t[i] /\ t[i] \in 1..Len(r) BY <2>1, <1>5, <1>6 DEF Sound
  <2>3. CASE j \in 1..Len(t) BY <2>1, <2>3, <1>5, <1>6, <1>9 DEF Sound
  <2>4. CASE j = Len(t) + 1 BY <2>2, <2>4, <1>1, <1>6
  <2> QED BY <2>3, <2>4, <1>5, <1>7
<1>10. Occurs(Len(r) + 1, u) BY <1>5, <1>6, <1>7 DEF Occurs
<1>11. ASSUME NEW n \in 1..Len(r) PROVE Occurs(n, u) <=> Occurs(n, t)
  <2>1. ASSUME NEW i \in DOMAIN t, t[i] = n PROVE Occurs(n, u)
    <3>1. i \in DOMAIN u /\ u[i] = n BY <2>1, <1>5, <1>6, <1>7
    <3> QED BY <3>1 DEF Occurs
  <2>2. ASSUME NEW i \in DOMAIN u, u[i] = n PROVE Occurs(n, t)
    <3>1. n # Len(r) + 1 BY <1>1
    <3>2. i # Len(t) + 1 BY <2>2, <3>1, <1>6
    <3>3. i \in DOMAIN t /\ t[i] = n BY <2>2, <3>2, <1>5, <1>6, <1>7
    <3> QED BY <3>3 DEF Occurs
  <2> QED BY <2>1, <2>2 DEF Occurs
<1>12. ASSUME NEW n \in 1..(Len(r) + 1)
       PROVE  /\ Occurs(n, u) => Append(g, c)[n] = c /\ Append(r, x)[n] # "-1"
              /\ Append(g, c)[n] = c /\ Append(r, x)[n] = Written => Occurs(n, u) \/ st = "freed"
  <2>1. CASE n \in 1..Len(r) BY <2>1, <1>1, <1>2, <1>3, <1>11 DEF Sound
  <2>2. CASE n = Len(r) + 1 BY <2>2, <1>2, <1>3, <1>10
  <2> QED BY <2>1, <2>2, <1>1
<1>13. Sound(u, c, st, Append(g, c), Append(r, x)) BY <1>2, <1>4, <1>6, <1>8, <1>9, <1>12 DEF Sound
<1> QED BY <1>13 DEF u

(***************************************************************************)
(* The invariant.                                                          *)
(***************************************************************************)
\* At the start no connection has been made and nothing written.
LEMMA InitIInv == Init => IInv
<1> SUFFICES ASSUME Init PROVE IInv OBVIOUS
<1>1. TypeOK
  <2>1. <<>> \in Seq(Nat) /\ <<>> \in Seq(Results) BY EmptySeq
  <2>2. tcp_pcb \in {NULL, UNSET} /\ connected = FALSE /\ ready = FALSE /\ wild = FALSE /\ given = <<>> /\ result = <<>>
    BY DEF Init
  <2>3. calls \in 0..MaxConnects BY IPConnectionAssumption DEF Init
  <2>4. pcb \in [Connections -> States] BY DEF Init, States
  <2>5. queue \in [Connections -> Seq(Nat)] /\ got \in [Connections -> Seq(Nat)] BY <2>1 DEF Init
  <2> QED BY <2>1, <2>2, <2>3, <2>4, <2>5 DEF TypeOK
<1>2. Unmade BY DEF Init, Unmade
<1>3. ASSUME NEW c \in Connections PROVE Sound(got[c] \o queue[c], c, pcb[c], given, result)
  <2>1. got[c] = <<>> /\ queue[c] = <<>> /\ result = <<>> BY DEF Init
  <2>2. <<>> \in Seq(Nat) /\ Len(<<>>) = 0 /\ DOMAIN <<>> = {} BY EmptySeq, LenProperties
  <2>3. <<>> \o <<>> = <<>> BY <2>2, ConcatEmptySeq
  <2> QED BY <2>1, <2>2, <2>3 DEF Sound
<1> QED BY <1>1, <1>2, <1>3 DEF IInv, AllSound

\* A pcb that a call finds is one that connect made.
LEMMA LiveIsMade ==
  ASSUME IInv, Live(tcp_pcb)
  PROVE  /\ tcp_pcb \in Connections /\ tcp_pcb <= calls
         /\ pcb[tcp_pcb] \in {"new", "connecting", "up"}
BY IPConnectionAssumption DEF IInv, TypeOK, Unmade, Live, NULL, Connections

\* When only the states of connections change, and none that is freed, all stays sound.
LEMMA StatesChange ==
  ASSUME AllSound, UNCHANGED <<queue, got, given, result>>,
         \A c \in Connections : pcb[c] = "freed" => pcb'[c] = "freed"
  PROVE  AllSound'
<1> SUFFICES ASSUME NEW c \in Connections
             PROVE  Sound(got'[c] \o queue'[c], c, pcb'[c], given', result')
  BY DEF AllSound
<1>1. Sound(got[c] \o queue[c], c, pcb[c], given, result) BY DEF AllSound
<1> QED BY <1>1, Ages

\* When one connection is freed, and what is in its queue with it.
LEMMA OneFreed ==
  ASSUME TypeOK, AllSound, UNCHANGED <<got, given, result>>,
         NEW p \in Connections,
         pcb' = [pcb EXCEPT ![p] = "freed"], queue' = [queue EXCEPT ![p] = <<>>]
  PROVE  AllSound'
<1> SUFFICES ASSUME NEW c \in Connections
             PROVE  Sound(got'[c] \o queue'[c], c, pcb'[c], given', result')
  BY DEF AllSound
<1>1. Sound(got[c] \o queue[c], c, pcb[c], given, result) BY DEF AllSound
<1>2. CASE c = p
  <2>1. queue'[c] = <<>> /\ pcb'[c] = "freed" /\ got[c] \in Seq(Nat) /\ queue[c] \in Seq(Nat)
    BY <1>2 DEF TypeOK
  <2>2. Sound(got[c] \o <<>>, c, "freed", given, result) BY <1>1, <2>1, Freed
  <2> QED BY <2>1, <2>2
<1>3. CASE c # p
  <2>1. queue'[c] = queue[c] /\ pcb'[c] = pcb[c] BY <1>3 DEF TypeOK
  <2> QED BY <1>1, <2>1
<1> QED BY <1>2, <1>3

\* A write keeps all sound: the packet is the last of its connection's, or of none's.
LEMMA WriteSound ==
  ASSUME IInv, write, ~wild, ~wild'
  PROVE  AllSound' /\ given' \in Seq(Nat) /\ result' \in Seq(Results)
         /\ Len(given') = Len(result') /\ queue' \in [Connections -> Seq(Nat)]
<1> DEFINE n == Len(result) + 1
<1>1. Live(tcp_pcb) BY DEF write
<1>2. tcp_pcb \in Connections /\ tcp_pcb \in Nat BY <1>1, LiveIsMade, IPConnectionAssumption DEF Connections
<1>3. PICK taken \in BOOLEAN, sent \in BOOLEAN :
        /\ queue' = IF taken THEN [queue EXCEPT ![tcp_pcb] = Append(@, n)] ELSE queue
        /\ given' = Append(given, tcp_pcb)
        /\ result' = Append(result, ResultOf(taken, sent))
  BY <1>1 DEF write
<1> DEFINE x == ResultOf(taken, sent)
<1>4. x \in Results /\ (taken => x # "-1") /\ (~taken => x # Written)
  BY DEF ResultOf, Results, Written
<1> HIDE DEF x
<1>5. TypeOK /\ AllSound /\ UNCHANGED <<got, pcb>> BY DEF IInv, write
<1>6. /\ given \in Seq(Nat) /\ result \in Seq(Results) /\ Len(given) = Len(result)
      /\ n \in Nat
  BY <1>5, LenProperties DEF TypeOK
<1>7. ASSUME NEW c \in Connections
      PROVE  /\ Sound(got'[c] \o queue'[c], c, pcb'[c], given', result')
             /\ queue'[c] \in Seq(Nat)
  <2>1. Sound(got[c] \o queue[c], c, pcb[c], given, result) /\ c \in Nat
        /\ got[c] \in Seq(Nat) /\ queue[c] \in Seq(Nat)
    BY <1>5, IPConnectionAssumption DEF AllSound, TypeOK, Connections
  <2>2. CASE taken /\ c = tcp_pcb
    <3>1. queue'[c] = Append(queue[c], n) BY <1>3, <1>5, <2>2 DEF TypeOK
    <3>2. Append(queue[c], n) \in Seq(Nat) /\ got[c] \o Append(queue[c], n) = Append(got[c] \o queue[c], n)
      <4> HIDE DEF n
      <4> QED BY <1>6, <2>1, Queued
    <3>3. Sound(Append(got[c] \o queue[c], n), c, pcb[c], Append(given, c), Append(result, x))
      BY <1>4, <1>6, <2>1, <2>2, TakenBy
    <3> QED BY <1>3, <1>5, <2>2, <3>1, <3>2, <3>3 DEF x
  <2>3. CASE ~(taken /\ c = tcp_pcb)
    <3>1. queue'[c] = queue[c] BY <1>3, <1>5, <2>3 DEF TypeOK
    <3>2. Sound(got[c] \o queue[c], c, pcb[c], Append(given, tcp_pcb), Append(result, x))
      BY <1>2, <1>4, <1>6, <2>1, <2>3, NotTaken
    <3> QED BY <1>3, <1>5, <2>1, <3>1, <3>2 DEF x
  <2> QED BY <2>2, <2>3
<1>8. queue' \in [Connections -> Seq(Nat)]
  <2>1. CASE taken
    <3>1. queue' = [queue EXCEPT ![tcp_pcb] = Append(@, n)] BY <2>1, <1>3
    <3>2. queue[tcp_pcb] \in Seq(Nat) BY <1>2, <1>5 DEF TypeOK
    <3>3. Append(queue[tcp_pcb], n) \in Seq(Nat) BY <3>2, <1>6, AppendProperties
    <3> QED BY <1>5, <3>1, <3>3 DEF TypeOK
  <2>2. CASE ~taken BY <2>2, <1>3, <1>5 DEF TypeOK
  <2> QED BY <2>1, <2>2
<1>9. given' \in Seq(Nat) /\ result' \in Seq(Results) /\ Len(given') = Len(result')
  BY <1>2, <1>3, <1>4, <1>6, AppendProperties DEF x
<1> QED BY <1>7, <1>8, <1>9 DEF AllSound

\* A delivery keeps what the connection has taken.
LEMMA DeliverSound ==
  ASSUME TypeOK, NEW p \in Connections, Deliver(p)
  PROVE  /\ AllSound => AllSound'
         /\ queue' \in [Connections -> Seq(Nat)] /\ got' \in [Connections -> Seq(Nat)]
<1>1. queue[p] \in Seq(Nat) /\ got[p] \in Seq(Nat) /\ queue[p] # <<>> BY DEF Deliver, TypeOK
<1>2. /\ Append(got[p], Head(queue[p])) \in Seq(Nat) /\ Tail(queue[p]) \in Seq(Nat)
      /\ Append(got[p], Head(queue[p])) \o Tail(queue[p]) = got[p] \o queue[p]
  BY <1>1, Moved
<1>3. /\ queue' = [queue EXCEPT ![p] = Tail(queue[p])]
      /\ got' = [got EXCEPT ![p] = Append(got[p], Head(queue[p]))]
      /\ UNCHANGED <<pcb, given, result>>
  BY DEF Deliver, writes
<1>4. queue' \in [Connections -> Seq(Nat)] /\ got' \in [Connections -> Seq(Nat)]
  BY <1>2, <1>3 DEF TypeOK
<1>5. ASSUME NEW c \in Connections PROVE got'[c] \o queue'[c] = got[c] \o queue[c]
  <2>1. CASE c = p
    <3>1. queue'[c] = Tail(queue[p]) /\ got'[c] = Append(got[p], Head(queue[p])) BY <2>1, <1>3 DEF TypeOK
    <3> QED BY <2>1, <3>1, <1>2
  <2>2. CASE c # p
    <3>1. queue'[c] = queue[c] /\ got'[c] = got[c] BY <2>2, <1>3 DEF TypeOK
    <3> QED BY <3>1
  <2> QED BY <2>1, <2>2
<1> QED BY <1>3, <1>4, <1>5 DEF AllSound

\* Every step keeps the invariant.
LEMMA StepIInv == IInv /\ [Next]_vars => IInv'
<1> SUFFICES ASSUME IInv, [Next]_vars PROVE IInv' OBVIOUS
<1> USE IPConnectionAssumption
<1>1. TypeOK /\ Unmade /\ (~wild => AllSound) BY DEF IInv
<1>2. CASE connect
  <2>1. UNCHANGED <<connected, given, result, wild, queue, got>> /\ ~wild
    BY <1>2 DEF connect, network, writes
  <2>2. CASE tcp_pcb' \in {tcp_pcb, NULL} /\ ready' = ~Careful /\ UNCHANGED <<calls, network>>
    <3>1. TypeOK' BY <1>1, <2>1, <2>2 DEF TypeOK, network
    <3>2. Unmade' BY <1>1, <2>2 DEF Unmade, network
    <3>3. AllSound' BY <1>1, <2>1, <2>2, StatesChange DEF network
    <3> QED BY <3>1, <3>2, <3>3 DEF IInv
  <2>3. CASE /\ calls < MaxConnects /\ calls' = calls + 1 /\ tcp_pcb' = calls'
             /\ \E err \in BOOLEAN :
                  /\ pcb' = [pcb EXCEPT ![calls'] = IF err THEN "new" ELSE "connecting"]
                  /\ ready' = (~err \/ ~Careful)
    <3>1. PICK st \in {"new", "connecting"} :
            pcb' = [pcb EXCEPT ![calls'] = st] /\ ready' \in BOOLEAN
      BY <2>3
    <3>2. calls' \in Connections /\ calls' \in 0..MaxConnects /\ calls' > calls
      BY <1>1, <2>3 DEF TypeOK, Connections
    <3>3. TypeOK' BY <1>1, <2>1, <2>3, <3>1, <3>2 DEF TypeOK, States
    <3>4. Unmade' BY <1>1, <2>3, <3>1, <3>2 DEF Unmade, TypeOK, Connections
    <3>5. \A c \in Connections : pcb[c] = "freed" => pcb'[c] = "freed"
      BY <1>1, <3>1, <3>2 DEF Unmade, TypeOK
    <3>6. AllSound' BY <1>1, <2>1, <3>5, StatesChange
    <3> QED BY <3>3, <3>4, <3>6 DEF IInv
  <2> QED BY <1>2, <2>2, <2>3 DEF connect
<1>3. CASE write
  <2>1. ~wild /\ UNCHANGED <<tcp_pcb, connected, calls, ready, pcb, got>> BY <1>3 DEF write
  <2>2. Unmade' BY <1>1, <2>1 DEF Unmade
  <2>3. CASE wild'
    <3>1. UNCHANGED <<queue, given, result>> /\ wild' = TRUE BY <1>3, <2>3 DEF write, writes
    <3>2. TypeOK' BY <1>1, <2>1, <3>1 DEF TypeOK
    <3> QED BY <2>2, <2>3, <3>2 DEF IInv
  <2>4. CASE ~wild'
    <3>1. /\ AllSound' /\ given' \in Seq(Nat) /\ result' \in Seq(Results)
          /\ Len(given') = Len(result') /\ queue' \in [Connections -> Seq(Nat)]
      BY <1>3, <2>1, <2>4, WriteSound
    <3>2. wild' \in BOOLEAN BY <1>3 DEF write
    <3>3. TypeOK' BY <1>1, <2>1, <3>1, <3>2 DEF TypeOK
    <3> QED BY <2>2, <3>1, <3>3 DEF IInv
  <2> QED BY <2>3, <2>4
<1>4. CASE disconnect
  <2>1. /\ UNCHANGED <<connected, calls, given, result>> /\ ~wild /\ ready' = FALSE
    BY <1>4 DEF disconnect, writes
  <2>2. CASE tcp_pcb = NULL
    <3>1. UNCHANGED <<pcb, queue, got, tcp_pcb, wild>> BY <1>4, <2>2 DEF disconnect, network
    <3>2. TypeOK' BY <1>1, <2>1, <3>1 DEF TypeOK
    <3>3. Unmade' BY <1>1, <2>1, <3>1 DEF Unmade
    <3>4. AllSound' BY <1>1, <2>1, <3>1, StatesChange
    <3> QED BY <3>2, <3>3, <3>4 DEF IInv
  <2>3. CASE tcp_pcb # NULL /\ ~Live(tcp_pcb)
    <3>1. UNCHANGED <<pcb, queue, got>> /\ tcp_pcb' = NULL /\ wild' = TRUE
      BY <1>4, <2>3 DEF disconnect, network
    <3>2. TypeOK' BY <1>1, <2>1, <3>1 DEF TypeOK
    <3>3. Unmade' BY <1>1, <2>1, <3>1 DEF Unmade
    <3> QED BY <3>1, <3>2, <3>3 DEF IInv
  <2>4. CASE tcp_pcb # NULL /\ Live(tcp_pcb)
    <3>1. tcp_pcb \in Connections /\ tcp_pcb <= calls /\ pcb[tcp_pcb] # "freed"
      BY <2>4, LiveIsMade
    <3>2. tcp_pcb' = NULL /\ UNCHANGED <<got, wild>> BY <1>4, <2>4 DEF disconnect
    <3>3. CASE pcb' = [pcb EXCEPT ![tcp_pcb] = "closing"] /\ UNCHANGED queue
      <4>1. TypeOK' BY <1>1, <2>1, <3>2, <3>3 DEF TypeOK, States
      <4>2. Unmade' BY <1>1, <2>1, <3>1, <3>3 DEF Unmade, TypeOK, Connections
      <4>3. \A c \in Connections : pcb[c] = "freed" => pcb'[c] = "freed" BY <1>1, <3>1, <3>3 DEF TypeOK
      <4>4. AllSound' BY <1>1, <2>1, <3>2, <3>3, <4>3, StatesChange
      <4> QED BY <4>1, <4>2, <4>4 DEF IInv
    <3>4. CASE pcb' = [pcb EXCEPT ![tcp_pcb] = "freed"] /\ queue' = [queue EXCEPT ![tcp_pcb] = <<>>]
      <4>1. TypeOK' BY <1>1, <2>1, <3>2, <3>4, EmptySeq DEF TypeOK, States
      <4>2. Unmade' BY <1>1, <2>1, <3>1, <3>4 DEF Unmade, TypeOK, Connections
      <4>3. AllSound' BY <1>1, <2>1, <3>1, <3>2, <3>4, OneFreed
      <4> QED BY <4>1, <4>2, <4>3 DEF IInv
    <3> QED BY <1>4, <2>4, <3>3, <3>4 DEF disconnect
  <2> QED BY <2>2, <2>3, <2>4
<1>5. ASSUME NEW p \in Connections, tcp_client_connected(p) PROVE IInv'
  <2>1. /\ pcb[p] = "connecting" /\ pcb' = [pcb EXCEPT ![p] = "up"] /\ connected' = TRUE
        /\ UNCHANGED <<tcp_pcb, calls, ready, queue, got, given, result, wild>>
    BY <1>5 DEF tcp_client_connected, writes
  <2>2. TypeOK' BY <1>1, <2>1 DEF TypeOK, States
  <2>3. Unmade' BY <1>1, <2>1 DEF Unmade, TypeOK
  <2>4. \A c \in Connections : pcb[c] = "freed" => pcb'[c] = "freed" BY <1>1, <2>1 DEF TypeOK
  <2>5. ~wild => AllSound' BY <1>1, <2>1, <2>4, StatesChange
  <2> QED BY <2>1, <2>2, <2>3, <2>5 DEF IInv
<1>6. ASSUME NEW p \in Connections, tcp_client_err(p) \/ Gone(p) PROVE IInv'
  <2>1. /\ pcb[p] # "none" /\ pcb' = [pcb EXCEPT ![p] = "freed"] /\ queue' = [queue EXCEPT ![p] = <<>>]
        /\ UNCHANGED <<tcp_pcb, connected, calls, ready, got, given, result, wild>>
    BY <1>6 DEF tcp_client_err, Gone, writes
  <2>2. TypeOK' BY <1>1, <2>1, EmptySeq DEF TypeOK, States
  <2>3. Unmade' BY <1>1, <2>1 DEF Unmade, TypeOK
  <2>4. ~wild => AllSound' BY <1>1, <2>1, OneFreed
  <2> QED BY <2>1, <2>2, <2>3, <2>4 DEF IInv
<1>7. ASSUME NEW p \in Connections, Deliver(p) PROVE IInv'
  <2>1. UNCHANGED <<tcp_pcb, connected, calls, ready, pcb, given, result, wild>>
    BY <1>7 DEF Deliver, writes
  <2>2. /\ AllSound => AllSound'
        /\ queue' \in [Connections -> Seq(Nat)] /\ got' \in [Connections -> Seq(Nat)]
    BY <1>1, <1>7, DeliverSound
  <2>3. TypeOK' BY <1>1, <2>1, <2>2 DEF TypeOK
  <2>4. Unmade' BY <1>1, <2>1 DEF Unmade
  <2> QED BY <1>1, <2>1, <2>2, <2>3, <2>4 DEF IInv
<1>8. CASE UNCHANGED vars
  <2>1. UNCHANGED <<tcp_pcb, connected, calls, ready, pcb, queue, got, given, result, wild>>
    BY <1>8 DEF vars
  <2> QED BY <1>1, <2>1 DEF IInv, TypeOK, Unmade, AllSound
<1> QED BY <1>2, <1>3, <1>4, <1>5, <1>6, <1>7, <1>8 DEF Next

\* What the invariant says of the packets is what the property says.
LEMMA IInvSays == IInv => PeerGetsWhatWasWritten
BY DEF IInv, AllSound, Sound, PeerGetsWhatWasWritten, Taken

\* However many connections are opened and packets written, whatever the network and
\* lwIP do: as long as no call has used a pcb that is gone, write's result tells what
\* becomes of the packet, and the peer gets packets in order, once, by their own
\* connection (IPStack::connect, write, disconnect and the callbacks).
THEOREM WrittenReachesPeer == Spec => []PeerGetsWhatWasWritten
<1>1. Spec => []IInv BY InitIInv, StepIInv, PTL DEF Spec
<1> QED BY <1>1, IInvSays, PTL

\* The pointer is null, as the constructor left it or a connection's, connections are numbered in the order of
\* their calls, and every write has its result.
THEOREM ConnectionTypeCorrect == Spec => [](TypeOK /\ Unmade)
<1>1. Spec => []IInv BY InitIInv, StepIInv, PTL DEF Spec
<1>2. IInv => TypeOK /\ Unmade BY DEF IInv
<1> QED BY <1>1, <1>2, PTL

===============================================================================
