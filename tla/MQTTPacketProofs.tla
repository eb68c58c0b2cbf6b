--------------------------- MODULE MQTTPacketProofs ---------------------------
(***************************************************************************)
(* The packets and their readers: what is encoded is decoded, every packet *)
(* is read from its bytes as it was written, a serialiser fits its buffer, *)
(* and every reader returns the packets of a stream, however its bytes     *)
(* come, as long as none is cut short or too long.                         *)
(***************************************************************************)
EXTENDS MQTTReader, SequenceTheorems, WellFoundedInduction, FiniteSetTheorems, TLAPS

Limit == 268435456  \* 128^4
Third == 2097152    \* 128^3

(***************************************************************************)
(* Arithmetic of digits to the base of 128.                                *)
(***************************************************************************)
LEMMA Base128 ==
  ASSUME NEW n \in Nat
  PROVE  /\ n % 128 \in 0..127 /\ n \div 128 \in Nat
         /\ n = 128 * (n \div 128) + (n % 128)
         /\ (128 + (n % 128)) % 128 = (n % 128)
OBVIOUS

LEMMA TwoSteps ==
  ASSUME NEW n \in Nat
  PROVE  /\ n \div 16384 = (n \div 128) \div 128
         /\ n \div Third = (n \div 16384) \div 128
BY SMT DEF Third

LEMMA ShortField ==
  ASSUME NEW n \in Nat
  PROVE  /\ n < 128 => n % 128 = n
         /\ n < 16384 => n \div 128 < 128
         /\ n < Third => n \div 16384 < 128
         /\ n < Limit => n \div Third < 128
BY SMT DEF Limit, Third

\* One byte for each digit, at least one.
LEMMA FieldLength ==
  ASSUME NEW n \in Nat
  PROVE  Len(MQTTPacket_encode(n)) \in 1..4
BY SMT DEF MQTTPacket_encode

\* The field is made of bytes.
LEMMA FieldBytes ==
  ASSUME NEW n \in Nat, n < Limit
  PROVE  MQTTPacket_encode(n) \in Seq(Bytes)
<1>1. /\ n % 128 \in 0..127 /\ (n \div 128) % 128 \in 0..127 /\ (n \div 16384) % 128 \in 0..127
  BY Base128, TwoSteps
<1>2. CASE n < 128 BY <1>2, SMT DEF MQTTPacket_encode, Bytes
<1>3. CASE ~(n < 128) /\ n < 16384 
  <2>1. n \div 128 \in Bytes /\ 128 + (n % 128) \in Bytes BY <1>1, <1>3 DEF Bytes
  <2> QED BY <1>3, <2>1, SMT DEF MQTTPacket_encode, Third
<1>4. CASE ~(n < 16384) /\ n < Third 
  <2>1. n \div 16384 \in Bytes /\ 128 + (n % 128) \in Bytes /\ 128 + ((n \div 128) % 128) \in Bytes BY <1>1, <1>4, SMT DEF Bytes, Third
  <2> QED BY <1>4, <2>1, SMT DEF MQTTPacket_encode, Third
<1>5. CASE ~(n < Third)
  <2>1. /\ n \div Third \in Bytes /\ 128 + (n % 128) \in Bytes /\ 128 + ((n \div 128) % 128) \in Bytes
        /\ 128 + ((n \div 16384) % 128) \in Bytes
    BY <1>1, <1>5, SMT DEF Bytes, Limit, Third
  <2> QED BY <1>5, <2>1, SMT DEF MQTTPacket_encode, Third
<1> QED BY <1>2, <1>3, <1>4, <1>5

\* Decoding what has been encoded gives the length, and no earlier digit ends the field
\* (MQTTPacket_encode and MQTTPacket_decode, decodePacket, MQTTPacket_decodenb).
THEOREM DecodesWhatWasEncoded ==
  ASSUME NEW n \in Nat, n < Limit
  PROVE  /\ Value(MQTTPacket_encode(n)) = n
         /\ Ended(MQTTPacket_encode(n))
         /\ \A k \in 1..(Len(MQTTPacket_encode(n)) - 1) : MQTTPacket_encode(n)[k] >= 128
<1> DEFINE q1 == n \div 128
           q2 == n \div 16384
           q3 == n \div Third
<1>1. /\ q1 \in Nat /\ q2 \in Nat /\ q3 \in Nat
      /\ n = 128 * q1 + (n % 128) /\ q1 = 128 * q2 + (q1 % 128) /\ q2 = 128 * q3 + (q2 % 128)
  <2>1. q1 \in Nat /\ n = 128 * q1 + (n % 128) BY Base128
  <2>2. q2 = q1 \div 128 /\ q3 = q2 \div 128 BY TwoSteps
  <2> HIDE DEF q1, q2, q3
  <2>3. q2 \in Nat /\ q1 = 128 * q2 + (q1 % 128) BY <2>1, <2>2, Base128
  <2>4. q3 \in Nat /\ q2 = 128 * q3 + (q2 % 128) BY <2>2, <2>3, Base128
  <2> QED BY <2>1, <2>3, <2>4
<1>2. /\ n % 128 \in 0..127 /\ q1 % 128 \in 0..127 /\ q2 % 128 \in 0..127
      /\ (128 + (n % 128)) % 128 = (n % 128) /\ (128 + (q1 % 128)) % 128 = (q1 % 128)
      /\ (128 + (q2 % 128)) % 128 = (q2 % 128)
  BY <1>1, Base128
<1>3. CASE n < 128
  <2>1. MQTTPacket_encode(n) = <<n>> BY <1>3, SMT DEF MQTTPacket_encode, Third
  <2>2. n % 128 = n BY <1>3, ShortField
  <2> QED BY <1>3, <2>1, <2>2 DEF Value, Ended
<1>4. CASE ~(n < 128) /\ n < 16384
  <2>1. MQTTPacket_encode(n) = <<128 + (n % 128), q1>> BY <1>4, SMT DEF MQTTPacket_encode, Third
  <2>2. q1 < 128 /\ q1 % 128 = q1 BY <1>1, <1>4, ShortField
  <2> HIDE DEF q1
  <2>3. Value(<<128 + (n % 128), q1>>) = ((128 + (n % 128)) % 128) + 128 * (q1 % 128)
    BY <1>1, <1>2, SMT DEF Value, Third
  <2>4. Value(<<128 + (n % 128), q1>>) = n BY <1>1, <1>2, <2>2, <2>3, SMT DEF Third
  <2> QED BY <1>2, <2>1, <2>2, <2>4 DEF Ended
<1>5. CASE ~(n < 16384) /\ n < Third
  <2>1. MQTTPacket_encode(n) = <<128 + (n % 128), 128 + (q1 % 128), q2>> BY <1>5, SMT DEF MQTTPacket_encode, Third
  <2>2. q2 < 128 /\ q2 % 128 = q2 BY <1>1, <1>5, ShortField
  <2> HIDE DEF q1, q2
  <2>3. Value(<<128 + (n % 128), 128 + (q1 % 128), q2>>)
          = ((128 + (n % 128)) % 128) + 128 * ((128 + (q1 % 128)) % 128) + 16384 * (q2 % 128)
    BY <1>1, <1>2, SMT DEF Value, Third
  <2>4. Value(<<128 + (n % 128), 128 + (q1 % 128), q2>>) = n BY <1>1, <1>2, <2>2, <2>3, SMT DEF Third
  <2> QED BY <1>2, <2>1, <2>2, <2>4 DEF Ended
<1>6. CASE ~(n < Third)
  <2>1. MQTTPacket_encode(n) = <<128 + (n % 128), 128 + (q1 % 128), 128 + (q2 % 128), q3>>
    BY <1>6, SMT DEF MQTTPacket_encode, Third
  <2>2. q3 < 128 /\ q3 % 128 = q3 BY <1>1, <1>6, ShortField
  <2> HIDE DEF q1, q2, q3
  <2>3. Value(<<128 + (n % 128), 128 + (q1 % 128), 128 + (q2 % 128), q3>>)
          = ((128 + (n % 128)) % 128) + 128 * ((128 + (q1 % 128)) % 128) + 16384 * ((128 + (q2 % 128)) % 128)
            + Third * (q3 % 128)
    BY <1>1, <1>2, SMT DEF Value, Third
  <2>4. Value(<<128 + (n % 128), 128 + (q1 % 128), 128 + (q2 % 128), q3>>) = n BY <1>1, <1>2, <2>2, <2>3, SMT DEF Third
  <2> QED BY <1>2, <2>1, <2>2, <2>4 DEF Ended
<1> QED BY <1>3, <1>4, <1>5, <1>6

\* What MQTTPacket_len asks for is enough for the header byte, the field and the rest,
\* and at most one byte too much.
THEOREM LenIsEnough ==
  ASSUME NEW n \in Nat, n < Limit
  PROVE  MQTTPacket_len(n) - (1 + Len(MQTTPacket_encode(n)) + n) \in 0..1
<1>1. CASE n < 128 BY <1>1, SMT DEF MQTTPacket_encode, MQTTPacket_len, Third
<1>2. CASE ~(n < 128) /\ n < 16384 BY <1>2, SMT DEF MQTTPacket_encode, MQTTPacket_len, Third
<1>3. CASE ~(n < 16384) /\ n < Third BY <1>3, SMT DEF MQTTPacket_encode, MQTTPacket_len, Third
<1>4. CASE ~(n < Third) BY <1>4, SMT DEF MQTTPacket_encode, MQTTPacket_len, Third
<1> QED BY <1>1, <1>2, <1>3, <1>4

\* A CONNECT, PUBLISH, SUBSCRIBE or UNSUBSCRIBE is written whole into its buffer or
\* refused, whatever the length of its body.
THEOREM WrittenFits ==
  ASSUME NEW p, NEW buflen \in Nat, NEW header \in Bytes, NEW body \in Seq(Bytes), Len(body) < Limit,
         Written(p, buflen, header, body) # <<>>
  PROVE  Len(Written(p, buflen, header, body)) <= buflen
<1> DEFINE n == Len(body)
           field == MQTTPacket_encode(n)
<1>1. n \in Nat /\ n < Limit BY LenProperties
<1>2. field \in Seq(Bytes) BY <1>1, FieldBytes
<1>3. <<header>> \in Seq(Bytes) /\ Len(<<header>>) = 1 OBVIOUS
<1>4. Len(<<header>> \o field \o body) = 1 + Len(field) + n
  BY <1>2, <1>3, ConcatProperties
<1>5. MQTTPacket_len(n) - (1 + Len(field) + n) \in 0..1 BY <1>1, LenIsEnough
<1>6. Len(field) \in 1..4 /\ MQTTPacket_len(n) \in Int BY <1>1, FieldLength, SMT DEF MQTTPacket_len
<1>7. MQTTPacket_len(n) <= buflen /\ Written(p, buflen, header, body) = <<header>> \o field \o body
  BY <1>6 DEF Written
<1> HIDE DEF n, field
<1> QED BY <1>1, <1>4, <1>5, <1>6, <1>7

\* The last digit has its top bit clear.
LEMMA LastDigit ==
  ASSUME NEW n \in Nat, n < Limit
  PROVE  MQTTPacket_encode(n)[Len(MQTTPacket_encode(n))] < 128
BY ShortField, SMT DEF MQTTPacket_encode, Limit, Third

\* Out of a buffer in which anything follows the field, decodeBuf takes the length that
\* was encoded and the length of its field (MQTTPacket_decodeBuf, bufchar).
THEOREM DecodesFromBuffer ==
  ASSUME NEW n \in Nat, n < Limit, NEW rest \in Seq(Bytes)
  PROVE  MQTTPacket_decode(MQTTPacket_encode(n) \o rest)
           = [value |-> n, len |-> Len(MQTTPacket_encode(n))]
<1> DEFINE e == MQTTPacket_encode(n)
           k == Len(e)
           b == e \o rest
           Is(m) == /\ m = 4 \/ b[m] < 128
                    /\ \A i \in 1..(m - 1) : b[i] >= 128
<1>1. e \in Seq(Bytes) /\ k \in 1..4 BY FieldBytes, FieldLength
<1>2. /\ Value(e) = n /\ e[k] < 128
      /\ \A i \in 1..(k - 1) : e[i] >= 128
  BY DecodesWhatWasEncoded, LastDigit
<1>3. \A i \in 1..k : b[i] = e[i]
  <2>1. Len(e) \in Nat /\ Len(rest) \in Nat BY <1>1, LenProperties
  <2>2. \A i \in 1..(Len(e) + Len(rest)) : (e \o rest)[i] = IF i <= Len(e) THEN e[i] ELSE rest[i - Len(e)]
    BY <1>1, ConcatProperties
  <2> HIDE DEF e
  <2> QED BY <2>1, <2>2
<1>4. SubSeq(b, 1, k) = e
  <2>1. k \in 1..Len(e) /\ 1 \in 1..Len(e) BY <1>1
  <2>2. SubSeq(e \o rest, 1, k) = SubSeq(e, 1, k) BY <1>1, <2>1, SubSeqOfConcat1
  <2>3. SubSeq(e, 1, k) = e BY <1>1, SubSeqFull
  <2> QED BY <2>2, <2>3
<1> HIDE DEF b
<1>11. ASSUME NEW i \in 1..k PROVE e[i] < 128 <=> ~(e[i] >= 128)
  <2> HIDE DEF e
  <2>1. e[i] \in Bytes BY <1>1, ElementOfSeq
  <2>2. ASSUME NEW x \in Bytes PROVE x < 128 <=> ~(x >= 128) BY DEF Bytes
  <2> QED BY <2>1, <2>2
<1>12. \A i \in 1..k : b[i] < 128 <=> ~(b[i] >= 128) BY <1>3, <1>11
<1> HIDE DEF e, k
<1>5. k \in 1..4 /\ Is(k) BY <1>1, <1>2, <1>3
<1>6. ASSUME NEW m \in 1..4, Is(m) PROVE m = k
  <2>1. ~(m < k) 
    <3> SUFFICES ASSUME m < k PROVE FALSE OBVIOUS
    <3>1. m \in 1..(k - 1) /\ m # 4 BY <1>5
    <3>2. b[m] >= 128 /\ m \in 1..k BY <3>1, <1>5
    <3> QED BY <3>1, <3>2, <1>6, <1>12
  <2>2. ~(k < m)
    <3> SUFFICES ASSUME k < m PROVE FALSE OBVIOUS
    <3>1. b[k] >= 128 BY <1>5, <1>6
    <3>2. b[k] < 128 /\ k \in 1..k BY <1>2, <1>3, <1>5
    <3> QED BY <3>1, <3>2, <1>12
  <2> QED BY <1>5, <2>1, <2>2
<1>7. (CHOOSE m \in 1..4 : Is(m)) = k BY <1>5, <1>6
<1>8. Field(b) = e BY <1>4, <1>7 DEF Field
<1>9. ~(e[Len(e)] >= 128) /\ Len(e) = k
  <2>1. k \in 1..k BY <1>5
  <2> QED BY <2>1, <1>2, <1>11 DEF k
<1>10. MQTTPacket_decode(b) = [value |-> n, len |-> k] BY <1>2, <1>8, <1>9 DEF MQTTPacket_decode
<1> QED BY <1>10 DEF b, k, e

(***************************************************************************)
(* Induction over the numbers and over what is put together from a list.   *)
(***************************************************************************)
LEMMA NatInd ==
  ASSUME NEW S, S \subseteq Nat, 0 \in S, \A n \in S : n + 1 \in S
  PROVE  \A n \in Nat : n \in S
<1> DEFINE R == OpToRel(<, Nat)
           T == Nat \ S
<1>1. IsWellFoundedOn(R, Nat) BY NatLessThanWellFounded
<1>2. \A i, j \in Nat : <<j, i>> \in R <=> j < i BY DEF OpToRel
<1> HIDE DEF R
<1> SUFFICES ASSUME T # {} PROVE FALSE OBVIOUS
<1>3. PICK x \in T : \A y \in T : ~(<<y, x>> \in R)
  <2>1. T \subseteq Nat OBVIOUS
  <2> HIDE DEF T
  <2> QED BY <1>1, <2>1, WFMin
<1>4. x \in Nat /\ x \notin S /\ x # 0 BY <1>3
<1>5. x - 1 \in Nat /\ x - 1 < x /\ (x - 1) + 1 = x BY <1>4
<1>6. x - 1 \notin S BY <1>4, <1>5
<1>7. x - 1 \in T BY <1>5, <1>6
<1> QED BY <1>2, <1>3, <1>4, <1>5, <1>7

\* f[i] is what the first i of the sequences ss make up.
IsUpto(f, ss) == f = [i \in 0..Len(ss) |-> IF i = 0 THEN <<>> ELSE f[i - 1] \o ss[i]]
IsUptoOf(f, ss, k, S) ==
  /\ f \in [0..k -> Seq(S)] /\ f[0] = <<>>
  /\ \A i \in 1..k : f[i] = f[i - 1] \o ss[i]

LEMMA UptoExists ==
  ASSUME NEW S, NEW ss \in Seq(Seq(S))
  PROVE  \E f : IsUptoOf(f, ss, Len(ss), S)
<1> DEFINE K == {k \in Nat : k <= Len(ss) => \E f : IsUptoOf(f, ss, k, S)}
<1>1. Len(ss) \in Nat BY LenProperties
<1>2. 0 \in K
  <2>1. IsUptoOf([i \in 0..0 |-> <<>>], ss, 0, S) BY EmptySeq DEF IsUptoOf
  <2> QED BY <2>1
<1>3. ASSUME NEW k \in K PROVE k + 1 \in K
  <2> SUFFICES ASSUME k + 1 <= Len(ss) PROVE \E f : IsUptoOf(f, ss, k + 1, S) OBVIOUS
  <2>1. k \in Nat /\ k <= Len(ss) BY <1>1
  <2>2. PICK f : IsUptoOf(f, ss, k, S) BY <2>1
  <2> DEFINE s == ss[k + 1]
  <2>3. s \in Seq(S) BY <1>1, <2>1, ElementOfSeq
  <2> DEFINE g == [i \in 0..(k + 1) |-> IF i <= k THEN f[i] ELSE f[k] \o s]
  <2> HIDE DEF s
  <2>4. f[k] \in Seq(S) /\ f[k] \o s \in Seq(S) BY <2>1, <2>2, <2>3, ConcatProperties DEF IsUptoOf
  <2>5. g \in [0..(k + 1) -> Seq(S)] BY <2>1, <2>2, <2>4 DEF IsUptoOf
  <2>6. g[0] = <<>> BY <2>1, <2>2 DEF IsUptoOf
  <2>7. ASSUME NEW i \in 1..(k + 1) PROVE g[i] = g[i - 1] \o ss[i]
    <3>1. CASE i <= k 
      <4>1. i \in 1..k /\ i \in 0..(k + 1) /\ i - 1 \in 0..(k + 1) /\ i - 1 <= k BY <2>1, <3>1
      <4>2. f[i] = f[i - 1] \o ss[i] BY <2>2, <4>1, Zenon DEF IsUptoOf
      <4>3. g[i] = f[i] /\ g[i - 1] = f[i - 1] BY <3>1, <4>1
      <4> HIDE DEF g
      <4> QED BY <4>2, <4>3
    <3>2. CASE ~(i <= k) 
      <4>1. i = k + 1 /\ i - 1 = k /\ k \in 0..(k + 1) /\ k + 1 \in 0..(k + 1) /\ ~(k + 1 <= k) BY <2>1, <3>2
      <4>2. g[k + 1] = f[k] \o s /\ g[k] = f[k] BY <4>1
      <4> HIDE DEF g
      <4> QED BY <4>1, <4>2 DEF s
    <3> QED BY <3>1, <3>2
  <2> HIDE DEF g
  <2>8. IsUptoOf(g, ss, k + 1, S) BY <2>5, <2>6, <2>7 DEF IsUptoOf
  <2> QED BY <2>8
<1> HIDE DEF K
<1>4. K \subseteq Nat BY DEF K
<1>5. Len(ss) \in K BY <1>1, <1>2, <1>3, <1>4, NatInd
<1> QED BY <1>1, <1>5 DEF K

\* There is one such function.
LEMMA UptoUnique ==
  ASSUME NEW S, NEW ss \in Seq(Seq(S)), NEW f, NEW g, IsUptoOf(f, ss, Len(ss), S), IsUpto(g, ss)
  PROVE  g = f
<1> DEFINE K == {k \in Nat : k <= Len(ss) => g[k] = f[k]}
<1>1. Len(ss) \in Nat BY LenProperties
<1>2. /\ g = [i \in 0..Len(ss) |-> IF i = 0 THEN <<>> ELSE g[i - 1] \o ss[i]]
      /\ f \in [0..Len(ss) -> Seq(S)] /\ f[0] = <<>>
      /\ \A i \in 1..Len(ss) : f[i] = f[i - 1] \o ss[i]
  BY DEF IsUpto, IsUptoOf
<1>3. /\ g[0] = <<>>
      /\ \A i \in 1..Len(ss) : g[i] = g[i - 1] \o ss[i]
  <2>1. 0 \in 0..Len(ss) /\ \A i \in 1..Len(ss) : i \in 0..Len(ss) /\ i # 0 BY <1>1
  <2> QED BY <1>2, <2>1
<1>4. 0 \in K BY <1>2, <1>3
<1>5. ASSUME NEW k \in K PROVE k + 1 \in K
  <2> SUFFICES ASSUME k + 1 <= Len(ss) PROVE g[k + 1] = f[k + 1] OBVIOUS
  <2>1. k \in Nat /\ k <= Len(ss) /\ k + 1 \in 1..Len(ss) /\ (k + 1) - 1 = k BY <1>1
  <2>2. g[k] = f[k] BY <2>1
  <2>3. g[k + 1] = g[k] \o ss[k + 1]
    <3>1. g[k + 1] = g[(k + 1) - 1] \o ss[k + 1] BY ONLY <1>3, <2>1
    <3> QED BY ONLY <2>1, <3>1
  <2>4. f[k + 1] = f[k] \o ss[k + 1]
    <3>1. f[k + 1] = f[(k + 1) - 1] \o ss[k + 1] BY ONLY <1>2, <2>1
    <3> QED BY ONLY <2>1, <3>1
  <2> QED BY ONLY <2>2, <2>3, <2>4
<1>6. K \subseteq Nat OBVIOUS
<1> HIDE DEF K
<1>7. \A k \in Nat : k \in K BY <1>4, <1>5, <1>6, NatInd
<1>8. \A k \in 0..Len(ss) : g[k] = f[k] BY <1>1, <1>7 DEF K
<1>9. DOMAIN g = 0..Len(ss) /\ g = [i \in 0..Len(ss) |-> g[i]] BY <1>2
<1>10. f = [i \in 0..Len(ss) |-> f[i]] BY <1>2
<1> QED BY <1>8, <1>9, <1>10

LEMMA UptoIs ==
  ASSUME NEW S, NEW ss \in Seq(Seq(S)), NEW f, IsUptoOf(f, ss, Len(ss), S)
  PROVE  IsUpto(f, ss)
<1>1. Len(ss) \in Nat BY LenProperties
<1>2. /\ f \in [0..Len(ss) -> Seq(S)] /\ f[0] = <<>>
      /\ \A i \in 1..Len(ss) : f[i] = f[i - 1] \o ss[i]
  BY DEF IsUptoOf
<1>3. f = [i \in 0..Len(ss) |-> f[i]] BY <1>2
<1>4. ASSUME NEW i \in 0..Len(ss) PROVE f[i] = IF i = 0 THEN <<>> ELSE f[i - 1] \o ss[i]
  <2>1. CASE i = 0 BY <1>2, <2>1
  <2>2. CASE i # 0
    <3>1. i \in 1..Len(ss) BY <1>1, <2>2
    <3> QED BY <1>2, <2>2, <3>1, Zenon
  <2> QED BY <2>1, <2>2
<1> QED BY <1>3, <1>4 DEF IsUpto

LEMMA ConcatIs ==
  ASSUME NEW S, NEW ss \in Seq(Seq(S)), NEW f, IsUptoOf(f, ss, Len(ss), S)
  PROVE  Concat(ss) = f[Len(ss)]
<1> DEFINE u == CHOOSE g : IsUpto(g, ss)
<1>1. IsUpto(f, ss) BY UptoIs
<1>2. IsUpto(u, ss) BY <1>1
<1> HIDE DEF u
<1>3. u = f BY <1>2, UptoUnique
<1>4. Concat(ss) = u[Len(ss)] BY DEF Concat, u, IsUpto
<1> QED BY <1>3, <1>4

\* Nothing makes up nothing.
LEMMA ConcatOfNone ==
  ASSUME NEW S
  PROVE  Concat(<<>>) = <<>>
<1> DEFINE f == [i \in 0..0 |-> <<>>]
           none == <<>>
<1>1. none \in Seq(Seq(S)) /\ Len(none) = 0 BY EmptySeq
<1>2. IsUptoOf(f, none, Len(none), S) BY <1>1, EmptySeq DEF IsUptoOf
<1>3. f[0] = <<>> OBVIOUS
<1> HIDE DEF none, f
<1>4. Concat(none) = f[Len(none)] BY <1>1, <1>2, ConcatIs
<1> QED BY <1>1, <1>3, <1>4 DEF none

LEMMA ConcatType ==
  ASSUME NEW S, NEW ss \in Seq(Seq(S))
  PROVE  Concat(ss) \in Seq(S)
<1>1. PICK f : IsUptoOf(f, ss, Len(ss), S) BY UptoExists
<1>2. Concat(ss) = f[Len(ss)] BY <1>1, ConcatIs
<1>3. Len(ss) \in 0..Len(ss) BY LenProperties
<1> QED BY <1>1, <1>2, <1>3 DEF IsUptoOf

\* One more behind the others.
LEMMA ConcatOfAppend ==
  ASSUME NEW S, NEW ss \in Seq(Seq(S)), NEW s \in Seq(S)
  PROVE  Concat(Append(ss, s)) = Concat(ss) \o s
<1> DEFINE t == Append(ss, s)
           k == Len(ss)
<1>1. PICK f : IsUptoOf(f, ss, k, S) BY UptoExists
<1>2. Concat(ss) = f[k] BY <1>1, ConcatIs
<1>3. /\ t \in Seq(Seq(S)) /\ Len(t) = k + 1 /\ t[k + 1] = s
      /\ \A i \in 1..k : t[i] = ss[i]
  BY AppendProperties
<1>4. k \in Nat BY LenProperties
<1> HIDE DEF t, k
<1> DEFINE g == [i \in 0..(k + 1) |-> IF i <= k THEN f[i] ELSE f[k] \o s]
<1>5. /\ f \in [0..k -> Seq(S)] /\ f[0] = <<>>
      /\ \A i \in 1..k : f[i] = f[i - 1] \o ss[i]
  BY <1>1 DEF IsUptoOf
<1>6. f[k] \in Seq(S) /\ f[k] \o s \in Seq(S) BY <1>4, <1>5, ConcatProperties
<1>7. g \in [0..(k + 1) -> Seq(S)] /\ g[0] = <<>> /\ g[k + 1] = f[k] \o s BY <1>4, <1>5, <1>6
<1>8. ASSUME NEW i \in 1..(k + 1) PROVE g[i] = g[i - 1] \o t[i]
  <2>1. CASE i <= k 
    <3>1. i \in 1..k /\ i \in 0..(k + 1) /\ i - 1 \in 0..(k + 1) /\ i - 1 <= k BY <1>4, <2>1
    <3>2. f[i] = f[i - 1] \o ss[i] /\ t[i] = ss[i] BY <1>3, <1>5, <3>1, Zenon
    <3>3. g[i] = f[i] /\ g[i - 1] = f[i - 1] BY <2>1, <3>1
    <3> HIDE DEF g
    <3> QED BY <3>2, <3>3
  <2>2. CASE ~(i <= k) 
    <3>1. i = k + 1 /\ i - 1 = k /\ k \in 0..(k + 1) /\ k + 1 \in 0..(k + 1) /\ ~(k + 1 <= k) BY <1>4, <2>2
    <3>2. g[k + 1] = f[k] \o s /\ g[k] = f[k] BY <3>1
    <3> HIDE DEF g
    <3> QED BY <1>3, <3>1, <3>2
  <2> QED BY <2>1, <2>2
<1> HIDE DEF g
<1>9. IsUptoOf(g, t, Len(t), S) BY <1>3, <1>7, <1>8 DEF IsUptoOf
<1>10. Concat(t) = g[k + 1] BY <1>3, <1>9, ConcatIs
<1> QED BY <1>2, <1>7, <1>10 DEF t

LEMMA Assoc ==
  ASSUME NEW S, NEW x \in Seq(S), NEW y \in Seq(S), NEW z \in Seq(S)
  PROVE  (x \o y) \o z = x \o (y \o z)
BY ConcatAssociative

\* The first before the others.
LEMMA ConcatOfFirst ==
  ASSUME NEW S, NEW ss \in Seq(Seq(S)), NEW s \in Seq(S), NEW t \in Seq(Seq(S)),
         Len(t) = Len(ss) + 1, t[1] = s, \A i \in 1..Len(ss) : t[i + 1] = ss[i]
  PROVE  Concat(t) = s \o Concat(ss)
<1> DEFINE k == Len(ss)
<1>1. PICK f : IsUptoOf(f, ss, k, S) BY UptoExists
<1>2. Concat(ss) = f[k] BY <1>1, ConcatIs
<1>4. k \in Nat BY LenProperties
<1>11. \A i \in 1..k : ss[i] \in Seq(S) BY ElementOfSeq
<1>13. ASSUME NEW x \in Seq(S), NEW y \in Seq(S) PROVE (s \o x) \o y = s \o (x \o y)
  <2>1. s \in Seq(S) OBVIOUS
  <2> QED BY ONLY <2>1, x \in Seq(S), y \in Seq(S), Assoc
<1>12. Len(t) = k + 1 /\ \A i \in 1..k : t[i + 1] = ss[i] OBVIOUS
<1> HIDE DEF k
<1> DEFINE g == [i \in 0..(k + 1) |-> IF i = 0 THEN <<>> ELSE s \o f[i - 1]]
<1>5. /\ f \in [0..k -> Seq(S)] /\ f[0] = <<>>
      /\ \A i \in 1..k : f[i] = f[i - 1] \o ss[i]
  BY <1>1 DEF IsUptoOf
<1>6. \A i \in 1..(k + 1) : i - 1 \in 0..k /\ f[i - 1] \in Seq(S) /\ s \o f[i - 1] \in Seq(S)
  <2> TAKE i \in 1..(k + 1)
  <2>1. i - 1 \in 0..k BY <1>4
  <2>2. f[i - 1] \in Seq(S) BY <1>5, <2>1
  <2> QED BY <2>1, <2>2, ConcatProperties
<1>7. g \in [0..(k + 1) -> Seq(S)] /\ g[0] = <<>> /\ g[k + 1] = s \o f[k]
  <2>1. <<>> \in Seq(S) BY EmptySeq
  <2>2. \A i \in 0..(k + 1) : i # 0 => i \in 1..(k + 1) BY <1>4
  <2>3. g \in [0..(k + 1) -> Seq(S)] BY <1>6, <2>1, <2>2
  <2>4. 0 \in 0..(k + 1) /\ k + 1 \in 0..(k + 1) /\ k + 1 # 0 /\ (k + 1) - 1 = k BY <1>4
  <2> QED BY <2>3, <2>4
<1>8. ASSUME NEW i \in 1..(k + 1) PROVE g[i] = g[i - 1] \o t[i]
  <2>1. CASE i = 1
    <3>0. 1 \in 0..(k + 1) /\ 0 \in 0..(k + 1) /\ 1 - 1 = 0 BY <1>4
    <3>1. g[1] = s \o f[0] /\ g[0] = <<>> BY <3>0
    <3>2. s \o <<>> = s /\ <<>> \o s = s BY ConcatEmptySeq
    <3>3. t[1] = s /\ f[0] = <<>> BY <1>5
    <3> HIDE DEF g
    <3> QED BY <2>1, <3>0, <3>1, <3>2, <3>3
  <2>2. CASE i # 1
    <3>1. i - 1 \in 1..k /\ (i - 1) + 1 = i /\ i \in 0..(k + 1) /\ i - 1 \in 0..(k + 1) /\ i # 0 /\ i - 1 # 0
          /\ (i - 1) - 1 \in 0..k
      BY <1>4, <2>2
    <3>2. g[i] = s \o f[i - 1] /\ g[i - 1] = s \o f[(i - 1) - 1] BY <3>1
    <3>3. f[i - 1] = f[(i - 1) - 1] \o ss[i - 1] /\ f[(i - 1) - 1] \in Seq(S) /\ ss[i - 1] \in Seq(S)
      BY <1>5, <1>11, <3>1
    <3>4. t[i] = ss[i - 1] BY ONLY <1>12, <3>1, Zenon
    <3>5. (s \o f[(i - 1) - 1]) \o ss[i - 1] = s \o (f[(i - 1) - 1] \o ss[i - 1])
      BY ONLY <1>13, <3>3, Zenon
    <3> HIDE DEF g
    <3> QED BY <3>2, <3>3, <3>4, <3>5, Zenon
  <2> QED BY <2>1, <2>2
<1> HIDE DEF g
<1>9. IsUptoOf(g, t, Len(t), S) BY <1>7, <1>8, <1>12 DEF IsUptoOf
<1>10. Concat(t) = g[k + 1] BY <1>9, <1>12, ConcatIs
<1> QED BY <1>2, <1>7, <1>10

(***************************************************************************)
(* Fields.                                                                 *)
(***************************************************************************)
\* The bytes s lie in the buffer b from place i on.
At(b, i, s) == i + Len(s) - 1 <= Len(b) /\ \A j \in 1..Len(s) : b[i + j - 1] = s[j]

LEMMA InWords ==
  /\ MaxWord \in Nat
  /\ \A n \in Nat : n <= MaxWord => n \in Words
  /\ \A n \in Words : n \in Nat /\ n <= MaxWord
<1>1. MaxWord \in Nat BY DEF MaxWord
<1> QED BY <1>1 DEF Words

LEMMA InWord == 
  ASSUME NEW n \in Words
  PROVE  /\ n \in Nat /\ n \div 256 \in Bytes /\ n % 256 \in Bytes
         /\ 256 * (n \div 256) + (n % 256) = n
<1>1. n \in Nat /\ n <= 65535 
  <2>1. n \in Nat /\ n <= MaxWord BY InWords
  <2> QED BY <2>1 DEF MaxWord
<1>2. /\ n \div 256 \in Nat /\ n % 256 \in 0..255
      /\ 256 * (n \div 256) + (n % 256) = n
  BY <1>1, SMT
<1>3. n \div 256 <= 255 BY <1>1, <1>2, SMT
<1> QED BY <1>1, <1>2, <1>3, SMT DEF Bytes

LEMMA ByteIsNat == ASSUME NEW x \in Bytes PROVE x \in Nat /\ x < 256
BY DEF Bytes

LEMMA AtConcat ==
  ASSUME NEW b, Len(b) \in Nat, NEW i \in Nat, NEW s \in Seq(Bytes), NEW t \in Seq(Bytes), At(b, i, s \o t)
  PROVE  At(b, i, s) /\ At(b, i + Len(s), t)
<1>1. Len(s) \in Nat /\ Len(t) \in Nat BY LenProperties
<1>2. /\ Len(s \o t) = Len(s) + Len(t)
      /\ \A j \in 1..(Len(s) + Len(t)) : (s \o t)[j] = IF j <= Len(s) THEN s[j] ELSE t[j - Len(s)]
  BY ConcatProperties
<1> DEFINE u == s \o t
<1> HIDE DEF u
<1>3. i + Len(u) - 1 <= Len(b) /\ \A j \in 1..Len(u) : b[i + j - 1] = u[j] BY DEF At, u
<1>4. /\ Len(u) = Len(s) + Len(t)
      /\ \A j \in 1..(Len(s) + Len(t)) : u[j] = IF j <= Len(s) THEN s[j] ELSE t[j - Len(s)]
  BY <1>2 DEF u
<1>5. ASSUME NEW j \in 1..Len(s) PROVE b[i + j - 1] = s[j]
  <2>1. j \in 1..Len(u) /\ j <= Len(s) BY <1>1, <1>4
  <2>2. u[j] = s[j] BY <1>4, <2>1
  <2> QED BY <1>3, <2>1, <2>2
<1>6. ASSUME NEW j \in 1..Len(t) PROVE b[(i + Len(s)) + j - 1] = t[j]
  <2> DEFINE k == Len(s) + j
  <2>1. k \in 1..Len(u) /\ ~(k <= Len(s)) /\ k - Len(s) = j /\ i + k - 1 = (i + Len(s)) + j - 1 BY <1>1, <1>4
  <2> HIDE DEF k
  <2>2. u[k] = t[j] BY <1>4, <2>1
  <2>3. b[i + k - 1] = u[k] BY <1>3, <2>1
  <2> QED BY <2>1, <2>2, <2>3
<1>7. i + Len(s) - 1 <= Len(b) /\ (i + Len(s)) + Len(t) - 1 <= Len(b) BY <1>1, <1>3, <1>4
<1> QED BY <1>5, <1>6, <1>7 DEF At

LEMMA Joins ==
  ASSUME NEW s \in Seq(Bytes), NEW t \in Seq(Bytes)
  PROVE  s \o t \in Seq(Bytes) /\ Len(s \o t) = Len(s) + Len(t)
BY ConcatProperties

LEMMA FirstOfJoin ==
  ASSUME NEW s \in Seq(Bytes), NEW t \in Seq(Bytes), 1 <= Len(s)
  PROVE  (s \o t)[1] = s[1]
<1>1. Len(s) \in Nat /\ Len(t) \in Nat BY LenProperties
<1>2. 1 \in 1..(Len(s) + Len(t)) BY <1>1
<1> QED BY <1>2, ConcatProperties

LEMMA AtByte ==
  ASSUME NEW b, Len(b) \in Nat, NEW i \in Nat, NEW x, At(b, i, <<x>>)
  PROVE  ByteAt(b, i) = x /\ b[i] = x /\ i <= Len(b)
<1>1. Len(<<x>>) = 1 /\ <<x>>[1] = x OBVIOUS
<1>2. i + 1 - 1 <= Len(b) /\ b[i + 1 - 1] = x BY <1>1 DEF At
<1>3. i <= Len(b) /\ b[i] = x BY <1>2
<1> QED BY <1>3 DEF ByteAt

LEMMA IntWritten ==
  ASSUME NEW n \in Words
  PROVE  writeInt(n) \in Seq(Bytes) /\ Len(writeInt(n)) = 2
BY InWord DEF writeInt

LEMMA AtInt ==
  ASSUME NEW b, Len(b) \in Nat, NEW i \in Nat, NEW n \in Words, At(b, i, writeInt(n))
  PROVE  readInt(b, i) = n
<1> DEFINE hi == n \div 256
           lo == n % 256
<1>1. hi \in Bytes /\ lo \in Bytes /\ 256 * hi + lo = n BY InWord
<1>2. i + 2 - 1 <= Len(b) /\ b[i + 1 - 1] = hi /\ b[i + 2 - 1] = lo
  <2>1. Len(<<hi, lo>>) = 2 /\ <<hi, lo>>[1] = hi /\ <<hi, lo>>[2] = lo OBVIOUS
  <2> HIDE DEF hi, lo
  <2>2. At(b, i, <<hi, lo>>) BY DEF writeInt, hi, lo
  <2> QED BY <2>1, <2>2 DEF At
<1> HIDE DEF hi, lo
<1>3. i + 1 <= Len(b) /\ i <= Len(b) /\ b[i] = hi /\ b[i + 1] = lo BY <1>2
<1> QED BY <1>1, <1>3 DEF readInt, ByteAt

LEMMA StringType ==
  ASSUME NEW s \in MQTTStrings
  PROVE  s \in Seq(Bytes) /\ Len(s) \in Nat /\ Len(s) \in Words
<1>1. s \in Seq(Bytes) /\ Len(s) <= MaxWord BY DEF MQTTStrings
<1>2. Len(s) \in Nat BY <1>1, LenProperties
<1> QED BY <1>1, <1>2, InWords

LEMMA StringWritten ==
  ASSUME NEW s \in MQTTStrings
  PROVE  writeMQTTString(s) \in Seq(Bytes) /\ Len(writeMQTTString(s)) = 2 + Len(s)
<1> DEFINE n == Len(s)
           w == writeInt(n)
<1>1. s \in Seq(Bytes) /\ n \in Nat /\ n \in Words BY StringType
<1>2. w \in Seq(Bytes) /\ Len(w) = 2
  <2> HIDE DEF n
  <2> QED BY <1>1, IntWritten
<1>3. w \o s \in Seq(Bytes) /\ Len(w \o s) = 2 + n
  <2> HIDE DEF w, n
  <2>1. w \o s \in Seq(Bytes) /\ Len(w \o s) = Len(w) + Len(s) BY ONLY <1>1, <1>2, ConcatProperties
  <2> QED BY ONLY <1>2, <2>1 DEF n
<1> QED BY <1>3 DEF writeMQTTString

\* What MQTTPacket_readlenstring finds where the string s was written.
StringAt(b, i, end, s) == readMQTTLenString(b, i, end) = [ok |-> TRUE, s |-> s, at |-> i + 2 + Len(s)]

LEMMA PartOf ==
  ASSUME NEW b, NEW s \in Seq(Bytes), NEW i \in Nat, \A j \in 1..Len(s) : b[i + j - 1] = s[j]
  PROVE  SubSeq(b, i, i + Len(s) - 1) = s
<1> DEFINE n == i + Len(s) - 1
<1>1. Len(s) \in Nat /\ n \in Int /\ n - i + 1 = Len(s) BY LenProperties
<1>2. \A j \in i..n : b[j] \in Bytes
  <2> TAKE j \in i..n
  <2>1. j - i + 1 \in 1..Len(s) /\ i + (j - i + 1) - 1 = j BY <1>1
  <2>2. s[j - i + 1] \in Bytes BY <2>1, ElementOfSeq
  <2>3. b[i + (j - i + 1) - 1] = s[j - i + 1] BY <2>1
  <2> QED BY <2>1, <2>2, <2>3
<1> DEFINE u == SubSeq(b, i, n)
<1>3. /\ u \in Seq(Bytes) /\ Len(u) = IF i <= n THEN n - i + 1 ELSE 0
      /\ \A j \in 1..(n - i + 1) : u[j] = b[i + j - 1]
  <2> HIDE DEF n
  <2> QED BY <1>1, <1>2, SubSeqProperties
<1>4. Len(u) = Len(s) BY <1>1, <1>3
<1>5. \A j \in 1..Len(s) : u[j] = s[j] BY <1>1, <1>3
<1> HIDE DEF u, n
<1>6. u = s BY <1>3, <1>4, <1>5, SeqEqual
<1> QED BY <1>6 DEF u, n

LEMMA AtString ==
  ASSUME NEW b, Len(b) \in Nat, NEW i \in Nat, NEW s \in MQTTStrings, NEW end \in Nat,
         At(b, i, writeMQTTString(s)), i + 2 + Len(s) <= end
  PROVE  StringAt(b, i, end, s)
<1> DEFINE n == Len(s)
<1>1. s \in Seq(Bytes) /\ n \in Nat /\ n \in Words BY StringType
<1>2. writeInt(n) \in Seq(Bytes) /\ Len(writeInt(n)) = 2 BY <1>1, IntWritten
<1>3. At(b, i, writeInt(n)) /\ At(b, i + 2, s)
  <2>1. At(b, i, writeInt(n) \o s) BY DEF writeMQTTString
  <2> HIDE DEF n
  <2> QED BY <1>1, <1>2, <2>1, AtConcat
<1>4. readInt(b, i) = n BY <1>1, <1>3, AtInt
<1>5. SubSeq(b, i + 2, (i + 2) + n - 1) = s
  <2>1. i + 2 \in Nat OBVIOUS
  <2>2. \A j \in 1..Len(s) : b[(i + 2) + j - 1] = s[j] BY <1>3 DEF At
  <2> QED BY <1>1, <2>1, <2>2, PartOf
<1>6. (i + 2) + n - 1 = i + 1 + n /\ end - i > 1 /\ i + 2 + n <= end BY <1>1
<1> HIDE DEF n
<1>7. SubSeq(b, i + 2, i + 1 + n) = s BY <1>5, <1>6
<1>8. readMQTTLenString(b, i, end) = [ok |-> TRUE, s |-> s, at |-> i + 2 + n]
  <2> DEFINE m == readInt(b, i)
             yes == end - i > 1 /\ i + 2 + m <= end
  <2>1. m = n BY <1>4
  <2>2. yes BY <1>6, <2>1
  <2>3. readMQTTLenString(b, i, end) = [ok |-> yes, s |-> IF yes THEN SubSeq(b, i + 2, i + 1 + m) ELSE <<>>, at |-> i + 2 + m]
    BY DEF readMQTTLenString
  <2> HIDE DEF m, yes
  <2>4. yes = TRUE BY <2>2
  <2>5. (IF yes THEN SubSeq(b, i + 2, i + 1 + m) ELSE <<>>) = s BY ONLY <1>7, <2>1, <2>2, Zenon
  <2> QED BY ONLY <2>1, <2>3, <2>4, <2>5, Zenon
<1> QED BY <1>8 DEF StringAt, n

(***************************************************************************)
(* The frame of a packet in a buffer.                                      *)
(***************************************************************************)
Frame(header, body) == <<header>> \o MQTTPacket_encode(Len(body)) \o body
Framed(b, header, body) ==
  /\ b[1] = header /\ Start(b) \in Nat /\ End(b) \in Nat
  /\ End(b) = Start(b) + Len(body) /\ End(b) <= Len(b) + 1
  /\ At(b, Start(b), body)

LEMMA FrameType ==
  ASSUME NEW header \in Bytes, NEW body \in Seq(Bytes), Len(body) < Limit
  PROVE  /\ Frame(header, body) \in Seq(Bytes)
         /\ Len(Frame(header, body)) = 1 + Len(MQTTPacket_encode(Len(body))) + Len(body)
         /\ Frame(header, body)[1] = header
<1> DEFINE n == Len(body)
           field == MQTTPacket_encode(n)
           h == <<header>>
<1>1. n \in Nat /\ n < Limit BY LenProperties
<1>2. field \in Seq(Bytes) /\ Len(field) \in 1..4
  <2> HIDE DEF n
  <2> QED BY <1>1, FieldBytes, FieldLength
<1>3. h \in Seq(Bytes) /\ Len(h) = 1 /\ h[1] = header OBVIOUS
<1> HIDE DEF field, h
<1>4. h \o field \in Seq(Bytes) /\ Len(h \o field) = 1 + Len(field) /\ (h \o field)[1] = header
  <2>1. 1 <= Len(h) BY <1>3
  <2>2. h \o field \in Seq(Bytes) /\ Len(h \o field) = Len(h) + Len(field) BY ONLY <1>2, <1>3, Joins
  <2>3. (h \o field)[1] = h[1] BY ONLY <1>2, <1>3, <2>1, FirstOfJoin
  <2> QED BY ONLY <1>3, <2>2, <2>3
<1> DEFINE u == h \o field
<1> HIDE DEF u
<1>5. u \in Seq(Bytes) /\ Len(u) = 1 + Len(field) /\ u[1] = header BY <1>4 DEF u
<1>6. u \o body \in Seq(Bytes) /\ Len(u \o body) = Len(u) + n /\ (u \o body)[1] = header
  <2>1. 1 <= Len(u) BY <1>2, <1>5
  <2>2. u \o body \in Seq(Bytes) /\ Len(u \o body) = Len(u) + Len(body) BY ONLY <1>5, body \in Seq(Bytes), Joins
  <2>3. (u \o body)[1] = u[1] BY ONLY <1>5, <2>1, body \in Seq(Bytes), FirstOfJoin
  <2> QED BY ONLY <1>5, <2>2, <2>3
<1>7. Frame(header, body) = u \o body BY DEF Frame, u, h, field
<1> QED BY <1>5, <1>6, <1>7 DEF field

LEMMA FrameRead ==
  ASSUME NEW b \in Seq(Bytes), NEW header \in Bytes, NEW body \in Seq(Bytes), Len(body) < Limit,
         At(b, 1, Frame(header, body))
  PROVE  Framed(b, header, body)
<1> DEFINE n == Len(body)
           field == MQTTPacket_encode(n)
           h == <<header>>
           k == Len(field)
           rest == SubSeq(b, k + 2, Len(b))
<1>1. n \in Nat /\ n < Limit /\ Len(b) \in Nat BY LenProperties
<1>2. field \in Seq(Bytes) /\ k \in 1..4
  <2> HIDE DEF n
  <2> QED BY <1>1, FieldBytes, FieldLength
<1>3. h \in Seq(Bytes) /\ Len(h) = 1 OBVIOUS
<1> HIDE DEF h
<1>4. h \o field \in Seq(Bytes) /\ Len(h \o field) = 1 + k
  <2>1. field \in Seq(Bytes) BY <1>2
  <2> HIDE DEF field
  <2>2. h \o field \in Seq(Bytes) /\ Len(h \o field) = Len(h) + Len(field) BY ONLY <1>3, <2>1, Joins
  <2> QED BY ONLY <1>3, <2>2 DEF k
<1>5. At(b, 1, (h \o field) \o body) BY DEF Frame, h
<1> HIDE DEF field
<1>6. At(b, 1, h \o field) /\ At(b, k + 2, body)
  <2> DEFINE u == h \o field
  <2> HIDE DEF u
  <2>1. u \in Seq(Bytes) /\ Len(u) = 1 + k BY <1>4 DEF u
  <2>2. At(b, 1, u \o body) BY <1>5 DEF u
  <2> HIDE DEF k
  <2>3. At(b, 1, u) /\ At(b, 1 + Len(u), body) BY <1>1, <2>1, <2>2, AtConcat
  <2>4. 1 + Len(u) = k + 2 BY <1>2, <2>1
  <2> QED BY <2>3, <2>4 DEF u
<1>7. At(b, 1, h) /\ At(b, 2, field)
  <2>1. At(b, 1, h) /\ At(b, 1 + Len(h), field)
    <3>1. 1 \in Nat /\ Len(b) \in Nat /\ field \in Seq(Bytes) BY <1>1, <1>2
    <3> QED BY ONLY <3>1, <1>3, <1>6, AtConcat
  <2>2. 1 + Len(h) = 2 BY ONLY <1>3
  <2> QED BY ONLY <2>1, <2>2
<1>8. b[1] = header /\ 1 <= Len(b)
  <2>1. At(b, 1, <<header>>) BY <1>7 DEF h
  <2> QED BY <1>1, <2>1, AtByte
<1>9. (k + 2) + n - 1 <= Len(b) BY <1>6 DEF At
<1>10. rest \in Seq(Bytes) /\ Len(rest) = Len(b) - k - 1
       /\ \A i \in 1..(Len(b) - k - 1) : rest[i] = b[k + 1 + i]
  <2> HIDE DEF k
  <2>1. \A i \in (k + 2)..Len(b) : b[i] \in Bytes
    <3> TAKE i \in (k + 2)..Len(b)
    <3>1. i \in 1..Len(b) BY <1>1, <1>2
    <3> QED BY <3>1, ElementOfSeq
  <2>2. /\ rest \in Seq(Bytes)
        /\ Len(rest) = IF k + 2 <= Len(b) THEN Len(b) - (k + 2) + 1 ELSE 0
        /\ \A i \in 1..(Len(b) - (k + 2) + 1) : rest[i] = b[(k + 2) + i - 1]
    <3>1. k + 2 \in Int /\ Len(b) \in Int BY <1>1, <1>2
    <3> QED BY <2>1, <3>1, SubSeqProperties
  <2> HIDE DEF rest
  <2>3. Len(b) - (k + 2) + 1 = Len(b) - k - 1 /\ k + 2 <= Len(b) + 1 BY <1>1, <1>2, <1>9
  <2>4. \A i \in 1..(Len(b) - k - 1) : (k + 2) + i - 1 = k + 1 + i BY <1>1, <1>2
  <2>5. Len(rest) = Len(b) - k - 1
    <3>1. Len(rest) = IF k + 2 <= Len(b) THEN Len(b) - (k + 2) + 1 ELSE 0 BY <2>2
    <3>2. Len(b) \in Nat /\ k \in Nat BY <1>1, <1>2
    <3>3. CASE k + 2 <= Len(b)
      <4>1. Len(rest) = Len(b) - (k + 2) + 1 BY ONLY <3>1, <3>3
      <4> QED BY ONLY <4>1, <2>3
    <3>4. CASE ~(k + 2 <= Len(b))
      <4>1. Len(rest) = 0 BY ONLY <3>1, <3>4
      <4>0. k + 2 <= Len(b) + 1 BY ONLY <2>3
      <4>2. Len(b) = k + 1 BY ONLY <3>2, <3>4, <4>0
      <4>3. Len(b) - k - 1 = 0 BY ONLY <3>2, <4>2
      <4> QED BY ONLY <4>1, <4>3
    <3> QED BY ONLY <3>3, <3>4
  <2>6. \A i \in 1..(Len(b) - k - 1) : rest[i] = b[k + 1 + i] BY ONLY <2>2, <2>3, <2>4
  <2> QED BY ONLY <2>2, <2>5, <2>6
<1> HIDE DEF rest
<1>11. Tail(b) = field \o rest
  <2>1. b # <<>> 
    <3>1. Len(<<>>) = 0 OBVIOUS
    <3> QED BY <1>8, <3>1
  <2> DEFINE t == Tail(b)
             c == field \o rest
  <2>2. t \in Seq(Bytes) /\ Len(t) = Len(b) - 1 /\ \A i \in 1..Len(t) : t[i] = b[i + 1]
    BY <2>1, HeadTailProperties
  <2>3. c \in Seq(Bytes) /\ Len(c) = k + Len(rest)
        /\ \A i \in 1..(k + Len(rest)) : c[i] = IF i <= k THEN field[i] ELSE rest[i - k]
    BY <1>2, <1>10, ConcatProperties
  <2> HIDE DEF t, c
  <2>4. Len(t) = Len(c) BY <1>1, <1>2, <1>10, <2>2, <2>3
  <2>5. ASSUME NEW i \in 1..Len(t) PROVE t[i] = c[i]
    <3>0. i \in 1..(k + Len(rest)) BY <2>3, <2>4
    <3>1. CASE i <= k
      <4>1. i \in 1..Len(field) /\ 2 + i - 1 = i + 1 BY <1>2, <3>1
      <4>2. b[2 + i - 1] = field[i] BY <1>7, <4>1 DEF At
      <4> QED BY <2>2, <2>3, <3>0, <3>1, <4>1, <4>2
    <3>2. CASE ~(i <= k)
      <4>1. i - k \in 1..(Len(b) - k - 1) /\ k + 1 + (i - k) = i + 1 BY <1>1, <1>2, <2>2, <3>2
      <4>2. rest[i - k] = b[i + 1] BY <1>10, <4>1
      <4> QED BY <2>2, <2>3, <3>0, <3>2, <4>2
    <3> QED BY <3>1, <3>2
  <2>6. t = c BY <2>2, <2>3, <2>4, <2>5, SeqEqual
  <2> QED BY <2>6 DEF t, c
<1>12. MQTTPacket_decode(Tail(b)) = [value |-> n, len |-> k]
  <2>1. MQTTPacket_decode(field \o rest) = [value |-> n, len |-> Len(field)]
    <3> HIDE DEF n
    <3> QED BY <1>1, <1>10, DecodesFromBuffer DEF field
  <2> QED BY <1>11, <2>1
<1>13. Start(b) = k + 2 /\ End(b) = (k + 2) + n
  <2>1. Start(b) = 2 + k BY <1>12 DEF Start
  <2>2. End(b) = Start(b) + n BY <1>12 DEF End
  <2> QED BY <1>1, <1>2, <2>1, <2>2
<1>14. Start(b) \in Nat /\ End(b) \in Nat /\ End(b) <= Len(b) + 1 BY <1>1, <1>2, <1>9, <1>13
<1> QED BY <1>6, <1>8, <1>13, <1>14 DEF Framed

\* The first byte's fields.
HeaderIs(h, type, dup, qos, retained) ==
  /\ h \in Bytes /\ TypeOf(h) = type /\ DupOf(h) = dup /\ QosOf(h) = qos /\ RetainedOf(h) = retained

LEMMA BitRead ==
  ASSUME NEW x \in BOOLEAN
  PROVE  Bit(x) \in 0..1 /\ (Bit(x) = 1) = x
<1>1. Bit(x) \in 0..1 BY DEF Bit
<1>2. Bit(x) = 1 <=> x BY DEF Bit
<1> HIDE DEF Bit
<1>3. (Bit(x) = 1) = x BY ONLY <1>2, x \in BOOLEAN, Zenon
<1> QED BY <1>1, <1>3

LEMMA HeaderRead ==
  ASSUME NEW type \in 1..14, NEW dup \in BOOLEAN, NEW qos \in 0..2, NEW retained \in BOOLEAN
  PROVE  HeaderIs(Header(type, dup, qos, retained), type, dup, qos, retained)
<1> DEFINE d == Bit(dup)
           r == Bit(retained)
           h == 16 * type + 8 * d + 2 * qos + r
<1>1. d \in 0..1 /\ r \in 0..1 BY DEF Bit
<1>2. Header(type, dup, qos, retained) = h BY DEF Header
<1>8. (d = 1) = dup /\ (r = 1) = retained BY BitRead
<1> HIDE DEF d, r
<1>3. h \in Bytes BY <1>1 DEF Bytes
<1>4. h \div 16 = type BY <1>1
<1>5. (h \div 8) % 2 = d BY <1>1
<1>6. (h \div 2) % 4 = qos BY <1>1
<1>7. h % 2 = r BY <1>1
<1> HIDE DEF h
<1>10. TypeOf(h) = type BY <1>4 DEF TypeOf
<1>11. DupOf(h) = dup BY <1>5, <1>8, Zenon DEF DupOf
<1>12. QosOf(h) = qos BY <1>6 DEF QosOf
<1>13. RetainedOf(h) = retained BY <1>7, <1>8, Zenon DEF RetainedOf
<1> QED BY <1>2, <1>3, <1>10, <1>11, <1>12, <1>13, Zenon DEF HeaderIs

(***************************************************************************)
(* What was written is read.                                               *)
(***************************************************************************)
Form(p, h, body) ==
  /\ h \in Bytes /\ body \in Seq(Bytes) /\ Len(body) < Limit
  /\ Serialize(p, 1000) = Frame(h, body)
  /\ TypeOf(h) = p.type
ReadBack(p, h, body) ==
  \A b \in Seq(Bytes) : At(b, 1, Frame(h, body)) => Deserialize(p.type, b, MaxCount) = Reads(p)
RoundTrip(p) == p.type \in 1..14 /\ \E h, body : Form(p, h, body) /\ ReadBack(p, h, body)

LEMMA WrittenFrame ==
  ASSUME NEW p, NEW h \in Bytes, NEW body \in Seq(Bytes), Written(p, 1000, h, body) # <<>>
  PROVE  Written(p, 1000, h, body) = Frame(h, body) /\ Len(body) < Limit
<1> DEFINE n == Len(body)
<1>1. n \in Nat BY LenProperties
<1>2. ~(MQTTPacket_len(n) > 1000) /\ Written(p, 1000, h, body) = Frame(h, body) BY DEF Written, Frame
<1>3. n < 1001 
  <2> HIDE DEF n
  <2>1. MQTTPacket_len(n) \in Nat /\ MQTTPacket_len(n) >= n BY <1>1 DEF MQTTPacket_len
  <2> QED BY <1>1, <1>2, <2>1
<1> QED BY <1>1, <1>2, <1>3 DEF Limit

LEMMA ShortFrame ==
  ASSUME NEW p, NEW h \in Bytes, NEW body \in Seq(Bytes), NEW least \in Nat, least <= 1000
  PROVE  Short(p, 1000, least, h, body) = Frame(h, body)
BY DEF Short, Frame

LEMMA PlainHeader ==
  ASSUME NEW type \in 1..14, NEW dup \in BOOLEAN, NEW qos \in 0..2
  PROVE  HeaderIs(Header(type, dup, qos, FALSE), type, dup, qos, FALSE)
<1> DEFINE no == FALSE
<1>1. no \in BOOLEAN OBVIOUS
<1> HIDE DEF no
<1>2. HeaderIs(Header(type, dup, qos, no), type, dup, qos, no) BY <1>1, HeaderRead
<1> QED BY <1>2 DEF no

LEMMA BareHeader ==
  ASSUME NEW type \in 1..14
  PROVE  Header(type, FALSE, 0, FALSE) \in Bytes /\ TypeOf(Header(type, FALSE, 0, FALSE)) = type
<1> DEFINE no == FALSE
<1>1. no \in BOOLEAN /\ 0 \in 0..2 OBVIOUS
<1> HIDE DEF no
<1>2. HeaderIs(Header(type, no, 0, FALSE), type, no, 0, FALSE) BY <1>1, PlainHeader
<1> QED BY <1>2 DEF no, HeaderIs

LEMMA TypeNumbers ==
  /\ CONNECT = 1 /\ CONNACK = 2 /\ PUBLISH = 3 /\ PUBACK = 4 /\ PUBREL = 6 /\ PUBCOMP = 7
  /\ SUBSCRIBE = 8 /\ SUBACK = 9 /\ UNSUBSCRIBE = 10 /\ UNSUBACK = 11
  /\ PINGREQ = 12 /\ DISCONNECT = 14
BY DEF CONNECT, CONNACK, PUBLISH, PUBACK, PUBREL, PUBCOMP, SUBSCRIBE, SUBACK, UNSUBSCRIBE, UNSUBACK,
       PINGREQ, DISCONNECT

LEMMA BareDispatch ==
  ASSUME NEW t \in 12..14, NEW b
  PROVE  Deserialize(t, b, MaxCount) = Reads([type |-> t])
BY TypeNumbers DEF Deserialize

LEMMA BareTrips ==
  ASSUME NEW p \in Bare
  PROVE  RoundTrip(p)
<1> DEFINE h == Header(p.type, FALSE, 0, FALSE)
           body == <<>>
<1>1. p = [type |-> p.type] /\ p.type \in 12..14 /\ p.type \in 1..14 BY TypeNumbers DEF Bare
<1>2. h \in Bytes /\ TypeOf(h) = p.type BY <1>1, BareHeader
<1>3. body \in Seq(Bytes) /\ Len(body) = 0 BY EmptySeq
<1>4. Serialize(p, 1000) = MQTTSerialize_zero(p, 1000) BY <1>1, TypeNumbers DEF Serialize
<1>5. MQTTSerialize_zero(p, 1000) = Short(p, 1000, 2, h, body) BY DEF MQTTSerialize_zero
<1> HIDE DEF h, body
<1>6. Serialize(p, 1000) = Frame(h, body)
  <2>1. 2 \in Nat /\ 2 <= 1000 OBVIOUS
  <2>2. Short(p, 1000, 2, h, body) = Frame(h, body) BY <2>1 DEF Short, Frame
  <2> QED BY ONLY <1>4, <1>5, <2>2
<1>7. Form(p, h, body) BY <1>2, <1>3, <1>6 DEF Form, Limit
<1>8. ReadBack(p, h, body)
  <2> SUFFICES ASSUME NEW b \in Seq(Bytes) PROVE Deserialize(p.type, b, MaxCount) = Reads(p)
    BY DEF ReadBack
  <2>0. p.type \in 12..14 BY <1>1
  <2>1. Deserialize(p.type, b, MaxCount) = Reads([type |-> p.type])
    BY ONLY <2>0, BareDispatch
  <2> QED BY ONLY <1>1, <2>1, Zenon
<1> QED BY <1>1, <1>7, <1>8 DEF RoundTrip

\* An identifier alone.
LEMMA IdRead ==
  ASSUME NEW b, Len(b) \in Nat, NEW h, NEW n \in Words, Framed(b, h, writeInt(n))
  PROVE  readInt(b, Start(b)) = n /\ End(b) - Start(b) = 2 /\ b[1] = h
<1>1. /\ b[1] = h /\ Start(b) \in Nat /\ End(b) = Start(b) + Len(writeInt(n))
      /\ At(b, Start(b), writeInt(n))
  BY DEF Framed
<1>2. Len(writeInt(n)) = 2 BY IntWritten
<1>3. readInt(b, Start(b)) = n BY <1>1, AtInt
<1> QED BY <1>1, <1>2, <1>3

LEMMA AcksTrip ==
  ASSUME NEW p \in Acks
  PROVE  RoundTrip(p)
<1> DEFINE qos == IF p.type = PUBREL THEN 1 ELSE 0
           h == Header(p.type, p.dup, qos, FALSE)
           body == writeInt(p.id)
<1>1. /\ p = [type |-> p.type, dup |-> p.dup, id |-> p.id]
      /\ p.type \in 4..7 /\ p.type \in 1..14 /\ p.dup \in BOOLEAN /\ p.id \in Words
  BY TypeNumbers DEF Acks
<1>2. h \in Bytes /\ TypeOf(h) = p.type /\ DupOf(h) = p.dup
  <2>1. qos \in 0..2 OBVIOUS
  <2> HIDE DEF qos
  <2>2. HeaderIs(h, p.type, p.dup, qos, FALSE) BY <1>1, <2>1, PlainHeader
  <2> QED BY <2>2 DEF HeaderIs
<1>3. body \in Seq(Bytes) /\ Len(body) = 2 BY <1>1, IntWritten
<1>4. Serialize(p, 1000) = MQTTSerialize_ack(p, 1000) BY <1>1, TypeNumbers DEF Serialize
<1>5. MQTTSerialize_ack(p, 1000) = Short(p, 1000, 4, h, body) BY DEF MQTTSerialize_ack
<1> HIDE DEF h, qos
<1>6. Serialize(p, 1000) = Frame(h, body)
  <2> HIDE DEF body
  <2> QED BY <1>2, <1>3, <1>4, <1>5, ShortFrame
<1>7. Form(p, h, body) BY <1>2, <1>3, <1>6 DEF Form, Limit
<1>8. ReadBack(p, h, body)
  <2> SUFFICES ASSUME NEW b \in Seq(Bytes), At(b, 1, Frame(h, body))
               PROVE  Deserialize(p.type, b, MaxCount) = Reads(p)
    BY DEF ReadBack
  <2>1. Framed(b, h, body) 
    <3>1. h \in Bytes /\ body \in Seq(Bytes) /\ Len(body) < Limit BY <1>7 DEF Form
    <3> HIDE DEF body
    <3> QED BY <3>1, FrameRead
  <2>2. Len(b) \in Nat BY LenProperties
  <2>3. readInt(b, Start(b)) = p.id /\ End(b) - Start(b) = 2 /\ b[1] = h BY <1>1, <2>1, <2>2, IdRead
  <2>4. Deserialize(p.type, b, MaxCount) = MQTTDeserialize_ack(b) BY <1>1, TypeNumbers DEF Deserialize
  <2>5. MQTTDeserialize_ack(b)
          = Reads([type |-> TypeOf(b[1]), dup |-> DupOf(b[1]), id |-> readInt(b, Start(b))])
    BY <2>3 DEF MQTTDeserialize_ack
  <2>6. TypeOf(b[1]) = p.type /\ DupOf(b[1]) = p.dup BY <1>2, <2>3
  <2> QED BY ONLY <1>1, <2>3, <2>4, <2>5, <2>6, Zenon
<1> QED BY <1>1, <1>7, <1>8 DEF RoundTrip

LEMMA IdAckRead ==
  ASSUME NEW b, Len(b) \in Nat, NEW h, NEW n \in Words, Framed(b, h, writeInt(n))
  PROVE  MQTTDeserialize_ack(b) = Reads([type |-> TypeOf(h), dup |-> DupOf(h), id |-> n])
<1>1. readInt(b, Start(b)) = n /\ End(b) - Start(b) = 2 /\ b[1] = h BY IdRead
<1>2. ~(End(b) - Start(b) < 2) BY <1>1
<1>3. MQTTDeserialize_ack(b)
        = Reads([type |-> TypeOf(b[1]), dup |-> DupOf(b[1]), id |-> readInt(b, Start(b))])
  BY <1>2 DEF MQTTDeserialize_ack
<1> QED BY ONLY <1>1, <1>3

LEMMA UnsubacksTrip ==
  ASSUME NEW p \in Unsubacks
  PROVE  RoundTrip(p)
<1> DEFINE h == Header(UNSUBACK, FALSE, 0, FALSE)
           body == writeInt(p.id)
<1>1. p = [type |-> UNSUBACK, id |-> p.id] /\ p.type = UNSUBACK /\ p.id \in Words BY DEF Unsubacks
<1>2. UNSUBACK \in 1..14 /\ p.type \in 1..14 /\ p.type = 11 BY <1>1, TypeNumbers
<1>3. h \in Bytes /\ TypeOf(h) = UNSUBACK BY <1>2, BareHeader
<1>4. body \in Seq(Bytes) /\ Len(body) = 2 BY <1>1, IntWritten
<1>5. Serialize(p, 1000) = MQTTSerialize_unsuback(p, 1000) BY <1>2, TypeNumbers DEF Serialize
<1>6. MQTTSerialize_unsuback(p, 1000) = Frame(h, body)
  <2>1. MQTTSerialize_unsuback(p, 1000) = Short(p, 1000, 2, h, body) BY DEF MQTTSerialize_unsuback
  <2> HIDE DEF h, body
  <2>2. Short(p, 1000, 2, h, body) = Frame(h, body) BY DEF Short, Frame
  <2> QED BY ONLY <2>1, <2>2
<1> HIDE DEF h
<1>7. Form(p, h, body) BY <1>1, <1>3, <1>4, <1>5, <1>6 DEF Form, Limit
<1>8. ReadBack(p, h, body)
  <2> SUFFICES ASSUME NEW b \in Seq(Bytes), At(b, 1, Frame(h, body))
               PROVE  Deserialize(p.type, b, MaxCount) = Reads(p)
    BY DEF ReadBack
  <2>1. Framed(b, h, body)
    <3>1. h \in Bytes /\ body \in Seq(Bytes) /\ Len(body) < Limit BY <1>7 DEF Form
    <3> HIDE DEF body
    <3> QED BY <3>1, FrameRead
  <2>2. Len(b) \in Nat BY LenProperties
  <2> DEFINE q == [type |-> TypeOf(h), dup |-> DupOf(h), id |-> p.id]
  <2>3. MQTTDeserialize_ack(b) = Reads(q) BY <1>1, <2>1, <2>2, IdAckRead
  <2>4. q # Unset(UNSUBACK) BY DEF Unset
  <2>5. q.id = p.id OBVIOUS
  <2>6. TypeOf(b[1]) = UNSUBACK BY <1>3, <2>1 DEF Framed
  <2> HIDE DEF q
  <2>7. MQTTDeserialize_ack(b).p = q BY <2>3 DEF Reads
  <2>8. MQTTDeserialize_unsuback(b) = [rc |-> 1, p |-> [type |-> UNSUBACK, id |-> q.id]]
    BY <2>4, <2>6, <2>7 DEF MQTTDeserialize_unsuback
  <2>9. Deserialize(p.type, b, MaxCount) = MQTTDeserialize_unsuback(b) BY <1>2, TypeNumbers DEF Deserialize
  <2> QED BY <1>1, <2>5, <2>8, <2>9 DEF Reads
<1> QED BY <1>2, <1>7, <1>8 DEF RoundTrip

LEMMA ConnacksTrip ==
  ASSUME NEW p \in Connacks
  PROVE  RoundTrip(p)
<1> DEFINE h == Header(CONNACK, FALSE, 0, FALSE)
           bit == Bit(p.sessionPresent)
           body == <<bit, p.rc>>
<1>1. /\ p = [type |-> CONNACK, sessionPresent |-> p.sessionPresent, rc |-> p.rc]
      /\ p.type = CONNACK /\ p.sessionPresent \in BOOLEAN /\ p.rc \in Bytes
  BY DEF Connacks
<1>2. CONNACK \in 1..14 /\ p.type \in 1..14 /\ p.type = 2 BY <1>1, TypeNumbers
<1>3. h \in Bytes /\ TypeOf(h) = CONNACK BY <1>2, BareHeader
<1>9. bit \in Bytes /\ (bit % 2 = 1) = p.sessionPresent
  <2>1. bit \in 0..1 /\ (bit = 1) = p.sessionPresent BY <1>1, BitRead
  <2> HIDE DEF bit
  <2>3. bit % 2 = bit /\ bit \in Bytes BY <2>1 DEF Bytes
  <2> QED BY ONLY <2>1, <2>3, Zenon
<1> HIDE DEF bit
<1>4. body \in Seq(Bytes) /\ Len(body) = 2 /\ body[1] = bit /\ body[2] = p.rc BY <1>1, <1>9
<1>5. Serialize(p, 1000) = MQTTSerialize_connack(p, 1000) BY <1>2, TypeNumbers DEF Serialize
<1>6. MQTTSerialize_connack(p, 1000) = Frame(h, body)
  <2>1. MQTTSerialize_connack(p, 1000) = Short(p, 1000, 2, h, body) BY DEF MQTTSerialize_connack, bit
  <2> HIDE DEF h, body
  <2>2. Short(p, 1000, 2, h, body) = Frame(h, body) BY DEF Short, Frame
  <2> QED BY ONLY <2>1, <2>2
<1> HIDE DEF h, body
<1>7. Form(p, h, body) BY <1>1, <1>3, <1>4, <1>5, <1>6 DEF Form, Limit
<1>8. ReadBack(p, h, body)
  <2> SUFFICES ASSUME NEW b \in Seq(Bytes), At(b, 1, Frame(h, body))
               PROVE  Deserialize(p.type, b, MaxCount) = Reads(p)
    BY DEF ReadBack
  <2>1. Framed(b, h, body)
    <3>1. h \in Bytes /\ body \in Seq(Bytes) /\ Len(body) < Limit BY <1>7 DEF Form
    <3> QED BY <3>1, FrameRead
  <2>2. Len(b) \in Nat BY LenProperties
  <2>3. /\ End(b) - Start(b) = 2 /\ Start(b) \in Nat /\ b[1] = h
        /\ Start(b) + 2 - 1 <= Len(b) /\ b[Start(b) + 1 - 1] = bit /\ b[Start(b) + 2 - 1] = p.rc
    BY <1>4, <2>1 DEF Framed, At
  <2> DEFINE at == Start(b)
  <2>4. ByteAt(b, at) = bit /\ ByteAt(b, at + 1) = p.rc
    <3>1. at <= Len(b) /\ at + 1 <= Len(b) /\ b[at] = bit /\ b[at + 1] = p.rc BY <2>2, <2>3
    <3> QED BY <3>1 DEF ByteAt
  <2>5. ~(End(b) - at < 2) /\ TypeOf(b[1]) = CONNACK BY <1>3, <2>3
  <2>6. MQTTDeserialize_connack(b)
          = Reads([type |-> CONNACK, sessionPresent |-> (ByteAt(b, at) % 2 = 1), rc |-> ByteAt(b, at + 1)])
    BY <2>5 DEF MQTTDeserialize_connack
  <2> HIDE DEF at
  <2>7. MQTTDeserialize_connack(b) = Reads([type |-> CONNACK, sessionPresent |-> p.sessionPresent, rc |-> p.rc])
    BY ONLY <1>9, <2>4, <2>6, Zenon
  <2>8. Deserialize(p.type, b, MaxCount) = MQTTDeserialize_connack(b) BY <1>2, TypeNumbers DEF Deserialize
  <2> QED BY ONLY <1>1, <2>7, <2>8, Zenon
<1> QED BY <1>2, <1>7, <1>8 DEF RoundTrip

LEMMA BytesAt ==
  ASSUME NEW b, Len(b) \in Nat, NEW i \in Nat, NEW s \in Seq(Bytes), At(b, i, s)
  PROVE  /\ \A j \in 1..Len(s) : ByteAt(b, i + j - 1) = s[j]
         /\ [j \in 1..Len(s) |-> ByteAt(b, i + j - 1)] = s
<1>1. Len(s) \in Nat BY LenProperties
<1>2. ASSUME NEW j \in 1..Len(s) PROVE ByteAt(b, i + j - 1) = s[j]
  <2>1. i + Len(s) - 1 <= Len(b) /\ \A k \in 1..Len(s) : b[i + k - 1] = s[k] BY DEF At
  <2>2. b[i + j - 1] = s[j] BY <2>1
  <2>3. i + j - 1 <= Len(b) BY <1>1, <2>1
  <2> QED BY <2>2, <2>3 DEF ByteAt
<1>3. s = [j \in 1..Len(s) |-> s[j]] BY LenProperties
<1> QED BY <1>2, <1>3

LEMMA SubackRead ==
  ASSUME NEW b, Len(b) \in Nat, NEW h, TypeOf(h) = SUBACK, NEW n \in Words, NEW codes \in Seq(Bytes),
         Len(codes) <= MaxCount, Framed(b, h, writeInt(n) \o codes)
  PROVE  MQTTDeserialize_suback(b, MaxCount) = Reads([type |-> SUBACK, id |-> n, granted |-> codes])
<1> DEFINE at == Start(b)
           body == writeInt(n) \o codes
           m == Len(codes)
           w == writeInt(n)
<1>1. w \in Seq(Bytes) /\ Len(w) = 2 BY IntWritten
<1>2. m \in Nat /\ MaxCount \in Nat BY LenProperties, ReaderAssumption
<1>3. b[1] = h /\ at \in Nat /\ End(b) = at + Len(body) /\ At(b, at, body) BY DEF Framed
<1> HIDE DEF w, m, at
<1>4. Len(body) = 2 + m BY ONLY <1>1, codes \in Seq(Bytes), Joins DEF m, w
<1>5. At(b, at, w) /\ At(b, at + 2, codes)
  <2>1. At(b, at, w \o codes) BY <1>3 DEF w
  <2>2. At(b, at, w) /\ At(b, at + Len(w), codes) BY ONLY Len(b) \in Nat, <1>1, <1>3, <2>1, codes \in Seq(Bytes), AtConcat
  <2> QED BY <1>1, <2>2
<1>6. readInt(b, at) = n BY <1>3, <1>5, AtInt DEF w
<1> HIDE DEF body
<1>7. End(b) - at - 2 = m BY <1>2, <1>3, <1>4
<1>8. \A j \in 1..m : ByteAt(b, at + 1 + j) = codes[j]
  <2>1. at + 2 \in Nat BY <1>3
  <2>2. \A j \in 1..m : ByteAt(b, (at + 2) + j - 1) = codes[j]
    BY ONLY Len(b) \in Nat, <1>5, <2>1, codes \in Seq(Bytes), BytesAt DEF m
  <2>3. \A j \in 1..m : (at + 2) + j - 1 = at + 1 + j BY <1>2, <1>3
  <2> QED BY ONLY <2>2, <2>3, Zenon
<1>9. [j \in 1..m |-> ByteAt(b, at + 1 + j)] = codes
  <2>1. codes = [j \in 1..m |-> codes[j]] BY LenProperties DEF m
  <2> QED BY ONLY <1>8, <2>1, Zenon
<1>10. ~(m < 0) /\ ~(m > MaxCount + 1) BY <1>2 DEF m
<1>11. MQTTDeserialize_suback(b, MaxCount)
         = Reads([type |-> SUBACK, id |-> readInt(b, at), granted |-> [j \in 1..m |-> ByteAt(b, at + 1 + j)]])
  <2>1. MQTTDeserialize_suback(b, MaxCount)
         = (LET k == End(b) - at - 2
            IN IF TypeOf(b[1]) # SUBACK THEN Refuses(SUBACK)
               ELSE IF k < 0 THEN GivesUp(b, SUBACK)
               ELSE IF k > MaxCount + 1 THEN [rc |-> -1, p |-> Unset(SUBACK)]
               ELSE Reads([type |-> SUBACK, id |-> readInt(b, at),
                           granted |-> [j \in 1..k |-> ByteAt(b, at + 1 + j)]]))
    BY DEF MQTTDeserialize_suback, at
  <2>2. TypeOf(b[1]) = SUBACK BY <1>3
  <2> QED BY ONLY <1>7, <1>10, <2>1, <2>2
<1> QED BY ONLY <1>6, <1>9, <1>11

LEMMA SubacksTrip ==
  ASSUME NEW p \in Subacks, Serialize(p, 1000) # <<>>
  PROVE  RoundTrip(p)
<1> DEFINE h == Header(SUBACK, FALSE, 0, FALSE)
           w == writeInt(p.id)
           codes == p.granted
           body == w \o codes
<1>1. /\ p = [type |-> SUBACK, id |-> p.id, granted |-> p.granted] /\ p.type = SUBACK /\ p.id \in Words
      /\ codes \in Seq(Bytes) /\ Len(codes) <= MaxCount
  BY DEF Subacks, AtMost
<1>2. SUBACK \in 1..14 /\ p.type \in 1..14 /\ p.type = 9 BY <1>1, TypeNumbers
<1>3. h \in Bytes /\ TypeOf(h) = SUBACK BY ONLY <1>2, BareHeader
<1>4. w \in Seq(Bytes) /\ Len(w) = 2 BY <1>1, IntWritten
<1>5. Serialize(p, 1000) = Short(p, 1000, 2 + Len(codes), h, body)
  <2> HIDE DEF h, body
  <2>1. Serialize(p, 1000) = MQTTSerialize_suback(p, 1000) BY ONLY <1>2, TypeNumbers DEF Serialize
  <2> DEFINE room == 1000
  <2>2. Serialize(p, room) = MQTTSerialize_suback(p, room) BY <2>1
  <2> HIDE DEF room
  <2>3. Serialize(p, room) = Short(p, room, 2 + Len(codes), h, body)
    BY ONLY <2>2, Zenon DEF MQTTSerialize_suback, h, body, w, codes
  <2> HIDE DEF h, body, codes
  <2> QED BY ONLY <2>3 DEF room
<1> HIDE DEF h, w, codes
<1>6. body \in Seq(Bytes) /\ Len(body) = 2 + Len(codes) BY ONLY <1>1, <1>4, Joins
<1> HIDE DEF body
<1>7. Serialize(p, 1000) = Frame(h, body) /\ Len(body) < Limit
  <2>1. ~(1000 < 2 + Len(codes)) /\ Serialize(p, 1000) = Frame(h, body) BY <1>5 DEF Short, Frame
  <2>2. Len(codes) \in Nat BY <1>1, LenProperties
  <2>3. Len(body) < Limit BY <1>6, <2>1, <2>2 DEF Limit
  <2> QED BY <2>1, <2>3
<1>8. Form(p, h, body) BY <1>1, <1>3, <1>6, <1>7 DEF Form
<1>9. ReadBack(p, h, body)
  <2> SUFFICES ASSUME NEW b \in Seq(Bytes), At(b, 1, Frame(h, body))
               PROVE  Deserialize(p.type, b, MaxCount) = Reads(p)
    BY DEF ReadBack
  <2>1. Framed(b, h, body) BY <1>3, <1>6, <1>7, FrameRead
  <2>2. Len(b) \in Nat BY LenProperties
  <2>3. Framed(b, h, writeInt(p.id) \o codes) BY <2>1 DEF body, w
  <2>4. MQTTDeserialize_suback(b, MaxCount) = Reads([type |-> SUBACK, id |-> p.id, granted |-> codes])
    BY ONLY <1>1, <1>3, <2>2, <2>3, SubackRead
  <2>5. Deserialize(p.type, b, MaxCount) = MQTTDeserialize_suback(b, MaxCount) BY <1>2, TypeNumbers DEF Deserialize
  <2> QED BY ONLY <1>1, <2>4, <2>5, Zenon DEF codes
<1> QED BY <1>2, <1>8, <1>9 DEF RoundTrip

\* The identifier of a publish, if it has one.
IdOf(qos, id) == IF qos > 0 THEN writeInt(id) ELSE <<>>

LEMMA IdWritten ==
  ASSUME NEW qos \in 0..2, NEW id \in Words
  PROVE  IdOf(qos, id) \in Seq(Bytes) /\ Len(IdOf(qos, id)) = IF qos > 0 THEN 2 ELSE 0
<1>1. CASE qos > 0
  <2>1. IdOf(qos, id) = writeInt(id) BY <1>1 DEF IdOf
  <2> QED BY <1>1, <2>1, IntWritten
<1>2. CASE ~(qos > 0)
  <2>1. IdOf(qos, id) = <<>> BY <1>2 DEF IdOf
  <2> QED BY <1>2, <2>1, EmptySeq
<1> QED BY <1>1, <1>2

LEMMA PublishRead ==
  ASSUME NEW b, Len(b) \in Nat, NEW h, NEW dup \in BOOLEAN, NEW qos \in 0..2, NEW retained \in BOOLEAN,
         HeaderIs(h, PUBLISH, dup, qos, retained), NEW topic \in MQTTStrings, NEW id \in Words,
         qos = 0 => id = 0, NEW payload \in Seq(Bytes),
         Framed(b, h, (writeMQTTString(topic) \o IdOf(qos, id)) \o payload)
  PROVE  MQTTDeserialize_publish(b)
           = Reads([type |-> PUBLISH, dup |-> dup, qos |-> qos, retained |-> retained, topic |-> topic,
                    id |-> id, payload |-> payload])
<1> DEFINE at == Start(b)
           end == End(b)
           w == writeMQTTString(topic)
           i == IdOf(qos, id)
           n == Len(payload)
           t == at + 2 + Len(topic)
           from == IF qos > 0 THEN t + 2 ELSE t
<1>1. /\ w \in Seq(Bytes) /\ Len(w) = 2 + Len(topic) /\ Len(topic) \in Nat
      /\ i \in Seq(Bytes) /\ Len(i) = (IF qos > 0 THEN 2 ELSE 0)
      /\ n \in Nat
  BY StringWritten, StringType, IdWritten, LenProperties
<1>2. b[1] = h /\ at \in Nat /\ end \in Nat /\ end = at + Len((w \o i) \o payload) /\ At(b, at, (w \o i) \o payload)
  BY DEF Framed
<1> HIDE DEF at, end, w, i, n
<1>3. w \o i \in Seq(Bytes) /\ Len(w \o i) = Len(w) + Len(i) BY ONLY <1>1, Joins
<1>4. Len((w \o i) \o payload) = Len(w \o i) + n BY ONLY <1>3, payload \in Seq(Bytes), Joins DEF n
<1>5. At(b, at, w \o i) /\ At(b, at + Len(w \o i), payload)
  BY ONLY Len(b) \in Nat, <1>2, <1>3, payload \in Seq(Bytes), AtConcat
<1>6. At(b, at, w) /\ At(b, at + Len(w), i) BY ONLY Len(b) \in Nat, <1>1, <1>2, <1>5, AtConcat
<1>7. at + Len(w) = t /\ t \in Nat /\ t <= end /\ from \in Nat /\ at + Len(w \o i) = from /\ end - from = n
  <2> DEFINE k == Len(w \o i)
             all == Len((w \o i) \o payload)
             l == Len(topic)
             m == Len(i)
  <2>1. l \in Nat /\ n \in Nat /\ at \in Nat /\ Len(w) = 2 + l /\ k = 2 + l + m /\ all = k + n /\ end = at + all
    BY ONLY <1>1, <1>2, <1>3, <1>4
  <2>2. m = IF qos > 0 THEN 2 ELSE 0 BY ONLY <1>1
  <2> HIDE DEF k, all, l, m
  <2>3. t = at + 2 + l BY DEF l
  <2>4. CASE qos > 0
    <3>1. m = 2 /\ from = t + 2 BY ONLY <2>2, <2>4
    <3> HIDE DEF from, t
    <3> QED BY ONLY <2>1, <2>3, <3>1 DEF k
  <2>5. CASE ~(qos > 0)
    <3>1. m = 0 /\ from = t BY ONLY <2>2, <2>5
    <3> HIDE DEF from, t
    <3> QED BY ONLY <2>1, <2>3, <3>1 DEF k
  <2> QED BY ONLY <2>4, <2>5
<1>8. StringAt(b, at, end, topic)
  <2>1. at + 2 + Len(topic) <= end BY <1>7
  <2> QED BY ONLY Len(b) \in Nat, <1>2, <1>6, <2>1, topic \in MQTTStrings, AtString DEF w
<1> HIDE DEF t, from
<1>9. (IF qos > 0 THEN readInt(b, t) ELSE 0) = id
  <2>1. CASE qos > 0
    <3>1. At(b, t, writeInt(id)) BY <1>6, <1>7, <2>1 DEF i, IdOf
    <3>2. readInt(b, t) = id BY ONLY Len(b) \in Nat, id \in Words, <1>7, <3>1, AtInt
    <3> QED BY ONLY <2>1, <3>2
  <2>2. CASE ~(qos > 0)
    <3>1. qos = 0 BY <2>2
    <3> QED BY ONLY <2>2, <3>1, qos = 0 => id = 0
  <2> QED BY ONLY <2>1, <2>2
<1>10. [k \in 1..(end - from) |-> ByteAt(b, from + k - 1)] = payload
  <2>1. At(b, from, payload) BY <1>5, <1>7
  <2>2. [k \in 1..n |-> ByteAt(b, from + k - 1)] = payload
    BY ONLY Len(b) \in Nat, <1>7, <2>1, payload \in Seq(Bytes), BytesAt DEF n
  <2> QED BY ONLY <1>7, <2>2
<1>11. TypeOf(b[1]) = PUBLISH /\ DupOf(b[1]) = dup /\ QosOf(b[1]) = qos /\ RetainedOf(b[1]) = retained
  BY ONLY <1>2, HeaderIs(h, PUBLISH, dup, qos, retained) DEF HeaderIs
<1>12. readMQTTLenString(b, at, end) = [ok |-> TRUE, s |-> topic, at |-> t] BY <1>8 DEF StringAt, t
<1>13. MQTTDeserialize_publish(b)
         = (LET r == readMQTTLenString(b, at, end)
                q == QosOf(b[1])
                f == IF q > 0 THEN r.at + 2 ELSE r.at
            IN IF TypeOf(b[1]) # PUBLISH THEN Refuses(PUBLISH)
               ELSE IF ~r.ok THEN GivesUp(b, PUBLISH)
               ELSE Reads([type |-> PUBLISH, dup |-> DupOf(b[1]), qos |-> q, retained |-> RetainedOf(b[1]),
                           topic |-> r.s, id |-> IF q > 0 THEN readInt(b, r.at) ELSE 0,
                           payload |-> [k \in 1..(end - f) |-> ByteAt(b, f + k - 1)]]))
  BY DEF MQTTDeserialize_publish, at, end
<1>14. MQTTDeserialize_publish(b)
         = Reads([type |-> PUBLISH, dup |-> dup, qos |-> qos, retained |-> retained,
                  topic |-> topic, id |-> IF qos > 0 THEN readInt(b, t) ELSE 0,
                  payload |-> [k \in 1..(end - from) |-> ByteAt(b, from + k - 1)]])
  <2> DEFINE r == readMQTTLenString(b, at, end)
  <2>1. r.ok = TRUE /\ r.s = topic /\ r.at = t BY <1>12
  <2> HIDE DEF r
  <2>2. (IF qos > 0 THEN r.at + 2 ELSE r.at) = from BY ONLY <2>1 DEF from
  <2>3. ~(TypeOf(b[1]) # PUBLISH) /\ ~(~r.ok) BY ONLY <1>11, <2>1
  <2>4. MQTTDeserialize_publish(b)
         = (LET q == QosOf(b[1])
                f == IF q > 0 THEN r.at + 2 ELSE r.at
            IN Reads([type |-> PUBLISH, dup |-> DupOf(b[1]), qos |-> q, retained |-> RetainedOf(b[1]),
                           topic |-> r.s, id |-> IF q > 0 THEN readInt(b, r.at) ELSE 0,
                           payload |-> [k \in 1..(end - f) |-> ByteAt(b, f + k - 1)]]))
    BY ONLY <1>13, <2>3, Zenon DEF r
  <2> QED BY ONLY <1>11, <2>1, <2>2, <2>4, Zenon
<1> QED BY ONLY <1>9, <1>10, <1>14, Zenon

LEMMA PublishesTrip ==
  ASSUME NEW p \in Publishes, Serialize(p, 1000) # <<>>
  PROVE  RoundTrip(p)
<1> DEFINE h == Header(PUBLISH, p.dup, p.qos, p.retained)
           body == (writeMQTTString(p.topic) \o IdOf(p.qos, p.id)) \o p.payload
<1>1. /\ p = [type |-> PUBLISH, dup |-> p.dup, qos |-> p.qos, retained |-> p.retained, topic |-> p.topic,
              id |-> p.id, payload |-> p.payload]
      /\ p.type = PUBLISH /\ p.dup \in BOOLEAN /\ p.qos \in 0..2 /\ p.retained \in BOOLEAN
      /\ p.topic \in MQTTStrings /\ p.id \in Words /\ p.payload \in Seq(Bytes)
      /\ p.qos = 0 => p.id = 0
  BY DEF Publishes
<1>2. PUBLISH \in 1..14 /\ p.type \in 1..14 /\ p.type = 3 BY <1>1, TypeNumbers
<1>3. HeaderIs(h, PUBLISH, p.dup, p.qos, p.retained) /\ h \in Bytes /\ TypeOf(h) = PUBLISH
  BY ONLY <1>1, <1>2, HeaderRead DEF HeaderIs
<1>4. body \in Seq(Bytes)
  <2>1. writeMQTTString(p.topic) \in Seq(Bytes) /\ IdOf(p.qos, p.id) \in Seq(Bytes)
    BY ONLY <1>1, StringWritten, IdWritten
  <2>2. writeMQTTString(p.topic) \o IdOf(p.qos, p.id) \in Seq(Bytes) BY ONLY <2>1, Joins
  <2> QED BY ONLY <1>1, <2>2, Joins
<1>5. Serialize(p, 1000) = Written(p, 1000, h, body)
  <2>1. Serialize(p, 1000) = MQTTSerialize_publish(p, 1000)
    <3> HIDE DEF h, body
    <3> QED BY ONLY <1>2, TypeNumbers DEF Serialize
  <2> DEFINE tail == p.payload
             x == writeMQTTString(p.topic)
             y == IdOf(p.qos, p.id)
  <2>2. x \in Seq(Bytes) /\ y \in Seq(Bytes) /\ tail \in Seq(Bytes) BY ONLY <1>1, StringWritten, IdWritten
  <2>3. MQTTSerialize_publish(p, 1000) = Written(p, 1000, h, x \o y \o tail)
    BY DEF MQTTSerialize_publish, IdOf
  <2> QED BY ONLY <2>1, <2>3
<1> HIDE DEF h, body
<1>6. Serialize(p, 1000) = Frame(h, body) /\ Len(body) < Limit
  <2>1. Written(p, 1000, h, body) # <<>> BY ONLY <1>5, Serialize(p, 1000) # <<>>
  <2> QED BY ONLY <1>3, <1>4, <1>5, <2>1, WrittenFrame
<1>7. Form(p, h, body) BY <1>1, <1>3, <1>4, <1>6 DEF Form
<1>8. ReadBack(p, h, body)
  <2> SUFFICES ASSUME NEW b \in Seq(Bytes), At(b, 1, Frame(h, body))
               PROVE  Deserialize(p.type, b, MaxCount) = Reads(p)
    BY DEF ReadBack
  <2>1. Framed(b, h, body) BY <1>3, <1>4, <1>6, FrameRead
  <2>2. Len(b) \in Nat BY LenProperties
  <2>3. Framed(b, h, (writeMQTTString(p.topic) \o IdOf(p.qos, p.id)) \o p.payload) BY <2>1 DEF body
  <2>4. MQTTDeserialize_publish(b)
          = Reads([type |-> PUBLISH, dup |-> p.dup, qos |-> p.qos, retained |-> p.retained, topic |-> p.topic,
                   id |-> p.id, payload |-> p.payload])
    BY ONLY <1>1, <1>3, <2>2, <2>3, PublishRead, ZenonT(40)
  <2>5. Deserialize(p.type, b, MaxCount) = MQTTDeserialize_publish(b) BY ONLY <1>2, TypeNumbers DEF Deserialize
  <2> QED BY ONLY <1>1, <2>4, <2>5, Zenon
<1> QED BY <1>2, <1>7, <1>8 DEF RoundTrip

(***************************************************************************)
(* The list of filters of a request, read from its last to its first.      *)
(***************************************************************************)
\* Where a byte can be.
Places == Nat \ {0}
\* Where an item ends that begins at the place at, and what is found from there on.
ItemTo(b, at, end, rest) == readMQTTLenString(b, at, end).at + rest
ItemBad(b, at, end, rest) ==
  ~readMQTTLenString(b, at, end).ok \/ (rest > 0 /\ readMQTTLenString(b, at, end).at >= end)
ItemStep(tail, b, at, end, rest) ==
  IF at >= end THEN [ok |-> TRUE, list |-> <<>>]
  ELSE IF ItemBad(b, at, end, rest) THEN [ok |-> FALSE, list |-> <<>>]
  ELSE [ok |-> tail.ok, list |-> <<readMQTTLenString(b, at, end)>> \o tail.list]
IsItem(f, b, end, rest) == f = [at \in Places |-> ItemStep(f[ItemTo(b, at, end, rest)], b, at, end, rest)]

LEMMA ItemIsFurther ==
  ASSUME NEW b \in Seq(Bytes), NEW at \in Places, NEW end \in Nat, NEW rest \in Nat
  PROVE  at \in Nat /\ at >= 1 /\ ItemTo(b, at, end, rest) \in Places /\ ItemTo(b, at, end, rest) > at
<1>0. at \in Nat /\ at >= 1 BY DEF Places
<1>1. ASSUME NEW i \in Nat, i >= 1 PROVE ByteAt(b, i) \in Nat
  <2>1. CASE i <= Len(b)
    <3>1. i \in 1..Len(b) BY <1>1, <2>1, LenProperties
    <3>2. b[i] \in Nat BY <3>1, ElementOfSeq, ByteIsNat
    <3> QED BY <2>1, <3>2 DEF ByteAt
  <2>2. CASE ~(i <= Len(b)) BY <2>2 DEF ByteAt
  <2> QED BY <2>1, <2>2
<1> DEFINE n == readInt(b, at)
<1>2. n \in Nat
  <2>1. ByteAt(b, at) \in Nat /\ ByteAt(b, at + 1) \in Nat BY <1>0, <1>1
  <2> QED BY <2>1 DEF readInt
<1>3. readMQTTLenString(b, at, end).at = at + 2 + n BY DEF readMQTTLenString
<1> HIDE DEF n
<1>4. ItemTo(b, at, end, rest) = at + 2 + n + rest BY <1>3 DEF ItemTo
<1> QED BY <1>0, <1>2, <1>4 DEF Places

LEMMA NotLast ==
  ASSUME NEW at \in Nat, NEW d \in Nat, NEW end \in Nat, at + (d + 1) >= end, at + d + 1 # end
  PROVE  at + d >= end
OBVIOUS

LEMMA ItemExists ==
  ASSUME NEW b \in Seq(Bytes), NEW end \in Nat, NEW rest \in Nat
  PROVE  \E f : IsItem(f, b, end, rest)
<1> DEFINE Good(g, d) == /\ g = [at \in Places |-> g[at]]
                         /\ \A at \in Places : at + d >= end
                              => g[at] = ItemStep(g[ItemTo(b, at, end, rest)], b, at, end, rest)
           K == {d \in Nat : \E g : Good(g, d)}
<1>1. 0 \in K
  <2> DEFINE g == [at \in Places |-> [ok |-> TRUE, list |-> <<>>]]
  <2>1. ASSUME NEW at \in Places, at + 0 >= end PROVE g[at] = ItemStep(g[ItemTo(b, at, end, rest)], b, at, end, rest)
    <3>1. at >= end BY <2>1 DEF Places
    <3> QED BY <3>1 DEF ItemStep
  <2>2. g = [at \in Places |-> g[at]] OBVIOUS
  <2> HIDE DEF g
  <2>3. Good(g, 0) BY <2>1, <2>2
  <2> QED BY <2>3
<1>2. ASSUME NEW d \in K PROVE d + 1 \in K
  <2>1. d \in Nat BY <1>2
  <2>2. PICK g : Good(g, d) BY <1>2
  <2> DEFINE F(at) == ItemStep(g[ItemTo(b, at, end, rest)], b, at, end, rest)
             h == [at \in Places |-> IF at + d + 1 = end THEN F(at) ELSE g[at]]
  <2>3. h = [at \in Places |-> h[at]] OBVIOUS
  <2>4. ASSUME NEW at \in Places, at + (d + 1) >= end
        PROVE  h[at] = ItemStep(h[ItemTo(b, at, end, rest)], b, at, end, rest)
    <3> DEFINE to == ItemTo(b, at, end, rest)
    <3>1. at \in Nat /\ to \in Places /\ to \in Nat /\ to > at BY ItemIsFurther DEF Places
    <3>2. h[to] = g[to]
      <4>0. at + (d + 1) >= end BY <2>4
      <4> HIDE DEF to
      <4>1. to + d + 1 # end BY ONLY <2>1, <3>1, <4>0, end \in Nat
      <4> QED BY <3>1, <4>1
    <3>0. at + (d + 1) >= end BY <2>4
    <3>3. h[at] = F(at)
      <4>1. CASE at + d + 1 = end BY <4>1
      <4>2. CASE at + d + 1 # end
        <5>1. at + d >= end BY ONLY <2>1, <3>0, <3>1, <4>2, end \in Nat, NotLast, Zenon
        <5>2. g[at] = F(at) BY <2>2, <5>1
        <5>3. h[at] = g[at] BY <4>2
        <5> QED BY <5>2, <5>3
      <4> QED BY <4>1, <4>2
    <3> HIDE DEF h
    <3> QED BY <3>2, <3>3
  <2> HIDE DEF h
  <2>5. Good(h, d + 1) BY <2>3, <2>4
  <2> HIDE DEF Good
  <2> QED BY <2>1, <2>5
<1>3. K \subseteq Nat OBVIOUS
<1> HIDE DEF K
<1>4. end \in K BY <1>1, <1>2, <1>3, NatInd
<1>5. PICK f : Good(f, end) BY <1>4 DEF K
<1>6. \A at \in Places : f[at] = ItemStep(f[ItemTo(b, at, end, rest)], b, at, end, rest)
  <2> TAKE at \in Places
  <2>1. at \in Nat /\ at + end >= end BY DEF Places
  <2> QED BY <1>5, <2>1
<1>7. f = [at \in Places |-> f[at]] BY <1>5
<1> HIDE DEF Good
<1>8. IsItem(f, b, end, rest) BY <1>6, <1>7 DEF IsItem
<1> QED BY <1>8

\* Items is a function of the place that is what its definition says.
LEMMA ItemsUnfold ==
  ASSUME NEW b \in Seq(Bytes), NEW end \in Nat, NEW rest \in Nat, NEW from
  PROVE  \E f : /\ Items(b, from, end, rest) = f[from]
                /\ \A at \in Places : f[at] = ItemStep(f[ItemTo(b, at, end, rest)], b, at, end, rest)
<1> DEFINE item == CHOOSE f : IsItem(f, b, end, rest)
<1>1. IsItem(item, b, end, rest) BY ItemExists
<1>2. Items(b, from, end, rest) = item[from] BY DEF Items, IsItem, ItemStep, ItemTo, ItemBad, Places
<1> HIDE DEF item
<1>3. \A at \in Places : item[at] = ItemStep(item[ItemTo(b, at, end, rest)], b, at, end, rest)
  BY <1>1 DEF IsItem
<1> QED BY <1>2, <1>3

\* A filter that was found.
Found == [ok : {TRUE}, s : MQTTStrings, at : Nat]

LEMMA IsPlace ==
  ASSUME NEW p \in Nat, p >= 1
  PROVE  p \in Places
BY DEF Places

\* The item name with e behind it is found at the place at, and the next one behind it.
ItemFound(tail, b, at, end, rest, name, e) ==
  \E s \in Found :
    /\ ItemStep(tail, b, at, end, rest) = [ok |-> tail.ok, list |-> <<s>> \o tail.list]
    /\ s.s = name /\ At(b, s.at, e)
    /\ ItemTo(b, at, end, rest) = at + Len(writeMQTTString(name) \o e)

LEMMA OneItem ==
  ASSUME NEW b \in Seq(Bytes), NEW end \in Nat, NEW rest \in 0..1, NEW at \in Places,
         NEW name \in MQTTStrings, NEW e \in Seq(Bytes), Len(e) = rest,
         At(b, at, writeMQTTString(name) \o e), at + Len(writeMQTTString(name) \o e) <= end,
         NEW tail
  PROVE  ItemFound(tail, b, at, end, rest, name, e)
<1> DEFINE w == writeMQTTString(name)
           n == Len(name)
           s == [ok |-> TRUE, s |-> name, at |-> at + 2 + n]
<1>1. w \in Seq(Bytes) /\ Len(w) = 2 + n /\ n \in Nat BY StringWritten, StringType
<1>2. at \in Nat /\ Len(b) \in Nat BY LenProperties DEF Places
<1> HIDE DEF w, n
<1>3. Len(w \o e) = 2 + n + rest BY ONLY <1>1, e \in Seq(Bytes), Len(e) = rest, Joins
<1>4. At(b, at, w) /\ At(b, at + 2 + n, e)
  <2>0. At(b, at, w \o e) BY DEF w
  <2>1. At(b, at, w) /\ At(b, at + Len(w), e)
    BY ONLY <1>1, <1>2, <2>0, e \in Seq(Bytes), AtConcat
  <2>2. at + Len(w) = at + 2 + n BY <1>1, <1>2
  <2> QED BY <2>1, <2>2
<1>5. at + 2 + n + rest <= end /\ at + 2 + n <= end
  <2>1. at + Len(w \o e) <= end BY DEF w
  <2> QED BY ONLY <1>1, <1>2, <1>3, <2>1, end \in Nat, rest \in 0..1
<1>6. readMQTTLenString(b, at, end) = s
  <2>1. at + 2 + Len(name) <= end BY <1>5 DEF n
  <2>2. StringAt(b, at, end, name) BY ONLY <1>2, <1>4, <2>1, end \in Nat, name \in MQTTStrings, AtString DEF w
  <2> QED BY ONLY <2>2 DEF StringAt, n
<1>7. s \in Found BY <1>1, <1>2 DEF Found
<1>8. s.s = name /\ s.ok = TRUE /\ s.at = at + 2 + n OBVIOUS
<1> HIDE DEF s
<1>9. ItemTo(b, at, end, rest) = at + Len(w \o e) BY <1>1, <1>2, <1>3, <1>6, <1>8 DEF ItemTo
<1>10. ~(at >= end) /\ ~ItemBad(b, at, end, rest)
  <2>1. ~(at >= end) BY <1>1, <1>2, <1>5
  <2>2. rest > 0 => ~(s.at >= end) BY <1>1, <1>2, <1>5, <1>8
  <2> QED BY <1>6, <1>8, <2>1, <2>2 DEF ItemBad
<1>11. ItemStep(tail, b, at, end, rest) = [ok |-> tail.ok, list |-> <<s>> \o tail.list]
  BY ONLY <1>6, <1>10, Zenon DEF ItemStep
<1>12. At(b, s.at, e) BY <1>4, <1>8
<1> QED BY <1>7, <1>8, <1>9, <1>11, <1>12 DEF w, ItemFound

\* r is what is found from behind the first k of the items.
FoundFrom(r, k, b, names, ends) ==
  /\ r.ok = TRUE /\ r.list \in Seq(Found) /\ Len(r.list) = Len(names) - k
  /\ \A j \in 1..(Len(names) - k) : r.list[j].s = names[k + j] /\ At(b, r.list[j].at, ends[k + j])

LEMMA OneMoreFound ==
  ASSUME NEW b, NEW names, Len(names) \in Nat, NEW ends, NEW k \in Nat, k + 1 <= Len(names), NEW tail,
         FoundFrom(tail, k + 1, b, names, ends), NEW s \in Found, s.s = names[k + 1], At(b, s.at, ends[k + 1])
  PROVE  FoundFrom([ok |-> tail.ok, list |-> <<s>> \o tail.list], k, b, names, ends)
<1> DEFINE r == [ok |-> tail.ok, list |-> <<s>> \o tail.list]
           n == Len(names)
           one == <<s>>
           list == tail.list
           m == n - (k + 1)
<1>1. /\ tail.ok = TRUE /\ list \in Seq(Found) /\ Len(list) = m
      /\ \A j \in 1..m : list[j].s = names[(k + 1) + j] /\ At(b, list[j].at, ends[(k + 1) + j])
  BY DEF FoundFrom
<1>2. one \in Seq(Found) /\ Len(one) = 1 /\ one[1] = s OBVIOUS
<1>3. m \in Nat /\ m = n - k - 1 OBVIOUS
<1>4. r.ok = TRUE /\ r.list = one \o list BY <1>1
<1> HIDE DEF one, list, r, m
<1>5. /\ one \o list \in Seq(Found) /\ Len(one \o list) = 1 + m
      /\ \A j \in 1..(1 + m) : (one \o list)[j] = IF j <= 1 THEN one[j] ELSE list[j - 1]
  <2>1. one \in Seq(Found) /\ list \in Seq(Found) BY <1>1, <1>2
  <2>2. /\ one \o list \in Seq(Found) /\ Len(one \o list) = Len(one) + Len(list)
        /\ \A j \in 1..(Len(one) + Len(list)) : (one \o list)[j] = IF j <= Len(one) THEN one[j] ELSE list[j - Len(one)]
    BY ONLY <2>1, ConcatProperties
  <2>3. Len(one) = 1 /\ Len(list) = m BY <1>1, <1>2
  <2> QED BY ONLY <2>2, <2>3
<1>6. r.list \in Seq(Found) /\ Len(r.list) = n - k BY <1>3, <1>4, <1>5
<1>7. ASSUME NEW j \in 1..(n - k) PROVE r.list[j].s = names[k + j] /\ At(b, r.list[j].at, ends[k + j])
  <2>0. j \in 1..(1 + m) BY <1>3
  <2>1. CASE j = 1
    <3>1. r.list[j] = s BY <1>2, <1>4, <1>5, <2>0, <2>1
    <3>2. k + j = k + 1 BY <2>1
    <3> QED BY <3>1, <3>2
  <2>2. CASE j # 1
    <3>1. j - 1 \in 1..m /\ (k + 1) + (j - 1) = k + j /\ ~(j <= 1) BY <1>3, <2>0, <2>2
    <3>2. r.list[j] = list[j - 1] BY <1>4, <1>5, <2>0, <3>1
    <3>3. list[j - 1].s = names[(k + 1) + (j - 1)] /\ At(b, list[j - 1].at, ends[(k + 1) + (j - 1)])
      BY <1>1, <3>1
    <3> QED BY ONLY <3>1, <3>2, <3>3
  <2> QED BY <2>1, <2>2
<1>8. FoundFrom(r, k, b, names, ends) BY <1>4, <1>6, <1>7 DEF FoundFrom, n
<1> QED BY <1>8 DEF r, one, list

\* What the filters are written as.
WrittenAs(ss, names, ends, rest) ==
  /\ ss \in Seq(Seq(Bytes)) /\ Len(ss) = Len(names)
  /\ \A i \in 1..Len(names) :
       ends[i] \in Seq(Bytes) /\ Len(ends[i]) = rest /\ ss[i] = writeMQTTString(names[i]) \o ends[i]

\* Every filter of a list that was written is found.
LEMMA AllFound ==
  ASSUME NEW b \in Seq(Bytes), NEW end \in Nat, NEW rest \in 0..1, NEW at \in Places,
         NEW names \in Seq(MQTTStrings), NEW ends, NEW ss, WrittenAs(ss, names, ends, rest),
         At(b, at, Concat(ss)), end = at + Len(Concat(ss))
  PROVE  FoundFrom(Items(b, at, end, rest), 0, b, names, ends)
<1> DEFINE n == Len(names)
<1>1. n \in Nat /\ Len(b) \in Nat /\ at \in Nat /\ rest \in Nat BY LenProperties DEF Places
<1>2. /\ ss \in Seq(Seq(Bytes)) /\ Len(ss) = n
      /\ \A i \in 1..n : ends[i] \in Seq(Bytes) /\ Len(ends[i]) = rest /\ ss[i] = writeMQTTString(names[i]) \o ends[i]
  BY DEF WrittenAs
<1>3. PICK f : IsUptoOf(f, ss, n, Bytes) BY <1>2, UptoExists
<1>4. Concat(ss) = f[n] BY ONLY <1>2, <1>3, ConcatIs
<1>5. /\ \A k \in 0..n : f[k] \in Seq(Bytes) /\ Len(f[k]) \in Nat
      /\ f[0] = <<>> /\ \A k \in 1..n : f[k] = f[k - 1] \o ss[k]
  BY <1>3, LenProperties DEF IsUptoOf
<1>6. PICK item : /\ Items(b, at, end, rest) = item[at]
                  /\ \A p \in Places : item[p] = ItemStep(item[ItemTo(b, p, end, rest)], b, p, end, rest)
  BY <1>1, ItemsUnfold
<1> HIDE DEF n
<1> DEFINE Good(k) == /\ At(b, at, f[k]) /\ at + Len(f[k]) <= end
                      /\ FoundFrom(item[at + Len(f[k])], k, b, names, ends)
           K == {d \in Nat : d <= n => Good(n - d)}
<1>7. Good(n)
  <2>1. end = at + Len(f[n]) /\ At(b, at, f[n]) BY <1>4
  <2>2. n \in 0..n BY <1>1
  <2>3. end >= at BY ONLY <1>1, <1>5, <2>1, <2>2
  <2>4. end \in Places BY <2>3, <1>1 DEF Places
  <2>5. item[end] = [ok |-> TRUE, list |-> <<>>]
    <3>1. item[end] = ItemStep(item[ItemTo(b, end, end, rest)], b, end, end, rest) BY <1>6, <2>4
    <3>2. end >= end OBVIOUS
    <3> QED BY ONLY <3>1, <3>2 DEF ItemStep
  <2>6. FoundFrom(item[end], n, b, names, ends)
    <3> DEFINE none == <<>>
    <3>1. none \in Seq(Found) /\ Len(none) = 0 BY EmptySeq
    <3>2. Len(names) - n = 0 /\ 1..0 = {} BY <1>1 DEF n
    <3>3. item[end].ok = TRUE /\ item[end].list = none BY <2>5
    <3> HIDE DEF none
    <3> QED BY <3>1, <3>2, <3>3 DEF FoundFrom
  <2>7. at + Len(f[n]) <= end BY ONLY <2>1, <2>3, end \in Nat
  <2> QED BY <2>1, <2>6, <2>7
<1>8. ASSUME NEW k \in 1..n, Good(k) PROVE Good(k - 1)
  <2> DEFINE l == k - 1
             p == at + Len(f[l])
             q == at + Len(f[k])
  <2>1. l \in 0..n /\ k \in 0..n /\ l \in Nat /\ l + 1 = k /\ l + 1 <= n BY <1>1
  <2>2. f[k] = f[l] \o ss[k] /\ f[l] \in Seq(Bytes) /\ f[k] \in Seq(Bytes) BY <1>5, <2>1
  <2>3. /\ ss[k] \in Seq(Bytes) /\ ss[k] = writeMQTTString(names[k]) \o ends[k]
        /\ ends[k] \in Seq(Bytes) /\ Len(ends[k]) = rest /\ names[k] \in MQTTStrings
    BY <1>2, ElementOfSeq DEF n
  <2>4. At(b, at, f[k]) /\ q <= end /\ FoundFrom(item[q], k, b, names, ends) BY <1>8
  <2>5. Len(f[k]) = Len(f[l]) + Len(ss[k]) /\ Len(f[l]) \in Nat /\ Len(ss[k]) \in Nat
    <3>1. Len(f[l] \o ss[k]) = Len(f[l]) + Len(ss[k]) BY ONLY <2>2, <2>3, Joins
    <3> QED BY ONLY <2>2, <2>3, <3>1, LenProperties
  <2> HIDE DEF l
  <2>6. At(b, at, f[l]) /\ At(b, p, ss[k])
    <3>1. At(b, at, f[l] \o ss[k]) BY <2>2, <2>4
    <3> QED BY ONLY <1>1, <2>2, <2>3, <3>1, AtConcat
  <2>7. p \in Places /\ p + Len(ss[k]) = q /\ p <= end
    <3> DEFINE x == Len(f[l])
               y == Len(ss[k])
               z == Len(f[k])
    <3>1. x \in Nat /\ y \in Nat /\ z = x + y /\ at + z <= end BY <2>4, <2>5
    <3>2. at >= 1 BY DEF Places
    <3> HIDE DEF x, y, z
    <3>3. at + x \in Nat /\ at + x >= 1 /\ at + x + y = at + z /\ at + x <= end
      BY ONLY <1>1, <3>1, <3>2, end \in Nat
    <3>4. at + x \in Places BY ONLY <3>3, IsPlace
    <3> QED BY ONLY <3>3, <3>4 DEF x, y, z
  <2> HIDE DEF p, q
  <2> DEFINE tail == item[ItemTo(b, p, end, rest)]
  <2>8. item[p] = ItemStep(tail, b, p, end, rest) BY <1>6, <2>7
  <2>9. PICK s \in Found :
          /\ ItemStep(tail, b, p, end, rest) = [ok |-> tail.ok, list |-> <<s>> \o tail.list]
          /\ s.s = names[k] /\ At(b, s.at, ends[k])
          /\ ItemTo(b, p, end, rest) = p + Len(ss[k])
    <3> HIDE DEF tail
    <3> DEFINE nk == names[k]
               e == ends[k]
    <3>1. nk \in MQTTStrings /\ e \in Seq(Bytes) /\ Len(e) = rest BY <2>3
    <3>2. At(b, p, writeMQTTString(nk) \o e) /\ p + Len(writeMQTTString(nk) \o e) <= end
      <4>1. p + Len(ss[k]) <= end BY <2>4, <2>7
      <4> QED BY ONLY <2>3, <2>6, <4>1
    <3> HIDE DEF nk, e
    <3>3. ItemFound(tail, b, p, end, rest, nk, e)
      BY ONLY b \in Seq(Bytes), end \in Nat, rest \in 0..1, <2>7, <3>1, <3>2, OneItem
    <3> QED BY ONLY <2>3, <3>3, Zenon DEF nk, e, ItemFound
  <2>10. FoundFrom(tail, l + 1, b, names, ends) /\ s.s = names[l + 1] /\ At(b, s.at, ends[l + 1])
    BY <2>1, <2>4, <2>7, <2>9
  <2> HIDE DEF tail
  <2>11. FoundFrom([ok |-> tail.ok, list |-> <<s>> \o tail.list], l, b, names, ends)
    <3>1. Len(names) \in Nat /\ l \in Nat /\ l + 1 <= Len(names) /\ s \in Found BY <1>1, <2>1 DEF n
    <3> QED BY ONLY <2>10, <3>1, OneMoreFound
  <2>12. FoundFrom(item[p], l, b, names, ends) BY ONLY <2>8, <2>9, <2>11, Zenon
  <2> QED BY ONLY <2>6, <2>7, <2>12, Zenon DEF p, l
<1>9. 0 \in K 
  <2>1. n - 0 = n BY <1>1
  <2> HIDE DEF Good
  <2> QED BY <1>7, <2>1
<1>10. ASSUME NEW d \in K PROVE d + 1 \in K
  <2> HIDE DEF Good
  <2> SUFFICES ASSUME d + 1 <= n PROVE Good(n - (d + 1)) OBVIOUS
  <2>1. d \in Nat BY <1>10
  <2>2. n - d \in 1..n /\ (n - d) - 1 = n - (d + 1) /\ d <= n BY <1>1, <2>1
  <2>3. Good(n - d) BY <1>10, <2>2
  <2>4. Good((n - d) - 1) BY <1>8, <2>2, <2>3
  <2> QED BY <2>2, <2>4
<1>11. K \subseteq Nat OBVIOUS
<1> HIDE DEF K
<1>12. n \in K BY <1>1, <1>9, <1>10, <1>11, NatInd
<1> HIDE DEF Good
<1>13. Good(n - n) BY <1>1, <1>12 DEF K
<1>14. Good(0)
  <2>1. n - n = 0 BY <1>1
  <2> QED BY <1>13, <2>1
<1>15. at + Len(f[0]) = at BY <1>1, <1>5, EmptySeq
<1> QED BY <1>6, <1>14, <1>15 DEF Good

LEMMA SeqOf ==
  ASSUME NEW S, NEW n \in Nat, NEW f, f = [i \in 1..n |-> f[i]], \A i \in 1..n : f[i] \in S
  PROVE  f \in Seq(S) /\ Len(f) = n
<1>1. f \in [1..n -> S] OBVIOUS
<1> QED BY <1>1

LEMMA WrittenList ==
  ASSUME NEW names, NEW ends, NEW rest, NEW ss, WrittenAs(ss, names, ends, rest)
  PROVE  Concat(ss) \in Seq(Bytes)
BY ConcatType DEF WrittenAs

LEMMA RequestRead ==
  ASSUME NEW b \in Seq(Bytes), NEW h, NEW n \in Words, NEW rest \in 0..1,
         NEW names \in Seq(MQTTStrings), NEW ends, NEW ss, WrittenAs(ss, names, ends, rest),
         Framed(b, h, writeInt(n) \o Concat(ss))
  PROVE  /\ b[1] = h /\ readInt(b, Start(b)) = n
         /\ FoundFrom(Items(b, Start(b) + 2, End(b), rest), 0, b, names, ends)
<1> DEFINE at == Start(b)
           end == End(b)
           w == writeInt(n)
           list == Concat(ss)
<1>1. w \in Seq(Bytes) /\ Len(w) = 2 /\ list \in Seq(Bytes) BY IntWritten, WrittenList
<1>2. b[1] = h /\ at \in Nat /\ end \in Nat /\ end = at + Len(w \o list) /\ At(b, at, w \o list)
  BY DEF Framed
<1>3. Len(b) \in Nat /\ Len(list) \in Nat BY <1>1, LenProperties
<1> HIDE DEF w, list, at, end
<1>4. Len(w \o list) = 2 + Len(list)
  <2>1. Len(w \o list) = Len(w) + Len(list) BY ONLY <1>1, Joins
  <2> QED BY ONLY <1>1, <2>1
<1>5. At(b, at, w) /\ At(b, at + 2, list)
  <2>1. At(b, at, w) /\ At(b, at + Len(w), list) BY ONLY <1>1, <1>2, <1>3, AtConcat
  <2> QED BY <1>1, <2>1
<1>6. readInt(b, at) = n BY ONLY <1>2, <1>3, <1>5, n \in Words, AtInt DEF w
<1>7. at + 2 \in Places /\ end = (at + 2) + Len(list)
  <2>1. at + 2 \in Nat /\ at + 2 >= 1 /\ end = (at + 2) + Len(list) BY ONLY <1>2, <1>3, <1>4
  <2> QED BY ONLY <2>1, IsPlace
<1>8. FoundFrom(Items(b, at + 2, end, rest), 0, b, names, ends)
  <2>1. At(b, at + 2, Concat(ss)) /\ end = (at + 2) + Len(Concat(ss)) BY <1>5, <1>7 DEF list
  <2> DEFINE from == at + 2
  <2>2. from \in Places BY <1>7
  <2> HIDE DEF from
  <2>3. At(b, from, Concat(ss)) /\ end = from + Len(Concat(ss)) BY <2>1 DEF from
  <2>4. FoundFrom(Items(b, from, end, rest), 0, b, names, ends)
    BY ONLY b \in Seq(Bytes), <1>2, rest \in 0..1, names \in Seq(MQTTStrings), WrittenAs(ss, names, ends, rest),
            <2>2, <2>3, AllFound
  <2> QED BY <2>4 DEF from
<1> QED BY <1>2, <1>6, <1>8 DEF at, end

LEMMA UnsubscribeRead ==
  ASSUME NEW b \in Seq(Bytes), NEW h, NEW dup \in BOOLEAN, HeaderIs(h, UNSUBSCRIBE, dup, 1, FALSE),
         NEW n \in Words, NEW names \in Seq(MQTTStrings), NEW ends, NEW ss, WrittenAs(ss, names, ends, 0),
         Framed(b, h, writeInt(n) \o Concat(ss))
  PROVE  MQTTDeserialize_unsubscribe(b)
           = Reads([type |-> UNSUBSCRIBE, dup |-> dup, id |-> n, filters |-> names])
<1> DEFINE none == 0
           items == Items(b, Start(b) + 2, End(b), 0)
<1>1. /\ b[1] = h /\ readInt(b, Start(b)) = n
      /\ FoundFrom(Items(b, Start(b) + 2, End(b), none), 0, b, names, ends)
  <2>1. none \in 0..1 /\ WrittenAs(ss, names, ends, none) OBVIOUS
  <2> HIDE DEF none
  <2> QED BY <2>1, RequestRead
<1>2. FoundFrom(items, 0, b, names, ends) BY <1>1
<1> HIDE DEF items
<1>3. Len(names) \in Nat /\ Len(names) - 0 = Len(names) BY LenProperties
<1>4. /\ items.ok = TRUE /\ items.list \in Seq(Found) /\ Len(items.list) = Len(names)
      /\ \A j \in 1..Len(names) : items.list[j].s = names[j]
  <2>1. \A j \in 1..Len(names) : 0 + j = j BY <1>3
  <2> QED BY <1>2, <1>3, <2>1 DEF FoundFrom
<1>5. [i \in DOMAIN items.list |-> items.list[i].s] = names
  <2>1. DOMAIN items.list = 1..Len(names) BY <1>4, LenProperties
  <2>2. names = [i \in 1..Len(names) |-> names[i]] BY LenProperties
  <2> QED BY ONLY <1>4, <2>1, <2>2, Zenon
<1>6. TypeOf(b[1]) = UNSUBSCRIBE /\ DupOf(b[1]) = dup BY <1>1 DEF HeaderIs
<1>7. MQTTDeserialize_unsubscribe(b)
        = (LET r == Items(b, Start(b) + 2, End(b), 0)
           IN IF TypeOf(b[1]) # UNSUBSCRIBE THEN Refuses(UNSUBSCRIBE)
              ELSE IF ~r.ok THEN GivesUp(b, UNSUBSCRIBE)
              ELSE Reads([type |-> UNSUBSCRIBE, dup |-> DupOf(b[1]), id |-> readInt(b, Start(b)),
                          filters |-> [i \in DOMAIN r.list |-> r.list[i].s]]))
  BY DEF MQTTDeserialize_unsubscribe
<1>8. MQTTDeserialize_unsubscribe(b)
        = Reads([type |-> UNSUBSCRIBE, dup |-> DupOf(b[1]), id |-> readInt(b, Start(b)),
                 filters |-> [i \in DOMAIN items.list |-> items.list[i].s]])
  <2>1. ~(TypeOf(b[1]) # UNSUBSCRIBE) /\ ~(~items.ok) BY <1>4, <1>6
  <2> QED BY ONLY <1>7, <2>1, Zenon DEF items
<1> QED BY ONLY <1>1, <1>5, <1>6, <1>8, Zenon

LEMMA SubscribeRead ==
  ASSUME NEW b \in Seq(Bytes), NEW h, NEW dup \in BOOLEAN, HeaderIs(h, SUBSCRIBE, dup, 1, FALSE),
         NEW n \in Words, NEW filters \in Seq(MQTTStrings \X (0..2)), Len(filters) <= MaxCount,
         NEW names \in Seq(MQTTStrings), NEW ends, NEW ss, WrittenAs(ss, names, ends, 1),
         Len(names) = Len(filters),
         \A i \in 1..Len(filters) : names[i] = filters[i][1] /\ ends[i] = <<filters[i][2]>>,
         Framed(b, h, writeInt(n) \o Concat(ss))
  PROVE  MQTTDeserialize_subscribe(b, MaxCount)
           = Reads([type |-> SUBSCRIBE, dup |-> dup, id |-> n, filters |-> filters])
<1> DEFINE one == 1
           items == Items(b, Start(b) + 2, End(b), 1)
           m == Len(filters)
<1>1. /\ b[1] = h /\ readInt(b, Start(b)) = n
      /\ FoundFrom(Items(b, Start(b) + 2, End(b), one), 0, b, names, ends)
  <2>1. one \in 0..1 /\ WrittenAs(ss, names, ends, one) OBVIOUS
  <2> HIDE DEF one
  <2> QED BY ONLY <2>1, b \in Seq(Bytes), n \in Words, names \in Seq(MQTTStrings),
                  Framed(b, h, writeInt(n) \o Concat(ss)), RequestRead
<1>2. FoundFrom(items, 0, b, names, ends) BY <1>1
<1> HIDE DEF items
<1>3. m \in Nat /\ m - 0 = m /\ Len(names) = m BY LenProperties
<1>4. /\ items.ok = TRUE /\ items.list \in Seq(Found) /\ Len(items.list) = m
      /\ \A j \in 1..m : items.list[j].s = names[j] /\ At(b, items.list[j].at, ends[j])
  <2> HIDE DEF m
  <2>1. \A j \in 1..m : 0 + j = j BY <1>3
  <2> QED BY <1>2, <1>3, <2>1 DEF FoundFrom
<1>9. ASSUME NEW i \in 1..m PROVE <<items.list[i].s, ByteAt(b, items.list[i].at)>> = filters[i]
  <2>1. items.list[i].s = filters[i][1] /\ ends[i] = <<filters[i][2]>> BY <1>4
  <2>2. items.list[i] \in Found BY <1>4, ElementOfSeq
  <2>3. items.list[i].at \in Nat BY <2>2 DEF Found
  <2> DEFINE x == filters[i][2]
             at == items.list[i].at
  <2>4. At(b, at, <<x>>) BY <1>4, <2>1
  <2>5. Len(b) \in Nat BY LenProperties
  <2>6. filters[i] \in MQTTStrings \X (0..2) BY ElementOfSeq
  <2>7. filters[i] = <<filters[i][1], filters[i][2]>> BY <2>6
  <2> HIDE DEF at, x
  <2>8. ByteAt(b, at) = x BY <2>3, <2>4, <2>5, AtByte DEF at
  <2> QED BY ONLY <2>1, <2>7, <2>8 DEF at, x
<1>5. [i \in DOMAIN items.list |-> <<items.list[i].s, ByteAt(b, items.list[i].at)>>] = filters
  <2>1. DOMAIN items.list = 1..m BY <1>4, LenProperties
  <2>2. filters = [i \in 1..m |-> filters[i]] BY LenProperties
  <2> HIDE DEF m
  <2> QED BY ONLY <1>9, <2>1, <2>2, Zenon
<1>6. TypeOf(b[1]) = SUBSCRIBE /\ DupOf(b[1]) = dup BY <1>1 DEF HeaderIs
<1>7. MQTTDeserialize_subscribe(b, MaxCount)
        = (LET r == Items(b, Start(b) + 2, End(b), 1)
           IN IF TypeOf(b[1]) # SUBSCRIBE \/ ~r.ok \/ Len(r.list) > MaxCount
              THEN [rc |-> -1, p |-> Unset(SUBSCRIBE)]
              ELSE Reads([type |-> SUBSCRIBE, dup |-> DupOf(b[1]), id |-> readInt(b, Start(b)),
                          filters |-> [i \in DOMAIN r.list |-> <<r.list[i].s, ByteAt(b, r.list[i].at)>>]]))
  BY DEF MQTTDeserialize_subscribe
<1>8. MQTTDeserialize_subscribe(b, MaxCount)
        = Reads([type |-> SUBSCRIBE, dup |-> DupOf(b[1]), id |-> readInt(b, Start(b)),
                 filters |-> [i \in DOMAIN items.list |-> <<items.list[i].s, ByteAt(b, items.list[i].at)>>]])
  <2>0. MaxCount \in Nat BY ReaderAssumption
  <2>1. ~(TypeOf(b[1]) # SUBSCRIBE) /\ ~(~items.ok) /\ ~(Len(items.list) > MaxCount) BY <1>3, <1>4, <1>6, <2>0
  <2> QED BY ONLY <1>7, <2>1, Zenon DEF items
<1> QED BY ONLY <1>1, <1>5, <1>6, <1>8, Zenon

\* What a request with the filters' bytes ss is written as and read from.
WrittenIs(p, h, body) == Serialize(p, 1000) # <<>> /\ Serialize(p, 1000) = Written(p, 1000, h, body)
RequestOf(p, type, dup, id, ss) ==
  p.type = type /\ WrittenIs(p, Header(type, dup, 1, FALSE), writeInt(id) \o Concat(ss))
RequestFormed(p, type, dup, id, ss) ==
  /\ Form(p, Header(type, dup, 1, FALSE), writeInt(id) \o Concat(ss))
  /\ HeaderIs(Header(type, dup, 1, FALSE), type, dup, 1, FALSE)

LEMMA RequestForm ==
  ASSUME NEW p, NEW type \in 1..14, NEW dup \in BOOLEAN, NEW id \in Words,
         NEW names, NEW ends, NEW rest, NEW ss, WrittenAs(ss, names, ends, rest),
         RequestOf(p, type, dup, id, ss)
  PROVE  RequestFormed(p, type, dup, id, ss)
<1> DEFINE h == Header(type, dup, 1, FALSE)
           w == writeInt(id)
           list == Concat(ss)
           body == w \o list
           one == 1
<1>1. HeaderIs(h, type, dup, 1, FALSE) 
  <2>1. one \in 0..2 OBVIOUS
  <2> HIDE DEF one, h
  <2>2. HeaderIs(Header(type, dup, one, FALSE), type, dup, one, FALSE)
    BY ONLY type \in 1..14, dup \in BOOLEAN, <2>1, PlainHeader
  <2> QED BY ONLY <2>2 DEF h, one
<1>2. w \in Seq(Bytes) /\ list \in Seq(Bytes)
  <2>1. w \in Seq(Bytes) BY ONLY id \in Words, IntWritten
  <2>2. list \in Seq(Bytes) BY ONLY WrittenAs(ss, names, ends, rest), ConcatType DEF WrittenAs, list
  <2> QED BY ONLY <2>1, <2>2
<1>8. p.type = type /\ WrittenIs(p, h, body) BY Zenon DEF RequestOf
<1> HIDE DEF h, w, list
<1>6. p.type = type /\ Serialize(p, 1000) # <<>> /\ Serialize(p, 1000) = Written(p, 1000, h, body)
  BY ONLY <1>8 DEF WrittenIs
<1>3. body \in Seq(Bytes) BY ONLY <1>2, Joins
<1>4. h \in Bytes /\ TypeOf(h) = type BY <1>1 DEF HeaderIs
<1> HIDE DEF body
<1>5. Serialize(p, 1000) = Frame(h, body) /\ Len(body) < Limit
  <2>1. Written(p, 1000, h, body) # <<>> BY ONLY <1>6
  <2> QED BY ONLY <1>3, <1>4, <1>6, <2>1, WrittenFrame
<1>7. Form(p, h, body) BY ONLY <1>3, <1>4, <1>5, <1>6 DEF Form
<1> QED BY ONLY <1>1, <1>7, Zenon DEF h, body, w, list, RequestFormed

LEMMA UnsubscribesTrip ==
  ASSUME NEW p \in Unsubscribes, Serialize(p, 1000) # <<>>
  PROVE  RoundTrip(p)
<1> DEFINE names == p.filters
           ends == [i \in 1..Len(names) |-> <<>>]
           ss == [i \in DOMAIN p.filters |-> writeMQTTString(p.filters[i])]
           h == Header(UNSUBSCRIBE, p.dup, 1, FALSE)
           body == writeInt(p.id) \o Concat(ss)
<1>1. /\ p = [type |-> UNSUBSCRIBE, dup |-> p.dup, id |-> p.id, filters |-> names]
      /\ p.type = UNSUBSCRIBE /\ p.dup \in BOOLEAN /\ p.id \in Words
      /\ names \in Seq(MQTTStrings)
  BY DEF Unsubscribes, AtMost
<1>2. UNSUBSCRIBE \in 1..14 /\ p.type \in 1..14 /\ p.type = 10 BY <1>1, TypeNumbers
<1>3. WrittenAs(ss, names, ends, 0)
  <2>1. Len(names) \in Nat /\ DOMAIN names = 1..Len(names) BY <1>1, LenProperties
  <2>2. ASSUME NEW i \in 1..Len(names)
        PROVE  /\ ss[i] = writeMQTTString(names[i]) \o ends[i] /\ ss[i] \in Seq(Bytes)
               /\ ends[i] \in Seq(Bytes) /\ Len(ends[i]) = 0
    <3> DEFINE x == writeMQTTString(names[i])
    <3>1. names[i] \in MQTTStrings BY <1>1, ElementOfSeq
    <3>2. x \in Seq(Bytes) BY ONLY <3>1, StringWritten
    <3>3. ss[i] = x /\ ends[i] = <<>> BY <2>1
    <3> HIDE DEF x, ss, ends
    <3>4. x \o <<>> = x BY ONLY <3>2, ConcatEmptySeq
    <3>5. <<>> \in Seq(Bytes) /\ Len(<<>>) = 0 BY EmptySeq
    <3> QED BY ONLY <3>2, <3>3, <3>4, <3>5 DEF x
  <2>3. ss = [i \in 1..Len(names) |-> ss[i]] BY <2>1
  <2> HIDE DEF ss, ends, names
  <2>4. ss \in Seq(Seq(Bytes)) /\ Len(ss) = Len(names)
    <3>1. \A i \in 1..Len(names) : ss[i] \in Seq(Bytes) BY ONLY <2>2
    <3> QED BY ONLY <2>1, <2>3, <3>1, SeqOf
  <2> QED BY ONLY <2>2, <2>4 DEF WrittenAs
<1>4. Serialize(p, 1000) = Written(p, 1000, h, body)
  <2>1. Serialize(p, 1000) = MQTTSerialize_unsubscribe(p, 1000)
    <3> HIDE DEF h, body
    <3> QED BY ONLY <1>2, TypeNumbers DEF Serialize
  <2> DEFINE room == 1000
  <2>2. Serialize(p, room) = MQTTSerialize_unsubscribe(p, room) BY <2>1
  <2> HIDE DEF room
  <2>3. Serialize(p, room) = Written(p, room, h, body) BY ONLY <2>2, Zenon DEF MQTTSerialize_unsubscribe
  <2> HIDE DEF h, body
  <2> QED BY ONLY <2>3 DEF room
<1> HIDE DEF names, ends, ss
<1>5. Form(p, h, body) /\ HeaderIs(h, UNSUBSCRIBE, p.dup, 1, FALSE)
  <2>1. RequestOf(p, UNSUBSCRIBE, p.dup, p.id, ss)
    <3>1. WrittenIs(p, h, body)
      <4> HIDE DEF h, body
      <4> QED BY <1>4 DEF WrittenIs
    <3>2. p.type = UNSUBSCRIBE BY ONLY <1>1
    <3> QED BY ONLY <3>1, <3>2, Zenon DEF RequestOf, h, body
  <2> HIDE DEF h, body
  <2>2. RequestFormed(p, UNSUBSCRIBE, p.dup, p.id, ss) BY ONLY <1>1, <1>2, <1>3, <2>1, RequestForm
  <2> QED BY ONLY <2>2, Zenon DEF RequestFormed, h, body
<1> HIDE DEF h, body
<1>6. ReadBack(p, h, body)
  <2> SUFFICES ASSUME NEW b \in Seq(Bytes), At(b, 1, Frame(h, body))
               PROVE  Deserialize(p.type, b, MaxCount) = Reads(p)
    BY DEF ReadBack
  <2>1. Framed(b, h, body) 
    <3>1. h \in Bytes /\ body \in Seq(Bytes) /\ Len(body) < Limit BY <1>5 DEF Form
    <3> QED BY <3>1, FrameRead
  <2>2. Framed(b, h, writeInt(p.id) \o Concat(ss)) BY <2>1 DEF body
  <2>3. MQTTDeserialize_unsubscribe(b)
          = Reads([type |-> UNSUBSCRIBE, dup |-> p.dup, id |-> p.id, filters |-> names])
    BY ONLY <1>1, <1>3, <1>5, <2>2, b \in Seq(Bytes), UnsubscribeRead, Zenon
  <2>4. Deserialize(p.type, b, MaxCount) = MQTTDeserialize_unsubscribe(b) BY ONLY <1>2, TypeNumbers DEF Deserialize
  <2> QED BY ONLY <1>1, <2>3, <2>4, Zenon
<1> QED BY <1>2, <1>5, <1>6 DEF RoundTrip

LEMMA SubscribesTrip ==
  ASSUME NEW p \in Subscribes, Serialize(p, 1000) # <<>>
  PROVE  RoundTrip(p)
<1> DEFINE filters == p.filters
           n == Len(filters)
           names == [i \in 1..n |-> filters[i][1]]
           ends == [i \in 1..n |-> <<filters[i][2]>>]
           ss == [i \in DOMAIN p.filters |-> writeMQTTString(p.filters[i][1]) \o <<p.filters[i][2]>>]
           h == Header(SUBSCRIBE, p.dup, 1, FALSE)
           body == writeInt(p.id) \o Concat(ss)
<1>1. /\ p = [type |-> SUBSCRIBE, dup |-> p.dup, id |-> p.id, filters |-> filters]
      /\ p.type = SUBSCRIBE /\ p.dup \in BOOLEAN /\ p.id \in Words
      /\ filters \in Seq(MQTTStrings \X (0..2)) /\ Len(filters) <= MaxCount
  BY DEF Subscribes, AtMost
<1>2. SUBSCRIBE \in 1..14 /\ p.type \in 1..14 /\ p.type = 8 BY <1>1, TypeNumbers
<1>7. n \in Nat /\ DOMAIN filters = 1..n BY <1>1, LenProperties
<1>8. \A i \in 1..n : filters[i][1] \in MQTTStrings /\ filters[i][2] \in Bytes
  <2> TAKE i \in 1..n
  <2>1. filters[i] \in MQTTStrings \X (0..2) BY <1>1, ElementOfSeq
  <2>2. filters[i][1] \in MQTTStrings /\ filters[i][2] \in 0..2 BY <2>1
  <2> QED BY <2>2 DEF Bytes
<1>9. /\ \A i \in 1..n : names[i] = filters[i][1] /\ ends[i] = <<filters[i][2]>>
      /\ names \in [1..n -> MQTTStrings]
  BY <1>8
<1>10. names \in Seq(MQTTStrings) /\ Len(names) = n
  <2> HIDE DEF names, n
  <2> QED BY <1>7, <1>9
<1>3. WrittenAs(ss, names, ends, 1)
  <2>2. ASSUME NEW i \in 1..n
        PROVE  /\ ss[i] = writeMQTTString(names[i]) \o ends[i] /\ ss[i] \in Seq(Bytes)
               /\ ends[i] \in Seq(Bytes) /\ Len(ends[i]) = 1
    <3> DEFINE x == writeMQTTString(names[i])
    <3>1. names[i] \in MQTTStrings BY <1>8, <1>9
    <3>2. x \in Seq(Bytes) BY ONLY <3>1, StringWritten
    <3>3. ss[i] = writeMQTTString(filters[i][1]) \o <<filters[i][2]>> BY <1>7, Zenon
    <3>4. ss[i] = x \o ends[i] BY ONLY <1>9, <3>3, i \in 1..n
    <3>5. ends[i] \in Seq(Bytes) /\ Len(ends[i]) = 1
      <4> DEFINE y == filters[i][2]
      <4>1. ends[i] = <<y>> /\ y \in Bytes BY <1>8, <1>9
      <4> HIDE DEF y
      <4> QED BY ONLY <4>1
    <3> HIDE DEF x, ss, ends
    <3>6. x \o ends[i] \in Seq(Bytes) BY ONLY <3>2, <3>5, Joins
    <3> QED BY ONLY <3>4, <3>5, <3>6 DEF x
  <2>3. ss = [i \in 1..n |-> ss[i]] BY <1>7
  <2> HIDE DEF ss, ends, names, n
  <2>4. ss \in Seq(Seq(Bytes)) /\ Len(ss) = Len(names)
    <3>1. \A i \in 1..n : ss[i] \in Seq(Bytes) BY ONLY <2>2
    <3>2. ss \in Seq(Seq(Bytes)) /\ Len(ss) = n BY ONLY <1>7, <2>3, <3>1, SeqOf
    <3> QED BY ONLY <1>10, <3>2
  <2> QED BY ONLY <1>10, <2>2, <2>4 DEF WrittenAs
<1>4. Serialize(p, 1000) = Written(p, 1000, h, body)
  <2>1. Serialize(p, 1000) = MQTTSerialize_subscribe(p, 1000)
    <3> HIDE DEF h, body
    <3> QED BY ONLY <1>2, TypeNumbers DEF Serialize
  <2> DEFINE room == 1000
  <2>2. Serialize(p, room) = MQTTSerialize_subscribe(p, room) BY <2>1
  <2> HIDE DEF room
  <2>3. Serialize(p, room) = Written(p, room, h, body) BY ONLY <2>2, Zenon DEF MQTTSerialize_subscribe
  <2> HIDE DEF h, body
  <2> QED BY ONLY <2>3 DEF room
<1> HIDE DEF names, ends, ss, filters
<1>5. Form(p, h, body) /\ HeaderIs(h, SUBSCRIBE, p.dup, 1, FALSE)
  <2>1. RequestOf(p, SUBSCRIBE, p.dup, p.id, ss)
    <3>1. WrittenIs(p, h, body)
      <4> HIDE DEF h, body
      <4> QED BY <1>4 DEF WrittenIs
    <3>2. p.type = SUBSCRIBE BY ONLY <1>1
    <3> QED BY ONLY <3>1, <3>2, Zenon DEF RequestOf, h, body
  <2> HIDE DEF h, body
  <2>2. RequestFormed(p, SUBSCRIBE, p.dup, p.id, ss) BY ONLY <1>1, <1>2, <1>3, <2>1, RequestForm
  <2> QED BY ONLY <2>2, Zenon DEF RequestFormed, h, body
<1> HIDE DEF h, body
<1>6. ReadBack(p, h, body)
  <2> SUFFICES ASSUME NEW b \in Seq(Bytes), At(b, 1, Frame(h, body))
               PROVE  Deserialize(p.type, b, MaxCount) = Reads(p)
    BY DEF ReadBack
  <2>1. Framed(b, h, body)
    <3>1. h \in Bytes /\ body \in Seq(Bytes) /\ Len(body) < Limit BY <1>5 DEF Form
    <3> QED BY <3>1, FrameRead
  <2>2. Framed(b, h, writeInt(p.id) \o Concat(ss)) BY <2>1 DEF body
  <2>5. Len(names) = Len(filters) /\ \A i \in 1..Len(filters) : names[i] = filters[i][1] /\ ends[i] = <<filters[i][2]>>
    BY ONLY <1>9, <1>10 DEF n
  <2>3. MQTTDeserialize_subscribe(b, MaxCount)
          = Reads([type |-> SUBSCRIBE, dup |-> p.dup, id |-> p.id, filters |-> filters])
    BY ONLY <1>1, <1>3, <1>5, <1>10, <2>2, <2>5, b \in Seq(Bytes), SubscribeRead, Zenon
  <2>4. Deserialize(p.type, b, MaxCount) = MQTTDeserialize_subscribe(b, MaxCount) BY ONLY <1>2, TypeNumbers DEF Deserialize
  <2> QED BY ONLY <1>1, <2>3, <2>4, Zenon
<1> QED BY <1>2, <1>5, <1>6 DEF RoundTrip

(***************************************************************************)
(* CONNECT.                                                                *)
(***************************************************************************)
LEMMA NoneOrOne ==
  ASSUME NEW S, NEW s \in Maybes(S)
  PROVE  \/ s = <<>> /\ Len(s) = 0
         \/ s # <<>> /\ Len(s) = 1 /\ s[1] \in S /\ s = <<s[1]>>
<1>1. s \in Seq(S) /\ Len(s) <= 1 /\ Len(s) \in Nat BY LenProperties DEF Maybes
<1>2. CASE Len(s) = 0
  <2>1. s = <<>> BY <1>1, <1>2, EmptySeq
  <2> QED BY <1>2, <2>1
<1>3. CASE Len(s) = 1
  <2>1. 1 \in 1..Len(s) BY <1>3
  <2>2. s[1] \in S BY <1>1, <2>1, ElementOfSeq
  <2>3. s # <<>> 
    <3>1. Len(<<>>) = 0 OBVIOUS
    <3> QED BY <1>3, <3>1
  <2> DEFINE x == s[1]
             t == <<x>>
  <2>4. t \in Seq(S) /\ Len(t) = 1 /\ t[1] = x BY <2>2
  <2>5. s = t BY <1>1, <1>3, <2>4, SeqEqual
  <2> QED BY <1>3, <2>2, <2>3, <2>5
<1>4. Len(s) = 0 \/ Len(s) = 1 BY <1>1
<1> QED BY <1>2, <1>3, <1>4

MaybeString(s) == IF s = <<>> THEN <<>> ELSE writeMQTTString(s[1])
MaybeWill(s) == IF s = <<>> THEN <<>> ELSE writeWill(s[1])

LEMMA MaybeStringWritten ==
  ASSUME NEW s \in Maybes(MQTTStrings)
  PROVE  /\ MaybeString(s) \in Seq(Bytes)
         /\ s = <<>> => Len(MaybeString(s)) = 0
         /\ s # <<>> => Len(MaybeString(s)) = 2 + Len(s[1]) /\ Len(s[1]) \in Nat /\ s[1] \in MQTTStrings
<1>1. CASE s = <<>>
  <2>1. MaybeString(s) = <<>> BY <1>1 DEF MaybeString
  <2> QED BY <1>1, <2>1, EmptySeq
<1>2. CASE s # <<>>
  <2>1. s[1] \in MQTTStrings BY ONLY <1>2, s \in Maybes(MQTTStrings), NoneOrOne
  <2>2. MaybeString(s) = writeMQTTString(s[1]) BY <1>2 DEF MaybeString
  <2> DEFINE x == s[1]
  <2> HIDE DEF x
  <2>3. x \in MQTTStrings BY <2>1 DEF x
  <2>4. writeMQTTString(x) \in Seq(Bytes) /\ Len(writeMQTTString(x)) = 2 + Len(x) /\ Len(x) \in Nat
    BY ONLY <2>3, StringWritten, StringType
  <2> QED BY ONLY <1>2, <2>1, <2>2, <2>4 DEF x
<1> QED BY <1>1, <1>2

LEMMA WillWritten ==
  ASSUME NEW w \in Wills
  PROVE  /\ w.topic \in MQTTStrings /\ w.message \in MQTTStrings
         /\ Len(w.topic) \in Nat /\ Len(w.message) \in Nat
         /\ writeWill(w) \in Seq(Bytes) /\ Len(writeWill(w)) = (2 + Len(w.topic)) + (2 + Len(w.message))
<1> DEFINE t == w.topic
           m == w.message
           x == writeMQTTString(t)
           y == writeMQTTString(m)
<1>1. t \in MQTTStrings /\ m \in MQTTStrings BY DEF Wills
<1> HIDE DEF t, m
<1>2. x \in Seq(Bytes) /\ Len(x) = 2 + Len(t) /\ y \in Seq(Bytes) /\ Len(y) = 2 + Len(m)
      /\ Len(t) \in Nat /\ Len(m) \in Nat
  BY ONLY <1>1, StringWritten, StringType
<1> HIDE DEF x, y
<1>3. x \o y \in Seq(Bytes) /\ Len(x \o y) = Len(x) + Len(y) BY ONLY <1>2, Joins
<1>4. writeWill(w) = x \o y BY DEF writeWill, x, y, t, m
<1> QED BY ONLY <1>1, <1>2, <1>3, <1>4 DEF t, m

LEMMA MaybeWillWritten ==
  ASSUME NEW s \in Maybes(Wills)
  PROVE  /\ MaybeWill(s) \in Seq(Bytes)
         /\ s = <<>> => Len(MaybeWill(s)) = 0
         /\ s # <<>> => s[1] \in Wills
<1>1. CASE s = <<>>
  <2>1. MaybeWill(s) = <<>> BY <1>1 DEF MaybeWill
  <2> QED BY <1>1, <2>1, EmptySeq
<1>2. CASE s # <<>>
  <2> DEFINE x == s[1]
  <2>1. x \in Wills BY ONLY <1>2, s \in Maybes(Wills), NoneOrOne
  <2>2. MaybeWill(s) = writeWill(x) BY <1>2 DEF MaybeWill
  <2> HIDE DEF x
  <2>3. writeWill(x) \in Seq(Bytes) BY ONLY <2>1, WillWritten
  <2> QED BY ONLY <1>2, <2>1, <2>2, <2>3 DEF x
<1> QED BY <1>1, <1>2

\* A string that lies in the buffer is read.
StringIs(b, i, s) == stringOf(b, i) = [ok |-> TRUE, s |-> s, at |-> i + 2 + Len(s)]

LEMMA StringRead ==
  ASSUME NEW b \in Seq(Bytes), NEW i \in Nat, NEW s \in MQTTStrings, At(b, i, writeMQTTString(s))
  PROVE  StringIs(b, i, s)
<1> DEFINE w == writeMQTTString(s)
           end == Len(b) + 1
<1>1. w \in Seq(Bytes) /\ Len(w) = 2 + Len(s) /\ Len(s) \in Nat /\ Len(b) \in Nat
  BY StringWritten, StringType, LenProperties
<1>2. i + Len(w) - 1 <= Len(b) BY DEF At
<1> HIDE DEF w
<1>3. end \in Nat /\ i + 2 + Len(s) <= end BY ONLY <1>1, <1>2, i \in Nat
<1> HIDE DEF end
<1>4. StringAt(b, i, end, s) BY <1>1, <1>3, AtString
<1> QED BY ONLY <1>4 DEF StringAt, StringIs, stringOf, end

LEMMA WillRead ==
  ASSUME NEW b \in Seq(Bytes), NEW i \in Nat, NEW w \in Wills, At(b, i, writeWill(w))
  PROVE  /\ StringIs(b, i, w.topic) /\ StringIs(b, i + 2 + Len(w.topic), w.message)
         /\ (i + 2 + Len(w.topic)) + 2 + Len(w.message) = i + Len(writeWill(w))
<1> DEFINE t == w.topic
           m == w.message
           x == writeMQTTString(t)
           y == writeMQTTString(m)
           j == i + 2 + Len(t)
<1>1. /\ t \in MQTTStrings /\ m \in MQTTStrings /\ Len(t) \in Nat /\ Len(m) \in Nat
      /\ Len(writeWill(w)) = (2 + Len(t)) + (2 + Len(m))
  BY WillWritten
<1>4. writeWill(w) = x \o y BY DEF writeWill
<1> HIDE DEF t, m
<1>2. x \in Seq(Bytes) /\ Len(x) = 2 + Len(t) /\ y \in Seq(Bytes) BY ONLY <1>1, StringWritten
<1> HIDE DEF x, y
<1>3. Len(b) \in Nat BY LenProperties
<1>5. At(b, i, x) /\ At(b, i + Len(x), y)
  <2>1. At(b, i, x \o y) BY <1>4
  <2> QED BY ONLY <1>2, <1>3, <2>1, i \in Nat, AtConcat
<1>6. i + Len(x) = j /\ j \in Nat /\ j + 2 + Len(m) = i + Len(writeWill(w)) BY <1>1, <1>2
<1> HIDE DEF j
<1>7. StringIs(b, i, t) BY ONLY b \in Seq(Bytes), i \in Nat, <1>1, <1>5, StringRead DEF x
<1>8. At(b, j, y) BY <1>5, <1>6
<1>9. StringIs(b, j, m) BY ONLY b \in Seq(Bytes), <1>1, <1>6, <1>8, StringRead DEF y
<1> QED BY ONLY <1>6, <1>7, <1>9 DEF t, m, j

\* Seven fields that follow one another.
InARow(b, i, s1, s2, s3, s4, s5, s6, s7) ==
  At(b, i, ((((((s1 \o s2) \o s3) \o s4) \o s5) \o s6) \o s7))
OneByOne(b, i, s1, s2, s3, s4, s5, s6, s7) ==
  /\ At(b, i, s1) /\ At(b, i + Len(s1), s2) /\ At(b, i + Len(s1) + Len(s2), s3)
  /\ At(b, i + Len(s1) + Len(s2) + Len(s3), s4)
  /\ At(b, i + Len(s1) + Len(s2) + Len(s3) + Len(s4), s5)
  /\ At(b, i + Len(s1) + Len(s2) + Len(s3) + Len(s4) + Len(s5), s6)
  /\ At(b, i + Len(s1) + Len(s2) + Len(s3) + Len(s4) + Len(s5) + Len(s6), s7)

LEMMA AtSeven ==
  ASSUME NEW b \in Seq(Bytes), NEW i \in Nat,
         NEW s1 \in Seq(Bytes), NEW s2 \in Seq(Bytes), NEW s3 \in Seq(Bytes), NEW s4 \in Seq(Bytes),
         NEW s5 \in Seq(Bytes), NEW s6 \in Seq(Bytes), NEW s7 \in Seq(Bytes),
         InARow(b, i, s1, s2, s3, s4, s5, s6, s7)
  PROVE  OneByOne(b, i, s1, s2, s3, s4, s5, s6, s7)
<1> DEFINE t2 == s1 \o s2
           t3 == t2 \o s3
           t4 == t3 \o s4
           t5 == t4 \o s5
           t6 == t5 \o s6
<1>0. Len(b) \in Nat /\ Len(s1) \in Nat /\ Len(s2) \in Nat /\ Len(s3) \in Nat /\ Len(s4) \in Nat /\ Len(s5) \in Nat
      /\ Len(s6) \in Nat
  BY LenProperties
<1>2. t2 \in Seq(Bytes) /\ Len(t2) = Len(s1) + Len(s2) BY Joins
<1> HIDE DEF t2
<1>3. t3 \in Seq(Bytes) /\ Len(t3) = Len(t2) + Len(s3) BY ONLY <1>2, s3 \in Seq(Bytes), Joins
<1> HIDE DEF t3
<1>4. t4 \in Seq(Bytes) /\ Len(t4) = Len(t3) + Len(s4) BY ONLY <1>3, s4 \in Seq(Bytes), Joins
<1> HIDE DEF t4
<1>5. t5 \in Seq(Bytes) /\ Len(t5) = Len(t4) + Len(s5) BY ONLY <1>4, s5 \in Seq(Bytes), Joins
<1> HIDE DEF t5
<1>6. t6 \in Seq(Bytes) /\ Len(t6) = Len(t5) + Len(s6) BY ONLY <1>5, s6 \in Seq(Bytes), Joins
<1>7. At(b, i, t6 \o s7) BY ONLY InARow(b, i, s1, s2, s3, s4, s5, s6, s7) DEF t2, t3, t4, t5, InARow
<1> HIDE DEF t6
<1>8. At(b, i, t6) /\ At(b, i + Len(t6), s7) BY ONLY <1>0, <1>6, <1>7, i \in Nat, s7 \in Seq(Bytes), AtConcat
<1>9. At(b, i, t5 \o s6) BY <1>8 DEF t6
<1>10. At(b, i, t5) /\ At(b, i + Len(t5), s6) BY ONLY <1>0, <1>5, <1>9, i \in Nat, s6 \in Seq(Bytes), AtConcat
<1>11. At(b, i, t4 \o s5) BY <1>10 DEF t5
<1>12. At(b, i, t4) /\ At(b, i + Len(t4), s5) BY ONLY <1>0, <1>4, <1>11, i \in Nat, s5 \in Seq(Bytes), AtConcat
<1>13. At(b, i, t3 \o s4) BY <1>12 DEF t4
<1>14. At(b, i, t3) /\ At(b, i + Len(t3), s4) BY ONLY <1>0, <1>3, <1>13, i \in Nat, s4 \in Seq(Bytes), AtConcat
<1>15. At(b, i, t2 \o s3) BY <1>14 DEF t3
<1>16. At(b, i, t2) /\ At(b, i + Len(t2), s3) BY ONLY <1>0, <1>2, <1>15, i \in Nat, s3 \in Seq(Bytes), AtConcat
<1>17. At(b, i, s1 \o s2) BY <1>16 DEF t2
<1>18. At(b, i, s1) /\ At(b, i + Len(s1), s2) BY ONLY <1>0, <1>17, i \in Nat, s1 \in Seq(Bytes), s2 \in Seq(Bytes), AtConcat
<1>19. i + Len(t2) = i + Len(s1) + Len(s2) BY ONLY <1>0, <1>2, i \in Nat
<1>20. i + Len(t3) = i + Len(s1) + Len(s2) + Len(s3) BY ONLY <1>0, <1>2, <1>3, i \in Nat
<1>21. i + Len(t4) = i + Len(s1) + Len(s2) + Len(s3) + Len(s4) BY ONLY <1>0, <1>2, <1>3, <1>4, i \in Nat
<1>22. i + Len(t5) = i + Len(s1) + Len(s2) + Len(s3) + Len(s4) + Len(s5) BY ONLY <1>0, <1>2, <1>3, <1>4, <1>5, i \in Nat
<1>23. i + Len(t6) = i + Len(s1) + Len(s2) + Len(s3) + Len(s4) + Len(s5) + Len(s6)
  BY ONLY <1>0, <1>2, <1>3, <1>4, <1>5, <1>6, i \in Nat
<1> QED BY ONLY <1>8, <1>10, <1>12, <1>14, <1>16, <1>18, <1>19, <1>20, <1>21, <1>22, <1>23 DEF OneByOne

\* The flags' bits.
MadeOf(f, u, w, r, q, y, c) == f = 128 * u + 64 * w + 32 * r + 8 * q + 4 * y + 2 * c
BitsAre(f, u, w, r, q, y, c) ==
  /\ f \in Bytes
  /\ (f \div 128) % 2 = u /\ (f \div 64) % 2 = w /\ (f \div 32) % 2 = r /\ (f \div 8) % 4 = q
  /\ (f \div 4) % 2 = y /\ (f \div 2) % 2 = c

LEMMA FlagBits ==
  ASSUME NEW u \in 0..1, NEW w \in 0..1, NEW r \in 0..1, NEW q \in 0..2, NEW y \in 0..1, NEW c \in 0..1,
         NEW f, MadeOf(f, u, w, r, q, y, c)
  PROVE  BitsAre(f, u, w, r, q, y, c)
<1>0. f = 128 * u + 64 * w + 32 * r + 8 * q + 4 * y + 2 * c BY DEF MadeOf
<1>1. f \in 0..255 BY <1>0
<1>2. f \div 128 = u BY <1>0, SMT
<1>3. f \div 64 = 2 * u + w BY <1>0, SMT
<1>4. f \div 32 = 4 * u + 2 * w + r BY <1>0, SMT
<1>5. f \div 8 = 16 * u + 8 * w + 4 * r + q BY <1>0, SMT
<1>6. f \div 4 = 32 * u + 16 * w + 8 * r + 2 * q + y BY <1>0, SMT
<1>7. f \div 2 = 64 * u + 32 * w + 16 * r + 4 * q + 2 * y + c BY <1>0, SMT
<1>8. (f \div 128) % 2 = u BY ONLY <1>2, u \in 0..1
<1>9. (f \div 64) % 2 = w BY ONLY <1>3, u \in 0..1, w \in 0..1
<1>10. (f \div 32) % 2 = r BY ONLY <1>4, u \in 0..1, w \in 0..1, r \in 0..1
<1>11. (f \div 8) % 4 = q BY ONLY <1>5, u \in 0..1, w \in 0..1, r \in 0..1, q \in 0..2
<1>12. (f \div 4) % 2 = y BY ONLY <1>6, u \in 0..1, w \in 0..1, r \in 0..1, q \in 0..2, y \in 0..1
<1>13. (f \div 2) % 2 = c BY ONLY <1>7, u \in 0..1, w \in 0..1, r \in 0..1, q \in 0..2, y \in 0..1, c \in 0..1
<1>14. f \in Bytes BY ONLY <1>1 DEF Bytes
<1> QED BY ONLY <1>8, <1>9, <1>10, <1>11, <1>12, <1>13, <1>14 DEF BitsAre

(***************************************************************************)
(* The reader of CONNECT, its parts named.                                 *)
(***************************************************************************)
FlagOf(f, k) == (f \div k) % 2 = 1
ProtocolIn(b) == stringOf(b, Start(b))
VersionIn(b) == ByteAt(b, ProtocolIn(b).at)
FlagsIn(b) == ByteAt(b, ProtocolIn(b).at + 1)
ClientIn(b) == stringOf(b, ProtocolIn(b).at + 4)
TopicIn(b) == stringOf(b, ClientIn(b).at)
MessageIn(b) == stringOf(b, TopicIn(b).at)
NamePlace(b) == IF FlagOf(FlagsIn(b), 4) THEN MessageIn(b).at ELSE ClientIn(b).at
NameIn(b) == stringOf(b, NamePlace(b))
WordIn(b) == stringOf(b, NameIn(b).at)
WrongIn(b) ==
  \/ TypeOf(b[1]) # CONNECT \/ ~ProtocolIn(b).ok
  \/ ~MQTTPacket_checkVersion(ProtocolIn(b).s, VersionIn(b))
  \/ ~ClientIn(b).ok
  \/ FlagOf(FlagsIn(b), 4) /\ ~(TopicIn(b).ok /\ MessageIn(b).ok)
  \/ FlagOf(FlagsIn(b), 128) /\ ((Len(b) + 1) - NamePlace(b) < 3 \/ ~NameIn(b).ok)
  \/ FlagOf(FlagsIn(b), 64)
       /\ (~FlagOf(FlagsIn(b), 128) \/ (Len(b) + 1) - NameIn(b).at < 3 \/ ~WordIn(b).ok)
ConnectIn(b) ==
  [type |-> CONNECT, version |-> VersionIn(b), cleansession |-> FlagOf(FlagsIn(b), 2),
   keepalive |-> readInt(b, ProtocolIn(b).at + 2), clientID |-> ClientIn(b).s,
   will |-> IF FlagOf(FlagsIn(b), 4)
            THEN <<[topic |-> TopicIn(b).s, message |-> MessageIn(b).s,
                    qos |-> (FlagsIn(b) \div 8) % 4, retained |-> FlagOf(FlagsIn(b), 32)]>>
            ELSE <<>>,
   username |-> IF FlagOf(FlagsIn(b), 128) THEN <<NameIn(b).s>> ELSE <<>>,
   password |-> IF FlagOf(FlagsIn(b), 64) THEN <<WordIn(b).s>> ELSE <<>>]

LEMMA ConnectParts ==
  ASSUME NEW b
  PROVE  MQTTDeserialize_connect(b) = IF WrongIn(b) THEN Refuses(CONNECT) ELSE Reads(ConnectIn(b))
BY Zenon DEF MQTTDeserialize_connect, FlagOf, ProtocolIn, VersionIn, FlagsIn, ClientIn, TopicIn, MessageIn,
       NamePlace, NameIn, WordIn, WrongIn, ConnectIn

LEMMA NamesOfProtocol ==
  ASSUME NEW version \in {3, 4}
  PROVE  /\ ProtocolName(version) \in MQTTStrings
         /\ MQTTPacket_checkVersion(ProtocolName(version), version)
<1> DEFINE s == ProtocolName(version)
<1>1. s \in Seq(Bytes) /\ Len(s) \in 4..6
  <2>1. 77 \in Bytes /\ 81 \in Bytes /\ 84 \in Bytes /\ 73 \in Bytes /\ 115 \in Bytes /\ 100 \in Bytes /\ 112 \in Bytes
    BY DEF Bytes
  <2>2. CASE version = 4
    <3>1. s = <<77, 81, 84, 84>> BY <2>2 DEF ProtocolName
    <3> HIDE DEF s
    <3> QED BY <2>1, <3>1
  <2>3. CASE version # 4
    <3>1. s = <<77, 81, 73, 115, 100, 112>> BY <2>3 DEF ProtocolName
    <3> HIDE DEF s
    <3> QED BY <2>1, <3>1
  <2> QED BY <2>2, <2>3
<1> HIDE DEF s
<1>2. s \in MQTTStrings
  <2> DEFINE n == Len(s)
  <2>0. n \in 4..6 BY ONLY <1>1
  <2> HIDE DEF n
  <2>1. n <= MaxWord BY ONLY <2>0, SMT DEF MaxWord
  <2> QED BY ONLY <1>1, <2>1 DEF MQTTStrings, n
<1>3. SubSeq(s, 1, Len(s)) = s
  <2>1. \A j \in 1..Len(s) : s[1 + j - 1] = s[j] BY <1>1
  <2>2. SubSeq(s, 1, 1 + Len(s) - 1) = s BY ONLY <1>1, <2>1, PartOf
  <2>3. 1 + Len(s) - 1 = Len(s) BY <1>1
  <2> QED BY ONLY <2>2, <2>3
<1>4. IsPrefixOf(s, s) BY <1>1, <1>3 DEF IsPrefixOf
<1>5. MQTTPacket_checkVersion(s, version) BY <1>4 DEF MQTTPacket_checkVersion, s
<1> QED BY <1>2, <1>5 DEF s

LEMMA ConnectFields ==
  ASSUME NEW p \in Connects
  PROVE  /\ p = [type |-> CONNECT, version |-> p.version, cleansession |-> p.cleansession,
                 keepalive |-> p.keepalive, clientID |-> p.clientID, will |-> p.will,
                 username |-> p.username, password |-> p.password]
         /\ p.type = CONNECT /\ p.version \in {3, 4} /\ p.cleansession \in BOOLEAN /\ p.keepalive \in Words
         /\ p.clientID \in MQTTStrings /\ p.will \in Maybes(Wills)
         /\ p.username \in Maybes(MQTTStrings) /\ p.password \in Maybes(MQTTStrings)
         /\ p.password # <<>> => p.username # <<>> /\ p.password[1] # <<>>
         /\ p.username # <<>> /\ p.password = <<>> => p.username[1] # <<>>
BY DEF Connects

LEMMA WillFields ==
  ASSUME NEW w \in Wills
  PROVE  /\ w.qos \in 0..2 /\ w.retained \in BOOLEAN
         /\ w = [topic |-> w.topic, message |-> w.message, qos |-> w.qos, retained |-> w.retained]
BY DEF Wills

\* The flags say which fields there are.
\* What the flags f say of p.
FlagsSay(f, p) ==
  /\ f \in Bytes
  /\ FlagOf(f, 128) <=> p.username # <<>>
  /\ FlagOf(f, 64) <=> p.password # <<>>
  /\ FlagOf(f, 4) <=> p.will # <<>>
  /\ FlagOf(f, 2) = p.cleansession
  /\ p.will # <<>> => (f \div 8) % 4 = p.will[1].qos /\ FlagOf(f, 32) = p.will[1].retained

LEMMA ConnectFlagsRead ==
  ASSUME NEW p \in Connects
  PROVE  FlagsSay(ConnectFlags(p), p)
<1> DEFINE f == ConnectFlags(p)
           u == Len(p.username)
           w == Len(p.password)
           y == IF p.will = <<>> THEN 0 ELSE 1
           q == IF p.will = <<>> THEN 0 ELSE p.will[1].qos
           r == IF p.will = <<>> THEN 0 ELSE Bit(p.will[1].retained)
           c == Bit(p.cleansession)
<1>1. /\ p.will \in Maybes(Wills) /\ p.cleansession \in BOOLEAN
      /\ p.username \in Maybes(MQTTStrings) /\ p.password \in Maybes(MQTTStrings)
  BY ONLY p \in Connects, ConnectFields
<1>2. u \in 0..1 /\ (u = 1 <=> p.username # <<>>) 
  <2>1. (p.username = <<>> /\ u = 0) \/ (p.username # <<>> /\ u = 1) BY ONLY <1>1, NoneOrOne
  <2> QED BY ONLY <2>1
<1>3. w \in 0..1 /\ (w = 1 <=> p.password # <<>>)
  <2>1. (p.password = <<>> /\ w = 0) \/ (p.password # <<>> /\ w = 1) BY ONLY <1>1, NoneOrOne
  <2> QED BY ONLY <2>1
<1>4. c \in 0..1 /\ (c = 1) = p.cleansession BY ONLY <1>1, BitRead
<1>5. /\ y \in 0..1 /\ q \in 0..2 /\ r \in 0..1 /\ (y = 1 <=> p.will # <<>>)
      /\ p.will # <<>> => q = p.will[1].qos /\ (r = 1) = p.will[1].retained
  <2>1. CASE p.will = <<>> BY <2>1
  <2>2. CASE p.will # <<>>
    <3> DEFINE x == p.will[1]
    <3>1. x \in Wills BY ONLY <1>1, <2>2, NoneOrOne
    <3>2. q = x.qos /\ r = Bit(x.retained) /\ y = 1 BY ONLY <2>2
    <3> HIDE DEF x, q, r, y
    <3>3. x.qos \in 0..2 /\ x.retained \in BOOLEAN BY ONLY <3>1, WillFields
    <3>4. Bit(x.retained) \in 0..1 /\ (Bit(x.retained) = 1) = x.retained BY ONLY <3>3, BitRead
    <3>5. (r = 1) = x.retained BY ONLY <3>2, <3>4, Zenon
    <3>6. y \in 0..1 /\ q \in 0..2 /\ r \in 0..1 /\ y = 1 BY ONLY <3>2, <3>3, <3>4
    <3> QED BY ONLY <2>2, <3>2, <3>5, <3>6, Zenon DEF x
  <2> QED BY ONLY <2>1, <2>2
<1>6. f = 128 * u + 64 * w + 32 * r + 8 * q + 4 * y + 2 * c
  <2> DEFINE e == IF p.will = <<>> THEN 0 ELSE 4 + 8 * p.will[1].qos + 32 * Bit(p.will[1].retained)
  <2>1. f = 128 * u + 64 * w + e + 2 * c BY DEF ConnectFlags
  <2>2. e = 32 * r + 8 * q + 4 * y
    <3>1. CASE p.will = <<>> BY <3>1
    <3>2. CASE p.will # <<>>
      <4> DEFINE k == p.will[1].qos
                 l == Bit(p.will[1].retained)
      <4>1. e = 4 + 8 * k + 32 * l /\ r = l /\ q = k /\ y = 1 BY <3>2
      <4> HIDE DEF k, l, e, r, q, y
      <4> QED BY ONLY <1>5, <4>1
    <3> QED BY ONLY <3>1, <3>2
  <2> HIDE DEF e, f, u, w, y, q, r, c
  <2>3. u \in Nat /\ w \in Nat /\ c \in Nat /\ y \in Nat /\ q \in Nat /\ r \in Nat
    BY ONLY <1>2, <1>3, <1>4, <1>5
  <2> QED BY ONLY <2>1, <2>2, <2>3
<1> HIDE DEF f, u, w, y, q, r, c
<1>7. /\ f \in Bytes
      /\ (f \div 128) % 2 = u /\ (f \div 64) % 2 = w /\ (f \div 32) % 2 = r /\ (f \div 8) % 4 = q
      /\ (f \div 4) % 2 = y /\ (f \div 2) % 2 = c
  <2>1. u \in 0..1 /\ w \in 0..1 /\ r \in 0..1 /\ q \in 0..2 /\ y \in 0..1 /\ c \in 0..1
    BY ONLY <1>2, <1>3, <1>4, <1>5
  <2>2. MadeOf(f, u, w, r, q, y, c) BY ONLY <1>6 DEF MadeOf
  <2>3. BitsAre(f, u, w, r, q, y, c) BY ONLY <2>1, <2>2, FlagBits
  <2> QED BY ONLY <2>3 DEF BitsAre
<1>8. FlagOf(f, 2) = p.cleansession BY ONLY <1>4, <1>7, Zenon DEF FlagOf
<1>9. p.will # <<>> => FlagOf(f, 32) = p.will[1].retained BY ONLY <1>5, <1>7, Zenon DEF FlagOf
<1>10. /\ FlagOf(f, 128) <=> p.username # <<>>
       /\ FlagOf(f, 64) <=> p.password # <<>>
       /\ FlagOf(f, 4) <=> p.will # <<>>
  BY ONLY <1>2, <1>3, <1>5, <1>7, Zenon DEF FlagOf
<1>11. p.will # <<>> => (f \div 8) % 4 = p.will[1].qos BY ONLY <1>5, <1>7, Zenon
<1>12. FlagsSay(f, p)
  <2>1. f \in Bytes BY ONLY <1>7
  <2> QED BY ONLY <2>1, <1>8, <1>9, <1>10, <1>11, Zenon DEF FlagsSay
<1> QED BY ONLY <1>12 DEF f

\* The body of a CONNECT, by its fields.
VersionBytes(p) == <<IF p.version = 4 THEN 4 ELSE 3, ConnectFlags(p)>>
ConnectBody(p) ==
  (((((writeMQTTString(ProtocolName(p.version)) \o VersionBytes(p)) \o writeInt(p.keepalive))
      \o writeMQTTString(p.clientID)) \o MaybeWill(p.will)) \o MaybeString(p.username)) \o MaybeString(p.password)

LEMMA VersionWritten ==
  ASSUME NEW p \in Connects
  PROVE  /\ VersionBytes(p) \in Seq(Bytes) /\ Len(VersionBytes(p)) = 2
         /\ VersionBytes(p)[1] = p.version /\ VersionBytes(p)[2] = ConnectFlags(p)
<1> DEFINE v == IF p.version = 4 THEN 4 ELSE 3
           f == ConnectFlags(p)
<1>1. p.version \in {3, 4} BY ONLY p \in Connects, ConnectFields
<1>2. v = p.version /\ v \in Bytes BY ONLY <1>1 DEF Bytes
<1>3. f \in Bytes
  <2>1. FlagsSay(f, p) BY ONLY p \in Connects, ConnectFlagsRead DEF f
  <2> QED BY ONLY <2>1 DEF FlagsSay
<1>4. VersionBytes(p) = <<v, f>> BY DEF VersionBytes
<1> HIDE DEF v, f
<1>5. <<v, f>> \in Seq(Bytes) /\ Len(<<v, f>>) = 2 /\ <<v, f>>[1] = v /\ <<v, f>>[2] = f BY ONLY <1>2, <1>3
<1> QED BY ONLY <1>2, <1>4, <1>5 DEF f

LEMMA ConnectParted ==
  ASSUME NEW p \in Connects
  PROVE  /\ writeMQTTString(ProtocolName(p.version)) \in Seq(Bytes) /\ VersionBytes(p) \in Seq(Bytes)
         /\ writeInt(p.keepalive) \in Seq(Bytes) /\ writeMQTTString(p.clientID) \in Seq(Bytes)
         /\ MaybeWill(p.will) \in Seq(Bytes)
         /\ MaybeString(p.username) \in Seq(Bytes) /\ MaybeString(p.password) \in Seq(Bytes)
<1>1. /\ p.version \in {3, 4} /\ p.keepalive \in Words
      /\ p.clientID \in MQTTStrings /\ p.will \in Maybes(Wills)
      /\ p.username \in Maybes(MQTTStrings) /\ p.password \in Maybes(MQTTStrings)
  BY ONLY p \in Connects, ConnectFields
<1>2. writeMQTTString(ProtocolName(p.version)) \in Seq(Bytes)
  <2>1. ProtocolName(p.version) \in MQTTStrings BY ONLY <1>1, NamesOfProtocol
  <2> QED BY ONLY <2>1, StringWritten
<1>3. VersionBytes(p) \in Seq(Bytes) BY ONLY p \in Connects, VersionWritten
<1>4. writeInt(p.keepalive) \in Seq(Bytes) BY ONLY <1>1, IntWritten
<1>5. writeMQTTString(p.clientID) \in Seq(Bytes) BY ONLY <1>1, StringWritten
<1>6. MaybeWill(p.will) \in Seq(Bytes) BY ONLY <1>1, MaybeWillWritten
<1>7. MaybeString(p.username) \in Seq(Bytes) /\ MaybeString(p.password) \in Seq(Bytes)
  BY ONLY <1>1, MaybeStringWritten
<1> QED BY ONLY <1>2, <1>3, <1>4, <1>5, <1>6, <1>7

LEMMA ConnectBodyType ==
  ASSUME NEW p \in Connects
  PROVE  ConnectBody(p) \in Seq(Bytes)
<1> DEFINE s1 == writeMQTTString(ProtocolName(p.version))
           s2 == VersionBytes(p)
           s3 == writeInt(p.keepalive)
           s4 == writeMQTTString(p.clientID)
           s5 == MaybeWill(p.will)
           s6 == MaybeString(p.username)
           s7 == MaybeString(p.password)
<1>1. /\ s1 \in Seq(Bytes) /\ s2 \in Seq(Bytes) /\ s3 \in Seq(Bytes) /\ s4 \in Seq(Bytes)
      /\ s5 \in Seq(Bytes) /\ s6 \in Seq(Bytes) /\ s7 \in Seq(Bytes)
  BY ONLY p \in Connects, ConnectParted
<1>2. ConnectBody(p) = ((((((s1 \o s2) \o s3) \o s4) \o s5) \o s6) \o s7) BY DEF ConnectBody
<1> HIDE DEF s1, s2, s3, s4, s5, s6, s7
<1>3. s1 \o s2 \in Seq(Bytes) BY ONLY <1>1, Joins
<1>4. (s1 \o s2) \o s3 \in Seq(Bytes) BY ONLY <1>1, <1>3, Joins
<1>5. ((s1 \o s2) \o s3) \o s4 \in Seq(Bytes) BY ONLY <1>1, <1>4, Joins
<1>6. (((s1 \o s2) \o s3) \o s4) \o s5 \in Seq(Bytes) BY ONLY <1>1, <1>5, Joins
<1>7. ((((s1 \o s2) \o s3) \o s4) \o s5) \o s6 \in Seq(Bytes) BY ONLY <1>1, <1>6, Joins
<1>8. (((((s1 \o s2) \o s3) \o s4) \o s5) \o s6) \o s7 \in Seq(Bytes) BY ONLY <1>1, <1>7, Joins
<1> QED BY ONLY <1>2, <1>8

\* The fixed fields of a CONNECT in the buffer, and where those follow that may be missing.
LEMMA ConnectStart ==
  ASSUME NEW b \in Seq(Bytes), NEW p \in Connects, NEW at \in Nat, Start(b) = at, At(b, at, ConnectBody(p))
  PROVE  \E i \in Nat, j \in Nat, k \in Nat :
           /\ ProtocolIn(b).ok = TRUE /\ ProtocolIn(b).s = ProtocolName(p.version)
           /\ VersionIn(b) = p.version /\ FlagsIn(b) = ConnectFlags(p)
           /\ readInt(b, ProtocolIn(b).at + 2) = p.keepalive
           /\ ClientIn(b).ok = TRUE /\ ClientIn(b).s = p.clientID /\ ClientIn(b).at = i
           /\ At(b, i, MaybeWill(p.will)) /\ j = i + Len(MaybeWill(p.will))
           /\ At(b, j, MaybeString(p.username)) /\ k = j + Len(MaybeString(p.username))
           /\ At(b, k, MaybeString(p.password))
<1> DEFINE name == ProtocolName(p.version)
           client == p.clientID
           keep == p.keepalive
           s1 == writeMQTTString(name)
           s2 == VersionBytes(p)
           s3 == writeInt(keep)
           s4 == writeMQTTString(client)
           s5 == MaybeWill(p.will)
           s6 == MaybeString(p.username)
           s7 == MaybeString(p.password)
<1>1. /\ s1 \in Seq(Bytes) /\ s2 \in Seq(Bytes) /\ s3 \in Seq(Bytes) /\ s4 \in Seq(Bytes)
      /\ s5 \in Seq(Bytes) /\ s6 \in Seq(Bytes) /\ s7 \in Seq(Bytes)
  BY ONLY p \in Connects, ConnectParted
<1>2. InARow(b, at, s1, s2, s3, s4, s5, s6, s7)
  BY ONLY At(b, at, ConnectBody(p)), Zenon DEF ConnectBody, InARow
<1>3. /\ p.version \in {3, 4} /\ keep \in Words /\ client \in MQTTStrings
  BY ONLY p \in Connects, ConnectFields
<1>4. name \in MQTTStrings BY ONLY <1>3, NamesOfProtocol
<1>5. Len(s2) = 2 /\ s2[1] = p.version /\ s2[2] = ConnectFlags(p) BY ONLY p \in Connects, VersionWritten
<1> HIDE DEF name, client, keep
<1>6. Len(s1) = 2 + Len(name) /\ Len(name) \in Nat /\ Len(s4) = 2 + Len(client) /\ Len(client) \in Nat
  BY ONLY <1>3, <1>4, StringWritten, StringType
<1>7. Len(s3) = 2 BY ONLY <1>3, IntWritten
<1> HIDE DEF s1, s2, s3, s4, s5, s6, s7
<1>8. Len(s5) \in Nat /\ Len(s6) \in Nat /\ Len(b) \in Nat BY ONLY <1>1, b \in Seq(Bytes), LenProperties
<1>9. /\ At(b, at, s1) /\ At(b, at + Len(s1), s2) /\ At(b, at + Len(s1) + Len(s2), s3)
      /\ At(b, at + Len(s1) + Len(s2) + Len(s3), s4)
      /\ At(b, at + Len(s1) + Len(s2) + Len(s3) + Len(s4), s5)
      /\ At(b, at + Len(s1) + Len(s2) + Len(s3) + Len(s4) + Len(s5), s6)
      /\ At(b, at + Len(s1) + Len(s2) + Len(s3) + Len(s4) + Len(s5) + Len(s6), s7)
  <2>1. OneByOne(b, at, s1, s2, s3, s4, s5, s6, s7) BY ONLY b \in Seq(Bytes), at \in Nat, <1>1, <1>2, AtSeven
  <2> QED BY ONLY <2>1 DEF OneByOne
<1> DEFINE a == at + 2 + Len(name)
           i == (a + 4) + 2 + Len(client)
           j == i + Len(s5)
           k == j + Len(s6)
<1>10. /\ a \in Nat /\ i \in Nat /\ j \in Nat /\ k \in Nat
       /\ at + Len(s1) = a /\ at + Len(s1) + Len(s2) = a + 2 /\ at + Len(s1) + Len(s2) + Len(s3) = a + 4
       /\ at + Len(s1) + Len(s2) + Len(s3) + Len(s4) = i
       /\ at + Len(s1) + Len(s2) + Len(s3) + Len(s4) + Len(s5) = j
       /\ at + Len(s1) + Len(s2) + Len(s3) + Len(s4) + Len(s5) + Len(s6) = k
  <2> DEFINE n1 == Len(s1)
             n2 == Len(s2)
             n3 == Len(s3)
             n4 == Len(s4)
             n5 == Len(s5)
             n6 == Len(s6)
             x == Len(name)
             y == Len(client)
  <2>1. x \in Nat /\ y \in Nat /\ n1 = 2 + x /\ n2 = 2 /\ n3 = 2 /\ n4 = 2 + y /\ n5 \in Nat /\ n6 \in Nat
    BY ONLY <1>5, <1>6, <1>7, <1>8
  <2>2. a = at + 2 + x /\ i = (a + 4) + 2 + y /\ j = i + n5 /\ k = j + n6 OBVIOUS
  <2> HIDE DEF n1, n2, n3, n4, n5, n6, x, y, a, i, j, k
  <2>3. a \in Nat /\ i \in Nat /\ j \in Nat /\ k \in Nat BY ONLY at \in Nat, <2>1, <2>2
  <2>4. at + n1 = a /\ at + n1 + n2 = a + 2 /\ at + n1 + n2 + n3 = a + 4
    BY ONLY at \in Nat, <2>1, <2>2
  <2>5. at + n1 + n2 + n3 + n4 = i BY ONLY at \in Nat, <2>1, <2>2
  <2>6. at + n1 + n2 + n3 + n4 + n5 = j BY ONLY at \in Nat, <2>1, <2>2
  <2>7. at + n1 + n2 + n3 + n4 + n5 + n6 = k BY ONLY at \in Nat, <2>1, <2>2
  <2> QED BY ONLY <2>3, <2>4, <2>5, <2>6, <2>7, Zenon DEF n1, n2, n3, n4, n5, n6
<1>11. StringIs(b, at, name) BY ONLY b \in Seq(Bytes), at \in Nat, <1>4, <1>9, StringRead DEF s1
<1>12. ProtocolIn(b) = [ok |-> TRUE, s |-> name, at |-> a] BY ONLY <1>11, Start(b) = at DEF ProtocolIn, StringIs
<1>22. j = i + Len(s5) /\ k = j + Len(s6) OBVIOUS
<1> HIDE DEF k, j
<1>13. StringIs(b, a + 4, client)
  <2> DEFINE x == a + 4
  <2>1. x \in Nat /\ At(b, x, s4) BY ONLY <1>9, <1>10
  <2> HIDE DEF x
  <2>2. StringIs(b, x, client) BY ONLY b \in Seq(Bytes), <1>3, <2>1, StringRead DEF s4
  <2> QED BY ONLY <2>2 DEF x
<1>14. ClientIn(b) = [ok |-> TRUE, s |-> client, at |-> i] BY ONLY <1>12, <1>13 DEF ClientIn, StringIs
<1> HIDE DEF a, i
<1>15. VersionIn(b) = p.version /\ FlagsIn(b) = ConnectFlags(p)
  <2>1. At(b, a, s2) /\ a \in Nat BY ONLY <1>9, <1>10
  <2>2. \A l \in 1..Len(s2) : ByteAt(b, a + l - 1) = s2[l] BY ONLY <1>1, <1>8, <2>1, BytesAt
  <2>3. 1 \in 1..Len(s2) /\ 2 \in 1..Len(s2) /\ a + 1 - 1 = a /\ a + 2 - 1 = a + 1 BY ONLY <1>5, <1>10
  <2>4. ByteAt(b, a) = s2[1] /\ ByteAt(b, a + 1) = s2[2] BY ONLY <2>2, <2>3
  <2>5. ProtocolIn(b).at = a BY ONLY <1>12
  <2> QED BY ONLY <1>5, <2>4, <2>5 DEF VersionIn, FlagsIn
<1>16. readInt(b, ProtocolIn(b).at + 2) = keep
  <2> DEFINE x == a + 2
  <2>1. x \in Nat /\ At(b, x, s3) BY ONLY <1>9, <1>10
  <2> HIDE DEF x
  <2>2. readInt(b, x) = keep BY ONLY <1>3, <1>8, <2>1, AtInt DEF s3
  <2>3. ProtocolIn(b).at = a BY ONLY <1>12
  <2> QED BY ONLY <2>2, <2>3 DEF x
<1>17. ProtocolIn(b).ok = TRUE /\ ProtocolIn(b).s = name BY ONLY <1>12
<1>18. ClientIn(b).ok = TRUE /\ ClientIn(b).s = client /\ ClientIn(b).at = i BY ONLY <1>14
<1>19. At(b, i, s5) /\ At(b, j, s6) /\ At(b, k, s7) BY ONLY <1>9, <1>10
<1>20. i \in Nat /\ j \in Nat /\ k \in Nat BY ONLY <1>10
<1> QED BY ONLY <1>15, <1>16, <1>17, <1>18, <1>19, <1>20, <1>22, Zenon DEF name, client, keep, s5, s6, s7

LEMMA WillPart ==
  ASSUME NEW b \in Seq(Bytes), NEW will \in Maybes(Wills), NEW i \in Nat, NEW j,
         ClientIn(b).at = i, At(b, i, MaybeWill(will)), j = i + Len(MaybeWill(will)),
         FlagOf(FlagsIn(b), 4) <=> will # <<>>
  PROVE  /\ NamePlace(b) = j
         /\ will # <<>> => /\ TopicIn(b).ok = TRUE /\ TopicIn(b).s = will[1].topic
                           /\ MessageIn(b).ok = TRUE /\ MessageIn(b).s = will[1].message
<1>1. CASE will = <<>>
  <2>1. Len(MaybeWill(will)) = 0 BY ONLY <1>1, will \in Maybes(Wills), MaybeWillWritten
  <2>2. j = i BY ONLY <2>1, j = i + Len(MaybeWill(will)), i \in Nat
  <2>3. ~FlagOf(FlagsIn(b), 4) BY ONLY <1>1, FlagOf(FlagsIn(b), 4) <=> will # <<>>
  <2> QED BY ONLY <1>1, <2>2, <2>3, ClientIn(b).at = i DEF NamePlace
<1>2. CASE will # <<>>
  <2> DEFINE w == will[1]
             t == w.topic
             m == w.message
  <2>1. w \in Wills BY ONLY <1>2, will \in Maybes(Wills), NoneOrOne
  <2>2. MaybeWill(will) = writeWill(w) BY ONLY <1>2 DEF MaybeWill
  <2> HIDE DEF w
  <2>3. At(b, i, writeWill(w)) /\ j = i + Len(writeWill(w))
    BY ONLY <2>2, At(b, i, MaybeWill(will)), j = i + Len(MaybeWill(will))
  <2>4. /\ StringIs(b, i, t) /\ StringIs(b, i + 2 + Len(t), m)
        /\ (i + 2 + Len(t)) + 2 + Len(m) = i + Len(writeWill(w))
    BY ONLY b \in Seq(Bytes), i \in Nat, <2>1, <2>3, WillRead
  <2> HIDE DEF t, m
  <2>5. TopicIn(b) = [ok |-> TRUE, s |-> t, at |-> i + 2 + Len(t)]
    BY ONLY <2>4, ClientIn(b).at = i DEF TopicIn, StringIs
  <2>6. MessageIn(b) = [ok |-> TRUE, s |-> m, at |-> (i + 2 + Len(t)) + 2 + Len(m)]
    BY ONLY <2>4, <2>5 DEF MessageIn, StringIs
  <2>7. MessageIn(b).at = j BY ONLY <2>3, <2>4, <2>6
  <2>8. FlagOf(FlagsIn(b), 4) BY ONLY <1>2, FlagOf(FlagsIn(b), 4) <=> will # <<>>
  <2>9. NamePlace(b) = j BY ONLY <2>7, <2>8 DEF NamePlace
  <2>10. TopicIn(b).ok = TRUE /\ TopicIn(b).s = t /\ MessageIn(b).ok = TRUE /\ MessageIn(b).s = m
    BY ONLY <2>5, <2>6
  <2> QED BY ONLY <2>9, <2>10 DEF t, m, w
<1> QED BY ONLY <1>1, <1>2

\* Whether three bytes are left at the place at.
Room(b, at) == ~((Len(b) + 1) - at < 3)

LEMMA LastPart ==
  ASSUME NEW b \in Seq(Bytes), NEW s \in Maybes(MQTTStrings), NEW i \in Nat, At(b, i, MaybeString(s)), s # <<>>
  PROVE  /\ StringIs(b, i, s[1]) /\ Len(MaybeString(s)) = 2 + Len(s[1]) /\ Len(s[1]) \in Nat
         /\ s[1] # <<>> => Room(b, i)
         /\ i + Len(MaybeString(s)) - 1 <= Len(b) 
<1> DEFINE x == s[1]
           w == MaybeString(s)
<1>1. x \in MQTTStrings /\ Len(w) = 2 + Len(x) /\ Len(x) \in Nat
  BY ONLY s \in Maybes(MQTTStrings), s # <<>>, MaybeStringWritten
<1>2. w = writeMQTTString(x) BY ONLY s # <<>> DEF MaybeString
<1> HIDE DEF x, w
<1>3. At(b, i, w) BY DEF w
<1>4. StringIs(b, i, x) BY ONLY b \in Seq(Bytes), i \in Nat, <1>1, <1>2, <1>3, StringRead
<1>5. i + Len(w) - 1 <= Len(b) /\ Len(b) \in Nat BY ONLY <1>3, b \in Seq(Bytes), LenProperties DEF At
<1>6. x # <<>> => Room(b, i)
  <2> SUFFICES ASSUME x # <<>> PROVE Room(b, i) OBVIOUS
  <2>1. x \in Seq(Bytes) BY ONLY <1>1, StringType
  <2>2. Len(x) # 0 BY ONLY <2>1, x # <<>>, EmptySeq
  <2> DEFINE n == Len(b)
             m == Len(x)
             l == Len(w)
  <2>3. n \in Nat /\ m \in Nat /\ m # 0 /\ l = 2 + m /\ i + l - 1 <= n BY ONLY <1>1, <1>5, <2>2
  <2> HIDE DEF n, m, l
  <2>4. ~((n + 1) - i < 3) BY ONLY <2>3, i \in Nat
  <2> QED BY ONLY <2>4 DEF Room, n
<1> QED BY ONLY <1>1, <1>4, <1>5, <1>6 DEF x, w

LEMMA EarlierRoom ==
  ASSUME NEW b, Len(b) \in Nat, NEW i \in Nat, NEW j \in Nat, i <= j, Room(b, j)
  PROVE  Room(b, i)
BY DEF Room

LEMMA NamePart ==
  ASSUME NEW b \in Seq(Bytes), NEW name \in Maybes(MQTTStrings), NEW word \in Maybes(MQTTStrings),
         NEW j \in Nat, NEW k \in Nat, NamePlace(b) = j, At(b, j, MaybeString(name)),
         k = j + Len(MaybeString(name)), At(b, k, MaybeString(word)),
         word # <<>> => name # <<>> /\ word[1] # <<>>,
         name # <<>> /\ word = <<>> => name[1] # <<>>
  PROVE  /\ name # <<>> => Room(b, NamePlace(b)) /\ NameIn(b).ok = TRUE /\ NameIn(b).s = name[1]
         /\ word # <<>> => Room(b, NameIn(b).at) /\ WordIn(b).ok = TRUE /\ WordIn(b).s = word[1]
<1> SUFFICES ASSUME name # <<>>
             PROVE  /\ Room(b, NamePlace(b)) /\ NameIn(b).ok = TRUE /\ NameIn(b).s = name[1]
                    /\ word # <<>> => Room(b, NameIn(b).at) /\ WordIn(b).ok = TRUE /\ WordIn(b).s = word[1]
  BY Zenon
<1> DEFINE x == name[1]
           y == word[1]
<1>1. /\ StringIs(b, j, x) /\ Len(MaybeString(name)) = 2 + Len(x) /\ Len(x) \in Nat
      /\ x # <<>> => Room(b, j)
  BY ONLY b \in Seq(Bytes), name \in Maybes(MQTTStrings), j \in Nat, At(b, j, MaybeString(name)), name # <<>>, LastPart
<1>2. word # <<>> => StringIs(b, k, y) /\ Room(b, k)
  <2> SUFFICES ASSUME word # <<>> PROVE StringIs(b, k, y) /\ Room(b, k) OBVIOUS
  <2>1. y # <<>> BY Zenon
  <2>2. StringIs(b, k, y) /\ (y # <<>> => Room(b, k))
    BY ONLY b \in Seq(Bytes), word \in Maybes(MQTTStrings), k \in Nat, At(b, k, MaybeString(word)), word # <<>>, LastPart
  <2> QED BY ONLY <2>1, <2>2
<1>3. word = <<>> => x # <<>> BY Zenon
<1> HIDE DEF x, y
<1>4. j + 2 + Len(x) = k /\ j <= k BY ONLY <1>1, j \in Nat, k = j + Len(MaybeString(name))
<1>5. NameIn(b) = [ok |-> TRUE, s |-> x, at |-> k] BY ONLY <1>1, <1>4, NamePlace(b) = j DEF NameIn, StringIs
<1>6. word # <<>> => WordIn(b) = [ok |-> TRUE, s |-> y, at |-> k + 2 + Len(y)]
  <2>1. NameIn(b).at = k BY ONLY <1>5
  <2> QED BY ONLY <1>2, <2>1 DEF WordIn, StringIs
<1>7. Room(b, j)
  <2>1. Len(b) \in Nat BY ONLY b \in Seq(Bytes), LenProperties
  <2>2. word # <<>> => Room(b, j) BY ONLY <1>2, <1>4, <2>1, j \in Nat, k \in Nat, EarlierRoom
  <2> QED BY ONLY <1>1, <1>3, <2>2
<1>8. NameIn(b).ok = TRUE /\ NameIn(b).s = x /\ NameIn(b).at = k BY ONLY <1>5
<1>9. word # <<>> => WordIn(b).ok = TRUE /\ WordIn(b).s = y BY ONLY <1>6
<1> QED BY ONLY <1>2, <1>7, <1>8, <1>9, NamePlace(b) = j, Zenon DEF x, y

LEMMA ConnectRead ==
  ASSUME NEW b \in Seq(Bytes), NEW h, TypeOf(h) = CONNECT, NEW p \in Connects, Framed(b, h, ConnectBody(p))
  PROVE  MQTTDeserialize_connect(b) = Reads(p)
<1>1. b[1] = h /\ Start(b) \in Nat /\ At(b, Start(b), ConnectBody(p)) BY DEF Framed
<1>2. PICK i \in Nat, j \in Nat, k \in Nat :
           /\ ProtocolIn(b).ok = TRUE /\ ProtocolIn(b).s = ProtocolName(p.version)
           /\ VersionIn(b) = p.version /\ FlagsIn(b) = ConnectFlags(p)
           /\ readInt(b, ProtocolIn(b).at + 2) = p.keepalive
           /\ ClientIn(b).ok = TRUE /\ ClientIn(b).s = p.clientID /\ ClientIn(b).at = i
           /\ At(b, i, MaybeWill(p.will)) /\ j = i + Len(MaybeWill(p.will))
           /\ At(b, j, MaybeString(p.username)) /\ k = j + Len(MaybeString(p.username))
           /\ At(b, k, MaybeString(p.password))
  <2> DEFINE at == Start(b)
  <2>1. at \in Nat /\ Start(b) = at /\ At(b, at, ConnectBody(p)) BY <1>1
  <2> HIDE DEF at
  <2> QED BY ONLY b \in Seq(Bytes), p \in Connects, <2>1, ConnectStart
<1>3. /\ p = [type |-> CONNECT, version |-> p.version, cleansession |-> p.cleansession,
                 keepalive |-> p.keepalive, clientID |-> p.clientID, will |-> p.will,
                 username |-> p.username, password |-> p.password]
      /\ p.version \in {3, 4} /\ p.will \in Maybes(Wills)
      /\ p.username \in Maybes(MQTTStrings) /\ p.password \in Maybes(MQTTStrings)
      /\ p.password # <<>> => p.username # <<>> /\ p.password[1] # <<>>
      /\ p.username # <<>> /\ p.password = <<>> => p.username[1] # <<>>
  BY ONLY p \in Connects, ConnectFields
<1> DEFINE f == FlagsIn(b)
<1>4. /\ FlagOf(f, 128) <=> p.username # <<>>
      /\ FlagOf(f, 64) <=> p.password # <<>>
      /\ FlagOf(f, 4) <=> p.will # <<>>
      /\ FlagOf(f, 2) = p.cleansession
      /\ p.will # <<>> => (f \div 8) % 4 = p.will[1].qos /\ FlagOf(f, 32) = p.will[1].retained
  <2>1. f = ConnectFlags(p) BY <1>2
  <2> HIDE DEF f
  <2>2. FlagsSay(ConnectFlags(p), p) BY ONLY p \in Connects, ConnectFlagsRead
  <2>3. FlagsSay(f, p) BY ONLY <2>1, <2>2
  <2> QED BY ONLY <2>3 DEF FlagsSay
<1>5. /\ NamePlace(b) = j
      /\ p.will # <<>> => /\ TopicIn(b).ok = TRUE /\ TopicIn(b).s = p.will[1].topic
                           /\ MessageIn(b).ok = TRUE /\ MessageIn(b).s = p.will[1].message
  <2> DEFINE will == p.will
  <2>1. /\ ClientIn(b).at = i /\ At(b, i, MaybeWill(will)) /\ j = i + Len(MaybeWill(will)) /\ i \in Nat
        /\ FlagOf(FlagsIn(b), 4) <=> will # <<>>
        /\ will \in Maybes(Wills)
    BY ONLY <1>2, <1>3, <1>4, i \in Nat
  <2> HIDE DEF will
  <2>2. /\ NamePlace(b) = j
        /\ will # <<>> => /\ TopicIn(b).ok = TRUE /\ TopicIn(b).s = will[1].topic
                           /\ MessageIn(b).ok = TRUE /\ MessageIn(b).s = will[1].message
    BY ONLY b \in Seq(Bytes), <2>1, WillPart
  <2> QED BY ONLY <2>2 DEF will
<1>6. /\ p.username # <<>> => Room(b, NamePlace(b)) /\ NameIn(b).ok = TRUE /\ NameIn(b).s = p.username[1]
      /\ p.password # <<>> => Room(b, NameIn(b).at) /\ WordIn(b).ok = TRUE /\ WordIn(b).s = p.password[1]
  <2> DEFINE name == p.username
             word == p.password
  <2>1. /\ name \in Maybes(MQTTStrings) /\ word \in Maybes(MQTTStrings) /\ j \in Nat /\ k \in Nat
        /\ NamePlace(b) = j /\ At(b, j, MaybeString(name))
        /\ k = j + Len(MaybeString(name)) /\ At(b, k, MaybeString(word))
        /\ word # <<>> => name # <<>> /\ word[1] # <<>>
        /\ name # <<>> /\ word = <<>> => name[1] # <<>>
    BY ONLY <1>2, <1>3, <1>5, j \in Nat, k \in Nat
  <2> HIDE DEF name, word
  <2>2. /\ name # <<>> => Room(b, NamePlace(b)) /\ NameIn(b).ok = TRUE /\ NameIn(b).s = name[1]
        /\ word # <<>> => Room(b, NameIn(b).at) /\ WordIn(b).ok = TRUE /\ WordIn(b).s = word[1]
    BY ONLY b \in Seq(Bytes), <2>1, NamePart
  <2> QED BY ONLY <2>2 DEF name, word
<1>7. ~WrongIn(b)
  <2>1. MQTTPacket_checkVersion(ProtocolIn(b).s, VersionIn(b))
    <3>1. MQTTPacket_checkVersion(ProtocolName(p.version), p.version) BY ONLY <1>3, NamesOfProtocol
    <3> QED BY ONLY <1>2, <3>1
  <2>2. TypeOf(b[1]) = CONNECT BY ONLY <1>1, TypeOf(h) = CONNECT
  <2>3. ~(FlagOf(f, 4) /\ ~(TopicIn(b).ok /\ MessageIn(b).ok)) BY ONLY <1>4, <1>5, Zenon
  <2>4. ~(FlagOf(f, 128) /\ ((Len(b) + 1) - NamePlace(b) < 3 \/ ~NameIn(b).ok)) BY ONLY <1>4, <1>6, Zenon DEF Room
  <2>5. ~(FlagOf(f, 64) /\ (~FlagOf(f, 128) \/ (Len(b) + 1) - NameIn(b).at < 3 \/ ~WordIn(b).ok))
    BY ONLY <1>3, <1>4, <1>6, Zenon DEF Room
  <2>6. ProtocolIn(b).ok /\ ClientIn(b).ok BY ONLY <1>2
  <2> QED BY ONLY <2>1, <2>2, <2>3, <2>4, <2>5, <2>6, Zenon DEF WrongIn
<1>8. (IF FlagOf(f, 4) THEN <<[topic |-> TopicIn(b).s, message |-> MessageIn(b).s,
                               qos |-> (f \div 8) % 4, retained |-> FlagOf(f, 32)]>>
       ELSE <<>>) = p.will
  <2> HIDE DEF f
  <2>1. CASE p.will = <<>> BY ONLY <1>4, <2>1, Zenon
  <2>2. CASE p.will # <<>>
    <3> DEFINE w == p.will[1]
    <3>1. w \in Wills /\ p.will = <<w>> BY ONLY <1>3, <2>2, NoneOrOne
    <3>2. w = [topic |-> w.topic, message |-> w.message, qos |-> w.qos, retained |-> w.retained]
      BY ONLY <3>1, WillFields
    <3>3. /\ TopicIn(b).s = w.topic /\ MessageIn(b).s = w.message /\ (f \div 8) % 4 = w.qos
          /\ FlagOf(f, 32) = w.retained
      BY ONLY <1>4, <1>5, <2>2, Zenon
    <3> HIDE DEF w
    <3>4. [topic |-> TopicIn(b).s, message |-> MessageIn(b).s, qos |-> (f \div 8) % 4, retained |-> FlagOf(f, 32)] = w
      BY ONLY <3>2, <3>3, Zenon
    <3>5. FlagOf(f, 4) BY ONLY <1>4, <2>2
    <3> QED BY ONLY <3>1, <3>4, <3>5, Zenon
  <2> QED BY ONLY <2>1, <2>2
<1>9. (IF FlagOf(f, 128) THEN <<NameIn(b).s>> ELSE <<>>) = p.username
  <2>1. p.username = <<>> \/ p.username = <<p.username[1]>> BY ONLY <1>3, NoneOrOne
  <2> QED BY ONLY <1>4, <1>6, <2>1, Zenon
<1>10. (IF FlagOf(f, 64) THEN <<WordIn(b).s>> ELSE <<>>) = p.password
  <2>1. p.password = <<>> \/ p.password = <<p.password[1]>> BY ONLY <1>3, NoneOrOne
  <2> QED BY ONLY <1>4, <1>6, <2>1, Zenon
<1>11. ConnectIn(b) = p
  <2>1. ConnectIn(b) = [type |-> CONNECT, version |-> p.version, cleansession |-> p.cleansession,
                 keepalive |-> p.keepalive, clientID |-> p.clientID, will |-> p.will,
                 username |-> p.username, password |-> p.password]
    BY ONLY <1>2, <1>4, <1>8, <1>9, <1>10, Zenon DEF ConnectIn
  <2> QED BY ONLY <1>3, <2>1
<1> QED BY ONLY <1>7, <1>11, ConnectParts, Zenon

LEMMA ConnectsTrip ==
  ASSUME NEW p \in Connects, Serialize(p, 1000) # <<>>
  PROVE  RoundTrip(p)
<1> DEFINE h == Header(CONNECT, FALSE, 0, FALSE)
           body == ConnectBody(p)
<1>1. p.type = CONNECT BY DEF Connects
<1>2. CONNECT \in 1..14 /\ p.type \in 1..14 /\ p.type = 1 BY <1>1, TypeNumbers
<1>3. h \in Bytes /\ TypeOf(h) = CONNECT BY ONLY <1>2, BareHeader
<1>4. body \in Seq(Bytes) BY ONLY p \in Connects, ConnectBodyType
<1>5. Serialize(p, 1000) = Written(p, 1000, h, body)
  <2>1. Serialize(p, 1000) = MQTTSerialize_connect(p, 1000)
    <3> HIDE DEF h, body
    <3> QED BY ONLY <1>2, TypeNumbers DEF Serialize
  <2> HIDE DEF h, body
  <2>2. MQTTSerialize_connect(p, 1000) = Written(p, 1000, h, body)
    BY ONLY Zenon DEF MQTTSerialize_connect, ConnectBody, VersionBytes, MaybeString, MaybeWill, Maybe, h, body
  <2> QED BY ONLY <2>1, <2>2
<1> HIDE DEF h, body
<1>6. Serialize(p, 1000) = Frame(h, body) /\ Len(body) < Limit
  <2>1. Written(p, 1000, h, body) # <<>> BY ONLY <1>5, Serialize(p, 1000) # <<>>
  <2> QED BY ONLY <1>3, <1>4, <1>5, <2>1, WrittenFrame
<1>7. Form(p, h, body) BY <1>1, <1>3, <1>4, <1>6 DEF Form
<1>8. ReadBack(p, h, body)
  <2> SUFFICES ASSUME NEW b \in Seq(Bytes), At(b, 1, Frame(h, body))
               PROVE  Deserialize(p.type, b, MaxCount) = Reads(p)
    BY DEF ReadBack
  <2>1. Framed(b, h, body) BY <1>3, <1>4, <1>6, FrameRead
  <2>2. Framed(b, h, ConnectBody(p)) BY ONLY <2>1 DEF body
  <2>3. MQTTDeserialize_connect(b) = Reads(p) BY ONLY b \in Seq(Bytes), <1>3, <2>2, p \in Connects, ConnectRead
  <2>4. Deserialize(p.type, b, MaxCount) = MQTTDeserialize_connect(b)
    BY ONLY <1>2, TypeNumbers DEF Deserialize
  <2> QED BY ONLY <2>3, <2>4
<1> QED BY <1>2, <1>7, <1>8 DEF RoundTrip

(***************************************************************************)
(* Every packet.                                                           *)
(***************************************************************************)
\* Of a packet that a serialiser of the library has written, the deserialiser that its
\* receiver calls takes every field as it was, whatever lies behind it in the buffer
\* (MQTTSerialize_* and MQTTDeserialize_* of MQTTPacket/src).
THEOREM ReadsWhatWasWritten ==
  ASSUME NEW p \in Packets
  PROVE  RoundTrip(p)
<1>1. Serialize(p, 1000) # <<>> BY DEF Packets
<1>2. \/ p \in Connects \/ p \in Connacks \/ p \in Publishes \/ p \in Acks \/ p \in Subscribes
      \/ p \in Subacks \/ p \in Unsubscribes \/ p \in Unsubacks \/ p \in Bare
  BY DEF Packets
<1>3. CASE p \in Connects BY ONLY <1>1, <1>3, ConnectsTrip
<1>4. CASE p \in Connacks BY ONLY <1>4, ConnacksTrip
<1>5. CASE p \in Publishes BY ONLY <1>1, <1>5, PublishesTrip
<1>6. CASE p \in Acks BY ONLY <1>6, AcksTrip
<1>7. CASE p \in Subscribes BY ONLY <1>1, <1>7, SubscribesTrip
<1>8. CASE p \in Subacks BY ONLY <1>1, <1>8, SubacksTrip
<1>9. CASE p \in Unsubscribes BY ONLY <1>1, <1>9, UnsubscribesTrip
<1>10. CASE p \in Unsubacks BY ONLY <1>10, UnsubacksTrip
<1>11. CASE p \in Bare BY ONLY <1>11, BareTrips
<1> QED BY ONLY <1>2, <1>3, <1>4, <1>5, <1>6, <1>7, <1>8, <1>9, <1>10, <1>11

\* The first byte of a packet, its body and the length field between them.
Shape(p) == CHOOSE r : Form(p, r[1], r[2]) /\ ReadBack(p, r[1], r[2])
FirstOf(p) == Shape(p)[1]
BodyOf(p) == Shape(p)[2]
FieldOf(p) == MQTTPacket_encode(Len(BodyOf(p)))
Whole(p) == Serialize(p, 1000)

LEMMA PacketShape ==
  ASSUME NEW p \in Packets
  PROVE  /\ p.type \in 1..14
         /\ Form(p, FirstOf(p), BodyOf(p)) /\ ReadBack(p, FirstOf(p), BodyOf(p))
<1>1. p.type \in 1..14 /\ \E h, body : Form(p, h, body) /\ ReadBack(p, h, body)
  BY ReadsWhatWasWritten DEF RoundTrip
<1>2. PICK h, body : Form(p, h, body) /\ ReadBack(p, h, body) BY <1>1
<1> DEFINE r == <<h, body>>
<1>3. r[1] = h /\ r[2] = body OBVIOUS
<1> HIDE DEF r
<1>4. Form(p, r[1], r[2]) /\ ReadBack(p, r[1], r[2]) BY ONLY <1>2, <1>3
<1>5. Form(p, Shape(p)[1], Shape(p)[2]) /\ ReadBack(p, Shape(p)[1], Shape(p)[2])
  BY ONLY <1>4, Zenon DEF Shape
<1> QED BY ONLY <1>1, <1>5 DEF FirstOf, BodyOf

LEMMA PacketBytes ==
  ASSUME NEW p \in Packets
  PROVE  /\ FirstOf(p) \in Bytes /\ TypeOf(FirstOf(p)) = p.type
         /\ BodyOf(p) \in Seq(Bytes) /\ Len(BodyOf(p)) \in Nat /\ Len(BodyOf(p)) < Limit
         /\ FieldOf(p) \in Seq(Bytes) /\ Len(FieldOf(p)) \in 1..4
         /\ Whole(p) = Frame(FirstOf(p), BodyOf(p))
         /\ Whole(p) = (<<FirstOf(p)>> \o FieldOf(p)) \o BodyOf(p)
         /\ Whole(p) \in Seq(Bytes)
         /\ Len(Whole(p)) = 1 + Len(FieldOf(p)) + Len(BodyOf(p))
<1> DEFINE h == FirstOf(p)
           body == BodyOf(p)
           n == Len(body)
           bytes == Whole(p)
<1>1. Form(p, h, body) BY PacketShape
<1> HIDE DEF h, body, bytes
<1>2. /\ h \in Bytes /\ TypeOf(h) = p.type /\ body \in Seq(Bytes) /\ Len(body) < Limit
      /\ bytes = Frame(h, body)
  BY ONLY <1>1 DEF Form, Whole, bytes
<1>3. n \in Nat BY ONLY <1>2, LenProperties
<1>4. MQTTPacket_encode(n) \in Seq(Bytes) /\ Len(MQTTPacket_encode(n)) \in 1..4
  <2>1. n < Limit BY ONLY <1>2
  <2> HIDE DEF n
  <2> QED BY ONLY <1>3, <2>1, FieldBytes, FieldLength
<1>5. /\ Frame(h, body) \in Seq(Bytes)
      /\ Len(Frame(h, body)) = 1 + Len(MQTTPacket_encode(n)) + n
  BY ONLY <1>2, FrameType
<1>6. Frame(h, body) = (<<h>> \o MQTTPacket_encode(n)) \o body BY ONLY DEF Frame
<1>7. FieldOf(p) = MQTTPacket_encode(n) BY ONLY DEF FieldOf, body
<1> HIDE DEF n
<1>8. /\ h \in Bytes /\ TypeOf(h) = p.type
      /\ body \in Seq(Bytes) /\ n \in Nat /\ n < Limit
      /\ FieldOf(p) \in Seq(Bytes) /\ Len(FieldOf(p)) \in 1..4
      /\ bytes = Frame(h, body) /\ bytes = (<<h>> \o FieldOf(p)) \o body /\ bytes \in Seq(Bytes)
      /\ Len(bytes) = 1 + Len(FieldOf(p)) + n
  <2>1. n < Limit BY ONLY <1>2 DEF n
  <2> QED BY ONLY <1>2, <1>3, <1>4, <1>5, <1>6, <1>7, <2>1
<1> QED BY ONLY <1>8 DEF h, body, n, bytes

(***************************************************************************)
(* The stream.                                                             *)
(***************************************************************************)
\* The bytes of the packets behind the first k.
Parts(ps, k) == [i \in 1..(Len(ps) - k) |-> Whole(ps[k + i])]
Ahead(ps, k) == Concat(Parts(ps, k))

LEMMA WholeType == ASSUME NEW p \in Packets PROVE Whole(p) \in Seq(Bytes)
BY ONLY p \in Packets, PacketBytes

LEMMA PartsType ==
  ASSUME NEW ps \in Seq(Packets), NEW k \in Nat, k <= Len(ps)
  PROVE  /\ Parts(ps, k) \in Seq(Seq(Bytes)) /\ Len(Parts(ps, k)) = Len(ps) - k
         /\ \A i \in 1..(Len(ps) - k) : Parts(ps, k)[i] = Whole(ps[k + i])
<1> DEFINE n == Len(ps) - k
           e(i) == Whole(ps[k + i])
           s == [i \in 1..n |-> e(i)]
<1>1. Len(ps) \in Nat /\ n \in Nat BY LenProperties
<1>2. ASSUME NEW i \in 1..n PROVE e(i) \in Seq(Bytes)
  <2> DEFINE q == ps[k + i]
  <2>1. k + i \in 1..Len(ps) BY <1>1
  <2>2. q \in Packets BY <2>1, ElementOfSeq
  <2> HIDE DEF q
  <2>3. Whole(q) \in Seq(Bytes) BY ONLY <2>2, WholeType
  <2> QED BY ONLY <2>3 DEF q
<1> HIDE DEF n, e
<1>3. s \in [1..n -> Seq(Bytes)] BY ONLY <1>2
<1>4. \A i \in 1..n : s[i] = e(i) OBVIOUS
<1>5. s = Parts(ps, k) BY ONLY DEF s, Parts, n, e
<1> HIDE DEF s
<1>6. s \in Seq(Seq(Bytes)) /\ Len(s) = n BY ONLY <1>1, <1>3
<1>7. /\ Parts(ps, k) \in Seq(Seq(Bytes)) /\ Len(Parts(ps, k)) = n
      /\ \A i \in 1..n : Parts(ps, k)[i] = e(i)
  BY ONLY <1>4, <1>5, <1>6
<1> QED BY ONLY <1>7 DEF n, e

LEMMA AheadType ==
  ASSUME NEW ps \in Seq(Packets), NEW k \in Nat, k <= Len(ps)
  PROVE  Ahead(ps, k) \in Seq(Bytes)
<1>1. Parts(ps, k) \in Seq(Seq(Bytes)) BY PartsType
<1> QED BY ONLY <1>1, ConcatType DEF Ahead

LEMMA AheadOfAll ==
  ASSUME NEW ps \in Seq(Packets)
  PROVE  BytesOf(ps) = Ahead(ps, 0)
<1>1. Len(ps) \in Nat /\ DOMAIN ps = 1..Len(ps) BY LenProperties
<1>2. Len(ps) - 0 = Len(ps) /\ \A i \in 1..Len(ps) : 0 + i = i BY <1>1
<1> DEFINE room == 1000
<1>3. Parts(ps, 0) = [i \in 1..(Len(ps) - 0) |-> Serialize(ps[0 + i], room)] BY DEF Parts, Whole
<1>4. BytesOf(ps) = Concat([i \in DOMAIN ps |-> Serialize(ps[i], room)]) BY DEF BytesOf
<1> HIDE DEF room
<1>5. [i \in DOMAIN ps |-> Serialize(ps[i], room)] = [i \in 1..(Len(ps) - 0) |-> Serialize(ps[0 + i], room)]
  BY ONLY <1>1, <1>2, Zenon
<1> QED BY ONLY <1>3, <1>4, <1>5 DEF Ahead

LEMMA NothingAhead ==
  ASSUME NEW ps \in Seq(Packets)
  PROVE  Ahead(ps, Len(ps)) = <<>>
<1> DEFINE s == Parts(ps, Len(ps))
<1>1. Len(ps) \in Nat /\ Len(ps) <= Len(ps) /\ Len(ps) - Len(ps) = 0 BY LenProperties
<1>2. s \in Seq(Seq(Bytes)) /\ Len(s) = 0
  <2>1. s \in Seq(Seq(Bytes)) /\ Len(s) = Len(ps) - Len(ps) BY ONLY <1>1, ps \in Seq(Packets), PartsType
  <2> QED BY ONLY <1>1, <2>1
<1> HIDE DEF s
<1>3. s = <<>> BY ONLY <1>2, EmptySeq
<1>4. Concat(<<>>) = <<>> BY ConcatOfNone
<1> QED BY ONLY <1>3, <1>4 DEF Ahead, s

LEMMA AheadOfOne ==
  ASSUME NEW ps \in Seq(Packets), NEW k \in Nat, k < Len(ps)
  PROVE  /\ ps[k + 1] \in Packets /\ k + 1 \in Nat /\ k + 1 <= Len(ps)
         /\ Ahead(ps, k) = Whole(ps[k + 1]) \o Ahead(ps, k + 1)
<1>1. Len(ps) \in Nat BY LenProperties
<1>2. k <= Len(ps) /\ k + 1 \in Nat /\ k + 1 <= Len(ps) /\ k + 1 \in 1..Len(ps) BY <1>1
<1>3. ps[k + 1] \in Packets BY <1>2, ElementOfSeq
<1> DEFINE t == Parts(ps, k)
           s == Parts(ps, k + 1)
           x == Whole(ps[k + 1])
           n == Len(ps)
<1>4. t \in Seq(Seq(Bytes)) /\ Len(t) = n - k /\ \A i \in 1..(n - k) : t[i] = Whole(ps[k + i])
  BY ONLY ps \in Seq(Packets), k \in Nat, <1>2, PartsType
<1>5. s \in Seq(Seq(Bytes)) /\ Len(s) = n - (k + 1) /\ \A i \in 1..(n - (k + 1)) : s[i] = Whole(ps[(k + 1) + i])
  BY ONLY ps \in Seq(Packets), <1>2, PartsType
<1>6. x \in Seq(Bytes) BY ONLY <1>3, WholeType
<1>10. n \in Nat /\ k < n BY <1>1
<1> HIDE DEF t, s, x, n
<1>7. t[1] = x
  <2>1. 1 \in 1..(n - k) BY ONLY <1>10, k \in Nat
  <2> QED BY ONLY <1>4, <2>1 DEF x
<1>8. ASSUME NEW i \in 1..Len(s) PROVE t[i + 1] = s[i]
  <2>1. i \in 1..(n - (k + 1)) BY ONLY i \in 1..Len(s), <1>5
  <2>2. i + 1 \in 1..(n - k) /\ k + (i + 1) = (k + 1) + i BY ONLY <1>10, <2>1, k \in Nat
  <2>3. t[i + 1] = Whole(ps[k + (i + 1)]) BY ONLY <1>4, <2>2
  <2>4. s[i] = Whole(ps[(k + 1) + i]) BY ONLY <1>5, <2>1
  <2> QED BY ONLY <2>2, <2>3, <2>4
<1>9. Len(t) = Len(s) + 1
  <2>1. ASSUME NEW l, l = n - (k + 1) PROVE n - k = l + 1 BY ONLY <1>10, k \in Nat, l = n - (k + 1)
  <2> QED BY ONLY <1>4, <1>5, <2>1
<1>11. Concat(t) = x \o Concat(s) BY ONLY <1>4, <1>5, <1>6, <1>7, <1>8, <1>9, ConcatOfFirst
<1>12. Ahead(ps, k) = Concat(t) /\ Ahead(ps, k + 1) = Concat(s) BY ONLY DEF Ahead, t, s
<1> QED BY ONLY <1>2, <1>3, <1>11, <1>12 DEF x

(***************************************************************************)
(* Sequences that begin alike.                                             *)
(***************************************************************************)
LEMMA BeginAlike ==
  ASSUME NEW x \in Seq(Bytes), NEW u \in Seq(Bytes), NEW y \in Seq(Bytes), NEW v \in Seq(Bytes),
         x \o u = y \o v, Len(x) <= Len(y)
  PROVE  /\ Len(x) \in Nat /\ Len(y) \in Nat
         /\ \A i \in 1..Len(x) : x[i] = y[i]
         /\ Len(x) + Len(u) = Len(y) + Len(v)
<1>1. Len(x) \in Nat /\ Len(u) \in Nat /\ Len(y) \in Nat /\ Len(v) \in Nat BY LenProperties
<1>2. /\ Len(x \o u) = Len(x) + Len(u)
      /\ \A i \in 1..(Len(x) + Len(u)) : (x \o u)[i] = IF i <= Len(x) THEN x[i] ELSE u[i - Len(x)]
  BY ConcatProperties
<1>3. /\ Len(y \o v) = Len(y) + Len(v)
      /\ \A i \in 1..(Len(y) + Len(v)) : (y \o v)[i] = IF i <= Len(y) THEN y[i] ELSE v[i - Len(y)]
  BY ConcatProperties
<1>4. Len(x) + Len(u) = Len(y) + Len(v) BY <1>2, <1>3
<1>5. ASSUME NEW i \in 1..Len(x) PROVE x[i] = y[i]
  <2>1. i \in 1..(Len(x) + Len(u)) /\ i \in 1..(Len(y) + Len(v)) /\ i <= Len(x) /\ i <= Len(y) BY <1>1, <1>4
  <2>2. (x \o u)[i] = x[i] /\ (y \o v)[i] = y[i] BY ONLY <1>2, <1>3, <2>1
  <2> QED BY ONLY <2>2, x \o u = y \o v
<1> QED BY <1>1, <1>4, <1>5

LEMMA CutAlike ==
  ASSUME NEW x \in Seq(Bytes), NEW u \in Seq(Bytes), NEW y \in Seq(Bytes), NEW v \in Seq(Bytes),
         x \o u = y \o v, Len(x) = Len(y)
  PROVE  x = y /\ u = v
<1>1. Len(x) \in Nat /\ Len(u) \in Nat /\ Len(y) \in Nat /\ Len(v) \in Nat BY LenProperties
<1>2. (\A i \in 1..Len(x) : x[i] = y[i]) /\ Len(x) + Len(u) = Len(y) + Len(v)
  <2>1. Len(x) <= Len(y) BY ONLY <1>1, Len(x) = Len(y)
  <2> QED BY ONLY <2>1, x \in Seq(Bytes), u \in Seq(Bytes), y \in Seq(Bytes), v \in Seq(Bytes),
                 x \o u = y \o v, BeginAlike
<1>3. x = y BY <1>2, SeqEqual
<1>4. Len(u) = Len(v) BY <1>1, <1>2
<1>5. ASSUME NEW i \in 1..Len(u) PROVE u[i] = v[i]
  <2> DEFINE n == Len(x)
             j == n + i
  <2>1. \A k \in 1..(n + Len(u)) : (x \o u)[k] = IF k <= n THEN x[k] ELSE u[k - n] BY ConcatProperties
  <2>2. \A k \in 1..(n + Len(v)) : (y \o v)[k] = IF k <= n THEN y[k] ELSE v[k - n] BY ConcatProperties
  <2>3. n \in Nat /\ Len(u) \in Nat /\ Len(u) = Len(v) BY <1>1, <1>4
  <2> HIDE DEF n
  <2>4. j \in 1..(n + Len(u)) /\ j \in 1..(n + Len(v)) /\ ~(j <= n) /\ j - n = i
    BY ONLY <2>3, i \in 1..Len(u)
  <2> HIDE DEF j
  <2>5. (x \o u)[j] = u[i] BY ONLY <2>1, <2>4
  <2>6. (y \o v)[j] = v[i] BY ONLY <2>2, <2>4
  <2> QED BY ONLY <2>5, <2>6, x \o u = y \o v
<1>6. u = v BY <1>4, <1>5, SeqEqual
<1> QED BY <1>3, <1>6

LEMMA JoinAssoc ==
  ASSUME NEW x \in Seq(Bytes), NEW y \in Seq(Bytes), NEW z \in Seq(Bytes)
  PROVE  (x \o y) \o z = x \o (y \o z)
BY ONLY x \in Seq(Bytes), y \in Seq(Bytes), z \in Seq(Bytes), Assoc

LEMMA SplitJoins ==
  ASSUME NEW s \in Seq(Bytes), NEW n \in 0..Len(s)
  PROVE  /\ SubSeq(s, 1, n) \in Seq(Bytes) /\ Len(SubSeq(s, 1, n)) = n
         /\ SubSeq(s, n + 1, Len(s)) \in Seq(Bytes)
         /\ SubSeq(s, 1, n) \o SubSeq(s, n + 1, Len(s)) = s
         /\ \A i \in 1..n : SubSeq(s, 1, n)[i] = s[i]
<1> DEFINE m == Len(s)
           x == SubSeq(s, 1, n)
           y == SubSeq(s, n + 1, m)
           z == x \o y
<1>1. m \in Nat /\ n \in Nat /\ n <= m BY LenProperties
<1>2. \A i \in 1..m : s[i] \in Bytes BY ElementOfSeq
<1>3. (\A i \in 1..n : s[i] \in Bytes) /\ (\A i \in (n + 1)..m : s[i] \in Bytes) BY <1>1, <1>2
<1>4. x \in Seq(Bytes) /\ Len(x) = n /\ \A i \in 1..n : x[i] = s[i]
  <2>1. /\ x \in Seq(Bytes) /\ Len(x) = IF 1 <= n THEN n - 1 + 1 ELSE 0
        /\ \A i \in 1..(n - 1 + 1) : x[i] = s[1 + i - 1]
    <3>1. 1 \in Int /\ n \in Int BY <1>1
    <3> HIDE DEF m
    <3> QED BY ONLY <1>3, <3>1, SubSeqProperties
  <2> HIDE DEF x, m
  <2>2. n - 1 + 1 = n /\ (1 <= n \/ n = 0) /\ \A i \in 1..n : 1 + i - 1 = i BY <1>1
  <2> QED BY ONLY <2>1, <2>2
<1>5. y \in Seq(Bytes) /\ Len(y) = m - n /\ \A i \in 1..(m - n) : y[i] = s[n + i]
  <2>1. /\ y \in Seq(Bytes) /\ Len(y) = IF n + 1 <= m THEN m - (n + 1) + 1 ELSE 0
        /\ \A i \in 1..(m - (n + 1) + 1) : y[i] = s[(n + 1) + i - 1]
    <3>1. n + 1 \in Int /\ m \in Int BY <1>1
    <3> HIDE DEF m
    <3> QED BY ONLY <1>3, <3>1, SubSeqProperties
  <2> HIDE DEF y, m
  <2>2. /\ m - (n + 1) + 1 = m - n /\ (n + 1 <= m \/ m - n = 0)
        /\ \A i \in 1..(m - n) : (n + 1) + i - 1 = n + i
    BY <1>1
  <2> QED BY ONLY <2>1, <2>2
<1> HIDE DEF x, y, m
<1>6. /\ z \in Seq(Bytes) /\ Len(z) = n + (m - n)
      /\ \A i \in 1..(n + (m - n)) : z[i] = IF i <= n THEN x[i] ELSE y[i - n]
  <2>1. /\ z \in Seq(Bytes) /\ Len(z) = Len(x) + Len(y)
        /\ \A i \in 1..(Len(x) + Len(y)) : z[i] = IF i <= Len(x) THEN x[i] ELSE y[i - Len(x)]
    BY ONLY <1>4, <1>5, ConcatProperties
  <2> HIDE DEF z
  <2> QED BY ONLY <1>4, <1>5, <2>1
<1> HIDE DEF z
<1>7. n + (m - n) = m BY ONLY <1>1
<1>8. ASSUME NEW i \in 1..m PROVE z[i] = s[i]
  <2>1. CASE i <= n
    <3>1. i \in 1..n BY ONLY <1>1, <2>1, i \in 1..m
    <3> QED BY ONLY <1>4, <1>6, <1>7, <2>1, <3>1, i \in 1..m
  <2>2. CASE ~(i <= n)
    <3>1. i - n \in 1..(m - n) /\ n + (i - n) = i BY ONLY <1>1, <2>2, i \in 1..m
    <3> QED BY ONLY <1>5, <1>6, <1>7, <2>2, <3>1, i \in 1..m
  <2> QED BY ONLY <2>1, <2>2
<1>9. z = s
  <2>1. Len(z) = Len(s) BY ONLY <1>6, <1>7 DEF m
  <2>2. \A i \in 1..Len(z) : z[i] = s[i] BY ONLY <1>8, <2>1 DEF m
  <2>3. s \in Seq(Bytes) /\ z \in Seq(Bytes) BY <1>6
  <2> QED BY ONLY <2>1, <2>2, <2>3, SeqEqual
<1> QED BY <1>4, <1>5, <1>9 DEF x, y, m, z

(***************************************************************************)
(* What the calls have returned.                                           *)
(***************************************************************************)
Results == {r \in [rc : Int, p : Packets \cup {NoPacket}] : r.rc = PUBLISH => r.p # NoPacket}
Kept(r) == IF r.p = NoPacket THEN <<>> ELSE <<r>>
ReadOf(g) == Concat([i \in DOMAIN g |-> Kept(g[i])])

LEMMA ReadOfType ==
  ASSUME NEW g \in Seq(Results)
  PROVE  ReadOf(g) \in Seq(Results) /\ Len(ReadOf(g)) \in Nat
<1> DEFINE ss == [i \in DOMAIN g |-> Kept(g[i])]
<1>1. DOMAIN g = 1..Len(g) /\ Len(g) \in Nat BY LenProperties
<1>2. ASSUME NEW r \in Results PROVE Kept(r) \in Seq(Results)
  <2>1. <<>> \in Seq(Results) /\ <<r>> \in Seq(Results) BY EmptySeq
  <2> QED BY ONLY <2>1 DEF Kept
<1>3. ASSUME NEW i \in 1..Len(g) PROVE Kept(g[i]) \in Seq(Results)
  <2>1. g[i] \in Results BY ElementOfSeq
  <2> QED BY ONLY <1>2, <2>1
<1>4. ss \in Seq(Seq(Results))
  <2>1. ss \in [1..Len(g) -> Seq(Results)] BY ONLY <1>1, <1>3, Zenon
  <2> HIDE DEF ss
  <2> QED BY ONLY <1>1, <2>1
<1>5. ReadOf(g) = Concat(ss) BY ONLY Zenon DEF ReadOf, ss
<1> HIDE DEF ss
<1>6. Concat(ss) \in Seq(Results) BY ONLY <1>4, ConcatType
<1> QED BY ONLY <1>5, <1>6, LenProperties

LEMMA OneMoreKept ==
  ASSUME NEW g \in Seq(Results), NEW r \in Results, NEW h, h = Append(g, r)
  PROVE  /\ h \in Seq(Results)
         /\ r.p = NoPacket => ReadOf(h) = ReadOf(g)
         /\ r.p # NoPacket => ReadOf(h) = Append(ReadOf(g), r)
<1> DEFINE n == Len(g)
           ss == [i \in DOMAIN g |-> Kept(g[i])]
           tt == [i \in DOMAIN h |-> Kept(h[i])]
<1>1. DOMAIN g = 1..n /\ n \in Nat BY LenProperties
<1>2. /\ h \in Seq(Results) /\ Len(h) = n + 1 /\ h[n + 1] = r
      /\ \A i \in 1..n : h[i] = g[i]
  BY AppendProperties
<1>3. DOMAIN h = 1..(n + 1) BY ONLY <1>2, LenProperties
<1>4. ASSUME NEW q \in Results PROVE Kept(q) \in Seq(Results)
  <2>1. <<>> \in Seq(Results) /\ <<q>> \in Seq(Results) BY EmptySeq
  <2> QED BY ONLY <2>1 DEF Kept
<1>5. ASSUME NEW i \in 1..n PROVE Kept(g[i]) \in Seq(Results)
  <2>1. g[i] \in Results BY ElementOfSeq
  <2> QED BY ONLY <1>4, <2>1
<1>6. ReadOf(g) = Concat(ss) /\ ReadOf(h) = Concat(tt) BY ONLY Zenon DEF ReadOf, ss, tt
<1> HIDE DEF n
<1>7. ss \in Seq(Seq(Results)) /\ Len(ss) = n /\ \A i \in 1..n : ss[i] = Kept(g[i])
  <2>1. ss \in [1..n -> Seq(Results)] /\ \A i \in 1..n : ss[i] = Kept(g[i]) BY ONLY <1>1, <1>5, Zenon
  <2> HIDE DEF ss
  <2> QED BY ONLY <1>1, <2>1
<1>8. Kept(r) \in Seq(Results) BY <1>4
<1>9. tt = Append(ss, Kept(r))
  <2> DEFINE uu == Append(ss, Kept(r))
  <2>1. /\ uu \in Seq(Seq(Results)) /\ Len(uu) = n + 1 /\ uu[n + 1] = Kept(r)
        /\ \A i \in 1..n : uu[i] = ss[i]
    <3> HIDE DEF ss
    <3> QED BY ONLY <1>7, <1>8, AppendProperties
  <2>2. uu = [i \in 1..(n + 1) |-> uu[i]]
    <3> HIDE DEF uu
    <3> QED BY ONLY <2>1
  <2> HIDE DEF uu, ss
  <2>3. ASSUME NEW i \in 1..(n + 1) PROVE uu[i] = Kept(h[i])
    <3>1. CASE i = n + 1 BY ONLY <1>2, <2>1, <3>1
    <3>2. CASE i # n + 1
      <4>1. i \in 1..n BY ONLY <1>1, <3>2, i \in 1..(n + 1)
      <4> QED BY ONLY <1>2, <1>7, <2>1, <4>1
    <3> QED BY ONLY <3>1, <3>2
  <2>4. tt = [i \in 1..(n + 1) |-> Kept(h[i])] BY ONLY <1>3, Zenon
  <2> HIDE DEF tt
  <2>5. uu = tt BY ONLY <2>2, <2>3, <2>4, Zenon
  <2> QED BY ONLY <2>5 DEF uu
<1> HIDE DEF ss, tt
<1>10. Concat(tt) = Concat(ss) \o Kept(r) BY ONLY <1>7, <1>8, <1>9, ConcatOfAppend
<1>11. Concat(ss) \in Seq(Results) BY ONLY <1>7, ConcatType
<1>12. CASE r.p = NoPacket
  <2>1. Kept(r) = <<>> BY ONLY <1>12 DEF Kept
  <2>2. Concat(ss) \o <<>> = Concat(ss) BY ONLY <1>11, ConcatEmptySeq
  <2> QED BY ONLY <1>2, <1>6, <1>10, <1>12, <2>1, <2>2
<1>13. CASE r.p # NoPacket
  <2>1. Kept(r) = <<r>> BY ONLY <1>13 DEF Kept
  <2>2. Concat(ss) \o <<r>> = Append(Concat(ss), r) BY ONLY <1>11, r \in Results, AppendIsConcat
  <2> QED BY ONLY <1>2, <1>6, <1>10, <1>13, <2>1, <2>2
<1> QED BY ONLY <1>12, <1>13

LEMMA PacketsReadType ==
  ASSUME got \in Seq(Results)
  PROVE  PacketsRead \in Seq(Results) /\ Len(PacketsRead) \in Nat
<1>1. PacketsRead = ReadOf(got) BY ONLY Zenon DEF PacketsRead, ReadOf, Kept
<1> QED BY ONLY <1>1, got \in Seq(Results), ReadOfType

LEMMA OneMoreResult ==
  ASSUME got \in Seq(Results), NEW r \in Results, got' = Append(got, r)
  PROVE  /\ got' \in Seq(Results)
         /\ r.p = NoPacket => PacketsRead' = PacketsRead
         /\ r.p # NoPacket => PacketsRead' = Append(PacketsRead, r)
<1>1. PacketsRead = ReadOf(got) BY ONLY Zenon DEF PacketsRead, ReadOf, Kept
<1>2. PacketsRead' = ReadOf(got') BY ONLY Zenon DEF PacketsRead, ReadOf, Kept
<1>3. PICK g : g = got OBVIOUS
<1>4. PICK h : h = got' OBVIOUS
<1>5. g \in Seq(Results) /\ h = Append(g, r) BY ONLY <1>3, <1>4, got \in Seq(Results), got' = Append(got, r)
<1>6. /\ h \in Seq(Results)
      /\ r.p = NoPacket => ReadOf(h) = ReadOf(g)
      /\ r.p # NoPacket => ReadOf(h) = Append(ReadOf(g), r)
  BY ONLY <1>5, r \in Results, OneMoreKept
<1>7. ReadOf(g) = ReadOf(got) /\ ReadOf(h) = ReadOf(got') BY ONLY <1>3, <1>4
<1> QED BY ONLY <1>1, <1>2, <1>4, <1>6, <1>7

\* The last of the results, if it is a packet, is the last packet read.
LEMMA LastRead ==
  ASSUME got \in Seq(Results), got # <<>>, got[Len(got)].p # NoPacket
  PROVE  Len(PacketsRead) >= 1 /\ PacketsRead[Len(PacketsRead)] = got[Len(got)]
<1>1. PacketsRead = ReadOf(got) BY ONLY Zenon DEF PacketsRead, ReadOf, Kept
<1>2. PICK g \in Seq(Results), r \in Results : got = Append(g, r) BY SequenceEmptyOrAppend
<1>3. got[Len(got)] = r
  <2>1. Len(Append(g, r)) = Len(g) + 1 /\ Append(g, r)[Len(g) + 1] = r BY ONLY <1>2, AppendProperties
  <2> QED BY ONLY <1>2, <2>1
<1>4. PICK h : h = got OBVIOUS
<1>5. h = Append(g, r) /\ r.p # NoPacket BY ONLY <1>2, <1>3, <1>4, got[Len(got)].p # NoPacket
<1>6. ReadOf(h) = Append(ReadOf(g), r) BY ONLY <1>2, <1>5, OneMoreKept
<1>7. ReadOf(g) \in Seq(Results) /\ Len(ReadOf(g)) \in Nat BY ONLY <1>2, ReadOfType
<1> DEFINE q == ReadOf(g)
<1>8. Len(Append(q, r)) = Len(q) + 1 /\ Append(q, r)[Len(q) + 1] = r BY ONLY <1>2, <1>7, AppendProperties
<1> HIDE DEF q
<1>9. PacketsRead = Append(q, r) BY ONLY <1>1, <1>4, <1>6 DEF q
<1>10. Len(q) \in Nat BY ONLY <1>7 DEF q
<1> QED BY ONLY <1>3, <1>8, <1>9, <1>10

(***************************************************************************)
(* A buffer one byte too short.                                            *)
(***************************************************************************)
Tight(p) == Serialize(p, Len(Serialize(p, 1000)) - 1) = <<>>
WrittenBy(p, h, body) == \A m : Serialize(p, m) = Written(p, m, h, body)
ShortBy(p, least, h, body) == \A m : Serialize(p, m) = Short(p, m, least, h, body)

LEMMA WrittenIsTight ==
  ASSUME NEW p, NEW h \in Bytes, NEW body \in Seq(Bytes), Serialize(p, 1000) # <<>>, WrittenBy(p, h, body)
  PROVE  Tight(p)
<1> DEFINE n == Len(body)
           field == MQTTPacket_encode(n)
           len == MQTTPacket_len(n)
           l == Len(Serialize(p, 1000))
<1>1. n \in Nat BY LenProperties
<1>2. Serialize(p, 1000) = Frame(h, body) /\ n < Limit
  <2>1. Serialize(p, 1000) = Written(p, 1000, h, body) BY DEF WrittenBy
  <2>2. Written(p, 1000, h, body) # <<>> BY ONLY <2>1, Serialize(p, 1000) # <<>>
  <2>3. Written(p, 1000, h, body) = Frame(h, body) /\ Len(body) < Limit
    BY ONLY h \in Bytes, body \in Seq(Bytes), <2>2, WrittenFrame
  <2> QED BY ONLY <2>1, <2>3
<1>3. l = 1 + Len(field) + n
  <2>1. Len(body) < Limit BY ONLY <1>2
  <2>2. Len(Frame(h, body)) = 1 + Len(field) + n BY ONLY h \in Bytes, body \in Seq(Bytes), <2>1, FrameType
  <2> QED BY ONLY <1>2, <2>2
<1> HIDE DEF n
<1>4. Len(field) \in 1..4 /\ len - (1 + Len(field) + n) \in 0..1 BY ONLY <1>1, <1>2, FieldLength, LenIsEnough
<1>5. len \in Int BY ONLY <1>1, SMT DEF MQTTPacket_len
<1> HIDE DEF field, len, l
<1>6. len > l - 1
  <2> DEFINE k == Len(field)
  <2>1. k \in Nat /\ l = 1 + k + n /\ len - (1 + k + n) \in 0..1 BY ONLY <1>3, <1>4
  <2> HIDE DEF k
  <2> QED BY ONLY <1>1, <1>5, <2>1
<1>7. Serialize(p, l - 1) = Written(p, l - 1, h, body) BY DEF WrittenBy
<1>8. Written(p, l - 1, h, body) = <<>> BY ONLY <1>6 DEF Written, len, n
<1> QED BY ONLY <1>7, <1>8 DEF Tight, l

LEMMA ShortIsTight ==
  ASSUME NEW p, NEW h \in Bytes, NEW body \in Seq(Bytes), NEW least \in {2, 4}, Len(body) = least - 2,
         ShortBy(p, least, h, body)
  PROVE  Tight(p)
<1> DEFINE n == Len(body)
           field == MQTTPacket_encode(n)
           l == Len(Serialize(p, 1000))
<1>1. n \in {0, 2} BY ONLY least \in {2, 4}, Len(body) = least - 2
<1>2. Serialize(p, 1000) = Frame(h, body)
  <2>1. Serialize(p, 1000) = Short(p, 1000, least, h, body) BY DEF ShortBy
  <2>2. least \in Nat /\ least <= 1000 BY ONLY least \in {2, 4}
  <2>3. Short(p, 1000, least, h, body) = Frame(h, body)
    BY ONLY h \in Bytes, body \in Seq(Bytes), <2>2, ShortFrame
  <2> QED BY ONLY <2>1, <2>3
<1>3. l = 1 + Len(field) + n
  <2>0. ASSUME NEW x \in {0, 2} PROVE x < Limit BY DEF Limit
  <2>1. Len(body) < Limit BY ONLY <1>1, <2>0
  <2>2. Len(Frame(h, body)) = 1 + Len(field) + n BY ONLY h \in Bytes, body \in Seq(Bytes), <2>1, FrameType
  <2> QED BY ONLY <1>2, <2>2
<1>4. Len(field) = 1
  <2> HIDE DEF n
  <2>1. field = <<n>> BY ONLY <1>1 DEF MQTTPacket_encode
  <2> QED BY ONLY <2>1
<1>5. l = least
  <2> HIDE DEF l, field
  <2> QED BY ONLY <1>1, <1>3, <1>4, least \in {2, 4}, Len(body) = least - 2
<1> HIDE DEF l
<1>6. Serialize(p, l - 1) = Short(p, l - 1, least, h, body) BY DEF ShortBy
<1>7. l - 1 < least BY ONLY <1>5, least \in {2, 4}
<1>8. Short(p, l - 1, least, h, body) = <<>> BY ONLY <1>7 DEF Short
<1> QED BY ONLY <1>6, <1>8 DEF Tight, l

LEMMA ConnectsTight ==
  ASSUME NEW p \in Connects, Serialize(p, 1000) # <<>>
  PROVE  Tight(p)
<1> DEFINE h == Header(CONNECT, FALSE, 0, FALSE)
           body == ConnectBody(p)
<1>1. p.type = CONNECT BY DEF Connects
<1>2. CONNECT \in 1..14 /\ p.type \in 1..14 /\ p.type = 1 BY <1>1, TypeNumbers
<1>3. h \in Bytes BY ONLY <1>2, BareHeader
<1>4. body \in Seq(Bytes) BY ONLY p \in Connects, ConnectBodyType
<1> HIDE DEF h, body
<1>5. WrittenBy(p, h, body)
  <2> SUFFICES ASSUME NEW m PROVE Serialize(p, m) = Written(p, m, h, body) BY DEF WrittenBy
  <2>1. Serialize(p, m) = MQTTSerialize_connect(p, m) BY ONLY <1>2, TypeNumbers DEF Serialize
  <2>2. MQTTSerialize_connect(p, m) = Written(p, m, h, body)
    BY ONLY Zenon DEF MQTTSerialize_connect, ConnectBody, VersionBytes, MaybeString, MaybeWill, Maybe, h, body
  <2> QED BY ONLY <2>1, <2>2
<1> QED BY ONLY <1>3, <1>4, <1>5, Serialize(p, 1000) # <<>>, WrittenIsTight

LEMMA PublishesTight ==
  ASSUME NEW p \in Publishes, Serialize(p, 1000) # <<>>
  PROVE  Tight(p)
<1> DEFINE h == Header(PUBLISH, p.dup, p.qos, p.retained)
           body == (writeMQTTString(p.topic) \o IdOf(p.qos, p.id)) \o p.payload
<1>1. /\ p.type = PUBLISH /\ p.dup \in BOOLEAN /\ p.qos \in 0..2 /\ p.retained \in BOOLEAN
      /\ p.topic \in MQTTStrings /\ p.id \in Words /\ p.payload \in Seq(Bytes)
  BY DEF Publishes
<1>2. PUBLISH \in 1..14 /\ p.type \in 1..14 /\ p.type = 3 BY <1>1, TypeNumbers
<1>3. h \in Bytes BY ONLY <1>1, <1>2, HeaderRead DEF HeaderIs
<1>4. body \in Seq(Bytes)
  <2>1. writeMQTTString(p.topic) \in Seq(Bytes) /\ IdOf(p.qos, p.id) \in Seq(Bytes)
    BY ONLY <1>1, StringWritten, IdWritten
  <2>2. writeMQTTString(p.topic) \o IdOf(p.qos, p.id) \in Seq(Bytes) BY ONLY <2>1, Joins
  <2> QED BY ONLY <1>1, <2>2, Joins
<1> HIDE DEF h, body
<1>5. WrittenBy(p, h, body)
  <2> SUFFICES ASSUME NEW m PROVE Serialize(p, m) = Written(p, m, h, body) BY DEF WrittenBy
  <2>1. Serialize(p, m) = MQTTSerialize_publish(p, m) BY ONLY <1>2, TypeNumbers DEF Serialize
  <2>2. MQTTSerialize_publish(p, m) = Written(p, m, h, body)
    BY ONLY Zenon DEF MQTTSerialize_publish, IdOf, h, body
  <2> QED BY ONLY <2>1, <2>2
<1> QED BY ONLY <1>3, <1>4, <1>5, Serialize(p, 1000) # <<>>, WrittenIsTight

\* The header and the body of a request.
LEMMA RequestTyped ==
  ASSUME NEW type \in 1..14, NEW dup \in BOOLEAN, NEW id \in Words, NEW ss \in Seq(Seq(Bytes))
  PROVE  Header(type, dup, 1, FALSE) \in Bytes /\ writeInt(id) \o Concat(ss) \in Seq(Bytes)
<1> DEFINE one == 1
           w == writeInt(id)
           list == Concat(ss)
<1>1. one \in 0..2 OBVIOUS
<1> HIDE DEF one
<1>2. HeaderIs(Header(type, dup, one, FALSE), type, dup, one, FALSE)
  BY ONLY type \in 1..14, dup \in BOOLEAN, <1>1, PlainHeader
<1>3. w \in Seq(Bytes) BY ONLY id \in Words, IntWritten
<1>4. list \in Seq(Bytes) BY ONLY ss \in Seq(Seq(Bytes)), ConcatType
<1> HIDE DEF w, list
<1>5. w \o list \in Seq(Bytes) BY ONLY <1>3, <1>4, Joins
<1>6. Header(type, dup, one, FALSE) \in Bytes BY ONLY <1>2 DEF HeaderIs
<1> QED BY ONLY <1>5, <1>6 DEF w, list, one

LEMMA UnsubscribesTight ==
  ASSUME NEW p \in Unsubscribes, Serialize(p, 1000) # <<>>
  PROVE  Tight(p)
<1> DEFINE names == p.filters
           ss == [i \in DOMAIN p.filters |-> writeMQTTString(p.filters[i])]
           h == Header(UNSUBSCRIBE, p.dup, 1, FALSE)
           body == writeInt(p.id) \o Concat(ss)
<1>1. /\ p.type = UNSUBSCRIBE /\ p.dup \in BOOLEAN /\ p.id \in Words
      /\ names \in Seq(MQTTStrings)
  BY DEF Unsubscribes, AtMost
<1>2. UNSUBSCRIBE \in 1..14 /\ p.type \in 1..14 /\ p.type = 10 BY <1>1, TypeNumbers
<1>3. ss \in Seq(Seq(Bytes))
  <2>1. Len(names) \in Nat /\ DOMAIN names = 1..Len(names) BY <1>1, LenProperties
  <2>2. ASSUME NEW i \in 1..Len(names) PROVE ss[i] \in Seq(Bytes)
    <3>1. names[i] \in MQTTStrings BY <1>1, ElementOfSeq
    <3>2. writeMQTTString(names[i]) \in Seq(Bytes) BY ONLY <3>1, StringWritten
    <3>3. ss[i] = writeMQTTString(names[i]) BY <2>1
    <3> QED BY ONLY <3>2, <3>3
  <2>3. ss = [i \in 1..Len(names) |-> ss[i]] BY <2>1
  <2> HIDE DEF ss, names
  <2>4. \A i \in 1..Len(names) : ss[i] \in Seq(Bytes) BY ONLY <2>2
  <2> QED BY ONLY <2>1, <2>3, <2>4, SeqOf
<1> HIDE DEF ss
<1>4. h \in Bytes /\ body \in Seq(Bytes) BY ONLY <1>1, <1>2, <1>3, RequestTyped
<1> HIDE DEF h, body
<1>5. WrittenBy(p, h, body)
  <2> SUFFICES ASSUME NEW m PROVE Serialize(p, m) = Written(p, m, h, body) BY DEF WrittenBy
  <2>1. Serialize(p, m) = MQTTSerialize_unsubscribe(p, m) BY ONLY <1>2, TypeNumbers DEF Serialize
  <2>2. MQTTSerialize_unsubscribe(p, m) = Written(p, m, h, body)
    BY ONLY Zenon DEF MQTTSerialize_unsubscribe, h, body, ss
  <2> QED BY ONLY <2>1, <2>2
<1> QED BY ONLY <1>4, <1>5, Serialize(p, 1000) # <<>>, WrittenIsTight

LEMMA SubscribesTight ==
  ASSUME NEW p \in Subscribes, Serialize(p, 1000) # <<>>
  PROVE  Tight(p)
<1> DEFINE filters == p.filters
           ss == [i \in DOMAIN p.filters |-> writeMQTTString(p.filters[i][1]) \o <<p.filters[i][2]>>]
           h == Header(SUBSCRIBE, p.dup, 1, FALSE)
           body == writeInt(p.id) \o Concat(ss)
<1>1. /\ p.type = SUBSCRIBE /\ p.dup \in BOOLEAN /\ p.id \in Words
      /\ filters \in Seq(MQTTStrings \X (0..2))
  BY DEF Subscribes, AtMost
<1>2. SUBSCRIBE \in 1..14 /\ p.type \in 1..14 /\ p.type = 8 BY <1>1, TypeNumbers
<1>3. ss \in Seq(Seq(Bytes))
  <2>1. Len(filters) \in Nat /\ DOMAIN filters = 1..Len(filters) BY <1>1, LenProperties
  <2>2. ASSUME NEW i \in 1..Len(filters) PROVE ss[i] \in Seq(Bytes)
    <3> DEFINE x == writeMQTTString(filters[i][1])
               y == filters[i][2]
    <3>1. filters[i] \in MQTTStrings \X (0..2) BY <1>1, ElementOfSeq
    <3>2. filters[i][1] \in MQTTStrings /\ y \in 0..2 BY <3>1
    <3>3. x \in Seq(Bytes) BY ONLY <3>2, StringWritten
    <3>4. y \in Bytes BY ONLY <3>2 DEF Bytes
    <3>5. ss[i] = x \o <<y>> BY <2>1
    <3> HIDE DEF x, y, ss
    <3>6. <<y>> \in Seq(Bytes) BY ONLY <3>4
    <3> QED BY ONLY <3>3, <3>5, <3>6, Joins
  <2>3. ss = [i \in 1..Len(filters) |-> ss[i]] BY <2>1
  <2> HIDE DEF ss, filters
  <2>4. \A i \in 1..Len(filters) : ss[i] \in Seq(Bytes) BY ONLY <2>2
  <2> QED BY ONLY <2>1, <2>3, <2>4, SeqOf
<1> HIDE DEF ss
<1>4. h \in Bytes /\ body \in Seq(Bytes) BY ONLY <1>1, <1>2, <1>3, RequestTyped
<1> HIDE DEF h, body
<1>5. WrittenBy(p, h, body)
  <2> SUFFICES ASSUME NEW m PROVE Serialize(p, m) = Written(p, m, h, body) BY DEF WrittenBy
  <2>1. Serialize(p, m) = MQTTSerialize_subscribe(p, m) BY ONLY <1>2, TypeNumbers DEF Serialize
  <2>2. MQTTSerialize_subscribe(p, m) = Written(p, m, h, body)
    BY ONLY Zenon DEF MQTTSerialize_subscribe, h, body, ss
  <2> QED BY ONLY <2>1, <2>2
<1> QED BY ONLY <1>4, <1>5, Serialize(p, 1000) # <<>>, WrittenIsTight

LEMMA AcksTight ==
  ASSUME NEW p \in Acks
  PROVE  Tight(p)
<1> DEFINE qos == IF p.type = PUBREL THEN 1 ELSE 0
           h == Header(p.type, p.dup, qos, FALSE)
           body == writeInt(p.id)
<1>1. /\ p.type \in 4..7 /\ p.type \in 1..14 /\ p.dup \in BOOLEAN /\ p.id \in Words
  BY TypeNumbers DEF Acks
<1>2. h \in Bytes
  <2>1. qos \in 0..2 OBVIOUS
  <2> HIDE DEF qos
  <2>2. HeaderIs(h, p.type, p.dup, qos, FALSE) BY <1>1, <2>1, PlainHeader
  <2> QED BY <2>2 DEF HeaderIs
<1>3. body \in Seq(Bytes) /\ Len(body) = 2 BY <1>1, IntWritten
<1> HIDE DEF h, body
<1>4. ShortBy(p, 4, h, body)
  <2> SUFFICES ASSUME NEW m PROVE Serialize(p, m) = Short(p, m, 4, h, body) BY DEF ShortBy
  <2>1. Serialize(p, m) = MQTTSerialize_ack(p, m) BY ONLY <1>1, TypeNumbers DEF Serialize
  <2>2. MQTTSerialize_ack(p, m) = Short(p, m, 4, h, body) BY ONLY Zenon DEF MQTTSerialize_ack, h, body
  <2> QED BY ONLY <2>1, <2>2
<1> DEFINE four == 4
<1>5. four \in {2, 4} /\ Len(body) = four - 2 /\ ShortBy(p, four, h, body) BY <1>3, <1>4
<1> HIDE DEF four
<1> QED BY ONLY <1>2, <1>3, <1>5, ShortIsTight

LEMMA BareTight ==
  ASSUME NEW p \in Bare
  PROVE  Tight(p)
<1> DEFINE h == Header(p.type, FALSE, 0, FALSE)
           body == <<>>
           two == 2
<1>1. p.type \in 12..14 /\ p.type \in 1..14 BY TypeNumbers DEF Bare
<1>2. h \in Bytes BY ONLY <1>1, BareHeader
<1>3. body \in Seq(Bytes) /\ Len(body) = two - 2 /\ two \in {2, 4} BY EmptySeq
<1> HIDE DEF h, body, two
<1>4. ShortBy(p, two, h, body)
  <2> SUFFICES ASSUME NEW m PROVE Serialize(p, m) = Short(p, m, two, h, body) BY DEF ShortBy
  <2>1. Serialize(p, m) = MQTTSerialize_zero(p, m) BY ONLY <1>1, TypeNumbers DEF Serialize
  <2>2. MQTTSerialize_zero(p, m) = Short(p, m, two, h, body) BY ONLY Zenon DEF MQTTSerialize_zero, h, body, two
  <2> QED BY ONLY <2>1, <2>2
<1> QED BY ONLY <1>2, <1>3, <1>4, ShortIsTight

LEMMA PacketsTight ==
  ASSUME NEW p \in Packets, p.type \notin {CONNACK, SUBACK, UNSUBACK}
  PROVE  Tight(p)
<1>1. Serialize(p, 1000) # <<>> BY DEF Packets
<1>2. \/ p \in Connects \/ p \in Connacks \/ p \in Publishes \/ p \in Acks \/ p \in Subscribes
      \/ p \in Subacks \/ p \in Unsubscribes \/ p \in Unsubacks \/ p \in Bare
  BY DEF Packets
<1>3. CASE p \in Connects BY ONLY <1>1, <1>3, ConnectsTight
<1>4. CASE p \in Connacks BY <1>4 DEF Connacks
<1>5. CASE p \in Publishes BY ONLY <1>1, <1>5, PublishesTight
<1>6. CASE p \in Acks BY ONLY <1>6, AcksTight
<1>7. CASE p \in Subscribes BY ONLY <1>1, <1>7, SubscribesTight
<1>8. CASE p \in Subacks BY <1>8 DEF Subacks
<1>9. CASE p \in Unsubscribes BY ONLY <1>1, <1>9, UnsubscribesTight
<1>10. CASE p \in Unsubacks BY <1>10 DEF Unsubacks
<1>11. CASE p \in Bare BY ONLY <1>11, BareTight
<1> QED BY ONLY <1>2, <1>3, <1>4, <1>5, <1>6, <1>7, <1>8, <1>9, <1>10, <1>11

(***************************************************************************)
(* The readers.                                                            *)
(***************************************************************************)
Number(d1, d2, d3, d4) == d1 + 128 * d2 + 16384 * d3 + Third * d4
LEMMA FourDigits ==
  ASSUME NEW d1 \in 0..127, NEW d2 \in 0..127, NEW d3 \in 0..127, NEW d4 \in 0..127
  PROVE  Number(d1, d2, d3, d4) \in Nat /\ Number(d1, d2, d3, d4) < Limit
BY SMT DEF Number, Third, Limit

\* Digits of any value, in any number, are a length below the limit.
LEMMA ValueInRange ==
  ASSUME NEW ds \in Seq(Bytes)
  PROVE  Value(ds) \in Nat /\ Value(ds) < Limit
<1> DEFINE d(i) == IF i <= Len(ds) THEN ds[i] % 128 ELSE 0
<1>1. ASSUME NEW i \in 1..4 PROVE d(i) \in 0..127
  <2>1. CASE i <= Len(ds)
    <3>1. i \in 1..Len(ds) BY <2>1, LenProperties
    <3>2. ds[i] \in Bytes BY <3>1, ElementOfSeq
    <3>3. ASSUME NEW x \in Bytes PROVE x % 128 \in 0..127 BY DEF Bytes
    <3> QED BY <2>1, <3>2, <3>3
  <2>2. CASE ~(i <= Len(ds)) BY <2>2
  <2> QED BY <2>1, <2>2
<1>2. Value(ds) = Number(d(1), d(2), d(3), d(4)) BY SMT DEF Value, Number, Third
<1>3. d(1) \in 0..127 /\ d(2) \in 0..127 /\ d(3) \in 0..127 /\ d(4) \in 0..127 BY <1>1
<1> HIDE DEF d
<1>4. Number(d(1), d(2), d(3), d(4)) \in Nat /\ Number(d(1), d(2), d(3), d(4)) < Limit
  BY ONLY <1>3, FourDigits, Zenon
<1> QED BY <1>2, <1>4

\* Writing into a buffer leaves its length.
LEMMA IntoKeepsLength ==
  ASSUME NEW b \in Seq(Bytes), NEW n \in Nat, n >= 1, NEW s \in Seq(Bytes)
  PROVE  Into(b, n, s) \in Seq(Bytes) /\ Len(Into(b, n, s)) = Len(b)
<1>1. Len(b) \in Nat /\ DOMAIN b = 1..Len(b) /\ Len(s) \in Nat BY LenProperties
<1> DEFINE e(i) == IF i \in n..(n + Len(s) - 1) THEN s[i - n + 1] ELSE b[i]
<1>2. ASSUME NEW i \in 1..Len(b) PROVE e(i) \in Bytes
  <2>1. CASE i \in n..(n + Len(s) - 1)
    <3>1. i - n + 1 \in 1..Len(s) BY <1>1, <2>1
    <3>2. s[i - n + 1] \in Bytes BY <3>1, ElementOfSeq
    <3> QED BY <2>1, <3>2
  <2>2. CASE i \notin n..(n + Len(s) - 1) BY <2>2, ElementOfSeq
  <2> QED BY <2>1, <2>2
<1>3. Into(b, n, s) = [i \in 1..Len(b) |-> e(i)] BY <1>1 DEF Into
<1> HIDE DEF e
<1>4. [i \in 1..Len(b) |-> e(i)] \in [1..Len(b) -> Bytes] BY <1>2
<1> QED BY <1>1, <1>3, <1>4

\* The first bytes of a sequence and those that follow.
LEMMA Split ==
  ASSUME NEW s \in Seq(Bytes), NEW n \in 0..Len(s)
  PROVE  /\ SubSeq(s, 1, n) \in Seq(Bytes) /\ Len(SubSeq(s, 1, n)) = n
         /\ SubSeq(s, n + 1, Len(s)) \in Seq(Bytes)
<1>1. Len(s) \in Nat BY LenProperties
<1>2. \A i \in 1..n : s[i] \in Bytes BY <1>1, ElementOfSeq
<1>3. \A i \in (n + 1)..Len(s) : s[i] \in Bytes BY <1>1, ElementOfSeq
<1> QED BY <1>1, <1>2, <1>3, SubSeqProperties

\* The states of a timer.
Timers == {"running", "over", "past"}
LEMMA LeftIsTimer == ASSUME NEW t \in Timers PROVE Left(t) \in Timers
BY DEF Left, Timers
LEMMA LaterIsTimer == ASSUME NEW t \in Timers PROVE Later(t) \subseteq Timers
BY DEF Later, Timers

\* TypeOK is not inductive: that no fifth digit is taken needs that a field which has
\* ended is left, and that the body stays in the buffer needs that the rest of it is
\* never negative.
IInv ==
  /\ TypeOK
  /\ size \in Nat /\ size >= 5 /\ segment \in Nat
  /\ stage = "header" => digits = <<>>
  /\ stage = "digits" => ~Ended(digits)
  /\ stage = "body" => Rest \in Nat

\* Once the length is known, from whatever digits, the body awaited fits.
LEMMA LengthKnownFits ==
  ASSUME IInv, NEW ds \in Seq(Bytes), LengthKnown(ds), digits' = ds, UNCHANGED size
  PROVE  /\ buf' \in Seq(Bytes) /\ Len(buf') = size
         /\ filled' \in 0..size
         /\ patience' \in Timers
         /\ \/ stage' = "idle"
            \/ stage' = "body" /\ Rest' \in Nat /\ filled' + Rest' <= size
<1> DEFINE n == Value(ds)
           field == MQTTPacket_encode(n)
           h == 1 + Len(field)
           packet == Into(buf, 2, field)
<1>1. n \in Nat /\ n < Limit BY ValueInRange
<1>2. field \in Seq(Bytes) /\ Len(field) \in 1..4 BY <1>1, FieldBytes, FieldLength
<1>3. /\ buf \in Seq(Bytes) /\ Len(buf) = size /\ size \in Nat /\ size >= 5
      /\ timer \in Timers /\ patience \in Timers
  BY DEF IInv, TypeOK, Timers
<1>4. packet \in Seq(Bytes) /\ Len(packet) = size BY <1>2, <1>3, IntoKeepsLength
<1>5. /\ buf' = packet /\ filled' = h
      /\ CASE Overflows(h, n) -> Returns(IF Timed THEN -2 ELSE -1, NoPacket) /\ UNCHANGED patience
           [] ~Overflows(h, n) /\ ~HasBody(n) -> Done(packet) /\ UNCHANGED patience
           [] ~Overflows(h, n) /\ HasBody(n) -> stage' = "body" /\ patience' = Left(timer) /\ UNCHANGED got
  BY DEF LengthKnown
<1>6. Rest' = n - (filled' - 1 - Len(field)) BY DEF Rest
<1> HIDE DEF n, field, packet
<1>7. filled' \in 0..size
  <2>1. filled' = 1 + Len(field) BY <1>5
  <2>2. ASSUME NEW k \in 1..4, NEW m \in Nat, m >= 5 PROVE 1 + k \in 0..m BY <2>2
  <2> QED BY <1>2, <1>3, <2>1, <2>2
<1>8. CASE Overflows(h, n)
  <2>1. stage' = "idle" /\ patience' = patience BY <1>5, <1>8 DEF Returns
  <2> QED BY <1>3, <1>4, <1>5, <1>7, <2>1
<1>9. CASE ~Overflows(h, n) /\ ~HasBody(n)
  <2>1. Done(packet) /\ patience' = patience BY <1>5, <1>9
  <2>2. stage' = "idle" BY <2>1 DEF Done, Returns
  <2> QED BY <1>3, <1>4, <1>5, <1>7, <2>1, <2>2
<1>10. CASE ~Overflows(h, n) /\ HasBody(n)
  <2>1. stage' = "body" /\ patience' = Left(timer) BY <1>5, <1>10
  <2>2. patience' \in Timers BY <1>3, <2>1, LeftIsTimer
  <2>3. ~(n > size - h) BY <1>10 DEF Overflows
  <2>4. Rest' = n BY <1>1, <1>2, <1>5, <1>6
  <2>5. Rest' \in Nat /\ filled' + Rest' <= size BY <1>1, <1>2, <1>3, <1>5, <2>3, <2>4
  <2> QED BY <1>3, <1>4, <1>5, <1>7, <2>1, <2>2, <2>5
<1> QED BY <1>8, <1>9, <1>10

\* Waiting in vain changes the timer only.
LEMMA TooLateTimer ==
  ASSUME IInv, NEW n, TooLate(n)
  PROVE  timer' \in Timers
<1>1. timer \in Timers BY DEF IInv, TypeOK, Timers
<1> QED BY <1>1, LaterIsTimer DEF TooLate

\* Every step keeps the invariant.
LEMMA StepIInv == IInv /\ [Next]_vars => IInv'
<1> SUFFICES ASSUME IInv, [Next]_vars PROVE IInv' OBVIOUS
<1>1. /\ TypeOK /\ size \in Nat /\ size >= 5 /\ segment \in Nat
      /\ stage = "header" => digits = <<>>
      /\ stage = "digits" => ~Ended(digits)
      /\ stage = "body" => Rest \in Nat
  BY DEF IInv
<1>2. /\ ring \in Seq(Bytes) /\ wire \in Seq(Bytes) /\ digits \in Seq(Bytes) /\ Len(digits) <= 4
      /\ Len(buf) = size /\ buf \in Seq(Bytes) /\ filled \in 0..size
      /\ timer \in Timers /\ patience \in Timers
      /\ stage = "body" => filled + Rest <= size
  BY <1>1 DEF TypeOK, Timers
<1>3. Len(ring) \in Nat /\ Len(wire) \in Nat /\ Len(digits) \in Nat BY <1>2, LenProperties
<1>4. CASE Arrive
  <2> DEFINE n == IF Len(wire) < segment THEN Len(wire) ELSE segment
  <2>1. n \in 0..Len(wire) BY <1>1, <1>3
  <2>2. /\ ring' = ring \o SubSeq(wire, 1, n) /\ wire' = SubSeq(wire, n + 1, Len(wire))
        /\ UNCHANGED <<segment, size, stage, timer, patience, digits, buf, filled>>
    BY <1>4 DEF Arrive, given
  <2> HIDE DEF n
  <2>3. ring' \in Seq(Bytes) /\ wire' \in Seq(Bytes) BY <1>2, <2>1, <2>2, Split, ConcatProperties
  <2> QED BY <1>1, <2>2, <2>3 DEF IInv, TypeOK, Rest
<1>5. CASE TimePasses
  <2>1. /\ timer' \in Later(timer)
        /\ UNCHANGED <<segment, size, wire, ring, stage, patience, digits, buf, filled>>
    BY <1>5 DEF TimePasses, given
  <2>2. timer' \in Timers BY <1>2, <2>1, LaterIsTimer
  <2> QED BY <1>1, <2>1, <2>2 DEF IInv, TypeOK, Rest, Timers
<1>6. CASE Begin
  <2>1. /\ stage' = "header" /\ timer' = "running" /\ patience' = "running"
        /\ digits' = <<>> /\ filled' = 0
        /\ UNCHANGED <<segment, size, wire, ring, buf>>
    BY <1>6 DEF Begin, given
  <2>2. digits' \in Seq(Bytes) /\ Len(digits') <= 4 BY <2>1, EmptySeq
  <2>3. TypeOK' BY <1>1, <2>1, <2>2 DEF TypeOK
  <2> QED BY <1>1, <2>1, <2>3 DEF IInv
<1>7. CASE NoHeader
  <2>1. /\ stage' = "idle" /\ TooLate(1)
        /\ UNCHANGED <<segment, size, wire, ring, patience, digits, buf, filled>>
    BY <1>7 DEF NoHeader, Returns, given
  <2>2. timer' \in Timers BY <2>1, TooLateTimer
  <2>3. TypeOK' BY <1>1, <2>1, <2>2 DEF TypeOK, Timers
  <2> QED BY <1>1, <2>1, <2>3 DEF IInv
<1>8. CASE HeaderByte
  <2>1. /\ stage = "header" /\ ring # <<>> /\ ring' = SubSeq(ring, 1 + 1, Len(ring))
        /\ buf' = Into(buf, 1, SubSeq(ring, 1, 1)) /\ filled' = 1
        /\ stage' = "digits" /\ patience' = Left(timer)
        /\ UNCHANGED <<segment, size, wire, timer, digits>>
    BY <1>8 DEF HeaderByte, Take, given
  <2>2. 1 \in 0..Len(ring) BY <1>2, <1>3, <2>1, EmptySeq
  <2>3. ring' \in Seq(Bytes) /\ SubSeq(ring, 1, 1) \in Seq(Bytes) BY <1>2, <2>1, <2>2, Split
  <2>4. buf' \in Seq(Bytes) /\ Len(buf') = size
    <3> DEFINE first == SubSeq(ring, 1, 1)
    <3>1. buf' = Into(buf, 1, first) /\ first \in Seq(Bytes) /\ 1 \in Nat /\ 1 >= 1 BY <2>1, <2>3
    <3> HIDE DEF first
    <3>2. Into(buf, 1, first) \in Seq(Bytes) /\ Len(Into(buf, 1, first)) = Len(buf)
      BY <1>2, <3>1, IntoKeepsLength
    <3> QED BY <1>2, <3>1, <3>2
  <2>5. patience' \in Timers BY <1>2, <2>1, LeftIsTimer
  <2>6. ~Ended(digits') BY <1>1, <2>1 DEF Ended
  <2>7. TypeOK' BY <1>1, <1>2, <2>1, <2>3, <2>4, <2>5 DEF TypeOK, Timers
  <2> QED BY <1>1, <2>1, <2>6, <2>7 DEF IInv
<1>9. CASE Digit
  <2> DEFINE ds == Append(digits, Head(ring))
  <2>1. /\ stage = "digits" /\ ring # <<>> /\ ring' = SubSeq(ring, 1 + 1, Len(ring)) /\ digits' = ds
        /\ UNCHANGED <<segment, size, wire, timer>>
    BY <1>9 DEF Digit, Take, given
  <2>2. 1 \in 0..Len(ring) BY <1>2, <1>3, <2>1, EmptySeq
  <2>3. ring' \in Seq(Bytes) /\ Head(ring) \in Bytes
    <3>1. ring' \in Seq(Bytes) BY <1>2, <2>1, <2>2, Split
    <3>2. Head(ring) \in Bytes BY <1>2, <2>1, HeadTailProperties
    <3> QED BY <3>1, <3>2
  <2>4. ds \in Seq(Bytes) /\ Len(ds) = Len(digits) + 1 BY <1>2, <2>3, AppendProperties
  <2>5. Len(digits) # 4 BY <1>1, <2>1 DEF Ended
  <2>6. Len(ds) <= 4
    <3>1. ASSUME NEW k \in Nat, k <= 4, k # 4 PROVE k + 1 <= 4 BY <3>1
    <3>2. Len(digits) + 1 <= 4 BY <1>2, <1>3, <2>5, <3>1
    <3> QED BY <2>4, <3>2
  <2>7. CASE ~Ended(ds)
    <3>1. UNCHANGED <<stage, patience, buf, filled>> BY <1>9, <2>7 DEF Digit
    <3>2. TypeOK' BY <1>1, <2>1, <2>3, <2>4, <2>6, <3>1 DEF TypeOK
    <3> QED BY <1>1, <2>1, <2>7, <3>1, <3>2 DEF IInv
  <2>8. CASE Ended(ds) /\ stage' = "idle" /\ UNCHANGED <<patience, buf, filled>>
    <3>1. TypeOK' BY <1>1, <2>1, <2>3, <2>4, <2>6, <2>8 DEF TypeOK
    <3> QED BY <1>1, <2>1, <2>8, <3>1 DEF IInv
  <2>9. CASE LengthKnown(ds)
    <3>1. /\ buf' \in Seq(Bytes) /\ Len(buf') = size /\ filled' \in 0..size /\ patience' \in Timers
          /\ stage' = "idle" \/ (stage' = "body" /\ Rest' \in Nat /\ filled' + Rest' <= size)
      <4>1. UNCHANGED size BY <2>1
      <4> HIDE DEF ds
      <4> QED BY <2>1, <2>4, <2>9, <4>1, LengthKnownFits
    <3>2. TypeOK' BY <1>1, <1>2, <2>1, <2>3, <2>4, <2>6, <3>1 DEF TypeOK, Timers
    <3> QED BY <1>1, <2>1, <3>1, <3>2 DEF IInv
  <2>10. ~Ended(ds) \/ (stage' = "idle" /\ UNCHANGED <<patience, buf, filled>>) \/ LengthKnown(ds)
    BY <1>9 DEF Digit, Returns
  <2> QED BY <2>7, <2>8, <2>9, <2>10
<1>10. CASE NoDigit
  <2>1. /\ LengthKnown(digits) /\ TooLate(1) /\ UNCHANGED <<segment, size, wire, ring, digits>>
    BY <1>10 DEF NoDigit, given
  <2>2. timer' \in Timers BY <2>1, TooLateTimer
  <2>3. /\ buf' \in Seq(Bytes) /\ Len(buf') = size /\ filled' \in 0..size /\ patience' \in Timers
        /\ stage' = "idle" \/ (stage' = "body" /\ Rest' \in Nat /\ filled' + Rest' <= size)
    BY <1>2, <2>1, LengthKnownFits
  <2>4. TypeOK' BY <1>1, <1>2, <2>1, <2>2, <2>3 DEF TypeOK, Timers
  <2> QED BY <1>1, <2>1, <2>3, <2>4 DEF IInv
<1>11. CASE Body
  <2> DEFINE n == IF reader = "nb" /\ Len(ring) < Rest THEN Len(ring) ELSE Rest
             packet == Into(buf, filled + 1, SubSeq(ring, 1, n))
  <2>1. /\ stage = "body" /\ Len(ring) >= n /\ ring' = SubSeq(ring, n + 1, Len(ring))
        /\ buf' = packet /\ filled' = filled + n
        /\ IF n = Rest THEN Done(packet) ELSE UNCHANGED <<stage, got>>
        /\ UNCHANGED <<segment, size, wire, timer, patience, digits>>
    BY <1>11 DEF Body, Take, given
  <2>2. Rest \in Nat /\ filled + Rest <= size BY <1>1, <1>2, <2>1
  <2>3. n \in 0..Len(ring) /\ n <= Rest /\ n \in Nat BY <1>3, <2>1, <2>2
  <2>4. Rest' = Rest - n
    <3>1. Value(digits) \in Nat BY <1>2, ValueInRange
    <3>2. Len(MQTTPacket_encode(Value(digits))) \in 1..4 BY <3>1, FieldLength
    <3> HIDE DEF n
    <3> QED BY <1>2, <2>1, <2>3, <3>1, <3>2 DEF Rest
  <2> HIDE DEF n
  <2>5. ring' \in Seq(Bytes) /\ SubSeq(ring, 1, n) \in Seq(Bytes) BY <1>2, <2>1, <2>3, Split
  <2>6. filled + 1 \in Nat /\ filled + 1 >= 1 BY <1>2
  <2>7. buf' \in Seq(Bytes) /\ Len(buf') = size BY <1>2, <2>1, <2>5, <2>6, IntoKeepsLength
  <2> HIDE DEF packet
  <2>8. filled' \in 0..size /\ Rest' \in Nat /\ filled' + Rest' <= size
    BY <1>1, <1>2, <2>1, <2>2, <2>3, <2>4
  <2>9. stage' \in {"idle", "body"}
    <3>1. CASE n = Rest BY <2>1, <3>1 DEF Done, Returns
    <3>2. CASE n # Rest BY <2>1, <3>2
    <3> QED BY <3>1, <3>2
  <2>10. TypeOK' BY <1>1, <1>2, <2>1, <2>5, <2>7, <2>8, <2>9 DEF TypeOK
  <2> QED BY <1>1, <2>1, <2>8, <2>9, <2>10 DEF IInv
<1>12. CASE NoBody
  <2>1. /\ ring' = <<>> /\ buf' = Into(buf, filled + 1, ring) /\ stage' = "idle" /\ TooLate(Rest)
        /\ UNCHANGED <<segment, size, wire, patience, digits, filled>>
    BY <1>12 DEF NoBody, Returns, given
  <2>2. timer' \in Timers BY <2>1, TooLateTimer
  <2>3. filled + 1 \in Nat /\ filled + 1 >= 1 BY <1>2
  <2>4. buf' \in Seq(Bytes) /\ Len(buf') = size BY <1>2, <2>1, <2>3, IntoKeepsLength
  <2>5. ring' \in Seq(Bytes) BY <2>1, EmptySeq
  <2>6. TypeOK' BY <1>1, <1>2, <2>1, <2>2, <2>4, <2>5 DEF TypeOK, Timers
  <2> QED BY <1>1, <2>1, <2>6 DEF IInv
<1>13. CASE Ends \/ UNCHANGED vars
  <2>1. UNCHANGED <<segment, size, wire, ring, stage, timer, patience, digits, buf, filled>>
    BY <1>13 DEF Ends, vars
  <2> QED BY <1>1, <2>1 DEF IInv, TypeOK, Rest
<1> QED BY <1>4, <1>5, <1>6, <1>7, <1>8, <1>9, <1>10, <1>11, <1>12, <1>13 DEF Next

(***************************************************************************)
(* The reader in step with the stream: what is in the buffer, in the ring  *)
(* and on the wire is what has been sent behind the packets read.          *)
(***************************************************************************)
Coming == sent[Len(PacketsRead) + 1]
Follows(t) == t \in Seq(Bytes) /\ t \o (ring \o wire) = Ahead(sent, Len(PacketsRead))

GotInStep ==
  /\ got \in Seq(Results)
  /\ Len(PacketsRead) <= Len(sent)
  /\ \A i \in 1..Len(PacketsRead) : PacketsRead[i].p = sent[i] /\ PacketsRead[i].rc = sent[i].type

HeaderInStep == stage \in {"idle", "header"} => Follows(<<>>)
DigitsInStep ==
  stage = "digits" => /\ Len(PacketsRead) < Len(sent)
                      /\ Follows(<<buf[1]>> \o digits)
                      /\ Len(digits) < Len(FieldOf(Coming))
BodyInStep ==
  stage = "body" => /\ Len(PacketsRead) < Len(sent)
                    /\ Follows(SubSeq(buf, 1, filled))
                    /\ filled + Rest = Len(Whole(Coming)) /\ Rest # 0
InStep == GotInStep /\ HeaderInStep /\ DigitsInStep /\ BodyInStep

\* Where the reader is in the stream, as long as no packet was cut short or too long.
RInv == IInv /\ sent \in Seq(Packets) /\ (~broken => InStep)

\* What has been returned so far.
LEMMA GotNothing ==
  ASSUME GotInStep, NEW r \in Int, r # PUBLISH, got' = Append(got, [rc |-> r, p |-> NoPacket]), sent' = sent
  PROVE  GotInStep' /\ PacketsRead' = PacketsRead
<1> DEFINE x == [rc |-> r, p |-> NoPacket]
<1>1. x \in Results /\ x.p = NoPacket BY DEF Results
<1>2. got' = Append(got, x) OBVIOUS
<1> HIDE DEF x
<1>3. got' \in Seq(Results) /\ PacketsRead' = PacketsRead
  <2>1. got \in Seq(Results) BY DEF GotInStep
  <2> QED BY ONLY <1>1, <1>2, <2>1, OneMoreResult
<1>4. GotInStep'
  <2>1. /\ Len(PacketsRead) <= Len(sent)
        /\ \A i \in 1..Len(PacketsRead) : PacketsRead[i].p = sent[i] /\ PacketsRead[i].rc = sent[i].type
    BY DEF GotInStep
  <2> QED BY ONLY <1>3, <2>1, sent' = sent DEF GotInStep
<1> QED BY <1>3, <1>4

LEMMA NoPacketIsNone == ASSUME NEW p \in Packets PROVE p # NoPacket
<1>1. p.type \in 1..14 BY PacketShape
<1>2. NoPacket.type = 0 BY DEF NoPacket
<1> QED BY ONLY <1>1, <1>2

LEMMA GotOne ==
  ASSUME GotInStep, sent \in Seq(Packets), Len(PacketsRead) < Len(sent),
         got' = Append(got, [rc |-> Coming.type, p |-> Coming]), sent' = sent
  PROVE  GotInStep' /\ Len(PacketsRead') = Len(PacketsRead) + 1
<1> DEFINE k == Len(PacketsRead)
           p == Coming
           x == [rc |-> p.type, p |-> p]
<1>1. got \in Seq(Results) /\ PacketsRead \in Seq(Results) /\ k \in Nat /\ Len(sent) \in Nat
  <2>1. got \in Seq(Results) BY DEF GotInStep
  <2>2. Len(sent) \in Nat BY LenProperties
  <2> QED BY ONLY <2>1, <2>2, PacketsReadType
<1>2. k + 1 \in 1..Len(sent) BY <1>1
<1>3. p \in Packets /\ p = sent[k + 1]
  <2>1. sent[k + 1] \in Packets BY ONLY <1>2, sent \in Seq(Packets), ElementOfSeq
  <2> QED BY ONLY <2>1 DEF Coming
<1> HIDE DEF p
<1>4. x \in Results /\ x.p # NoPacket /\ x.p = p /\ x.rc = p.type
  <2>1. p.type \in Int
    <3>1. p.type \in 1..14 BY ONLY <1>3, PacketShape
    <3> QED BY ONLY <3>1
  <2>2. p # NoPacket BY ONLY <1>3, NoPacketIsNone
  <2> QED BY ONLY <1>3, <2>1, <2>2 DEF Results
<1>5. got' = Append(got, x) BY DEF p
<1> HIDE DEF x
<1>6. got' \in Seq(Results) /\ PacketsRead' = Append(PacketsRead, x) BY ONLY <1>1, <1>4, <1>5, OneMoreResult
<1>7. /\ Len(PacketsRead') = k + 1 /\ PacketsRead'[k + 1] = x
      /\ \A i \in 1..k : PacketsRead'[i] = PacketsRead[i]
  BY ONLY <1>1, <1>4, <1>6, AppendProperties
<1>8. \A i \in 1..k : PacketsRead[i].p = sent[i] /\ PacketsRead[i].rc = sent[i].type BY DEF GotInStep
<1> HIDE DEF k
<1>9. ASSUME NEW i \in 1..(k + 1) PROVE PacketsRead'[i].p = sent[i] /\ PacketsRead'[i].rc = sent[i].type
  <2>1. CASE i = k + 1 BY ONLY <1>3, <1>4, <1>7, <2>1
  <2>2. CASE i # k + 1
    <3>1. i \in 1..k BY ONLY <1>1, <2>2, i \in 1..(k + 1)
    <3> QED BY ONLY <1>7, <1>8, <3>1
  <2> QED BY ONLY <2>1, <2>2
<1>10. k + 1 <= Len(sent) BY ONLY <1>1, <1>2
<1>11. GotInStep' BY ONLY <1>6, <1>7, <1>9, <1>10, sent' = sent DEF GotInStep
<1> QED BY ONLY <1>7, <1>11 DEF k

\* The packet that comes next.
LEMMA ComingNext ==
  ASSUME GotInStep, sent \in Seq(Packets), Len(PacketsRead) < Len(sent)
  PROVE  /\ Coming \in Packets /\ Len(PacketsRead) \in Nat
         /\ Ahead(sent, Len(PacketsRead)) = Whole(Coming) \o Ahead(sent, Len(PacketsRead) + 1)
         /\ Ahead(sent, Len(PacketsRead) + 1) \in Seq(Bytes)
<1> DEFINE k == Len(PacketsRead)
<1>1. k \in Nat
  <2>1. got \in Seq(Results) BY DEF GotInStep
  <2> QED BY ONLY <2>1, PacketsReadType
<1>2. k < Len(sent) OBVIOUS
<1> HIDE DEF k
<1>3. /\ sent[k + 1] \in Packets /\ k + 1 \in Nat /\ k + 1 <= Len(sent)
      /\ Ahead(sent, k) = Whole(sent[k + 1]) \o Ahead(sent, k + 1)
  BY ONLY <1>1, <1>2, sent \in Seq(Packets), AheadOfOne
<1>4. Ahead(sent, k + 1) \in Seq(Bytes) BY ONLY <1>3, sent \in Seq(Packets), AheadType
<1> QED BY ONLY <1>1, <1>3, <1>4 DEF Coming, k

LEMMA BytesToCome ==
  ASSUME GotInStep, sent \in Seq(Packets), Follows(<<>>), ring \in Seq(Bytes), wire \in Seq(Bytes)
  PROVE  ring # <<>> => Len(PacketsRead) < Len(sent)
<1> SUFFICES ASSUME ring # <<>>, ~(Len(PacketsRead) < Len(sent)) PROVE FALSE OBVIOUS
<1>1. got \in Seq(Results) /\ Len(PacketsRead) <= Len(sent) BY DEF GotInStep
<1>2. Len(PacketsRead) \in Nat /\ Len(sent) \in Nat BY <1>1, PacketsReadType, LenProperties
<1>3. Len(PacketsRead) = Len(sent) BY <1>1, <1>2
<1>4. Ahead(sent, Len(PacketsRead)) = <<>>
  <2>1. Ahead(sent, Len(sent)) = <<>> BY NothingAhead
  <2> QED BY ONLY <1>3, <2>1
<1> DEFINE r == ring \o wire
<1>5. r \in Seq(Bytes) /\ Len(r) = Len(ring) + Len(wire) BY Joins
<1>6. <<>> \o r = <<>> BY <1>4 DEF Follows
<1> HIDE DEF r
<1>7. <<>> \o r = r BY ONLY <1>5, ConcatEmptySeq
<1>8. Len(r) = 0 BY ONLY <1>6, <1>7, EmptySeq
<1>9. Len(ring) \in Nat /\ Len(wire) \in Nat /\ Len(ring) # 0 BY LenProperties, EmptySeq
<1> QED BY ONLY <1>5, <1>8, <1>9

\* A packet that is whole in the buffer is returned as it was sent.
LEMMA DoneRight ==
  ASSUME NEW p \in Packets, NEW b \in Seq(Bytes), At(b, 1, Whole(p)), Done(b)
  PROVE  stage' = "idle" /\ got' = Append(got, [rc |-> p.type, p |-> p])
<1> DEFINE h == FirstOf(p)
           body == BodyOf(p)
<1>1. /\ h \in Bytes /\ TypeOf(h) = p.type /\ body \in Seq(Bytes) /\ Len(body) < Limit
      /\ Whole(p) = Frame(h, body)
  BY ONLY p \in Packets, PacketBytes
<1>2. p.type \in 1..14 /\ ReadBack(p, h, body) BY ONLY p \in Packets, PacketShape
<1> HIDE DEF h, body
<1>3. At(b, 1, Frame(h, body)) BY ONLY <1>1, At(b, 1, Whole(p))
<1>4. Framed(b, h, body) BY ONLY <1>1, <1>3, b \in Seq(Bytes), FrameRead
<1>5. TypeOf(b[1]) = p.type BY ONLY <1>1, <1>4 DEF Framed
<1>6. Deserialize(p.type, b, MaxCount) = Reads(p) BY ONLY <1>2, <1>3, b \in Seq(Bytes) DEF ReadBack
<1> DEFINE t == TypeOf(b[1])
           d == Deserialize(t, b, MaxCount)
<1>7. /\ stage' = "idle"
      /\ d.rc = 1 => got' = IF t = 0 THEN got ELSE Append(got, [rc |-> t, p |-> d.p])
  BY ONLY Done(b) DEF Done, Returns
<1>8. t = p.type BY ONLY <1>5
<1>9. d = Reads(p) BY ONLY <1>6, <1>8
<1> HIDE DEF t, d
<1>10. d.rc = 1 /\ d.p = p BY ONLY <1>9 DEF Reads
<1>11. p.type # 0 BY ONLY <1>2
<1> QED BY ONLY <1>7, <1>8, <1>10, <1>11

(***************************************************************************)
(* The buffer.                                                             *)
(***************************************************************************)
\* What is written behind the first m bytes of a buffer.
LEMMA IntoBehind ==
  ASSUME NEW b \in Seq(Bytes), NEW m \in Nat, NEW s \in Seq(Bytes), m + Len(s) <= Len(b)
  PROVE  /\ SubSeq(Into(b, m + 1, s), 1, m + Len(s)) = SubSeq(b, 1, m) \o s
         /\ SubSeq(b, 1, m) \in Seq(Bytes) /\ Len(SubSeq(b, 1, m)) = m
<1> DEFINE c == Into(b, m + 1, s)
           l == Len(s)
           x == SubSeq(b, 1, m)
           y == SubSeq(c, 1, m + l)
           z == x \o s
<1>1. l \in Nat /\ Len(b) \in Nat /\ DOMAIN b = 1..Len(b) BY LenProperties
<1>2. c \in Seq(Bytes) /\ Len(c) = Len(b)
  <2>1. m + 1 \in Nat /\ m + 1 >= 1 OBVIOUS
  <2> QED BY ONLY <2>1, b \in Seq(Bytes), s \in Seq(Bytes), IntoKeepsLength
<1>3. \A i \in 1..Len(b) : c[i] = IF i \in (m + 1)..(m + 1 + l - 1) THEN s[i - (m + 1) + 1] ELSE b[i]
  BY <1>1 DEF Into
<1>9. m + l <= Len(b) OBVIOUS
<1>4. x \in Seq(Bytes) /\ Len(x) = m /\ \A i \in 1..m : x[i] = b[i]
  <2>1. m \in 0..Len(b) BY ONLY <1>1, <1>9, m \in Nat
  <2> QED BY ONLY <2>1, b \in Seq(Bytes), SplitJoins
<1> HIDE DEF c
<1>5. y \in Seq(Bytes) /\ Len(y) = m + l /\ \A i \in 1..(m + l) : y[i] = c[i]
  <2>1. m + l \in 0..Len(c) BY ONLY <1>1, <1>2, <1>9, m \in Nat
  <2> DEFINE n == m + l
  <2>2. n \in 0..Len(c) BY <2>1
  <2> HIDE DEF n
  <2>3. SubSeq(c, 1, n) \in Seq(Bytes) /\ Len(SubSeq(c, 1, n)) = n /\ \A i \in 1..n : SubSeq(c, 1, n)[i] = c[i]
    BY ONLY <1>2, <2>2, SplitJoins
  <2> QED BY ONLY <2>3 DEF n
<1>6. z \in Seq(Bytes) /\ Len(z) = m + l /\ \A i \in 1..(m + l) : z[i] = IF i <= m THEN x[i] ELSE s[i - m]
  <2> HIDE DEF x
  <2>1. /\ z \in Seq(Bytes) /\ Len(z) = Len(x) + Len(s)
        /\ \A i \in 1..(Len(x) + Len(s)) : z[i] = IF i <= Len(x) THEN x[i] ELSE s[i - Len(x)]
    BY ONLY <1>4, s \in Seq(Bytes), ConcatProperties
  <2> HIDE DEF z
  <2> QED BY ONLY <1>4, <2>1
<1> HIDE DEF x, y, z, l
<1>7. ASSUME NEW i \in 1..(m + l) PROVE y[i] = z[i]
  <2>0. i \in 1..Len(b) BY ONLY <1>1, <1>9, m \in Nat, i \in 1..(m + l)
  <2>1. CASE i <= m
    <3>1. i \in 1..m /\ ~(i \in (m + 1)..(m + 1 + l - 1)) BY ONLY <1>1, <2>1, m \in Nat, i \in 1..(m + l)
    <3>2. c[i] = b[i] BY ONLY <1>3, <2>0, <3>1
    <3> QED BY ONLY <1>4, <1>5, <1>6, <2>1, <3>1, <3>2, i \in 1..(m + l)
  <2>2. CASE ~(i <= m)
    <3>1. i \in (m + 1)..(m + 1 + l - 1) /\ i - (m + 1) + 1 = i - m
      BY ONLY <1>1, <2>2, m \in Nat, i \in 1..(m + l)
    <3>2. c[i] = s[i - m] BY ONLY <1>3, <2>0, <3>1
    <3> QED BY ONLY <1>5, <1>6, <2>2, <3>2, i \in 1..(m + l)
  <2> QED BY ONLY <2>1, <2>2
<1>8. y = z
  <2>1. Len(y) = Len(z) /\ \A i \in 1..Len(y) : y[i] = z[i] BY ONLY <1>5, <1>6, <1>7
  <2> QED BY ONLY <1>5, <1>6, <2>1, SeqEqual
<1> QED BY ONLY <1>4, <1>8 DEF x, y, z, l, c

LEMMA StartsWith ==
  ASSUME NEW b \in Seq(Bytes), NEW m \in 0..Len(b)
  PROVE  At(b, 1, SubSeq(b, 1, m))
<1> DEFINE x == SubSeq(b, 1, m)
<1>1. Len(x) = m /\ \A i \in 1..m : x[i] = b[i] BY SplitJoins
<1>2. Len(b) \in Nat /\ m \in Nat /\ m <= Len(b) BY LenProperties
<1> HIDE DEF x
<1>3. 1 + m - 1 <= Len(b) /\ \A j \in 1..m : 1 + j - 1 = j BY ONLY <1>2
<1>4. At(b, 1, x) BY ONLY <1>1, <1>3 DEF At
<1> QED BY ONLY <1>4 DEF x

LEMMA FirstByte ==
  ASSUME NEW b \in Seq(Bytes), Len(b) >= 1
  PROVE  SubSeq(b, 1, 1) = <<b[1]>> /\ b[1] \in Bytes /\ <<b[1]>> \in Seq(Bytes)
<1>1. Len(b) \in Nat BY LenProperties
<1>2. 1 \in 1..Len(b) /\ 1 \in 0..Len(b) BY <1>1
<1>3. b[1] \in Bytes BY ONLY <1>2, b \in Seq(Bytes), ElementOfSeq
<1> DEFINE x == SubSeq(b, 1, 1)
           y == <<b[1]>>
<1>4. x \in Seq(Bytes) /\ Len(x) = 1 /\ x[1] = b[1] BY ONLY <1>2, b \in Seq(Bytes), SplitJoins
<1>5. y \in Seq(Bytes) /\ Len(y) = 1 /\ y[1] = b[1] BY <1>3
<1> HIDE DEF x, y
<1>6. \A i \in 1..Len(x) : x[i] = y[i]
  <2>1. \A i \in 1..1 : i = 1 OBVIOUS
  <2> QED BY ONLY <1>4, <1>5, <2>1
<1>7. x = y BY ONLY <1>4, <1>5, <1>6, SeqEqual
<1> QED BY ONLY <1>3, <1>5, <1>7 DEF x, y

(***************************************************************************)
(* The steps of a reader in step.                                          *)
(***************************************************************************)
LEMMA StateTyped ==
  ASSUME IInv
  PROVE  /\ ring \in Seq(Bytes) /\ wire \in Seq(Bytes) /\ digits \in Seq(Bytes) /\ buf \in Seq(Bytes)
         /\ Len(ring) \in Nat /\ Len(wire) \in Nat /\ Len(digits) \in Nat
         /\ size \in Nat /\ size >= 5 /\ segment \in Nat /\ Len(buf) = size
         /\ filled \in Nat /\ filled <= size
         /\ stage = "header" => digits = <<>>
         /\ stage = "body" => Rest \in Nat /\ filled + Rest <= size
         /\ stage \in {"idle", "header", "digits", "body"}
<1>1. /\ ring \in Seq(Bytes) /\ wire \in Seq(Bytes) /\ digits \in Seq(Bytes) /\ buf \in Seq(Bytes)
      /\ size \in Nat /\ size >= 5 /\ segment \in Nat /\ Len(buf) = size /\ filled \in 0..size
      /\ stage = "header" => digits = <<>>
      /\ stage = "body" => Rest \in Nat /\ filled + Rest <= size
      /\ stage \in {"idle", "header", "digits", "body"}
  BY DEF IInv, TypeOK
<1>2. filled \in Nat /\ filled <= size BY <1>1
<1>3. Len(ring) \in Nat /\ Len(wire) \in Nat /\ Len(digits) \in Nat BY <1>1, LenProperties
<1> QED BY <1>1, <1>2, <1>3

\* A step that leaves what has been read and where the reader is.
LEMMA StaysInStep ==
  ASSUME InStep, UNCHANGED <<sent, got, stage, buf, digits, filled>>, ring' \o wire' = ring \o wire
  PROVE  InStep'
<1>1. PacketsRead' = PacketsRead /\ Coming' = Coming /\ Rest' = Rest BY DEF PacketsRead, Coming, Rest
<1>2. ASSUME NEW t, Follows(t) PROVE t \in Seq(Bytes) /\ t \o (ring' \o wire') = Ahead(sent', Len(PacketsRead'))
  BY ONLY <1>1, Follows(t), ring' \o wire' = ring \o wire, UNCHANGED <<sent, got, stage, buf, digits, filled>>
     DEF Follows
<1>3. GotInStep' BY <1>1 DEF InStep, GotInStep
<1>4. HeaderInStep' BY <1>2 DEF InStep, HeaderInStep, Follows
<1>5. DigitsInStep'
  <2> DEFINE t == <<buf[1]>> \o digits
  <2>1. stage = "digits" => /\ Len(PacketsRead) < Len(sent) /\ Follows(t)
                            /\ Len(digits) < Len(FieldOf(Coming))
    BY DEF InStep, DigitsInStep
  <2>2. (<<buf[1]>> \o digits)' = t OBVIOUS
  <2> HIDE DEF t
  <2> QED BY ONLY <1>1, <1>2, <2>1, <2>2, UNCHANGED <<sent, got, stage, buf, digits, filled>>
          DEF DigitsInStep, Follows
<1>6. BodyInStep'
  <2> DEFINE t == SubSeq(buf, 1, filled)
  <2>1. stage = "body" => /\ Len(PacketsRead) < Len(sent) /\ Follows(t)
                          /\ filled + Rest = Len(Whole(Coming)) /\ Rest # 0
    BY DEF InStep, BodyInStep
  <2>2. SubSeq(buf, 1, filled)' = t OBVIOUS
  <2> HIDE DEF t
  <2> QED BY ONLY <1>1, <1>2, <2>1, <2>2, UNCHANGED <<sent, got, stage, buf, digits, filled>>
          DEF BodyInStep, Follows
<1> QED BY <1>3, <1>4, <1>5, <1>6 DEF InStep

LEMMA ArriveInStep ==
  ASSUME IInv, InStep, Arrive
  PROVE  InStep'
<1> DEFINE n == IF Len(wire) < segment THEN Len(wire) ELSE segment
           x == SubSeq(wire, 1, n)
           y == SubSeq(wire, n + 1, Len(wire))
<1>1. ring \in Seq(Bytes) /\ wire \in Seq(Bytes) /\ Len(wire) \in Nat /\ segment \in Nat
  BY StateTyped
<1>2. n \in 0..Len(wire) BY ONLY <1>1
<1>3. /\ ring' = ring \o x /\ wire' = y
      /\ UNCHANGED <<sent, got, stage, buf, digits, filled>>
  BY DEF Arrive, given
<1>4. x \in Seq(Bytes) /\ y \in Seq(Bytes) /\ x \o y = wire
  <2> HIDE DEF n
  <2> QED BY ONLY <1>1, <1>2, SplitJoins
<1> HIDE DEF x, y
<1>5. (ring \o x) \o y = ring \o (x \o y) BY ONLY <1>1, <1>4, JoinAssoc
<1>6. ring' \o wire' = ring \o wire BY ONLY <1>3, <1>4, <1>5
<1> QED BY ONLY InStep, <1>3, <1>6, StaysInStep

LEMMA BeginInStep ==
  ASSUME InStep, Begin
  PROVE  InStep'
<1>1. /\ stage = "idle" /\ stage' = "header"
      /\ UNCHANGED <<sent, got, ring, wire, buf>>
  BY DEF Begin, given
<1>2. PacketsRead' = PacketsRead BY <1>1 DEF PacketsRead
<1>3. GotInStep' BY <1>1, <1>2 DEF InStep, GotInStep
<1>4. HeaderInStep' BY <1>1, <1>2 DEF InStep, HeaderInStep, Follows
<1>5. DigitsInStep' /\ BodyInStep' BY <1>1 DEF DigitsInStep, BodyInStep
<1> QED BY <1>3, <1>4, <1>5 DEF InStep

LEMMA NoHeaderInStep ==
  ASSUME InStep, NoHeader
  PROVE  InStep'
<1> DEFINE r == IF Timed THEN 0 ELSE -1
<1>1. /\ stage = "header" /\ stage' = "idle"
      /\ got' = IF r = 0 THEN got ELSE Append(got, [rc |-> r, p |-> NoPacket])
      /\ UNCHANGED <<sent, ring, wire, buf, digits, filled>>
  BY DEF NoHeader, Returns, given
<1>2. GotInStep /\ Follows(<<>>) BY <1>1 DEF InStep, HeaderInStep
<1>3. GotInStep' /\ PacketsRead' = PacketsRead
  <2>1. CASE r = 0
    <3>1. got' = got BY ONLY <1>1, <2>1
    <3>2. PacketsRead' = PacketsRead BY ONLY <3>1 DEF PacketsRead
    <3>3. sent' = sent BY ONLY <1>1
    <3> QED BY ONLY <1>2, <3>1, <3>2, <3>3 DEF GotInStep
  <2>2. CASE r # 0
    <3>1. r \in Int /\ r # PUBLISH BY DEF PUBLISH
    <3> HIDE DEF r
    <3>2. got' = Append(got, [rc |-> r, p |-> NoPacket]) BY ONLY <1>1, <2>2
    <3>3. sent' = sent BY ONLY <1>1
    <3> QED BY ONLY <1>2, <3>1, <3>2, <3>3, GotNothing
  <2> QED BY ONLY <2>1, <2>2
<1>4. HeaderInStep' BY ONLY <1>1, <1>2, <1>3 DEF HeaderInStep, Follows
<1>5. DigitsInStep' /\ BodyInStep' BY ONLY <1>1 DEF DigitsInStep, BodyInStep
<1> QED BY ONLY <1>3, <1>4, <1>5 DEF InStep

\* The first of the ring's bytes moves behind t.
LEMMA FollowsMoved ==
  ASSUME NEW t, Follows(t), ring \in Seq(Bytes), wire \in Seq(Bytes), NEW n \in 0..Len(ring)
  PROVE  /\ t \o SubSeq(ring, 1, n) \in Seq(Bytes)
         /\ SubSeq(ring, n + 1, Len(ring)) \in Seq(Bytes)
         /\ SubSeq(ring, 1, n) \in Seq(Bytes) /\ Len(SubSeq(ring, 1, n)) = n
         /\ (t \o SubSeq(ring, 1, n)) \o (SubSeq(ring, n + 1, Len(ring)) \o wire)
              = Ahead(sent, Len(PacketsRead))
<1> DEFINE x == SubSeq(ring, 1, n)
           u == SubSeq(ring, n + 1, Len(ring))
<1>1. t \in Seq(Bytes) /\ t \o (ring \o wire) = Ahead(sent, Len(PacketsRead)) BY DEF Follows
<1>2. x \in Seq(Bytes) /\ Len(x) = n /\ u \in Seq(Bytes) /\ x \o u = ring
  BY ONLY ring \in Seq(Bytes), n \in 0..Len(ring), SplitJoins
<1> HIDE DEF x, u
<1>3. (t \o x) \o (u \o wire) = t \o ((x \o u) \o wire)
  <2>1. t \in Seq(Bytes) /\ x \in Seq(Bytes) /\ u \in Seq(Bytes) /\ wire \in Seq(Bytes) BY <1>1, <1>2
  <2> DEFINE r == u \o wire
             s == x \o r
  <2>2. r \in Seq(Bytes) BY ONLY <2>1, Joins
  <2>3. (x \o u) \o wire = s BY ONLY <2>1, JoinAssoc
  <2> HIDE DEF r
  <2>4. (t \o x) \o r = t \o (x \o r)
    <3>1. t \in Seq(Bytes) /\ x \in Seq(Bytes) /\ r \in Seq(Bytes) BY ONLY <2>1, <2>2
    <3> QED BY ONLY <3>1, JoinAssoc
  <2> QED BY ONLY <2>3, <2>4 DEF r
<1>4. t \o x \in Seq(Bytes) BY ONLY <1>1, <1>2, Joins
<1>5. (t \o x) \o (u \o wire) = Ahead(sent, Len(PacketsRead)) BY ONLY <1>1, <1>2, <1>3
<1> QED BY ONLY <1>2, <1>4, <1>5 DEF x, u

LEMMA HeaderByteInStep ==
  ASSUME IInv, InStep, sent \in Seq(Packets), HeaderByte
  PROVE  InStep'
<1> DEFINE x == SubSeq(ring, 1, 1)
<1>0. /\ ring \in Seq(Bytes) /\ wire \in Seq(Bytes) /\ buf \in Seq(Bytes) /\ Len(ring) \in Nat
      /\ Len(buf) = size /\ size \in Nat /\ size >= 5
      /\ stage = "header" => digits = <<>>
  BY StateTyped
<1>1. /\ stage = "header" /\ ring # <<>> /\ ring' = SubSeq(ring, 1 + 1, Len(ring))
      /\ buf' = Into(buf, 1, x) /\ stage' = "digits"
      /\ UNCHANGED <<sent, got, wire, digits>>
  BY DEF HeaderByte, Take, given
<1>2. digits' = <<>> BY ONLY <1>0, <1>1
<1>3. GotInStep /\ Follows(<<>>) BY <1>1 DEF InStep, HeaderInStep
<1>4. Len(PacketsRead) < Len(sent)
  BY ONLY <1>0, <1>1, <1>3, sent \in Seq(Packets), BytesToCome
<1>5. 1 \in 0..Len(ring) /\ Len(ring) >= 1
  <2>1. Len(ring) # 0 BY ONLY <1>0, <1>1, EmptySeq
  <2> QED BY ONLY <1>0, <2>1
<1>6. /\ <<>> \o x \in Seq(Bytes) /\ x \in Seq(Bytes) /\ Len(x) = 1
      /\ (<<>> \o x) \o (ring' \o wire) = Ahead(sent, Len(PacketsRead))
  <2> DEFINE none == <<>>
  <2>1. Follows(none) BY <1>3
  <2> HIDE DEF none
  <2>2. /\ none \o SubSeq(ring, 1, 1) \in Seq(Bytes)
        /\ SubSeq(ring, 1, 1) \in Seq(Bytes) /\ Len(SubSeq(ring, 1, 1)) = 1
        /\ (none \o SubSeq(ring, 1, 1)) \o (SubSeq(ring, 1 + 1, Len(ring)) \o wire)
             = Ahead(sent, Len(PacketsRead))
    BY ONLY <1>0, <1>5, <2>1, FollowsMoved
  <2> QED BY ONLY <1>1, <2>2 DEF none, x
<1>7. x = <<ring[1]>> /\ ring[1] \in Bytes BY ONLY <1>0, <1>5, FirstByte
<1>8. buf'[1] = ring[1]
  <2>1. DOMAIN buf = 1..Len(buf) BY ONLY <1>0, LenProperties
  <2>2. 1 \in DOMAIN buf BY ONLY <1>0, <2>1
  <2>3. 1 \in 1..(1 + 1 - 1) /\ 1 - 1 + 1 = 1 OBVIOUS
  <2>4. buf'[1] = x[1]
    <3> HIDE DEF x
    <3> QED BY ONLY <1>1, <1>6, <2>2, <2>3 DEF Into
  <2>5. x[1] = ring[1]
    <3> HIDE DEF x
    <3> QED BY ONLY <1>7
  <2> QED BY ONLY <2>4, <2>5
<1> HIDE DEF x
<1>9. PacketsRead' = PacketsRead BY ONLY <1>1 DEF PacketsRead
<1>10. Coming' = Coming BY ONLY <1>1, <1>9 DEF Coming
<1>11. Follows(<<buf[1]>> \o digits)'
  <2>1. <<>> \o x = x BY ONLY <1>6, ConcatEmptySeq
  <2>2. x \o <<>> = x BY ONLY <1>6, ConcatEmptySeq
  <2>3. <<buf'[1]>> \o digits' = x BY ONLY <1>2, <1>7, <1>8, <2>2
  <2>4. x \o (ring' \o wire') = Ahead(sent', Len(PacketsRead')) BY ONLY <1>1, <1>6, <1>9, <2>1
  <2> QED BY ONLY <1>6, <2>3, <2>4 DEF Follows
<1>12. Len(digits') < Len(FieldOf(Coming'))
  <2>1. Coming \in Packets BY ONLY <1>3, <1>4, sent \in Seq(Packets), ComingNext
  <2>2. Len(FieldOf(Coming)) \in 1..4 BY ONLY <2>1, PacketBytes
  <2>3. Len(digits') = 0 BY ONLY <1>2, EmptySeq
  <2> QED BY ONLY <1>10, <2>2, <2>3
<1>13. DigitsInStep' BY ONLY <1>1, <1>4, <1>9, <1>11, <1>12 DEF DigitsInStep
<1>14. GotInStep' BY ONLY <1>1, <1>3, <1>9 DEF GotInStep
<1>15. HeaderInStep' /\ BodyInStep' BY ONLY <1>1 DEF HeaderInStep, BodyInStep
<1> QED BY ONLY <1>13, <1>14, <1>15 DEF InStep

\* The length is known, from the field of the packet p.
LEMMA FieldKnown ==
  ASSUME IInv, NEW p \in Packets, Len(Whole(p)) <= size, buf[1] = FirstOf(p), LengthKnown(FieldOf(p))
  PROVE  /\ buf' \in Seq(Bytes) /\ Len(buf') = size
         /\ filled' = 1 + Len(FieldOf(p))
         /\ SubSeq(buf', 1, 1 + Len(FieldOf(p))) = <<FirstOf(p)>> \o FieldOf(p)
         /\ \/ Len(BodyOf(p)) = 0 /\ Done(buf')
            \/ Len(BodyOf(p)) # 0 /\ stage' = "body" /\ got' = got
<1> DEFINE h == FirstOf(p)
           body == BodyOf(p)
           field == FieldOf(p)
           n == Len(body)
           k == Len(field)
           packet == Into(buf, 2, field)
<1>0. buf \in Seq(Bytes) /\ Len(buf) = size /\ size \in Nat /\ size >= 5 BY StateTyped
<1>1. /\ h \in Bytes /\ body \in Seq(Bytes) /\ n \in Nat /\ n < Limit /\ field \in Seq(Bytes) /\ k \in 1..4
      /\ Len(Whole(p)) = 1 + k + n
  BY ONLY p \in Packets, PacketBytes
<1>2. field = MQTTPacket_encode(n) BY DEF FieldOf
<1>3. Value(field) = n
  <2> HIDE DEF field, n
  <2> QED BY ONLY <1>1, <1>2, DecodesWhatWasEncoded
<1>4. /\ buf' = Into(buf, 2, MQTTPacket_encode(Value(field)))
      /\ filled' = 1 + Len(MQTTPacket_encode(Value(field)))
      /\ CASE Overflows(1 + Len(MQTTPacket_encode(Value(field))), Value(field)) ->
                Returns(IF Timed THEN -2 ELSE -1, NoPacket) /\ UNCHANGED patience
           [] /\ ~Overflows(1 + Len(MQTTPacket_encode(Value(field))), Value(field))
              /\ ~HasBody(Value(field)) ->
                Done(Into(buf, 2, MQTTPacket_encode(Value(field)))) /\ UNCHANGED patience
           [] /\ ~Overflows(1 + Len(MQTTPacket_encode(Value(field))), Value(field))
              /\ HasBody(Value(field)) ->
                stage' = "body" /\ patience' = Left(timer) /\ UNCHANGED got
  BY DEF LengthKnown
<1>9. buf[1] = h /\ Len(Whole(p)) <= size OBVIOUS
<1> HIDE DEF field, body, h
<1>5. /\ buf' = packet /\ filled' = 1 + k
      /\ CASE Overflows(1 + k, n) -> Returns(IF Timed THEN -2 ELSE -1, NoPacket) /\ UNCHANGED patience
           [] ~Overflows(1 + k, n) /\ ~HasBody(n) -> Done(packet) /\ UNCHANGED patience
           [] ~Overflows(1 + k, n) /\ HasBody(n) -> stage' = "body" /\ patience' = Left(timer) /\ UNCHANGED got
  BY ONLY <1>2, <1>3, <1>4
<1>6. ~Overflows(1 + k, n)
  <2> HIDE DEF k, n
  <2> QED BY ONLY <1>0, <1>1, <1>9 DEF Overflows
<1>7. \/ ~HasBody(n) /\ Done(packet)
      \/ HasBody(n) /\ stage' = "body" /\ got' = got
  <2> HIDE DEF packet, k, n
  <2>1. CASE HasBody(n) BY ONLY <1>5, <1>6, <2>1
  <2>2. CASE ~HasBody(n) BY ONLY <1>5, <1>6, <2>2
  <2> QED BY ONLY <2>1, <2>2
<1>8. (HasBody(n) => n # 0) /\ (~HasBody(n) => n = 0)
  <2> HIDE DEF n
  <2> QED BY ONLY <1>1 DEF HasBody
<1>10. packet \in Seq(Bytes) /\ Len(packet) = size
  <2>1. 2 \in Nat /\ 2 >= 1 OBVIOUS
  <2>2. Into(buf, 2, field) \in Seq(Bytes) /\ Len(Into(buf, 2, field)) = Len(buf)
    BY ONLY <1>0, <1>1, <2>1, IntoKeepsLength
  <2> QED BY ONLY <1>0, <2>2
<1>11. SubSeq(packet, 1, 1 + k) = <<h>> \o field
  <2>1. 1 + k <= Len(buf)
    <3> HIDE DEF k, n
    <3> QED BY ONLY <1>0, <1>1, <1>9
  <2>2. 1 \in Nat /\ 1 + 1 = 2 /\ Len(buf) >= 1 BY ONLY <1>0
  <2>3. SubSeq(Into(buf, 1 + 1, field), 1, 1 + Len(field)) = SubSeq(buf, 1, 1) \o field
    BY ONLY <1>0, <1>1, <2>1, <2>2, IntoBehind
  <2>4. SubSeq(buf, 1, 1) = <<buf[1]>> BY ONLY <1>0, <2>2, FirstByte
  <2> QED BY ONLY <1>9, <2>2, <2>3, <2>4
<1> HIDE DEF packet
<1>12. \/ n = 0 /\ Done(buf')
       \/ n # 0 /\ stage' = "body" /\ got' = got
  <2>1. CASE n = 0
    <3>1. ~HasBody(n) BY ONLY <1>8, <2>1
    <3>2. Done(packet) BY ONLY <1>7, <3>1
    <3>3. Done(buf') BY ONLY <1>5, <3>2 DEF Done, Returns
    <3> QED BY ONLY <2>1, <3>3
  <2>2. CASE n # 0
    <3>1. HasBody(n) BY ONLY <1>8, <2>2
    <3>2. stage' = "body" /\ got' = got BY ONLY <1>7, <3>1
    <3> QED BY ONLY <2>2, <3>2
  <2> QED BY ONLY <2>1, <2>2
<1>13. buf' \in Seq(Bytes) /\ Len(buf') = size BY ONLY <1>5, <1>10
<1>14. SubSeq(buf', 1, 1 + k) = <<h>> \o field BY ONLY <1>5, <1>11
<1> QED BY ONLY <1>5, <1>12, <1>13, <1>14 DEF h, body, field, n, k

\* The last byte of a packet has been read.
LEMMA OneReadInStep ==
  ASSUME GotInStep, sent \in Seq(Packets), Len(PacketsRead) < Len(sent), UNCHANGED <<sent, wire>>,
         stage' = "idle", got' = Append(got, [rc |-> Coming.type, p |-> Coming]),
         ring' \o wire = Ahead(sent, Len(PacketsRead) + 1), ring' \in Seq(Bytes), wire \in Seq(Bytes)
  PROVE  InStep'
<1>1. sent' = sent /\ wire' = wire OBVIOUS
<1>2. GotInStep' /\ Len(PacketsRead') = Len(PacketsRead) + 1
  BY ONLY <1>1, GotInStep, sent \in Seq(Packets), Len(PacketsRead) < Len(sent),
          got' = Append(got, [rc |-> Coming.type, p |-> Coming]), GotOne
<1>3. HeaderInStep'
  <2> DEFINE r == ring' \o wire'
  <2>1. r \in Seq(Bytes) BY ONLY <1>1, ring' \in Seq(Bytes), wire \in Seq(Bytes), Joins
  <2>2. r = Ahead(sent', Len(PacketsRead')) BY ONLY <1>1, <1>2, ring' \o wire = Ahead(sent, Len(PacketsRead) + 1)
  <2> HIDE DEF r
  <2>3. <<>> \o r = r /\ <<>> \in Seq(Bytes) BY ONLY <2>1, ConcatEmptySeq, EmptySeq
  <2>4. <<>> \in Seq(Bytes) /\ <<>> \o r = Ahead(sent', Len(PacketsRead')) BY ONLY <2>2, <2>3
  <2> QED BY ONLY <2>4 DEF HeaderInStep, Follows, r
<1>4. DigitsInStep' /\ BodyInStep' BY ONLY stage' = "idle" DEF DigitsInStep, BodyInStep
<1> QED BY ONLY <1>2, <1>3, <1>4 DEF InStep

\* A digit of the field of the packet to come.
LEMMA DigitRight ==
  ASSUME NEW p \in Packets, NEW c, NEW ds \in Seq(Bytes), NEW r \in Seq(Bytes), NEW next \in Seq(Bytes),
         <<c>> \in Seq(Bytes), (<<c>> \o ds) \o r = Whole(p) \o next, Len(ds) <= Len(FieldOf(p))
  PROVE  /\ c = FirstOf(p)
         /\ Len(ds) < Len(FieldOf(p)) => ~Ended(ds)
         /\ Len(ds) = Len(FieldOf(p)) =>
              /\ ds = FieldOf(p) /\ Ended(ds) /\ ds[Len(ds)] < 128
              /\ r = BodyOf(p) \o next
<1> DEFINE h == FirstOf(p)
           body == BodyOf(p)
           field == FieldOf(p)
           n == Len(body)
           x == <<c>> \o ds
           y == <<h>> \o field
           v == body \o next
<1>1. /\ h \in Bytes /\ body \in Seq(Bytes) /\ n \in Nat /\ n < Limit /\ field \in Seq(Bytes)
      /\ Len(field) \in 1..4 /\ Whole(p) = y \o body
  BY ONLY p \in Packets, PacketBytes
<1>2. field = MQTTPacket_encode(n) BY DEF FieldOf
<1>3. /\ Ended(field) /\ field[Len(field)] < 128
      /\ \A i \in 1..(Len(field) - 1) : field[i] >= 128
  <2> HIDE DEF field, n
  <2>1. n \in Nat /\ n < Limit BY ONLY <1>1
  <2> QED BY ONLY <1>2, <2>1, DecodesWhatWasEncoded, LastDigit
<1>4. Len(ds) \in Nat /\ Len(ds) <= Len(field) BY LenProperties
<1>5. (<<c>> \o ds) \o r = Whole(p) \o next OBVIOUS
<1> HIDE DEF h, body, field
<1>6. <<h>> \in Seq(Bytes) /\ Len(<<h>>) = 1 /\ <<h>>[1] = h BY ONLY <1>1
<1>7. Len(<<c>>) = 1 /\ <<c>>[1] = c OBVIOUS
<1>8. /\ x \in Seq(Bytes) /\ Len(x) = 1 + Len(ds)
      /\ \A i \in 1..(1 + Len(ds)) : x[i] = IF i <= 1 THEN c ELSE ds[i - 1]
  <2> DEFINE z == <<c>>
  <2>1. z \in Seq(Bytes) /\ Len(z) = 1 /\ z[1] = c BY <1>7
  <2> HIDE DEF z
  <2>2. /\ z \o ds \in Seq(Bytes) /\ Len(z \o ds) = Len(z) + Len(ds)
        /\ \A i \in 1..(Len(z) + Len(ds)) : (z \o ds)[i] = IF i <= Len(z) THEN z[i] ELSE ds[i - Len(z)]
    BY ONLY <2>1, ds \in Seq(Bytes), ConcatProperties
  <2>3. \A i \in 1..(1 + Len(ds)) : (z \o ds)[i] = IF i <= 1 THEN c ELSE ds[i - 1]
    <3> TAKE i \in 1..(1 + Len(ds))
    <3>1. i <= 1 => i = 1 BY ONLY <1>4, i \in 1..(1 + Len(ds))
    <3> QED BY ONLY <2>1, <2>2, <3>1, i \in 1..(1 + Len(ds))
  <2> QED BY ONLY <2>1, <2>2, <2>3 DEF z
<1>9. /\ y \in Seq(Bytes) /\ Len(y) = 1 + Len(field)
      /\ \A i \in 1..(1 + Len(field)) : y[i] = IF i <= 1 THEN h ELSE field[i - 1]
  <2> DEFINE z == <<h>>
  <2>1. z \in Seq(Bytes) /\ Len(z) = 1 /\ z[1] = h BY <1>6
  <2> HIDE DEF z
  <2>2. /\ z \o field \in Seq(Bytes) /\ Len(z \o field) = Len(z) + Len(field)
        /\ \A i \in 1..(Len(z) + Len(field)) : (z \o field)[i] = IF i <= Len(z) THEN z[i] ELSE field[i - Len(z)]
    BY ONLY <1>1, <2>1, ConcatProperties
  <2>3. \A i \in 1..(1 + Len(field)) : (z \o field)[i] = IF i <= 1 THEN h ELSE field[i - 1]
    <3> TAKE i \in 1..(1 + Len(field))
    <3>1. i <= 1 => i = 1 BY ONLY <1>1, i \in 1..(1 + Len(field))
    <3> QED BY ONLY <2>1, <2>2, <3>1, i \in 1..(1 + Len(field))
  <2> QED BY ONLY <2>1, <2>2, <2>3 DEF z
<1> HIDE DEF x, y
<1>10. v \in Seq(Bytes) BY ONLY <1>1, next \in Seq(Bytes), Joins
<1>11. x \o r = y \o v
  <2>1. y \in Seq(Bytes) /\ body \in Seq(Bytes) /\ next \in Seq(Bytes) BY ONLY <1>1, <1>9, next \in Seq(Bytes)
  <2>2. (y \o body) \o next = y \o v
    <3>1. (y \o body) \o next = y \o (body \o next) BY ONLY <2>1, JoinAssoc, ZenonT(40)
    <3> QED BY ONLY <3>1
  <2> QED BY ONLY <1>1, <1>5, <2>2 DEF x
<1> HIDE DEF v
<1>12. \A i \in 1..Len(x) : x[i] = y[i]
  <2>1. Len(x) <= Len(y) BY ONLY <1>1, <1>4, <1>8, <1>9
  <2> QED BY ONLY <1>8, <1>9, <1>10, <1>11, <2>1, r \in Seq(Bytes), BeginAlike
<1>13. c = h
  <2>1. 1 \in 1..Len(x) /\ 1 \in 1..(1 + Len(ds)) /\ 1 \in 1..(1 + Len(field)) BY ONLY <1>1, <1>4, <1>8
  <2> QED BY ONLY <1>8, <1>9, <1>12, <2>1
<1>14. ASSUME NEW i \in 1..Len(ds) PROVE ds[i] = field[i]
  <2> DEFINE j == i + 1
  <2>1. /\ j \in 1..Len(x) /\ j \in 1..(1 + Len(ds)) /\ j \in 1..(1 + Len(field)) /\ ~(j <= 1) /\ j - 1 = i
    BY ONLY <1>1, <1>4, <1>8, i \in 1..Len(ds)
  <2> HIDE DEF j
  <2> QED BY ONLY <1>8, <1>9, <1>12, <2>1
<1>15. ASSUME Len(ds) < Len(field) PROVE ~Ended(ds)
  <2>1. Len(ds) # 4
    <3>1. ASSUME NEW i \in 1..4, NEW j \in Nat, j < i PROVE j # 4 BY <3>1
    <3>2. Len(field) \in 1..4 /\ Len(ds) \in Nat /\ Len(ds) < Len(field) BY <1>1, <1>4, <1>15
    <3> QED BY ONLY <3>1, <3>2
  <2>2. CASE ds = <<>> BY ONLY <2>1, <2>2 DEF Ended
  <2>3. CASE ds # <<>>
    <3>1. Len(ds) # 0 BY ONLY <2>3, ds \in Seq(Bytes), EmptySeq
    <3>2. Len(ds) \in 1..Len(ds) /\ Len(ds) \in 1..(Len(field) - 1) BY ONLY <1>1, <1>4, <1>15, <3>1
    <3>3. ds[Len(ds)] >= 128 BY ONLY <1>3, <1>14, <3>2
    <3>4. ds[Len(ds)] \in Bytes BY ONLY <3>2, ds \in Seq(Bytes), ElementOfSeq
    <3>5. ASSUME NEW z \in Bytes, z >= 128 PROVE ~(z < 128) BY <3>5 DEF Bytes
    <3>6. ~(ds[Len(ds)] < 128) BY ONLY <3>3, <3>4, <3>5
    <3> QED BY ONLY <2>1, <3>6 DEF Ended
  <2> QED BY ONLY <2>2, <2>3
<1>16. ASSUME Len(ds) = Len(field)
       PROVE  ds = field /\ Ended(ds) /\ ds[Len(ds)] < 128 /\ r = v
  <2>1. ds = field BY ONLY <1>1, <1>14, <1>16, ds \in Seq(Bytes), SeqEqual
  <2>2. Len(x) = Len(y) BY ONLY <1>8, <1>9, <1>16
  <2>3. r = v BY ONLY <1>8, <1>9, <1>10, <1>11, <2>2, r \in Seq(Bytes), CutAlike
  <2> QED BY ONLY <1>3, <2>1, <2>3
<1> QED BY ONLY <1>13, <1>15, <1>16 DEF h, body, field, v

\* The field of a packet says how long its body is.
LEMMA FieldValue ==
  ASSUME NEW p \in Packets
  PROVE  Value(FieldOf(p)) = Len(BodyOf(p)) /\ MQTTPacket_encode(Value(FieldOf(p))) = FieldOf(p)
<1> DEFINE n == Len(BodyOf(p))
           field == FieldOf(p)
<1>1. n \in Nat /\ n < Limit /\ field \in Seq(Bytes) BY ONLY p \in Packets, PacketBytes
<1>2. field = MQTTPacket_encode(n) BY DEF FieldOf
<1> HIDE DEF field, n
<1>3. Value(field) = n BY ONLY <1>1, <1>2, DecodesWhatWasEncoded
<1> QED BY ONLY <1>2, <1>3 DEF field, n

\* A packet that is whole in the buffer is the next one returned.
LEMMA WholeRead ==
  ASSUME GotInStep, sent \in Seq(Packets), Len(PacketsRead) < Len(sent), UNCHANGED <<sent, wire>>,
         NEW b \in Seq(Bytes), SubSeq(b, 1, Len(Whole(Coming))) = Whole(Coming), Len(Whole(Coming)) <= Len(b),
         Done(b), ring' \o wire = Ahead(sent, Len(PacketsRead) + 1), ring' \in Seq(Bytes), wire \in Seq(Bytes)
  PROVE  InStep'
<1> DEFINE p == Coming
           m == Len(Whole(p))
<1>1. p \in Packets
  BY ONLY GotInStep, sent \in Seq(Packets), Len(PacketsRead) < Len(sent), ComingNext
<1>2. SubSeq(b, 1, m) = Whole(p) /\ m <= Len(b) OBVIOUS
<1> HIDE DEF p
<1>3. m \in Nat
  <2>1. Whole(p) \in Seq(Bytes) BY ONLY <1>1, WholeType
  <2> QED BY ONLY <2>1, LenProperties
<1> HIDE DEF m
<1>4. m \in 0..Len(b)
  <2>1. Len(b) \in Nat BY LenProperties
  <2> QED BY ONLY <1>2, <1>3, <2>1
<1>5. At(b, 1, SubSeq(b, 1, m)) BY ONLY <1>4, b \in Seq(Bytes), StartsWith
<1>6. At(b, 1, Whole(p)) BY ONLY <1>2, <1>5
<1>7. stage' = "idle" /\ got' = Append(got, [rc |-> p.type, p |-> p])
  BY ONLY <1>1, <1>6, b \in Seq(Bytes), Done(b), DoneRight
<1>8. stage' = "idle" /\ got' = Append(got, [rc |-> Coming.type, p |-> Coming]) BY ONLY <1>7 DEF p
<1> QED BY ONLY <1>8, GotInStep, sent \in Seq(Packets), Len(PacketsRead) < Len(sent), UNCHANGED <<sent, wire>>,
            ring' \o wire = Ahead(sent, Len(PacketsRead) + 1), ring' \in Seq(Bytes), wire \in Seq(Bytes),
            OneReadInStep

LEMMA DigitInStep ==
  ASSUME IInv, InStep, sent \in Seq(Packets), Digit, ~broken'
  PROVE  InStep'
<1> DEFINE ds == Append(digits, Head(ring))
           x == SubSeq(ring, 1, 1)
           p == Coming
           field == FieldOf(p)
           body == BodyOf(p)
           next == Ahead(sent, Len(PacketsRead) + 1)
           c == buf[1]
           t == <<c>> \o digits
           r == ring' \o wire
<1>0. /\ ring \in Seq(Bytes) /\ wire \in Seq(Bytes) /\ buf \in Seq(Bytes) /\ Len(ring) \in Nat
      /\ digits \in Seq(Bytes) /\ Len(digits) \in Nat
      /\ Len(buf) = size /\ size \in Nat /\ size >= 5
  BY StateTyped
<1>1. /\ stage = "digits" /\ ring # <<>> /\ ring' = SubSeq(ring, 1 + 1, Len(ring))
      /\ digits' = ds /\ UNCHANGED <<sent, wire, size>>
      /\ IF ~Ended(ds) THEN UNCHANGED <<stage, patience, buf, filled, got, broken>>
         ELSE IF reader = "nb" /\ Len(ds) = 4 /\ ds[Len(ds)] >= 128
         THEN broken' = TRUE
         ELSE LengthKnown(ds) /\ broken' = (broken \/ 1 + Len(ds) + Value(ds) > size)
  BY Zenon DEF Digit, Take, given
<1>2. /\ GotInStep /\ Len(PacketsRead) < Len(sent) /\ Follows(t)
      /\ Len(digits) < Len(field)
  BY <1>1 DEF InStep, DigitsInStep
<1>3. /\ p \in Packets /\ next \in Seq(Bytes) /\ Ahead(sent, Len(PacketsRead)) = Whole(p) \o next
  BY ONLY <1>2, sent \in Seq(Packets), ComingNext
<1>4. 1 \in 0..Len(ring) /\ Len(ring) >= 1
  <2>1. Len(ring) # 0 BY ONLY <1>0, <1>1, EmptySeq
  <2> QED BY ONLY <1>0, <2>1
<1>5. /\ ds = digits \o x /\ ds \in Seq(Bytes) /\ Len(ds) = Len(digits) + 1
  <2> DEFINE e == ring[1]
  <2>1. Head(ring) = e BY ONLY <1>0, <1>1, HeadTailProperties
  <2>2. x = <<e>> /\ e \in Bytes BY ONLY <1>0, <1>4, FirstByte
  <2> HIDE DEF e, x
  <2>3. Append(digits, e) = digits \o <<e>> BY ONLY <1>0, <2>2, AppendIsConcat
  <2>4. Append(digits, e) \in Seq(Bytes) /\ Len(Append(digits, e)) = Len(digits) + 1
    BY ONLY <1>0, <2>2, AppendProperties
  <2> QED BY ONLY <2>1, <2>2, <2>3, <2>4
<1>6. <<c>> \in Seq(Bytes)
  <2>1. Len(buf) >= 1 BY ONLY <1>0
  <2> QED BY ONLY <1>0, <2>1, FirstByte
<1>7. /\ ring' \in Seq(Bytes) /\ x \in Seq(Bytes)
      /\ (t \o x) \o (ring' \o wire) = Ahead(sent, Len(PacketsRead))
  <2> HIDE DEF t
  <2>1. /\ SubSeq(ring, 1 + 1, Len(ring)) \in Seq(Bytes) /\ SubSeq(ring, 1, 1) \in Seq(Bytes)
        /\ (t \o SubSeq(ring, 1, 1)) \o (SubSeq(ring, 1 + 1, Len(ring)) \o wire) = Ahead(sent, Len(PacketsRead))
    BY ONLY <1>0, <1>2, <1>4, FollowsMoved
  <2> QED BY ONLY <1>1, <2>1
<1>8. r \in Seq(Bytes) BY ONLY <1>0, <1>7, Joins
<1> HIDE DEF x, p, field, body, next, c, ds
<1>9. (<<c>> \o ds) \o r = Whole(p) \o next
  <2> DEFINE z == <<c>>
  <2>1. z \in Seq(Bytes) BY <1>6
  <2> HIDE DEF z
  <2>2. (z \o digits) \o x = z \o (digits \o x) BY ONLY <1>0, <1>7, <2>1, JoinAssoc, Zenon
  <2>3. z \o ds = t \o x BY ONLY <1>5, <2>2 DEF z
  <2> HIDE DEF t
  <2> QED BY ONLY <1>3, <1>7, <2>3 DEF z
<1> HIDE DEF r, t
<1>10. Len(ds) \in Nat /\ Len(field) \in 1..4 /\ Len(ds) <= Len(field)
  <2>1. Len(field) \in 1..4 BY ONLY <1>3, PacketBytes DEF field
  <2> QED BY ONLY <1>0, <1>2, <1>5, <2>1
<1>11. /\ c = FirstOf(p)
       /\ Len(ds) < Len(field) => ~Ended(ds)
       /\ Len(ds) = Len(field) => ds = field /\ Ended(ds) /\ ds[Len(ds)] < 128 /\ r = body \o next
  <2>1. /\ p \in Packets /\ ds \in Seq(Bytes) /\ r \in Seq(Bytes) /\ next \in Seq(Bytes)
        /\ <<c>> \in Seq(Bytes) /\ (<<c>> \o ds) \o r = Whole(p) \o next /\ Len(ds) <= Len(FieldOf(p))
    BY ONLY <1>3, <1>5, <1>6, <1>8, <1>9, <1>10 DEF field
  <2>2. /\ c = FirstOf(p)
        /\ Len(ds) < Len(FieldOf(p)) => ~Ended(ds)
        /\ Len(ds) = Len(FieldOf(p)) =>
             /\ ds = FieldOf(p) /\ Ended(ds) /\ ds[Len(ds)] < 128
             /\ r = BodyOf(p) \o next
    BY ONLY <2>1, DigitRight, Zenon
  <2> QED BY ONLY <2>2 DEF field, body
<1>12. CASE Len(ds) < Len(field)
  <2>1. UNCHANGED <<stage, buf, got>> BY ONLY <1>1, <1>11, <1>12
  <2>2. PacketsRead' = PacketsRead BY ONLY <2>1 DEF PacketsRead
  <2>3. Coming' = p BY ONLY <1>1, <2>2 DEF Coming, p
  <2>4. <<buf[1]>>' \o digits' = <<c>> \o ds BY ONLY <1>1, <2>1 DEF c
  <2>5. <<c>> \o ds \in Seq(Bytes) BY ONLY <1>5, <1>6, Joins
  <2>6. (<<c>> \o ds) \o (ring' \o wire') = Ahead(sent', Len(PacketsRead'))
    BY ONLY <1>1, <1>3, <1>9, <2>2 DEF r
  <2>7. Follows(<<buf[1]>> \o digits)' BY ONLY <2>4, <2>5, <2>6 DEF Follows
  <2>8. DigitsInStep' BY ONLY <1>1, <1>2, <1>12, <2>2, <2>3, <2>7 DEF DigitsInStep, field
  <2>9. GotInStep' BY ONLY <1>1, <1>2, <2>1, <2>2 DEF GotInStep
  <2>10. HeaderInStep' /\ BodyInStep' BY ONLY <1>1, <2>1 DEF HeaderInStep, BodyInStep
  <2> QED BY ONLY <2>8, <2>9, <2>10 DEF InStep
<1>13. CASE Len(ds) = Len(field)
  <2> DEFINE n == Len(body)
             k == Len(field)
  <2>1. ds = field /\ Ended(ds) /\ r = body \o next BY ONLY <1>11, <1>13
  <2>2. ~(ds[Len(ds)] >= 128)
    <3>1. ds[Len(ds)] < 128 BY ONLY <1>11, <1>13
    <3>2. ds[Len(ds)] \in Bytes
      <4>1. Len(ds) \in 1..Len(ds) BY ONLY <1>10, <1>13
      <4> QED BY ONLY <1>5, <4>1, ElementOfSeq
    <3>3. ASSUME NEW z \in Bytes, z < 128 PROVE ~(z >= 128) BY <3>3 DEF Bytes
    <3> QED BY ONLY <3>1, <3>2, <3>3
  <2>3. LengthKnown(ds) /\ broken' = (broken \/ 1 + Len(ds) + Value(ds) > size)
    BY ONLY <1>1, <2>1, <2>2
  <2>4. Value(field) = n /\ MQTTPacket_encode(Value(field)) = field
    BY ONLY <1>3, FieldValue DEF field, body
  <2>5. /\ n \in Nat /\ k \in 1..4 /\ Len(Whole(p)) = 1 + k + n /\ body \in Seq(Bytes)
        /\ Whole(p) = (<<FirstOf(p)>> \o field) \o body /\ Whole(p) \in Seq(Bytes)
    BY ONLY <1>3, PacketBytes DEF field, body
  <2>6. ~(1 + k + n > size)
    <3>1. ~broken' OBVIOUS
    <3>2. ~(1 + Len(ds) + Value(ds) > size) BY ONLY <2>3, <3>1
    <3> QED BY ONLY <2>1, <2>4, <3>2
  <2> HIDE DEF n, k
  <2>7. Len(Whole(p)) <= size BY ONLY <1>0, <2>5, <2>6
  <2>8. /\ buf' \in Seq(Bytes) /\ Len(buf') = size
        /\ filled' = 1 + k
        /\ SubSeq(buf', 1, 1 + k) = <<c>> \o ds
        /\ \/ n = 0 /\ Done(buf')
           \/ n # 0 /\ stage' = "body" /\ got' = got
    <3>1. LengthKnown(FieldOf(p)) /\ buf[1] = FirstOf(p) BY ONLY <1>11, <2>1, <2>3 DEF field, c
    <3>2. /\ buf' \in Seq(Bytes) /\ Len(buf') = size
          /\ filled' = 1 + Len(FieldOf(p))
          /\ SubSeq(buf', 1, 1 + Len(FieldOf(p))) = <<FirstOf(p)>> \o FieldOf(p)
          /\ \/ Len(BodyOf(p)) = 0 /\ Done(buf')
             \/ Len(BodyOf(p)) # 0 /\ stage' = "body" /\ got' = got
      BY ONLY IInv, <1>3, <2>7, <3>1, FieldKnown
    <3> QED BY ONLY <1>11, <2>1, <3>2 DEF field, body, n, k
  <2>9. CASE n = 0
    <3>1. Done(buf') BY ONLY <2>8, <2>9
    <3>2. body = <<>> BY ONLY <2>5, <2>9, EmptySeq DEF n
    <3>3. <<c>> \o ds \in Seq(Bytes) BY ONLY <1>5, <1>6, Joins
    <3>4. Whole(p) = <<c>> \o ds
      <4> DEFINE z == <<c>> \o ds
      <4>1. z \o <<>> = z BY ONLY <3>3, ConcatEmptySeq
      <4>2. Whole(p) = z \o <<>> BY ONLY <1>11, <2>1, <2>5, <3>2
      <4> QED BY ONLY <4>1, <4>2
    <3>5. ring' \o wire = Ahead(sent, Len(PacketsRead) + 1)
      <4>1. <<>> \o next = next BY ONLY <1>3, ConcatEmptySeq
      <4> QED BY ONLY <2>1, <3>2, <4>1 DEF r, next
    <3>6. SubSeq(buf', 1, Len(Whole(p))) = Whole(p)
      <4>1. Len(Whole(p)) = 1 + k BY ONLY <2>5, <2>9
      <4> QED BY ONLY <2>8, <3>4, <4>1
    <3>7. PICK b : b = buf' OBVIOUS
    <3>8. /\ b \in Seq(Bytes) /\ SubSeq(b, 1, Len(Whole(Coming))) = Whole(Coming)
          /\ Len(Whole(Coming)) <= Len(b) /\ Done(b)
      BY ONLY <2>7, <2>8, <3>1, <3>6, <3>7 DEF p
    <3>9. UNCHANGED <<sent, wire>> BY ONLY <1>1
    <3> QED BY ONLY <1>0, <1>2, <1>7, <3>5, <3>8, <3>9, sent \in Seq(Packets), WholeRead
  <2>10. CASE n # 0
    <3>1. stage' = "body" /\ got' = got BY ONLY <2>8, <2>10
    <3>2. PacketsRead' = PacketsRead BY ONLY <3>1 DEF PacketsRead
    <3>3. Coming' = p BY ONLY <1>1, <3>2 DEF Coming, p
    <3>4. Rest' = n
      <4>1. Rest' = Value(digits') - (filled' - 1 - Len(MQTTPacket_encode(Value(digits')))) BY DEF Rest
      <4>2. Rest' = n - ((1 + k) - 1 - k) BY ONLY <1>1, <2>1, <2>4, <2>8, <4>1 DEF k
      <4> QED BY ONLY <2>5, <4>2
    <3>5. SubSeq(buf', 1, filled') = <<c>> \o ds BY ONLY <2>8
    <3>6. <<c>> \o ds \in Seq(Bytes) BY ONLY <1>5, <1>6, Joins
    <3>7. (<<c>> \o ds) \o (ring' \o wire') = Ahead(sent', Len(PacketsRead'))
      BY ONLY <1>1, <1>3, <1>9, <3>2 DEF r
    <3>8. Follows(SubSeq(buf, 1, filled))' BY ONLY <3>5, <3>6, <3>7 DEF Follows
    <3>9. filled' + Rest' = Len(Whole(p)) BY ONLY <2>5, <2>8, <3>4
    <3>10. BodyInStep' BY ONLY <1>1, <1>2, <2>10, <3>2, <3>3, <3>4, <3>8, <3>9 DEF BodyInStep
    <3>11. GotInStep' BY ONLY <1>1, <1>2, <3>1, <3>2 DEF GotInStep
    <3>12. HeaderInStep' /\ DigitsInStep' BY ONLY <3>1 DEF HeaderInStep, DigitsInStep
    <3> QED BY ONLY <3>10, <3>11, <3>12 DEF InStep
  <2> QED BY ONLY <2>9, <2>10
<1> QED
  <2>1. Len(ds) < Len(field) \/ Len(ds) = Len(field) BY ONLY <1>10
  <2> QED BY ONLY <1>12, <1>13, <2>1

LEMMA BodyStepInStep ==
  ASSUME IInv, InStep, sent \in Seq(Packets), Body
  PROVE  InStep'
<1> DEFINE n == IF reader = "nb" /\ Len(ring) < Rest THEN Len(ring) ELSE Rest
           x == SubSeq(ring, 1, n)
           packet == Into(buf, filled + 1, x)
           t == SubSeq(buf, 1, filled)
           p == Coming
           next == Ahead(sent, Len(PacketsRead) + 1)
           r == ring' \o wire
           y == t \o x
<1>0. /\ ring \in Seq(Bytes) /\ wire \in Seq(Bytes) /\ buf \in Seq(Bytes) /\ Len(ring) \in Nat
      /\ Len(buf) = size /\ size \in Nat /\ filled \in Nat /\ filled <= size
      /\ digits \in Seq(Bytes)
      /\ stage = "body" => Rest \in Nat /\ filled + Rest <= size
  BY StateTyped
<1>1. /\ stage = "body" /\ Len(ring) >= n /\ ring' = SubSeq(ring, n + 1, Len(ring))
      /\ buf' = packet /\ filled' = filled + n
      /\ IF n = Rest THEN Done(packet) ELSE UNCHANGED <<stage, got>>
      /\ UNCHANGED <<sent, wire, size, digits>>
  BY DEF Body, Take, given
<1>2. /\ GotInStep /\ Len(PacketsRead) < Len(sent) /\ Follows(t)
      /\ filled + Rest = Len(Whole(p)) /\ Rest # 0
  BY <1>1 DEF InStep, BodyInStep
<1>3. /\ p \in Packets /\ next \in Seq(Bytes) /\ Ahead(sent, Len(PacketsRead)) = Whole(p) \o next
      /\ Whole(p) \in Seq(Bytes)
  <2>1. /\ p \in Packets /\ next \in Seq(Bytes) /\ Ahead(sent, Len(PacketsRead)) = Whole(p) \o next
    BY ONLY <1>2, sent \in Seq(Packets), ComingNext
  <2> HIDE DEF p
  <2> QED BY ONLY <2>1, WholeType
<1>4. Rest \in Nat /\ filled + Rest <= size BY ONLY <1>0, <1>1
<1>5. n \in 0..Len(ring) /\ n <= Rest /\ n \in Nat BY ONLY <1>0, <1>1, <1>4
<1>6. n # Rest => UNCHANGED <<stage, got>> BY ONLY <1>1
<1>7. n = Rest => Done(buf') BY ONLY <1>1 DEF Done, Returns
<1>8. Rest' = Rest - n
  <2>1. Value(digits) \in Nat BY ONLY <1>0, ValueInRange
  <2>2. Len(MQTTPacket_encode(Value(digits))) \in 1..4 BY ONLY <2>1, FieldLength
  <2> HIDE DEF n
  <2> QED BY ONLY <1>0, <1>1, <1>5, <2>1, <2>2 DEF Rest
<1> HIDE DEF n, p, next
<1>9. /\ y \in Seq(Bytes) /\ ring' \in Seq(Bytes) /\ x \in Seq(Bytes) /\ Len(x) = n
      /\ y \o r = Ahead(sent, Len(PacketsRead))
  <2> HIDE DEF t
  <2>1. /\ t \o SubSeq(ring, 1, n) \in Seq(Bytes)
        /\ SubSeq(ring, n + 1, Len(ring)) \in Seq(Bytes)
        /\ SubSeq(ring, 1, n) \in Seq(Bytes) /\ Len(SubSeq(ring, 1, n)) = n
        /\ (t \o SubSeq(ring, 1, n)) \o (SubSeq(ring, n + 1, Len(ring)) \o wire)
             = Ahead(sent, Len(PacketsRead))
    BY ONLY <1>0, <1>2, <1>5, FollowsMoved
  <2> QED BY ONLY <1>1, <2>1
<1>10. filled + n <= size /\ filled + n \in Nat BY ONLY <1>0, <1>4, <1>5
<1> HIDE DEF x
<1>11. packet \in Seq(Bytes) /\ Len(packet) = size
  <2>1. filled + 1 \in Nat /\ filled + 1 >= 1 BY ONLY <1>0
  <2>2. Into(buf, filled + 1, x) \in Seq(Bytes) /\ Len(Into(buf, filled + 1, x)) = Len(buf)
    BY ONLY <1>0, <1>9, <2>1, IntoKeepsLength
  <2> QED BY ONLY <1>0, <2>2
<1>12. /\ SubSeq(packet, 1, filled + n) = y /\ Len(t) = filled /\ t \in Seq(Bytes)
  <2>1. filled + Len(x) <= Len(buf) BY ONLY <1>0, <1>9, <1>10
  <2>2. /\ SubSeq(Into(buf, filled + 1, x), 1, filled + Len(x)) = SubSeq(buf, 1, filled) \o x
        /\ SubSeq(buf, 1, filled) \in Seq(Bytes) /\ Len(SubSeq(buf, 1, filled)) = filled
    BY ONLY <1>0, <1>9, <2>1, IntoBehind
  <2> QED BY ONLY <1>9, <2>2
<1> HIDE DEF packet, t
<1>13. /\ buf' \in Seq(Bytes) /\ Len(buf') = size
       /\ SubSeq(buf', 1, filled') = y /\ filled' = filled + n
  BY ONLY <1>1, <1>11, <1>12
<1>14. Len(y) = filled + n
  <2>1. Len(y) = Len(t) + Len(x) BY ONLY <1>9, <1>12, Joins
  <2> QED BY ONLY <1>9, <1>12, <2>1
<1>15. r \in Seq(Bytes) BY ONLY <1>0, <1>9, Joins
<1> HIDE DEF y
<1>16. CASE n = Rest
  <2>1. Len(y) = Len(Whole(p)) BY ONLY <1>2, <1>14, <1>16
  <2> HIDE DEF r
  <2>2. y \o r = Whole(p) \o next BY ONLY <1>3, <1>9
  <2>3. y = Whole(p) /\ r = next BY ONLY <1>3, <1>9, <1>15, <2>1, <2>2, CutAlike
  <2>4. PICK b : b = buf' OBVIOUS
  <2>5. Done(b) BY ONLY <1>7, <1>16, <2>4
  <2>6. filled' = Len(Whole(p)) BY ONLY <1>13, <1>14, <2>1
  <2>7. Len(Whole(p)) <= size BY ONLY <1>10, <1>13, <2>6
  <2>8. /\ b \in Seq(Bytes) /\ SubSeq(b, 1, Len(Whole(Coming))) = Whole(Coming)
        /\ Len(Whole(Coming)) <= Len(b)
    BY ONLY <1>13, <2>3, <2>4, <2>6, <2>7 DEF p
  <2>9. ring' \o wire = Ahead(sent, Len(PacketsRead) + 1) BY ONLY <2>3 DEF r, next
  <2>10. UNCHANGED <<sent, wire>> BY ONLY <1>1
  <2> QED BY ONLY <1>0, <1>2, <1>9, <2>5, <2>8, <2>9, <2>10, sent \in Seq(Packets), WholeRead
<1>17. CASE n # Rest
  <2>1. UNCHANGED <<stage, got>> BY ONLY <1>6, <1>17
  <2>2. PacketsRead' = PacketsRead BY ONLY <2>1 DEF PacketsRead
  <2>3. Coming' = p BY ONLY <1>1, <2>2 DEF Coming, p
  <2>4. Rest' # 0 /\ filled' + Rest' = Len(Whole(p))
    <3>1. filled \in Nat /\ Rest \in Nat /\ n \in Nat BY ONLY <1>0, <1>4, <1>5
    <3>2. filled' = filled + n /\ Rest' = Rest - n /\ filled + Rest = Len(Whole(p)) /\ n # Rest
      BY ONLY <1>2, <1>8, <1>13, <1>17
    <3>3. ASSUME NEW f \in Nat, NEW g \in Nat, NEW i \in Nat, i # g
          PROVE  g - i # 0 /\ (f + i) + (g - i) = f + g
      BY ONLY f \in Nat, g \in Nat, i \in Nat, i # g
    <3>4. Rest - n # 0 /\ (filled + n) + (Rest - n) = filled + Rest
      <4> DEFINE g == Rest
      <4>1. g \in Nat /\ n # g BY ONLY <3>1, <3>2
      <4> HIDE DEF g
      <4>2. g - n # 0 /\ (filled + n) + (g - n) = filled + g BY ONLY <3>1, <3>3, <4>1
      <4> QED BY ONLY <4>2 DEF g
    <3> QED BY ONLY <3>2, <3>4
  <2>5. y \o (ring' \o wire') = Ahead(sent', Len(PacketsRead')) BY ONLY <1>1, <1>9, <2>2 DEF r
  <2>6. Follows(SubSeq(buf, 1, filled))' BY ONLY <1>9, <1>13, <2>5 DEF Follows
  <2>7. BodyInStep' BY ONLY <1>1, <1>2, <2>2, <2>3, <2>4, <2>6 DEF BodyInStep
  <2>8. GotInStep' BY ONLY <1>1, <1>2, <2>1, <2>2 DEF GotInStep
  <2>9. HeaderInStep' /\ DigitsInStep' BY ONLY <1>1, <2>1 DEF HeaderInStep, DigitsInStep
  <2> QED BY ONLY <2>7, <2>8, <2>9 DEF InStep
<1> QED BY ONLY <1>16, <1>17

\* Every step keeps the reader in step, or cuts a packet short.
LEMMA StepRInv == RInv /\ [Next]_vars => RInv'
<1> SUFFICES ASSUME RInv, [Next]_vars PROVE RInv' OBVIOUS
<1>1. IInv /\ sent \in Seq(Packets) /\ (~broken => InStep) BY DEF RInv
<1>2. IInv'
  <2>1. [Next]_vars OBVIOUS
  <2> QED BY ONLY <1>1, <2>1, StepIInv
<1>3. CASE Next /\ ~Ends
  <2>1. sent' = sent
    BY <1>3 DEF Next, Arrive, TimePasses, Begin, NoHeader, HeaderByte, Digit, NoDigit, Body, NoBody, given
  <2>2. broken => broken'
    <3>2. CASE Digit BY Zenon, <3>2 DEF Digit, given
    <3>3. CASE ~Digit
      BY <1>3, <3>3 DEF Next, Arrive, TimePasses, Begin, NoHeader, HeaderByte, NoDigit, Body, NoBody, given
    <3> QED BY ONLY <3>2, <3>3
  <2>3. ASSUME ~broken' PROVE InStep'
    <3>1. InStep BY ONLY <1>1, <2>2, <2>3
    <3>2. CASE Arrive BY ONLY <1>1, <3>1, <3>2, ArriveInStep
    <3>3. CASE TimePasses
      <4>1. UNCHANGED <<sent, got, stage, buf, digits, filled>> /\ ring' \o wire' = ring \o wire
        BY <3>3 DEF TimePasses, given
      <4> QED BY ONLY <3>1, <4>1, StaysInStep
    <3>4. CASE Begin BY ONLY <3>1, <3>4, BeginInStep
    <3>5. CASE NoHeader BY ONLY <3>1, <3>5, NoHeaderInStep
    <3>6. CASE HeaderByte BY ONLY <1>1, <3>1, <3>6, HeaderByteInStep
    <3>7. CASE Digit BY ONLY <1>1, <2>3, <3>1, <3>7, DigitInStep
    <3>8. CASE NoDigit BY ONLY <2>3, <3>8 DEF NoDigit
    <3>9. CASE Body BY ONLY <1>1, <3>1, <3>9, BodyStepInStep
    <3>10. CASE NoBody BY ONLY <2>3, <3>10 DEF NoBody
    <3>11. Arrive \/ TimePasses \/ Begin \/ NoHeader \/ HeaderByte \/ Digit \/ NoDigit \/ Body \/ NoBody
      BY ONLY <1>3 DEF Next
    <3> QED BY ONLY <3>2, <3>3, <3>4, <3>5, <3>6, <3>7, <3>8, <3>9, <3>10, <3>11
  <2> QED BY ONLY <1>1, <1>2, <2>1, <2>3 DEF RInv
<1>4. CASE Ends \/ UNCHANGED vars
  <2>1. UNCHANGED vars BY ONLY <1>4 DEF Ends
  <2>2. /\ UNCHANGED <<sent, got, stage, buf, digits, filled>> /\ ring' \o wire' = ring \o wire
        /\ broken' = broken
    BY ONLY <2>1 DEF vars
  <2>3. ~broken' => InStep'
    <3>1. SUFFICES ASSUME ~broken' PROVE InStep' OBVIOUS
    <3>2. InStep BY ONLY <1>1, <2>2, <3>1
    <3> QED BY ONLY <2>2, <3>2, StaysInStep
  <2> QED BY ONLY <1>1, <1>2, <2>2, <2>3 DEF RInv
<1> QED BY <1>3, <1>4

(***************************************************************************)
(* What the readers promise.                                               *)
(***************************************************************************)
\* Before the first byte the whole stream is ahead.
LEMMA InitRInv == Init => RInv
<1> SUFFICES ASSUME Init PROVE RInv OBVIOUS
<1>1. /\ reader \in Readers /\ size \in Sizes /\ sent \in Streams(reader) /\ segment \in Segments(sent)
      /\ wire = BytesOf(sent) /\ ring = <<>> /\ stage = "idle" /\ timer = "running"
      /\ patience = "running" /\ digits = <<>> /\ buf = [i \in 1..size |-> 0] /\ filled = 0
      /\ got = <<>>
  BY DEF Init
<1>2. sent \in Seq(Packets) /\ segment \in Nat /\ size \in Nat /\ size >= 5
  BY ONLY <1>1, ReaderAssumption DEF ReaderAssumption
<1>3. wire = Ahead(sent, 0) /\ wire \in Seq(Bytes)
  <2>1. BytesOf(sent) = Ahead(sent, 0) BY ONLY <1>2, AheadOfAll
  <2>2. 0 \in Nat /\ 0 <= Len(sent) BY ONLY <1>2, LenProperties
  <2>3. Ahead(sent, 0) \in Seq(Bytes) BY ONLY <1>2, <2>2, AheadType
  <2> QED BY ONLY <1>1, <2>1, <2>3
<1>4. IInv
  <2>1. <<>> \in Seq(Bytes) /\ Len(<<>>) = 0 BY EmptySeq
  <2>2. buf \in Seq(Bytes) /\ Len(buf) = size
    <3>1. 0 \in Bytes BY DEF Bytes
    <3>2. buf \in [1..size -> Bytes] BY <1>1, <3>1
    <3> QED BY <1>1, <1>2, <3>2
  <2>3. TypeOK BY ONLY <1>1, <1>2, <1>3, <2>1, <2>2 DEF TypeOK
  <2> QED BY ONLY <1>1, <1>2, <2>3 DEF IInv
<1>5. got \in Seq(Results) /\ PacketsRead = <<>> /\ Len(PacketsRead) = 0
  <2>1. got \in Seq(Results) /\ DOMAIN got = {}
    <3>1. got \in Seq(Results) /\ Len(got) = 0 BY ONLY <1>1, EmptySeq
    <3>2. DOMAIN got = 1..0 BY ONLY <3>1, LenProperties
    <3> QED BY ONLY <3>1, <3>2
  <2>2. PacketsRead \in Seq(Results) BY ONLY <2>1, PacketsReadType
  <2>3. PacketsRead = <<>>
    <3> DEFINE s == [i \in DOMAIN got |-> IF got[i].p = NoPacket THEN <<>> ELSE <<got[i]>>]
    <3>1. s = <<>>
      <4>1. s = [i \in {} |-> IF got[i].p = NoPacket THEN <<>> ELSE <<got[i]>>] BY ONLY <2>1
      <4>2. s \in Seq(Results) /\ Len(s) = 0 BY ONLY <1>1
      <4> QED BY ONLY <4>2, EmptySeq
    <3> QED BY ONLY <3>1, ConcatOfNone DEF PacketsRead
  <2> QED BY ONLY <2>1, <2>3, EmptySeq
<1>6. GotInStep
  <2>1. Len(sent) \in Nat BY ONLY <1>2, LenProperties
  <2>2. 0 <= Len(sent) /\ 1..0 = {} BY ONLY <2>1
  <2> QED BY ONLY <1>5, <2>2 DEF GotInStep
<1>7. Follows(<<>>)
  <2>1. <<>> \in Seq(Bytes) BY EmptySeq
  <2> DEFINE w == wire
  <2>2. w \in Seq(Bytes) BY <1>3
  <2> HIDE DEF w
  <2>3. <<>> \o w = w BY ONLY <2>2, ConcatEmptySeq
  <2>4. <<>> \o (<<>> \o w) = w BY ONLY <2>3
  <2> QED BY ONLY <1>1, <1>3, <1>5, <2>1, <2>4 DEF Follows, w
<1>8. InStep BY ONLY <1>1, <1>6, <1>7 DEF InStep, HeaderInStep, DigitsInStep, BodyInStep
<1> QED BY ONLY <1>2, <1>4, <1>8 DEF RInv

LEMMA RInvHolds == Spec => []RInv
BY InitRInv, StepRInv, PTL DEF Spec

\* Whatever bytes come, in whatever pieces, and whenever the timer runs out, no reader
\* ever puts a byte of a packet behind the end of its buffer, of any size from five, nor
\* takes a fifth digit (MQTT::Client::readPacket and decodePacket, MQTTClient-C's
\* readPacket, MQTTPacket_read, MQTTPacket_readnb).
THEOREM ReadersStayInBuffer == Spec => []TypeOK
<1>1. RInv => TypeOK BY DEF RInv, IInv
<1> QED BY <1>1, RInvHolds, PTL

\* However the bytes come, in whatever pieces and with whatever pauses, and for every
\* sequence of packets, every reader returns the packets that were sent, one by one and
\* field by field, until one is cut short by a timeout or does not fit the buffer.
THEOREM ReadersReturnWhatWasSent == Spec => []ReadsWhatWasSent
<1>1. RInv => ReadsWhatWasSent
  <2> SUFFICES ASSUME RInv, ~broken PROVE /\ Len(PacketsRead) <= Len(sent)
                                          /\ \A i \in DOMAIN PacketsRead :
                                               /\ PacketsRead[i].p = sent[i]
                                               /\ PacketsRead[i].rc = sent[i].type
    BY DEF ReadsWhatWasSent
  <2>1. GotInStep BY DEF RInv, InStep
  <2>2. /\ got \in Seq(Results) /\ Len(PacketsRead) <= Len(sent)
        /\ \A i \in 1..Len(PacketsRead) : PacketsRead[i].p = sent[i] /\ PacketsRead[i].rc = sent[i].type
    BY <2>1 DEF GotInStep
  <2>3. DOMAIN PacketsRead = 1..Len(PacketsRead)
    <3>1. PacketsRead \in Seq(Results) BY ONLY <2>2, PacketsReadType
    <3> QED BY ONLY <3>1, LenProperties
  <2> QED BY ONLY <2>2, <2>3
<1> QED BY <1>1, RInvHolds, PTL

\* The bytes read and in the ring reach the end of the packet to come when the
\* stream is over.
LEMMA AllHere ==
  ASSUME GotInStep, sent \in Seq(Packets), Len(PacketsRead) < Len(sent), NEW t, Follows(t),
         ring \in Seq(Bytes), wire = <<>>
  PROVE  /\ Coming \in Packets /\ Len(t) \in Nat /\ Len(ring) \in Nat
         /\ Len(Whole(Coming)) <= Len(t) + Len(ring)
<1> DEFINE p == Coming
           next == Ahead(sent, Len(PacketsRead) + 1)
           r == ring \o wire
           w == Whole(p)
<1>1. /\ p \in Packets /\ next \in Seq(Bytes) /\ Ahead(sent, Len(PacketsRead)) = w \o next
  BY ONLY GotInStep, sent \in Seq(Packets), Len(PacketsRead) < Len(sent), ComingNext
<1>2. t \in Seq(Bytes) /\ t \o r = Ahead(sent, Len(PacketsRead)) BY DEF Follows
<1>3. r = ring BY ConcatEmptySeq
<1> HIDE DEF p, next, r
<1>4. w \in Seq(Bytes) BY ONLY <1>1, WholeType
<1> HIDE DEF w
<1>5. Len(t \o ring) = Len(t) + Len(ring) BY ONLY <1>2, ring \in Seq(Bytes), Joins
<1>6. Len(w \o next) = Len(w) + Len(next) BY ONLY <1>1, <1>4, Joins
<1>7. Len(t) \in Nat /\ Len(ring) \in Nat /\ Len(w) \in Nat /\ Len(next) \in Nat
  BY ONLY <1>1, <1>2, <1>4, ring \in Seq(Bytes), LenProperties
<1>8. t \o ring = w \o next BY ONLY <1>1, <1>2, <1>3
<1>9. Len(t) + Len(ring) = Len(w) + Len(next) BY ONLY <1>5, <1>6, <1>8
<1>10. Len(w) <= Len(t) + Len(ring) BY ONLY <1>7, <1>9
<1> QED BY ONLY <1>1, <1>7, <1>10 DEF p, w

\* Once the stream has come to its end and a reader waits, it has read every packet,
\* unless one was cut short or did not fit: it never waits for bytes that it has, or for
\* more than a packet's.
THEOREM ReadersReadAll == Spec => []AllRead
<1>1. RInv => AllRead
  <2> SUFFICES ASSUME RInv, wire = <<>>, Waiting, ~broken, Len(PacketsRead) # Len(sent) PROVE FALSE
    BY DEF AllRead
  <2>1. IInv /\ sent \in Seq(Packets) /\ InStep BY DEF RInv
  <2>2. GotInStep /\ HeaderInStep /\ DigitsInStep /\ BodyInStep BY <2>1 DEF InStep
  <2>3. /\ ring \in Seq(Bytes) /\ Len(ring) \in Nat /\ digits \in Seq(Bytes) /\ buf \in Seq(Bytes)
        /\ Len(buf) = size /\ size \in Nat /\ size >= 5 /\ filled \in Nat /\ filled <= size
        /\ stage = "body" => Rest \in Nat
        /\ stage \in {"idle", "header", "digits", "body"}
    BY ONLY <2>1, StateTyped
  <2>4. Len(PacketsRead) < Len(sent)
    <3>1. got \in Seq(Results) /\ Len(PacketsRead) <= Len(sent) BY <2>2 DEF GotInStep
    <3>2. Len(PacketsRead) \in Nat BY ONLY <3>1, PacketsReadType
    <3>3. Len(sent) \in Nat BY ONLY <2>1, LenProperties
    <3>4. Len(PacketsRead) # Len(sent) OBVIOUS
    <3> QED BY ONLY <3>1, <3>2, <3>3, <3>4
  <2>5. Waiting /\ wire = <<>> OBVIOUS
  <2>6. CASE stage = "header"
    <3> DEFINE t == <<>>
    <3>1. Follows(t) /\ Len(t) = 0 BY <2>2, <2>6 DEF HeaderInStep
    <3>2. Len(ring) = 0 BY ONLY <2>5, <2>6, EmptySeq DEF Waiting
    <3> HIDE DEF t
    <3>3. Coming \in Packets /\ Len(Whole(Coming)) <= Len(t) + Len(ring)
      BY ONLY <2>1, <2>2, <2>3, <2>4, <2>5, <3>1, AllHere
    <3>4. Len(Whole(Coming)) >= 1
      <4>1. /\ Len(FieldOf(Coming)) \in 1..4 /\ Len(BodyOf(Coming)) \in Nat
            /\ Len(Whole(Coming)) = 1 + Len(FieldOf(Coming)) + Len(BodyOf(Coming))
        BY ONLY <3>3, PacketBytes
      <4> QED BY ONLY <4>1
    <3> QED BY ONLY <3>1, <3>2, <3>3, <3>4
  <2>7. CASE stage = "digits"
    <3> DEFINE t == <<buf[1]>> \o digits
    <3>1. Follows(t) /\ Len(digits) < Len(FieldOf(Coming)) BY <2>2, <2>7 DEF DigitsInStep
    <3>2. Len(ring) = 0 BY ONLY <2>5, <2>7, EmptySeq DEF Waiting
    <3>3. Len(t) = 1 + Len(digits) /\ Len(digits) \in Nat
      <4> DEFINE z == <<buf[1]>>
      <4>1. z \in Seq(Bytes) /\ Len(z) = 1
        <5>1. Len(buf) >= 1 BY ONLY <2>3
        <5>2. z \in Seq(Bytes) BY ONLY <2>3, <5>1, FirstByte
        <5> QED BY ONLY <5>2
      <4> HIDE DEF z
      <4>2. Len(z \o digits) = Len(z) + Len(digits) BY ONLY <2>3, <4>1, Joins
      <4>3. Len(digits) \in Nat BY ONLY <2>3, LenProperties
      <4> QED BY ONLY <4>1, <4>2, <4>3 DEF z
    <3> HIDE DEF t
    <3>4. Coming \in Packets /\ Len(Whole(Coming)) <= Len(t) + Len(ring)
      BY ONLY <2>1, <2>2, <2>3, <2>4, <2>5, <3>1, AllHere
    <3>5. /\ Len(FieldOf(Coming)) \in 1..4 /\ Len(BodyOf(Coming)) \in Nat
          /\ Len(Whole(Coming)) = 1 + Len(FieldOf(Coming)) + Len(BodyOf(Coming))
      BY ONLY <3>4, PacketBytes
    <3> QED BY ONLY <3>1, <3>2, <3>3, <3>4, <3>5
  <2>8. CASE stage = "body"
    <3> DEFINE t == SubSeq(buf, 1, filled)
    <3>1. Follows(t) /\ filled + Rest = Len(Whole(Coming)) /\ Rest # 0 /\ Rest \in Nat
      BY <2>2, <2>3, <2>8 DEF BodyInStep
    <3>2. Len(t) = filled
      <4>1. filled \in 0..Len(buf) BY ONLY <2>3
      <4> QED BY ONLY <2>3, <4>1, SplitJoins
    <3>3. Len(ring) < Rest
      <4>1. CASE ring = <<>>
        <5>1. Len(ring) = 0 BY ONLY <4>1, EmptySeq
        <5> QED BY ONLY <3>1, <5>1
      <4>2. CASE ring # <<>> BY ONLY <2>5, <4>2 DEF Waiting
      <4> QED BY ONLY <4>1, <4>2
    <3> HIDE DEF t
    <3>4. Len(Whole(Coming)) <= Len(t) + Len(ring)
      BY ONLY <2>1, <2>2, <2>3, <2>4, <2>5, <3>1, AllHere
    <3> QED BY ONLY <2>3, <3>1, <3>2, <3>3, <3>4
  <2>9. stage # "idle" BY DEF Waiting
  <2> QED BY ONLY <2>3, <2>6, <2>7, <2>8, <2>9
<1> QED BY <1>1, RInvHolds, PTL

\* A serialiser of the client refuses a buffer that is one byte too short, for every packet
\* there is: MQTTSerialize_connect, _publish, _ack, _subscribe, _unsubscribe and _zero.
THEOREM SerialisersFitTheirBuffer == Spec => []FitsItsBuffer
<1>1. RInv => FitsItsBuffer
  <2> SUFFICES ASSUME sent \in Seq(Packets), NEW i \in DOMAIN sent,
                      sent[i].type \notin {CONNACK, SUBACK, UNSUBACK}
               PROVE  Serialize(sent[i], Len(Serialize(sent[i], 1000)) - 1) = <<>>
    BY DEF FitsItsBuffer, RInv
  <2> DEFINE p == sent[i]
  <2>1. p \in Packets
    <3>1. i \in 1..Len(sent) BY ONLY sent \in Seq(Packets), i \in DOMAIN sent, LenProperties
    <3> QED BY ONLY sent \in Seq(Packets), <3>1, ElementOfSeq
  <2>2. p.type \notin {CONNACK, SUBACK, UNSUBACK} OBVIOUS
  <2> HIDE DEF p
  <2>3. Tight(p) BY ONLY <2>1, <2>2, PacketsTight
  <2>4. Serialize(p, Len(Serialize(p, 1000)) - 1) = <<>> BY ONLY <2>3 DEF Tight
  <2> QED BY ONLY <2>4, Zenon DEF p
<1> QED BY <1>1, RInvHolds, PTL

(***************************************************************************)
(* The walk of isTopicMatched along a filter and a topic.                  *)
(***************************************************************************)
Stops(filter, topic, f, n) ==
  \/ f > Len(filter) \/ n > Len(topic)
  \/ topic[n] = Slash /\ filter[f] # Slash
  \/ filter[f] \notin {Plus, Hash, topic[n]}
Onward(filter, topic, f, n) == Skip(topic, filter[f], n) + 1
IsWalk(w, filter, topic) ==
  w = [f \in 1..(Len(filter) + 1) |-> [n \in 1..(Len(topic) + 1) |->
         IF Stops(filter, topic, f, n) THEN <<f, n>> ELSE w[f + 1][Onward(filter, topic, f, n)]]]
Outcome(filter, topic) == <<Len(filter) + 1, Len(topic) + 1>>

LEMMA LeastIs ==
  ASSUME NEW S, S \subseteq Nat, S # {}
  PROVE  \E m \in S : \A x \in S : m <= x
<1> DEFINE R == OpToRel(<, Nat)
<1>1. IsWellFoundedOn(R, Nat) BY NatLessThanWellFounded
<1>2. \A i, j \in Nat : <<j, i>> \in R <=> j < i BY DEF OpToRel
<1> HIDE DEF R
<1>3. PICK x \in S : \A y \in S : ~(<<y, x>> \in R) BY <1>1, WFMin
<1>4. ASSUME NEW y \in S PROVE x <= y
  <2>1. ~(<<y, x>> \in R) BY <1>3
  <2>2. x \in Nat /\ y \in Nat OBVIOUS
  <2>3. ~(y < x) BY ONLY <1>2, <2>1, <2>2, Zenon
  <2> QED BY ONLY <2>2, <2>3
<1> QED BY <1>3, <1>4

\* Where the walk goes on, if it does not stop.
LEMMA LevelEndIs ==
  ASSUME NEW topic \in Seq(Bytes), NEW n \in 1..Len(topic)
  PROVE  /\ LevelEnd(topic, n) \in n..Len(topic)
         /\ LevelEnd(topic, n) = Len(topic) \/ topic[LevelEnd(topic, n) + 1] = Slash
         /\ \A i \in (n + 1)..LevelEnd(topic, n) : topic[i] # Slash
<1> DEFINE S == {e \in n..Len(topic) : e = Len(topic) \/ topic[e + 1] = Slash}
<1>1. Len(topic) \in Nat /\ n \in Nat /\ n <= Len(topic) BY LenProperties
<1>2. S \subseteq Nat /\ S # {}
  <2>1. Len(topic) \in S BY <1>1
  <2> QED BY <1>1, <2>1
<1> HIDE DEF S
<1>3. PICK e \in S : \A x \in S : e <= x BY <1>2, LeastIs
<1> USE DEF S
<1>4. e \in n..Len(topic) /\ (e = Len(topic) \/ topic[e + 1] = Slash) BY <1>3
<1>5. ASSUME NEW i \in (n + 1)..e, topic[i] = Slash PROVE FALSE
  <2>1. i - 1 \in n..Len(topic) /\ (i - 1) + 1 = i /\ i - 1 < e BY <1>1, <1>4
  <2>2. i - 1 \in S BY <1>5, <2>1
  <2>3. e <= i - 1 BY <1>3, <2>2
  <2> QED BY <1>1, <1>4, <2>1, <2>3
<1> HIDE DEF S
<1>6. \E x \in n..Len(topic) : /\ x = Len(topic) \/ topic[x + 1] = Slash
                               /\ \A i \in (n + 1)..x : topic[i] # Slash
  BY <1>4, <1>5
<1> QED BY <1>6 DEF LevelEnd

LEMMA OnwardIs ==
  ASSUME NEW filter \in Seq(Bytes), NEW topic \in Seq(Bytes), NEW f \in Nat, NEW n \in 1..(Len(topic) + 1),
         ~Stops(filter, topic, f, n)
  PROVE  f <= Len(filter) /\ n \in 1..Len(topic) /\ Onward(filter, topic, f, n) \in 1..(Len(topic) + 1)
<1>1. Len(topic) \in Nat /\ Len(filter) \in Nat BY LenProperties
<1>2. ~(f > Len(filter)) /\ ~(n > Len(topic)) BY DEF Stops
<1>3. f <= Len(filter) /\ n \in 1..Len(topic) BY ONLY <1>1, <1>2, f \in Nat, n \in 1..(Len(topic) + 1)
<1>4. LevelEnd(topic, n) \in n..Len(topic) BY ONLY <1>3, topic \in Seq(Bytes), LevelEndIs
<1> DEFINE c == filter[f]
           m == Skip(topic, c, n)
<1>5. m \in n..Len(topic)
  <2> HIDE DEF c
  <2> QED BY ONLY <1>1, <1>3, <1>4 DEF Skip
<1> HIDE DEF m
<1>6. m + 1 \in 1..(Len(topic) + 1) BY ONLY <1>1, <1>3, <1>5
<1> QED BY ONLY <1>3, <1>6 DEF Onward, m

LEMMA WalkExists ==
  ASSUME NEW filter \in Seq(Bytes), NEW topic \in Seq(Bytes)
  PROVE  \E w : IsWalk(w, filter, topic)
<1> DEFINE F == Len(filter) + 1
           N == Len(topic) + 1
           stops(f, n) == Stops(filter, topic, f, n)
           next(f, n) == Onward(filter, topic, f, n)
           Row == [1..N -> Nat \X Nat]
           row(w, f) == [n \in 1..N |-> IF stops(f, n) THEN <<f, n>> ELSE w[f + 1][next(f, n)]]
           Good(w, k) == /\ w \in [1..F -> Row]
                         /\ \A f \in 1..F : f > F - k => w[f] = row(w, f)
           K == {k \in Nat : k <= F => \E w : Good(w, k)}
<1>1. F \in Nat /\ N \in Nat /\ F >= 1 /\ N >= 1 BY LenProperties
<1>2. ASSUME NEW f \in 1..F, NEW n \in 1..N, ~stops(f, n)
      PROVE  f + 1 \in 1..F /\ next(f, n) \in 1..N
  <2>1. f \in Nat BY <1>1
  <2>2. f <= Len(filter) /\ next(f, n) \in 1..N
    BY ONLY <1>2, <2>1, filter \in Seq(Bytes), topic \in Seq(Bytes), OnwardIs
  <2>3. Len(filter) \in Nat BY LenProperties
  <2> QED BY <2>1, <2>2, <2>3
<1> HIDE DEF F, N, stops, next
<1>3. 0 \in K
  <2> DEFINE w == [f \in 1..F |-> [n \in 1..N |-> <<0, 0>>]]
  <2>1. w \in [1..F -> Row] OBVIOUS
  <2>2. \A f \in 1..F : ~(f > F - 0) BY <1>1
  <2>3. Good(w, 0) BY <2>1, <2>2
  <2> QED BY <2>3
<1>9. ASSUME NEW w \in [1..F -> Row], NEW f \in 1..F PROVE row(w, f) \in Row
  <2> SUFFICES ASSUME NEW n \in 1..N
               PROVE  (IF stops(f, n) THEN <<f, n>> ELSE w[f + 1][next(f, n)]) \in Nat \X Nat
    OBVIOUS
  <2>1. CASE stops(f, n)
    <3>1. f \in Nat /\ n \in Nat BY <1>1
    <3> QED BY <2>1, <3>1
  <2>2. CASE ~stops(f, n)
    <3>1. f + 1 \in 1..F /\ next(f, n) \in 1..N BY <1>2, <2>2
    <3> QED BY <2>2, <3>1
  <2> QED BY <2>1, <2>2
<1>4. ASSUME NEW k \in K PROVE k + 1 \in K
  <2>1. k \in Nat /\ k + 1 \in Nat OBVIOUS
  <2> SUFFICES ASSUME k + 1 <= F PROVE \E w : Good(w, k + 1) BY <2>1
  <2>2. k <= F BY <1>1, <2>1
  <2>3. PICK w : Good(w, k) BY <2>2
  <2> DEFINE g == F - k
             v == [f \in 1..F |-> IF f = g THEN row(w, g) ELSE w[f]]
  <2>4. w \in [1..F -> Row] /\ g \in 1..F
    <3>1. g \in 1..F BY <1>1, <2>1
    <3> HIDE DEF row, Row
    <3> QED BY <2>3, <3>1
  <2>5. row(w, g) \in Row BY <1>9, <2>4
  <2> HIDE DEF g
  <2>6. v \in [1..F -> Row]
    <3> HIDE DEF row, Row
    <3> QED BY <2>4, <2>5
  <2>7. ASSUME NEW f \in 1..F, f > F - (k + 1)
        PROVE  v[f] = row(v, f)
    <3>1. f \in Int /\ g \in Int /\ (f = g \/ f > F - k) /\ f + 1 # g /\ (f > F - k => f # g)
      BY <1>1, <2>1, <2>7 DEF g
    <3>2. ASSUME NEW n \in 1..N, ~stops(f, n) PROVE v[f + 1][next(f, n)] = w[f + 1][next(f, n)]
      <4>1. f + 1 \in 1..F /\ next(f, n) \in 1..N BY <1>2, <3>2
      <4>2. v[f + 1] = w[f + 1] BY <3>1, <4>1
      <4> QED BY <4>2
    <3>3. row(v, f) = row(w, f)
      <4> HIDE DEF v
      <4> QED BY <3>2
    <3>4. CASE f = g
      <4>1. v[g] = row(w, g) BY <2>4
      <4>2. row(w, f) = row(w, g) BY <3>4
      <4> HIDE DEF v, row
      <4> QED BY <3>3, <3>4, <4>1, <4>2
    <3>5. CASE f > F - k
      <4>1. v[f] = w[f] BY <3>1, <3>5
      <4>2. w[f] = row(w, f) BY <2>3, <3>5
      <4> HIDE DEF v, row
      <4> QED BY <3>3, <4>1, <4>2
    <3> HIDE DEF v, row
    <3> QED BY <3>1, <3>4, <3>5
  <2>8. Good(v, k + 1)
    <3> HIDE DEF v, row
    <3> QED BY <2>6, <2>7
  <2> HIDE DEF Good, v
  <2> QED BY <2>8
<1>5. K \subseteq Nat OBVIOUS
<1>6. F \in K
  <2> HIDE DEF K
  <2>1. \A k \in K : k + 1 \in K BY <1>4
  <2> QED BY ONLY <1>1, <1>3, <2>1, <1>5, NatInd
<1>7. PICK w : Good(w, F)
  <2> HIDE DEF Good
  <2> QED BY <1>1, <1>6
<1>8. w = [f \in 1..F |-> row(w, f)]
  <2>1. \A f \in 1..F : f > F - F BY <1>1
  <2> HIDE DEF row, Row
  <2> QED BY <1>7, <2>1
<1> QED BY <1>8 DEF IsWalk, F, N, stops, next

LEMMA WalkFound ==
  ASSUME NEW filter \in Seq(Bytes), NEW topic \in Seq(Bytes)
  PROVE  \E w : IsWalk(w, filter, topic) /\ isTopicMatched(filter, topic) = (w[1][1] = Outcome(filter, topic))
<1> DEFINE w == CHOOSE w : IsWalk(w, filter, topic)
<1>1. IsWalk(w, filter, topic) BY WalkExists
<1>2. isTopicMatched(filter, topic) = (w[1][1] = Outcome(filter, topic))
  BY Zenon DEF isTopicMatched, IsWalk, Stops, Onward, Outcome
<1> HIDE DEF w
<1> QED BY <1>1, <1>2

\* One step of the walk.
LEMMA WalkStep ==
  ASSUME NEW filter \in Seq(Bytes), NEW topic \in Seq(Bytes), NEW w, IsWalk(w, filter, topic),
         NEW f \in 1..(Len(filter) + 1), NEW n \in 1..(Len(topic) + 1)
  PROVE  w[f][n] = IF Stops(filter, topic, f, n) THEN <<f, n>> ELSE w[f + 1][Onward(filter, topic, f, n)]
<1> DEFINE row(g) == [m \in 1..(Len(topic) + 1) |->
         IF Stops(filter, topic, g, m) THEN <<g, m>> ELSE w[g + 1][Onward(filter, topic, g, m)]]
<1>1. w = [g \in 1..(Len(filter) + 1) |-> row(g)] BY DEF IsWalk
<1>2. w[f] = row(f)
  <2> HIDE DEF row
  <2> QED BY <1>1, Zenon
<1> QED BY <1>2, Zenon

(***************************************************************************)
(* The levels of a topic or a filter: what lies between two cuts.          *)
(***************************************************************************)
Rank(s, i) == Cardinality({c \in Cuts(s) : c < i})

\* A level lies behind cut c and before cut d.
Level(s, c, d) == c \in Cuts(s) /\ d \in Cuts(s) /\ c < d /\ \A x \in Cuts(s) : ~(c < x /\ x < d)

LEMMA CutsAre ==
  ASSUME NEW s \in Seq(Bytes)
  PROVE  /\ Cuts(s) \subseteq 0..(Len(s) + 1) /\ IsFiniteSet(Cuts(s))
         /\ 0 \in Cuts(s) /\ Len(s) + 1 \in Cuts(s) /\ Cuts(s) \subseteq Nat
<1>1. Len(s) \in Nat /\ DOMAIN s = 1..Len(s) BY LenProperties
<1>2. Cuts(s) \subseteq 0..(Len(s) + 1) BY <1>1 DEF Cuts
<1>3. IsFiniteSet(0..(Len(s) + 1)) BY ONLY <1>1, FS_Interval
<1>4. IsFiniteSet(Cuts(s)) BY ONLY <1>2, <1>3, FS_Subset
<1>5. 0 \in Cuts(s) /\ Len(s) + 1 \in Cuts(s) BY DEF Cuts
<1>6. Cuts(s) \subseteq Nat BY <1>2
<1> QED BY <1>2, <1>4, <1>5, <1>6

LEMMA RankIs ==
  ASSUME NEW s \in Seq(Bytes), NEW i
  PROVE  IsFiniteSet({c \in Cuts(s) : c < i}) /\ Rank(s, i) \in Nat
<1>1. IsFiniteSet({c \in Cuts(s) : c < i}) BY CutsAre, FS_Subset
<1> QED BY <1>1, FS_CardinalityType DEF Rank

\* The rank of the cut behind a level is one more than that of the cut before it.
LEMMA RankNext ==
  ASSUME NEW s \in Seq(Bytes), NEW c, NEW d, Level(s, c, d)
  PROVE  Rank(s, d) = Rank(s, c) + 1
<1> DEFINE C == {x \in Cuts(s) : x < c}
           D == {x \in Cuts(s) : x < d}
<1>1. c \in Cuts(s) /\ d \in Cuts(s) /\ c < d /\ \A x \in Cuts(s) : ~(c < x /\ x < d) BY DEF Level
<1>2. Cuts(s) \subseteq Nat BY CutsAre
<1>3. c \notin C BY <1>1, <1>2
<1>4. D = C \cup {c} BY <1>1, <1>2
<1>5. IsFiniteSet(C) BY RankIs
<1> HIDE DEF C, D
<1>6. Cardinality(D) = Cardinality(C) + 1 BY ONLY <1>3, <1>4, <1>5, FS_AddElement
<1> QED BY ONLY <1>6 DEF C, D, Rank

LEMMA RankGrows ==
  ASSUME NEW s \in Seq(Bytes), NEW c \in Cuts(s), NEW d \in Cuts(s), c < d
  PROVE  Rank(s, c) < Rank(s, d)
<1> DEFINE C == {x \in Cuts(s) : x < c}
           D == {x \in Cuts(s) : x < d}
<1>1. Cuts(s) \subseteq Nat BY CutsAre
<1>2. c \notin C BY <1>1
<1>3. C \cup {c} \subseteq D BY <1>1
<1>4. IsFiniteSet(C) /\ IsFiniteSet(D) /\ Cardinality(C) \in Nat /\ Cardinality(D) \in Nat
  BY RankIs, FS_CardinalityType
<1>5. Cardinality(C) = Rank(s, c) /\ Cardinality(D) = Rank(s, d) BY DEF Rank
<1> HIDE DEF C, D
<1>6. Cardinality(C \cup {c}) = Cardinality(C) + 1 BY ONLY <1>2, <1>4, FS_AddElement
<1>7. Cardinality(C \cup {c}) <= Cardinality(D) BY ONLY <1>3, <1>4, FS_Subset
<1> QED BY ONLY <1>4, <1>5, <1>6, <1>7

LEMMA RankFirst ==
  ASSUME NEW s \in Seq(Bytes)
  PROVE  Rank(s, 0) = 0
<1>1. {x \in Cuts(s) : x < 0} = {} BY CutsAre
<1> QED BY <1>1, FS_EmptySet DEF Rank

\* As many levels as the last cut has cuts before it.
LEMMA RankLast ==
  ASSUME NEW s \in Seq(Bytes)
  PROVE  Rank(s, Len(s) + 1) = Depth(s)
<1> DEFINE C == {x \in Cuts(s) : x < Len(s) + 1}
<1>1. Len(s) \in Nat BY LenProperties
<1>2. Cuts(s) \subseteq 0..(Len(s) + 1) /\ Len(s) + 1 \in Cuts(s) BY CutsAre
<1>3. Cuts(s) = C \cup {Len(s) + 1} /\ Len(s) + 1 \notin C BY <1>1, <1>2
<1>4. IsFiniteSet(C) BY RankIs
<1>5. Cardinality(C) = Rank(s, Len(s) + 1) BY DEF Rank
<1>6. Rank(s, Len(s) + 1) \in Nat BY RankIs
<1> HIDE DEF C
<1>7. Cardinality(Cuts(s)) = Cardinality(C) + 1 BY ONLY <1>3, <1>4, FS_AddElement
<1> QED BY ONLY <1>5, <1>6, <1>7 DEF Depth

\* Level number k lies between the cuts of ranks k - 1 and k.
LEMMA LevelIs ==
  ASSUME NEW s \in Seq(Bytes), NEW c, NEW d, Level(s, c, d)
  PROVE  LevelNo(s, Rank(s, c) + 1) = SubSeq(s, c + 1, d - 1)
<1> DEFINE k == Rank(s, c) + 1
<1>1. c \in Cuts(s) /\ d \in Cuts(s) BY DEF Level
<1>2. Rank(s, c) \in Nat /\ Rank(s, d) = k BY RankIs, RankNext
<1>3. ASSUME NEW x \in Cuts(s), NEW y \in Cuts(s), Rank(s, x) = Rank(s, y) PROVE x = y
  <2>1. x \in Nat /\ y \in Nat BY CutsAre
  <2>2. Rank(s, x) \in Nat /\ Rank(s, y) \in Nat BY RankIs
  <2>3. x < y => Rank(s, x) < Rank(s, y) BY RankGrows
  <2>4. y < x => Rank(s, y) < Rank(s, x) BY RankGrows
  <2> QED BY ONLY <1>3, <2>1, <2>2, <2>3, <2>4
<1>4. k - 1 = Rank(s, c) BY <1>2
<1> HIDE DEF k
<1>5. (CHOOSE i \in Cuts(s) : Rank(s, i) = k - 1) = c BY ONLY <1>1, <1>3, <1>4
<1>6. (CHOOSE i \in Cuts(s) : Rank(s, i) = k) = d BY ONLY <1>1, <1>2, <1>3
<1>7. LevelNo(s, k) = SubSeq(s, (CHOOSE i \in Cuts(s) : Rank(s, i) = k - 1) + 1,
                                (CHOOSE i \in Cuts(s) : Rank(s, i) = k) - 1)
  BY ONLY Zenon DEF LevelNo, Rank
<1>8. LevelNo(s, k) = SubSeq(s, c + 1, d - 1) BY ONLY <1>5, <1>6, <1>7, Zenon
<1> QED BY ONLY <1>8 DEF k

\* Behind every cut but the last there is a level.
LEMMA LevelAfter ==
  ASSUME NEW s \in Seq(Bytes), NEW c \in Cuts(s), c <= Len(s)
  PROVE  \E d \in Cuts(s) : Level(s, c, d)
<1> DEFINE S == {d \in Cuts(s) : c < d}
<1>1. Len(s) \in Nat /\ Cuts(s) \subseteq Nat /\ Len(s) + 1 \in Cuts(s) BY LenProperties, CutsAre
<1>2. S \subseteq Nat BY <1>1
<1>3. S # {}
  <2>1. Len(s) + 1 \in S BY <1>1
  <2> QED BY <2>1
<1> HIDE DEF S
<1>4. PICK d \in S : \A x \in S : d <= x BY <1>2, <1>3, LeastIs
<1>5. d \in Cuts(s) /\ c < d BY <1>4 DEF S
<1>6. ASSUME NEW x \in Cuts(s), c < x, x < d PROVE FALSE
  <2>1. x \in S BY <1>6 DEF S
  <2> QED BY <1>1, <1>4, <1>5, <1>6, <2>1
<1> QED BY <1>5, <1>6 DEF Level

\* The characters of a level.
LEMMA LevelChars ==
  ASSUME NEW s \in Seq(Bytes), NEW c, NEW d, Level(s, c, d)
  PROVE  /\ c \in 0..Len(s) /\ d \in 1..(Len(s) + 1) /\ c < d
         /\ \A i \in (c + 1)..(d - 1) : i \in 1..Len(s) /\ s[i] # Slash
         /\ d <= Len(s) => s[d] = Slash
         /\ c > 0 => s[c] = Slash
<1>1. Len(s) \in Nat /\ DOMAIN s = 1..Len(s) BY LenProperties
<1>2. Cuts(s) \subseteq 0..(Len(s) + 1) BY CutsAre
<1>3. c \in Cuts(s) /\ d \in Cuts(s) /\ c < d /\ \A x \in Cuts(s) : ~(c < x /\ x < d) BY DEF Level
<1>4. c \in 0..Len(s) /\ d \in 1..(Len(s) + 1) BY <1>1, <1>2, <1>3
<1>5. ASSUME NEW i \in (c + 1)..(d - 1) PROVE i \in 1..Len(s) /\ s[i] # Slash
  <2>1. i \in 1..Len(s) /\ c < i /\ i < d BY <1>1, <1>4
  <2>2. i \notin Cuts(s) BY <1>3, <2>1
  <2> QED BY <1>1, <2>1, <2>2 DEF Cuts
<1>6. d <= Len(s) => s[d] = Slash BY <1>1, <1>3, <1>4 DEF Cuts
<1>7. c > 0 => s[c] = Slash BY <1>1, <1>3, <1>4 DEF Cuts
<1> QED BY <1>3, <1>4, <1>5, <1>6, <1>7

(***************************************************************************)
(* The format that isTopicMatched assumes of its arguments: + and # fill a *)
(* level, # the last one; and no level of a topic is empty.                *)
(***************************************************************************)
ProperFilter(filter) ==
  /\ filter \in Seq(Bytes)
  /\ \A i \in DOMAIN filter :
       filter[i] \in {Plus, Hash} => /\ i = 1 \/ filter[i - 1] = Slash
                                     /\ i = Len(filter) \/ (filter[i] = Plus /\ filter[i + 1] = Slash)
ProperTopic(topic) ==
  /\ topic \in Seq(Bytes) \ {<<>>}
  /\ \A i \in DOMAIN topic : topic[i] = Slash => i > 1 /\ i < Len(topic) /\ topic[i + 1] # Slash

LEMMA WildAlone ==
  ASSUME NEW filter, ProperFilter(filter), NEW c, NEW d, Level(filter, c, d),
         NEW i \in (c + 1)..(d - 1), filter[i] \in {Plus, Hash}
  PROVE  i = c + 1 /\ d = c + 2 /\ (filter[i] = Hash => d = Len(filter) + 1)
<1>1. filter \in Seq(Bytes) BY DEF ProperFilter
<1>2. /\ c \in 0..Len(filter) /\ d \in 1..(Len(filter) + 1) /\ c < d
      /\ \A j \in (c + 1)..(d - 1) : j \in 1..Len(filter) /\ filter[j] # Slash
  BY <1>1, LevelChars
<1>3. Len(filter) \in Nat /\ DOMAIN filter = 1..Len(filter) BY <1>1, LenProperties
<1>4. i \in DOMAIN filter BY <1>2, <1>3
<1>5. /\ i = 1 \/ filter[i - 1] = Slash
      /\ i = Len(filter) \/ (filter[i] = Plus /\ filter[i + 1] = Slash)
  BY <1>4 DEF ProperFilter
<1>6. i = c + 1
  <2> SUFFICES ASSUME i # c + 1 PROVE FALSE OBVIOUS
  <2>1. i - 1 \in (c + 1)..(d - 1) /\ i # 1 BY <1>2, <1>3
  <2> QED BY <1>2, <1>5, <2>1
<1>7. d = c + 2
  <2> SUFFICES ASSUME d # c + 2 PROVE FALSE OBVIOUS
  <2>1. c \in 0..Len(filter) /\ d \in 1..(Len(filter) + 1) /\ i \in (c + 1)..(d - 1) BY <1>2
  <2>3. \A n, x, y \in Nat : x + 1 \in (x + 1)..(y - 1) /\ y <= n + 1 /\ y # x + 2
                            => (x + 1) + 1 \in (x + 1)..(y - 1) /\ x + 1 # n
    OBVIOUS
  <2>4. c \in Nat /\ d \in Nat /\ d <= Len(filter) + 1 BY ONLY <2>1, <1>3
  <2>2. i + 1 \in (c + 1)..(d - 1) /\ i # Len(filter) BY <1>3, <1>6, <2>1, <2>3, <2>4, Zenon
  <2> QED BY <1>2, <1>5, <2>2
<1>8. filter[i] = Hash => d = Len(filter) + 1
  <2> SUFFICES ASSUME filter[i] = Hash PROVE d = Len(filter) + 1 OBVIOUS
  <2>1. i = Len(filter) BY <1>5 DEF Hash, Plus
  <2>2. c \in 0..Len(filter) /\ d \in 1..(Len(filter) + 1) BY <1>2
  <2> QED BY ONLY <1>3, <1>6, <1>7, <2>1, <2>2
<1> QED BY <1>6, <1>7, <1>8

LEMMA TopicLevelFilled ==
  ASSUME NEW topic, ProperTopic(topic), NEW g, NEW e, Level(topic, g, e)
  PROVE  g + 1 < e /\ g + 1 \in 1..Len(topic) /\ topic[g + 1] # Slash
<1>1. topic \in Seq(Bytes) /\ topic # <<>> BY DEF ProperTopic
<1>2. /\ g \in 0..Len(topic) /\ e \in 1..(Len(topic) + 1) /\ g < e
      /\ \A j \in (g + 1)..(e - 1) : j \in 1..Len(topic) /\ topic[j] # Slash
      /\ e <= Len(topic) => topic[e] = Slash
      /\ g > 0 => topic[g] = Slash
  BY <1>1, LevelChars
<1>3. Len(topic) \in Nat /\ DOMAIN topic = 1..Len(topic) /\ Len(topic) # 0 BY <1>1, LenProperties, EmptySeq
<1>4. \A i \in DOMAIN topic : topic[i] = Slash => i > 1 /\ i < Len(topic) /\ topic[i + 1] # Slash
  BY DEF ProperTopic
<1>5. g + 1 < e
  <2> SUFFICES ASSUME e = g + 1 PROVE FALSE BY <1>2, <1>3
  <2>1. CASE g = 0
    <3>1. e \in DOMAIN topic /\ e = 1 /\ topic[e] = Slash BY <1>2, <1>3, <2>1
    <3> QED BY <1>4, <3>1
  <2>2. CASE g > 0
    <3>1. g \in DOMAIN topic /\ topic[g] = Slash BY <1>2, <1>3, <2>2
    <3>2. g < Len(topic) /\ topic[e] # Slash BY <1>4, <3>1
    <3> QED BY <1>2, <1>3, <3>2
  <2> QED BY <1>2, <1>3, <2>1, <2>2
<1>6. g + 1 \in (g + 1)..(e - 1) BY <1>2, <1>3, <1>5
<1> QED BY <1>2, <1>5, <1>6

LEMMA TextIs ==
  ASSUME NEW s \in Seq(Bytes), NEW c, NEW d, Level(s, c, d)
  PROVE  LET text == SubSeq(s, c + 1, d - 1)
         IN text \in Seq(Bytes) /\ Len(text) = d - 1 - c /\ \A i \in 1..(d - 1 - c) : text[i] = s[c + i]
<1>1. c \in 0..Len(s) /\ d \in 1..(Len(s) + 1) /\ c < d /\ Len(s) \in Nat BY LevelChars, LenProperties
<1> DEFINE text == SubSeq(s, c + 1, d - 1)
<1>2. c + 1 \in 1..(Len(s) + 1) /\ d - 1 \in 0..Len(s) /\ c + 1 <= (d - 1) + 1
      /\ (d - 1) - (c + 1) + 1 = d - 1 - c
  BY ONLY <1>1
<1>3. text = [i \in 1..(d - 1 - c) |-> s[c + i]]
  BY ONLY <1>1, s \in Seq(Bytes)
<1>4. \A i \in 1..(d - 1 - c) : s[c + i] \in Bytes BY <1>1
<1>5. d - 1 - c \in Nat BY <1>1
<1>6. text \in Seq(Bytes) /\ Len(text) = d - 1 - c /\ \A i \in 1..(d - 1 - c) : text[i] = s[c + i]
  <2> DEFINE n == d - 1 - c
             x(i) == s[c + i]
  <2>1. text = [i \in 1..n |-> x(i)] /\ n \in Nat /\ \A i \in 1..n : x(i) \in Bytes BY <1>3, <1>4, <1>5
  <2> HIDE DEF n, x, text
  <2>2. text \in Seq(Bytes) /\ Len(text) = n /\ \A i \in 1..n : text[i] = x(i) BY ONLY <2>1
  <2> QED BY ONLY <2>2 DEF n, x
<1> QED BY ONLY <1>6

LEMMA OneCharacter ==
  ASSUME NEW s \in Seq(Bytes), NEW c, NEW d, Level(s, c, d), NEW x \in Bytes
  PROVE  SubSeq(s, c + 1, d - 1) = <<x>> <=> d = c + 2 /\ s[c + 1] = x
<1> DEFINE text == SubSeq(s, c + 1, d - 1)
<1>1. text \in Seq(Bytes) /\ Len(text) = d - 1 - c /\ \A i \in 1..(d - 1 - c) : text[i] = s[c + i]
  BY TextIs
<1>2. c \in Nat /\ d \in Nat
  <2>1. c \in 0..Len(s) /\ d \in 1..(Len(s) + 1) /\ Len(s) \in Nat BY LevelChars, LenProperties
  <2> QED BY <2>1
<1>3. <<x>> \in Seq(Bytes) /\ Len(<<x>>) = 1 /\ <<x>>[1] = x OBVIOUS
<1> HIDE DEF text
<1>4. ASSUME text = <<x>> PROVE d = c + 2 /\ s[c + 1] = x
  <2>1. d - 1 - c = 1 BY <1>1, <1>3, <1>4
  <2>2. text[1] = s[c + 1] BY <1>1, <1>2, <2>1
  <2> QED BY <1>2, <1>3, <1>4, <2>1, <2>2
<1>5. ASSUME d = c + 2, s[c + 1] = x PROVE text = <<x>>
  <2>1. Len(text) = 1 /\ text[1] = x BY <1>1, <1>2, <1>5
  <2>2. \A i \in 1..Len(text) : text[i] = <<x>>[i] BY <1>3, <2>1
  <2>3. text \in Seq(Bytes) BY <1>1
  <2>4. Len(text) = Len(<<x>>) BY <1>3, <2>1
  <2> QED BY ONLY <1>3, <2>2, <2>3, <2>4, SeqEqual
<1> QED BY <1>4, <1>5 DEF text

\* Two levels have the same characters.
SameText(s, c, d, t, g, e) == d - c = e - g /\ \A i \in 1..(d - 1 - c) : s[c + i] = t[g + i]

LEMMA TextsEqual ==
  ASSUME NEW s \in Seq(Bytes), NEW t \in Seq(Bytes), NEW c, NEW d, Level(s, c, d),
         NEW g, NEW e, Level(t, g, e)
  PROVE  SubSeq(s, c + 1, d - 1) = SubSeq(t, g + 1, e - 1) <=> SameText(s, c, d, t, g, e)
<1> DEFINE a == SubSeq(s, c + 1, d - 1)
           b == SubSeq(t, g + 1, e - 1)
<1>1. a \in Seq(Bytes) /\ Len(a) = d - 1 - c /\ \A i \in 1..(d - 1 - c) : a[i] = s[c + i] BY TextIs
<1>2. b \in Seq(Bytes) /\ Len(b) = e - 1 - g /\ \A i \in 1..(e - 1 - g) : b[i] = t[g + i] BY TextIs
<1>3. c \in Nat /\ d \in Nat
  <2>1. c \in 0..Len(s) /\ d \in 1..(Len(s) + 1) /\ Len(s) \in Nat BY LevelChars, LenProperties
  <2> QED BY <2>1
<1>4. g \in Nat /\ e \in Nat
  <2>1. g \in 0..Len(t) /\ e \in 1..(Len(t) + 1) /\ Len(t) \in Nat BY LevelChars, LenProperties
  <2> QED BY <2>1
<1> HIDE DEF a, b
<1>5. ASSUME a = b PROVE SameText(s, c, d, t, g, e)
  <2>1. d - 1 - c = e - 1 - g BY <1>1, <1>2, <1>5
  <2>2. \A i \in 1..(d - 1 - c) : s[c + i] = t[g + i] BY <1>1, <1>2, <1>5, <2>1
  <2>3. d - c = e - g BY <1>3, <1>4, <2>1
  <2> QED BY <2>2, <2>3 DEF SameText
<1>6. ASSUME SameText(s, c, d, t, g, e) PROVE a = b
  <2>1. d - c = e - g /\ \A i \in 1..(d - 1 - c) : s[c + i] = t[g + i] BY <1>6 DEF SameText
  <2>2. d - 1 - c = e - 1 - g BY <1>3, <1>4, <2>1
  <2>3. \A i \in 1..(d - 1 - c) : a[i] = b[i] BY <1>1, <1>2, <2>1, <2>2
  <2>4. Len(a) = Len(b) BY <1>1, <1>2, <2>2
  <2> QED BY <1>1, <1>2, <2>3, <2>4, SeqEqual
<1> QED BY <1>5, <1>6 DEF a, b

\* In a walk, the next m characters of both are the same and no wildcards.
SameNext(w, filter, f, topic, n, m) ==
  /\ filter \in Seq(Bytes) /\ topic \in Seq(Bytes) /\ IsWalk(w, filter, topic)
  /\ f \in 1..(Len(filter) + 1) /\ n \in 1..(Len(topic) + 1) /\ m \in Nat
  /\ f + m <= Len(filter) + 1 /\ n + m <= Len(topic) + 1
  /\ \A i \in 0..(m - 1) : filter[f + i] = topic[n + i] /\ filter[f + i] \notin {Plus, Hash}

\* It moves on along them.
LEMMA RunsOn ==
  ASSUME NEW w, NEW filter, NEW f, NEW topic, NEW n, NEW m, SameNext(w, filter, f, topic, n, m)
  PROVE  w[f][n] = w[f + m][n + m]
<1>0. /\ filter \in Seq(Bytes) /\ topic \in Seq(Bytes) /\ IsWalk(w, filter, topic)
      /\ f \in 1..(Len(filter) + 1) /\ n \in 1..(Len(topic) + 1) /\ m \in Nat
      /\ f + m <= Len(filter) + 1 /\ n + m <= Len(topic) + 1
      /\ \A i \in 0..(m - 1) : filter[f + i] = topic[n + i] /\ filter[f + i] \notin {Plus, Hash}
  BY DEF SameNext
<1> DEFINE K == {j \in Nat : j <= m => w[f][n] = w[f + j][n + j]}
<1>1. Len(filter) \in Nat /\ Len(topic) \in Nat /\ f \in Nat /\ n \in Nat BY <1>0, LenProperties
<1>2. 0 \in K
  <2>1. f + 0 = f /\ n + 0 = n BY <1>1
  <2> QED BY <2>1
<1>3. ASSUME NEW j \in K PROVE j + 1 \in K
  <2>1. j \in Nat /\ j + 1 \in Nat /\ (j <= m => w[f][n] = w[f + j][n + j]) OBVIOUS
  <2> SUFFICES ASSUME j + 1 <= m PROVE w[f][n] = w[f + (j + 1)][n + (j + 1)] BY <2>1
  <2>2. /\ j \in 0..(m - 1) /\ j <= m /\ f + j \in 1..(Len(filter) + 1) /\ n + j \in 1..(Len(topic) + 1)
        /\ f + (j + 1) = (f + j) + 1 /\ n + (j + 1) = (n + j) + 1
        /\ ~(f + j > Len(filter)) /\ ~(n + j > Len(topic))
    BY <1>0, <1>1, <2>1
  <2>3. filter[f + j] = topic[n + j] /\ filter[f + j] \notin {Plus, Hash} BY <1>0, <2>2
  <2>4. w[f + j][n + j] = IF Stops(filter, topic, f + j, n + j) THEN <<f + j, n + j>>
                          ELSE w[(f + j) + 1][Onward(filter, topic, f + j, n + j)]
    BY <1>0, <2>2, WalkStep
  <2>5. ~Stops(filter, topic, f + j, n + j) BY ONLY <2>2, <2>3, Zenon DEF Stops
  <2>6. Onward(filter, topic, f + j, n + j) = (n + j) + 1
    <3>1. Skip(topic, filter[f + j], n + j) = n + j BY ONLY <2>3, Zenon DEF Skip
    <3> QED BY <3>1, Zenon DEF Onward
  <2>7. w[f + j][n + j] = w[(f + j) + 1][(n + j) + 1] BY <2>4, <2>5, <2>6, Zenon
  <2> QED BY <2>1, <2>2, <2>7, Zenon
<1>4. m \in K
  <2>1. K \subseteq Nat /\ \A j \in K : j + 1 \in K BY <1>3
  <2> HIDE DEF K
  <2> QED BY ONLY <1>0, <1>2, <2>1, NatInd
<1> QED BY <1>0, <1>4

\* Where one of them has ended, the walk stops.
LEMMA StopsAtEnd ==
  ASSUME NEW filter \in Seq(Bytes), NEW topic \in Seq(Bytes), NEW w, IsWalk(w, filter, topic),
         NEW f \in 1..(Len(filter) + 1), NEW n \in 1..(Len(topic) + 1),
         f = Len(filter) + 1 \/ n = Len(topic) + 1
  PROVE  w[f][n] = <<f, n>>
<1>1. Len(filter) \in Nat /\ Len(topic) \in Nat BY LenProperties
<1>2. f > Len(filter) \/ n > Len(topic) BY <1>1
<1>3. Stops(filter, topic, f, n) BY <1>2 DEF Stops
<1> QED BY <1>3, WalkStep

\* At a # that is the filter's last, a topic of any further characters matches.
LEMMA HashTakesAll ==
  ASSUME NEW filter \in Seq(Bytes), NEW topic \in Seq(Bytes), NEW w, IsWalk(w, filter, topic),
         NEW n \in 1..Len(topic), Len(filter) >= 1,
         filter[Len(filter)] = Hash, topic[n] # Slash
  PROVE  w[Len(filter)][n] = Outcome(filter, topic)
<1> DEFINE f == Len(filter)
           e == Len(topic)
<1>1. f \in Nat /\ e \in Nat /\ n \in Nat BY LenProperties
<1>2. f \in 1..(f + 1) /\ n \in 1..(e + 1) /\ f + 1 \in 1..(f + 1) /\ e + 1 \in 1..(e + 1)
      /\ ~(f > f) /\ ~(n > e)
  <2> HIDE DEF f, e
  <2>1. f >= 1 /\ n \in 1..e BY DEF f, e
  <2> QED BY <1>1, <2>1
<1>3. w[f][n] = IF Stops(filter, topic, f, n) THEN <<f, n>> ELSE w[f + 1][Onward(filter, topic, f, n)]
  BY <1>2, WalkStep
<1>4. ~Stops(filter, topic, f, n) BY ONLY <1>2, filter[Len(filter)] = Hash, topic[n] # Slash, Zenon DEF Stops
<1>5. Onward(filter, topic, f, n) = e + 1
  <2>1. Hash # Plus BY DEF Hash, Plus
  <2>2. Skip(topic, filter[f], n) = e BY ONLY <2>1, filter[Len(filter)] = Hash, Zenon DEF Skip
  <2> QED BY <2>2, Zenon DEF Onward
<1>6. w[f + 1][e + 1] = <<f + 1, e + 1>> BY <1>2, StopsAtEnd
<1> QED BY <1>3, <1>4, <1>5, <1>6, Zenon DEF Outcome

\* A + takes one level of the topic.
LEMMA PlusTakesLevel ==
  ASSUME NEW filter \in Seq(Bytes), NEW topic \in Seq(Bytes), NEW w, IsWalk(w, filter, topic),
         NEW f \in 1..Len(filter), filter[f] = Plus,
         NEW g, NEW e, Level(topic, g, e), g + 1 < e
  PROVE  w[f][g + 1] = w[f + 1][e]
<1> DEFINE n == g + 1
<1>1. /\ g \in 0..Len(topic) /\ e \in 1..(Len(topic) + 1) /\ g < e
      /\ \A j \in (g + 1)..(e - 1) : j \in 1..Len(topic) /\ topic[j] # Slash
      /\ e <= Len(topic) => topic[e] = Slash
  BY LevelChars
<1>2. Len(topic) \in Nat /\ Len(filter) \in Nat BY LenProperties
<1>3. /\ n \in 1..Len(topic) /\ n \in 1..(Len(topic) + 1) /\ n \in (g + 1)..(e - 1)
      /\ f \in 1..(Len(filter) + 1) /\ ~(f > Len(filter)) /\ ~(n > Len(topic))
      /\ g \in Nat /\ e \in Nat /\ n \in Nat
  BY <1>1, <1>2
<1>4. topic[n] # Slash BY <1>1, <1>3
<1> DEFINE l == LevelEnd(topic, n)
<1>5. /\ l \in n..Len(topic)
      /\ l = Len(topic) \/ topic[l + 1] = Slash
      /\ \A i \in (n + 1)..l : topic[i] # Slash
  BY <1>3, LevelEndIs
<1> HIDE DEF n, l
<1>6. l + 1 = e
  <2>1. l \in Nat BY <1>2, <1>3, <1>5
  <2>2. ~(l + 1 < e)
    <3> SUFFICES ASSUME l + 1 < e PROVE FALSE OBVIOUS
    <3>1. l + 1 \in (g + 1)..(e - 1) /\ l # Len(topic)
      BY <1>1, <1>2, <1>3, <1>5, <2>1 DEF n
    <3> QED BY <1>1, <1>5, <3>1
  <2>3. ~(e < l + 1)
    <3> SUFFICES ASSUME e < l + 1 PROVE FALSE OBVIOUS
    <3>1. e \in (n + 1)..l /\ e <= Len(topic) BY <1>1, <1>2, <1>3, <1>5, <2>1 DEF n
    <3> QED BY <1>1, <1>5, <3>1
  <2> QED BY ONLY <1>3, <2>1, <2>2, <2>3
<1>7. w[f][n] = IF Stops(filter, topic, f, n) THEN <<f, n>> ELSE w[f + 1][Onward(filter, topic, f, n)]
  BY <1>3, WalkStep
<1>8. ~Stops(filter, topic, f, n) BY ONLY <1>3, <1>4, filter[f] = Plus, Zenon DEF Stops
<1>9. Onward(filter, topic, f, n) = e
  <2>1. Skip(topic, filter[f], n) = l BY ONLY filter[f] = Plus, Zenon DEF Skip, l
  <2> QED BY <1>6, <2>1, Zenon DEF Onward
<1> QED BY <1>7, <1>8, <1>9, Zenon DEF n

\* A level without wildcards that is the topic's leads to the ends of both.
LEMMA SameLevelPassed ==
  ASSUME NEW filter \in Seq(Bytes), NEW topic \in Seq(Bytes), NEW w, IsWalk(w, filter, topic),
         NEW c, NEW d, Level(filter, c, d), NEW g, NEW e, Level(topic, g, e),
         \A i \in (c + 1)..(d - 1) : filter[i] \notin {Plus, Hash},
         SameText(filter, c, d, topic, g, e)
  PROVE  w[c + 1][g + 1] = w[d][e]
<1>1. c \in 0..Len(filter) /\ d \in 1..(Len(filter) + 1) /\ c < d BY LevelChars
<1>2. g \in 0..Len(topic) /\ e \in 1..(Len(topic) + 1) /\ g < e BY LevelChars
<1>3. Len(topic) \in Nat /\ Len(filter) \in Nat BY LenProperties
<1>4. c \in Nat /\ d \in Nat /\ g \in Nat /\ e \in Nat BY <1>1, <1>2
<1>5. d - c = e - g /\ \A i \in 1..(d - 1 - c) : filter[c + i] = topic[g + i] BY DEF SameText
<1> DEFINE m == d - 1 - c
<1>6. /\ m \in Nat /\ (c + 1) + m = d /\ (g + 1) + m = e
      /\ c + 1 \in 1..(Len(filter) + 1) /\ g + 1 \in 1..(Len(topic) + 1)
      /\ (c + 1) + m <= Len(filter) + 1 /\ (g + 1) + m <= Len(topic) + 1
  BY <1>1, <1>2, <1>3, <1>4, <1>5
<1>7. ASSUME NEW i \in 0..(m - 1)
      PROVE  filter[(c + 1) + i] = topic[(g + 1) + i] /\ filter[(c + 1) + i] \notin {Plus, Hash}
  <2>1. /\ i + 1 \in 1..(d - 1 - c) /\ (c + 1) + i \in (c + 1)..(d - 1)
        /\ (c + 1) + i = c + (i + 1) /\ (g + 1) + i = g + (i + 1)
    BY <1>4, <1>6
  <2> QED BY <1>5, <2>1
<1> HIDE DEF m
<1>8. w[c + 1][g + 1] = w[(c + 1) + m][(g + 1) + m]
  <2> DEFINE x == c + 1
             y == g + 1
  <2>1. SameNext(w, filter, x, topic, y, m) BY <1>6, <1>7 DEF SameNext
  <2> HIDE DEF x, y
  <2>2. w[x][y] = w[x + m][y + m] BY ONLY <2>1, RunsOn
  <2> QED BY ONLY <2>2 DEF x, y
<1> QED BY <1>6, <1>8, Zenon

\* At a level without wildcards that is not the topic's, the walk ends too early.
LEMMA OtherLevelStops ==
  ASSUME NEW filter \in Seq(Bytes), NEW topic \in Seq(Bytes), NEW w, IsWalk(w, filter, topic),
         NEW c, NEW d, Level(filter, c, d), NEW g, NEW e, Level(topic, g, e),
         \A i \in (c + 1)..(d - 1) : filter[i] \notin {Plus, Hash},
         ~SameText(filter, c, d, topic, g, e)
  PROVE  w[c + 1][g + 1] # Outcome(filter, topic)
<1>1. /\ c \in 0..Len(filter) /\ d \in 1..(Len(filter) + 1) /\ c < d
      /\ \A i \in (c + 1)..(d - 1) : i \in 1..Len(filter) /\ filter[i] # Slash
      /\ d <= Len(filter) => filter[d] = Slash
  BY LevelChars
<1>2. /\ g \in 0..Len(topic) /\ e \in 1..(Len(topic) + 1) /\ g < e
      /\ \A i \in (g + 1)..(e - 1) : i \in 1..Len(topic) /\ topic[i] # Slash
      /\ e <= Len(topic) => topic[e] = Slash
  BY LevelChars
<1>3. Len(topic) \in Nat /\ Len(filter) \in Nat BY LenProperties
<1>4. c \in Nat /\ d \in Nat /\ g \in Nat /\ e \in Nat BY <1>1, <1>2
<1> DEFINE S == {i \in Nat : \/ (c + 1) + i >= d \/ (g + 1) + i >= e
                             \/ filter[(c + 1) + i] # topic[(g + 1) + i]}
<1>5. S \subseteq Nat /\ S # {}
  <2>1. d \in S BY <1>4
  <2> QED BY <2>1
<1>6. PICK m \in S : \A x \in S : m <= x
  <2> HIDE DEF S
  <2> QED BY <1>5, LeastIs
<1> DEFINE f == (c + 1) + m
           n == (g + 1) + m
<1>7. m \in Nat /\ (f >= d \/ n >= e \/ filter[f] # topic[n]) BY <1>6
<1>8. ASSUME NEW i \in Nat, i < m
      PROVE  (c + 1) + i < d /\ (g + 1) + i < e /\ filter[(c + 1) + i] = topic[(g + 1) + i]
  <2>1. i \notin S BY <1>6, <1>7, <1>8
  <2> QED BY <1>4, <2>1
<1> HIDE DEF S
<1>9. f <= d /\ n <= e
  <2>1. CASE m = 0 BY <1>1, <1>2, <1>4, <2>1
  <2>2. CASE m # 0
    <3>1. m - 1 \in Nat /\ m - 1 < m BY <1>7, <2>2
    <3>2. (c + 1) + (m - 1) < d /\ (g + 1) + (m - 1) < e BY <1>8, <3>1
    <3> QED BY <1>4, <1>7, <3>2
  <2> QED BY <2>1, <2>2
<1>10. /\ f \in 1..(Len(filter) + 1) /\ n \in 1..(Len(topic) + 1)
       /\ c + 1 \in 1..(Len(filter) + 1) /\ g + 1 \in 1..(Len(topic) + 1)
       /\ f <= Len(filter) + 1 /\ n <= Len(topic) + 1 /\ f \in Nat /\ n \in Nat
  BY <1>1, <1>2, <1>3, <1>4, <1>7, <1>9
<1>11. ASSUME NEW i \in 0..(m - 1)
       PROVE  filter[(c + 1) + i] = topic[(g + 1) + i] /\ filter[(c + 1) + i] \notin {Plus, Hash}
  <2>1. i \in Nat /\ i < m BY <1>7
  <2>2. (c + 1) + i < d /\ filter[(c + 1) + i] = topic[(g + 1) + i] BY <1>8, <2>1
  <2>3. (c + 1) + i \in (c + 1)..(d - 1) BY <1>4, <2>1, <2>2
  <2> QED BY <2>2, <2>3
<1>12. w[c + 1][g + 1] = w[f][n]
  <2> DEFINE x == c + 1
             y == g + 1
  <2>1. SameNext(w, filter, x, topic, y, m) BY <1>7, <1>10, <1>11 DEF SameNext
  <2> HIDE DEF x, y
  <2>2. w[x][y] = w[x + m][y + m] BY ONLY <2>1, RunsOn
  <2> QED BY ONLY <2>2 DEF x, y, f, n
<1>13. f = d => n < e
  <2> SUFFICES ASSUME f = d, ~(n < e) PROVE FALSE OBVIOUS
  <2>1. n = e BY <1>4, <1>9, <1>10
  <2>2. d - c = e - g BY <1>4, <1>7, <2>1
  <2>3. ASSUME NEW i \in 1..(d - 1 - c) PROVE filter[c + i] = topic[g + i]
    <3>1. /\ i - 1 \in Nat /\ i - 1 < m /\ (c + 1) + (i - 1) = c + i /\ (g + 1) + (i - 1) = g + i
      BY <1>4, <1>7
    <3>2. filter[(c + 1) + (i - 1)] = topic[(g + 1) + (i - 1)] BY <1>8, <3>1
    <3> QED BY <3>1, <3>2
  <2> QED BY <2>2, <2>3 DEF SameText
<1>14. f < d => f \in (c + 1)..(d - 1) BY <1>4, <1>7
<1>15. n < e => n \in (g + 1)..(e - 1) BY <1>4, <1>7
<1> HIDE DEF f, n
<1>16. Stops(filter, topic, f, n) /\ (f # Len(filter) + 1 \/ n # Len(topic) + 1)
  <2>1. CASE f = d
    <3>1. n \in 1..Len(topic) /\ topic[n] # Slash BY <1>2, <1>13, <1>15, <2>1
    <3>2. n # Len(topic) + 1 BY <1>3, <3>1
    <3>3. CASE d = Len(filter) + 1
      <4>1. f > Len(filter) BY <1>3, <2>1, <3>3
      <4> QED BY <3>2, <4>1 DEF Stops
    <3>4. CASE d # Len(filter) + 1
      <4>1. filter[f] = Slash BY <1>1, <1>3, <1>4, <2>1, <3>4
      <4>2. filter[f] \notin {Plus, Hash, topic[n]} BY <3>1, <4>1 DEF Slash, Plus, Hash
      <4> QED BY <3>2, <4>2 DEF Stops
    <3> QED BY <3>3, <3>4
  <2>2. CASE f # d
    <3>1. f < d BY <1>4, <1>9, <1>10, <2>2
    <3>2. f \in (c + 1)..(d - 1) BY <1>14, <3>1
    <3>3. f \in 1..Len(filter) /\ filter[f] # Slash /\ filter[f] \notin {Plus, Hash} BY <1>1, <3>2
    <3>4. f # Len(filter) + 1 BY <1>3, <3>3
    <3>5. CASE n = e
      <4>1. n > Len(topic) \/ topic[n] = Slash BY <1>2, <1>3, <1>4, <3>5
      <4> QED BY <3>3, <3>4, <4>1 DEF Stops
    <3>6. CASE n # e
      <4>1. filter[f] # topic[n] BY <1>4, <1>7, <1>9, <1>10, <3>1, <3>6
      <4>2. filter[f] \notin {Plus, Hash, topic[n]} BY <3>3, <4>1
      <4> QED BY <3>4, <4>2 DEF Stops
    <3> QED BY <3>5, <3>6
  <2> QED BY <2>1, <2>2
<1>17. w[f][n] = <<f, n>> BY <1>10, <1>16, WalkStep
<1> QED BY <1>12, <1>16, <1>17 DEF Outcome

(***************************************************************************)
(* Levels from k on.                                                       *)
(***************************************************************************)
CoversFrom(filter, topic, k) ==
  LET hash == LevelNo(filter, Depth(filter)) = <<Hash>>
      fixed == IF hash THEN Depth(filter) - 1 ELSE Depth(filter)
  IN /\ IF hash THEN Depth(topic) > fixed ELSE Depth(topic) = fixed
     /\ \A j \in k..fixed : LevelNo(filter, j) \in {<<Plus>>, LevelNo(topic, j)}

\* What one level says of all that follow.
LEMMA CoversCases ==
  ASSUME NEW filter, NEW topic, NEW k \in Nat, Depth(filter) \in Nat, Depth(topic) \in Nat,
         k <= Depth(filter), k <= Depth(topic)
  PROVE  /\ LevelNo(filter, k) = <<Hash>> /\ k = Depth(filter) => CoversFrom(filter, topic, k)
         /\ LevelNo(filter, k) # <<Hash>> =>
              /\ LevelNo(filter, k) \notin {<<Plus>>, LevelNo(topic, k)} => ~CoversFrom(filter, topic, k)
              /\ LevelNo(filter, k) \in {<<Plus>>, LevelNo(topic, k)} =>
                   /\ k = Depth(filter) => (CoversFrom(filter, topic, k) <=> Depth(topic) = k)
                   /\ k < Depth(filter) /\ k = Depth(topic) => ~CoversFrom(filter, topic, k)
                   /\ k < Depth(filter) => (CoversFrom(filter, topic, k) <=> CoversFrom(filter, topic, k + 1))
<1> DEFINE df == Depth(filter)
           dt == Depth(topic)
           hash == LevelNo(filter, df) = <<Hash>>
           fixed == IF hash THEN df - 1 ELSE df
           good(j) == LevelNo(filter, j) \in {<<Plus>>, LevelNo(topic, j)}
           depths == IF hash THEN dt > fixed ELSE dt = fixed
<1>1. \A i : CoversFrom(filter, topic, i) <=> depths /\ \A j \in i..fixed : good(j)
  BY DEF CoversFrom
<1>2. df \in Nat /\ dt \in Nat /\ k <= df /\ k <= dt OBVIOUS
<1>3. hash => fixed = df - 1 OBVIOUS
<1>4. ~hash => fixed = df OBVIOUS
<1>5. hash => (depths <=> dt > fixed) OBVIOUS
<1>6. ~hash => (depths <=> dt = fixed) OBVIOUS
<1>7. LevelNo(filter, k) # <<Hash>> => k # df \/ ~hash OBVIOUS
<1>8. LevelNo(filter, k) = <<Hash>> /\ k = df => hash OBVIOUS
<1>9. good(k) <=> LevelNo(filter, k) \in {<<Plus>>, LevelNo(topic, k)} OBVIOUS
<1> DEFINE here == LevelNo(filter, k) = <<Hash>>
<1> HIDE DEF df, dt, hash, fixed, good, depths, here
<1>10. here /\ k = df => CoversFrom(filter, topic, k)
  <2> SUFFICES ASSUME here, k = df PROVE CoversFrom(filter, topic, k) OBVIOUS
  <2>1. hash BY <1>8 DEF here
  <2>2. depths /\ k..fixed = {} BY <1>2, <1>3, <1>5, <2>1
  <2> QED BY <1>1, <2>2
<1>11. ASSUME ~here
       PROVE  fixed \in Nat /\ k <= fixed
  <2>1. k # df \/ ~hash BY <1>7, <1>11 DEF here
  <2> QED BY <1>2, <1>3, <1>4, <2>1
<1>12. ~here /\ ~good(k) => ~CoversFrom(filter, topic, k)
  <2> SUFFICES ASSUME ~here, ~good(k), CoversFrom(filter, topic, k) PROVE FALSE OBVIOUS
  <2>1. k \in k..fixed BY <1>11
  <2> QED BY <1>1, <2>1
<1>13. ~here /\ good(k) /\ k = df => (CoversFrom(filter, topic, k) <=> dt = k)
  <2> SUFFICES ASSUME ~here, good(k), k = df PROVE CoversFrom(filter, topic, k) <=> dt = k OBVIOUS
  <2>1. ~hash /\ fixed = k BY <1>4, <1>7 DEF here
  <2>2. k..fixed = {k} BY <2>1
  <2> QED BY <1>1, <1>6, <2>1, <2>2
<1>14. ~here /\ k < df /\ k = dt => ~CoversFrom(filter, topic, k)
  <2> SUFFICES ASSUME ~here, k < df, k = dt, CoversFrom(filter, topic, k) PROVE FALSE OBVIOUS
  <2>1. depths BY <1>1
  <2>2. CASE hash
    <3>1. dt > fixed /\ fixed = df - 1 BY <1>3, <1>5, <2>1, <2>2
    <3> QED BY <1>2, <3>1
  <2>3. CASE ~hash
    <3>1. dt = fixed /\ fixed = df BY <1>4, <1>6, <2>1, <2>3
    <3> QED BY <1>2, <3>1
  <2> QED BY <2>2, <2>3
<1>15. ~here /\ good(k) => (CoversFrom(filter, topic, k) <=> CoversFrom(filter, topic, k + 1))
  <2> SUFFICES ASSUME ~here, good(k)
               PROVE  CoversFrom(filter, topic, k) <=> CoversFrom(filter, topic, k + 1)
    OBVIOUS
  <2>1. k..fixed = {k} \cup (k + 1)..fixed BY <1>11
  <2>2. (\A j \in k..fixed : good(j)) <=> (\A j \in (k + 1)..fixed : good(j)) BY <2>1
  <2> QED BY <1>1, <2>2
<1> QED BY <1>9, <1>10, <1>12, <1>13, <1>14, <1>15 DEF df, dt, here

\* Where the walk is at the same level of both.
Facing(w, filter, topic, c, d, g, e) ==
  /\ ProperFilter(filter) /\ ProperTopic(topic) /\ IsWalk(w, filter, topic)
  /\ Level(filter, c, d) /\ Level(topic, g, e)

LEMMA FacingTypes ==
  ASSUME NEW w, NEW filter, NEW topic, NEW c, NEW d, NEW g, NEW e, Facing(w, filter, topic, c, d, g, e)
  PROVE  /\ filter \in Seq(Bytes) /\ topic \in Seq(Bytes) /\ IsWalk(w, filter, topic)
         /\ Level(filter, c, d) /\ Level(topic, g, e) /\ ProperFilter(filter) /\ ProperTopic(topic)
         /\ Len(filter) \in Nat /\ Len(topic) \in Nat
         /\ c \in 0..Len(filter) /\ d \in 1..(Len(filter) + 1) /\ c < d /\ c \in Nat /\ d \in Nat
         /\ g \in 0..Len(topic) /\ e \in 1..(Len(topic) + 1) /\ g < e /\ g \in Nat /\ e \in Nat
<1>1. /\ filter \in Seq(Bytes) /\ topic \in Seq(Bytes) /\ IsWalk(w, filter, topic)
      /\ Level(filter, c, d) /\ Level(topic, g, e) /\ ProperFilter(filter) /\ ProperTopic(topic)
  BY DEF Facing, ProperFilter, ProperTopic
<1>2. c \in 0..Len(filter) /\ d \in 1..(Len(filter) + 1) /\ c < d BY <1>1, LevelChars
<1>3. g \in 0..Len(topic) /\ e \in 1..(Len(topic) + 1) /\ g < e BY <1>1, LevelChars
<1>4. Len(filter) \in Nat /\ Len(topic) \in Nat BY <1>1, LenProperties
<1>5. c \in Nat /\ d \in Nat BY <1>2
<1>6. g \in Nat /\ e \in Nat BY <1>3
<1> QED BY ONLY <1>1, <1>2, <1>3, <1>4, <1>5, <1>6

\* The characters between two cuts.
Text(s, c, d) == SubSeq(s, c + 1, d - 1)

\* One level: # takes all, + and the topic's level lead to the ends of both, any other ends the walk.
LEMMA LevelDecides ==
  ASSUME NEW w, NEW filter, NEW topic, NEW c, NEW d, NEW g, NEW e, Facing(w, filter, topic, c, d, g, e),
         NEW level, level = Text(filter, c, d), NEW other, other = Text(topic, g, e)
  PROVE  /\ level = <<Hash>> => d = Len(filter) + 1 /\ w[c + 1][g + 1] = Outcome(filter, topic)
         /\ level # <<Hash>> /\ level \in {<<Plus>>, other} => w[c + 1][g + 1] = w[d][e]
         /\ level # <<Hash>> /\ level \notin {<<Plus>>, other} => w[c + 1][g + 1] # Outcome(filter, topic)
<1>0. level = SubSeq(filter, c + 1, d - 1) /\ other = SubSeq(topic, g + 1, e - 1) BY DEF Text
<1>1. /\ filter \in Seq(Bytes) /\ topic \in Seq(Bytes) /\ IsWalk(w, filter, topic)
      /\ Level(filter, c, d) /\ Level(topic, g, e) /\ ProperFilter(filter) /\ ProperTopic(topic)
      /\ Len(filter) \in Nat /\ Len(topic) \in Nat
      /\ c \in 0..Len(filter) /\ d \in 1..(Len(filter) + 1) /\ c < d /\ c \in Nat /\ d \in Nat
      /\ g \in 0..Len(topic) /\ e \in 1..(Len(topic) + 1) /\ g < e /\ g \in Nat /\ e \in Nat
  BY FacingTypes
<1>2. g + 1 < e /\ g + 1 \in 1..Len(topic) /\ topic[g + 1] # Slash BY <1>1, TopicLevelFilled
<1>3. Hash \in Bytes /\ Plus \in Bytes /\ Hash # Plus BY DEF Hash, Plus, Bytes
<1>13. ASSUME NEW x \in Bytes PROVE level = <<x>> <=> d = c + 2 /\ filter[c + 1] = x
  <2>1. filter \in Seq(Bytes) /\ Level(filter, c, d) BY <1>1
  <2>2. SubSeq(filter, c + 1, d - 1) = <<x>> <=> d = c + 2 /\ filter[c + 1] = x
    BY ONLY <2>1, x \in Bytes, OneCharacter, Zenon
  <2> QED BY ONLY <1>0, <2>2
<1>14. \A x \in Bytes : level = <<x>> <=> d = c + 2 /\ filter[c + 1] = x BY ONLY <1>13
<1>4. level = <<Hash>> <=> d = c + 2 /\ filter[c + 1] = Hash BY ONLY <1>3, <1>14, Zenon
<1>5. level = <<Plus>> <=> d = c + 2 /\ filter[c + 1] = Plus BY ONLY <1>3, <1>14, Zenon
<1>6. level = other <=> SameText(filter, c, d, topic, g, e)
  <2>1. filter \in Seq(Bytes) /\ topic \in Seq(Bytes) /\ Level(filter, c, d) /\ Level(topic, g, e) BY <1>1
  <2>2. SubSeq(filter, c + 1, d - 1) = SubSeq(topic, g + 1, e - 1) <=> SameText(filter, c, d, topic, g, e)
    BY ONLY <2>1, TextsEqual, Zenon
  <2> QED BY ONLY <1>0, <2>2, Zenon
<1>7. ASSUME NEW i \in (c + 1)..(d - 1), filter[i] \in {Plus, Hash}
      PROVE  i = c + 1 /\ d = c + 2 /\ (filter[i] = Hash => d = Len(filter) + 1)
  BY <1>1, <1>7, WildAlone
<1>8. ASSUME level = <<Hash>> PROVE d = Len(filter) + 1 /\ w[c + 1][g + 1] = Outcome(filter, topic)
  <2>1. d = c + 2 /\ filter[c + 1] = Hash BY <1>4, <1>8
  <2>2. c + 1 \in (c + 1)..(d - 1) BY <1>1, <2>1
  <2>3. d = Len(filter) + 1 BY <1>7, <2>1, <2>2
  <2>4. c + 1 = Len(filter) /\ Len(filter) >= 1 BY <1>1, <2>1, <2>3
  <2>5. w[Len(filter)][g + 1] = Outcome(filter, topic) BY <1>1, <1>2, <2>1, <2>4, HashTakesAll
  <2> QED BY <2>3, <2>4, <2>5
<1>9. ASSUME level = <<Plus>> PROVE w[c + 1][g + 1] = w[d][e]
  <2>1. d = c + 2 /\ filter[c + 1] = Plus BY <1>5, <1>9
  <2> DEFINE f == c + 1
  <2>2. f \in 1..Len(filter) /\ d = f + 1 /\ filter[f] = Plus BY <1>1, <2>1
  <2> HIDE DEF f
  <2>3. w[f][g + 1] = w[f + 1][e] BY <1>1, <1>2, <2>2, PlusTakesLevel
  <2> QED BY <2>2, <2>3 DEF f
<1>10. ASSUME level # <<Hash>>, level # <<Plus>>
       PROVE  \A i \in (c + 1)..(d - 1) : filter[i] \notin {Plus, Hash}
  <2> SUFFICES ASSUME NEW i \in (c + 1)..(d - 1), filter[i] \in {Plus, Hash} PROVE FALSE OBVIOUS
  <2>1. i = c + 1 /\ d = c + 2 BY <1>7
  <2> QED BY <1>4, <1>5, <1>10, <2>1
<1>11. ASSUME level # <<Hash>>, level # <<Plus>>, level = other PROVE w[c + 1][g + 1] = w[d][e]
  <2>1. SameText(filter, c, d, topic, g, e) BY ONLY <1>6, <1>11
  <2>2. \A i \in (c + 1)..(d - 1) : filter[i] \notin {Plus, Hash} BY ONLY <1>10, <1>11
  <2>3. /\ filter \in Seq(Bytes) /\ topic \in Seq(Bytes) /\ IsWalk(w, filter, topic)
        /\ Level(filter, c, d) /\ Level(topic, g, e)
    BY <1>1
  <2> QED BY ONLY <2>1, <2>2, <2>3, SameLevelPassed
<1>12. ASSUME level # <<Hash>>, level # <<Plus>>, level # other
       PROVE  w[c + 1][g + 1] # Outcome(filter, topic)
  <2>1. ~SameText(filter, c, d, topic, g, e) BY ONLY <1>6, <1>12
  <2>2. \A i \in (c + 1)..(d - 1) : filter[i] \notin {Plus, Hash} BY ONLY <1>10, <1>12
  <2>3. /\ filter \in Seq(Bytes) /\ topic \in Seq(Bytes) /\ IsWalk(w, filter, topic)
        /\ Level(filter, c, d) /\ Level(topic, g, e)
    BY <1>1
  <2> QED BY ONLY <2>1, <2>2, <2>3, OtherLevelStops
<1> QED BY <1>8, <1>9, <1>11, <1>12

\* How many levels there are, seen from one of them.
LEMMA DepthFrom ==
  ASSUME NEW s \in Seq(Bytes), NEW c, NEW d, Level(s, c, d), NEW k, k = Rank(s, c) + 1
  PROVE  /\ k \in Nat /\ Depth(s) \in Nat /\ k <= Depth(s) /\ Rank(s, d) = k
         /\ d = Len(s) + 1 => Depth(s) = k
         /\ d <= Len(s) => k < Depth(s)
<1> DEFINE last == Len(s) + 1
<1>1. Rank(s, c) \in Nat /\ Rank(s, d) = k /\ Rank(s, last) = Depth(s) /\ Rank(s, last) \in Nat
  BY RankIs, RankNext, RankLast
<1>2. d \in Cuts(s) BY DEF Level
<1>3. last \in Cuts(s) BY CutsAre
<1>4. d \in 1..last /\ Len(s) \in Nat BY LevelChars, LenProperties
<1>5. ASSUME d < last PROVE Rank(s, d) < Rank(s, last) BY <1>2, <1>3, <1>5, RankGrows
<1>7. d <= Len(s) => d < last BY <1>4
<1>8. d = last \/ d < last BY <1>4
<1>9. k \in Nat BY <1>1
<1> HIDE DEF last
<1>10. d <= Len(s) => k < Depth(s) BY ONLY <1>1, <1>5, <1>7
<1>11. k <= Depth(s) BY ONLY <1>1, <1>5, <1>8, <1>9
<1> QED BY ONLY <1>1, <1>9, <1>10, <1>11 DEF last

\* The walk from a level on and the levels from that on.
LEMMA OneLevel ==
  ASSUME NEW w, NEW filter, NEW topic, NEW c, NEW d, NEW g, NEW e, Facing(w, filter, topic, c, d, g, e),
         NEW k, k = Rank(filter, c) + 1, k = Rank(topic, g) + 1,
         d <= Len(filter) /\ e <= Len(topic) =>
           (w[d + 1][e + 1] = Outcome(filter, topic) <=> CoversFrom(filter, topic, k + 1))
  PROVE  w[c + 1][g + 1] = Outcome(filter, topic) <=> CoversFrom(filter, topic, k)
<1> DEFINE level == Text(filter, c, d)
           other == Text(topic, g, e)
           covers == CoversFrom(filter, topic, k)
           covers1 == CoversFrom(filter, topic, k + 1)
           found == w[c + 1][g + 1] = Outcome(filter, topic)
<1>1. /\ filter \in Seq(Bytes) /\ topic \in Seq(Bytes) /\ IsWalk(w, filter, topic)
      /\ Level(filter, c, d) /\ Level(topic, g, e) /\ ProperFilter(filter) /\ ProperTopic(topic)
      /\ Len(filter) \in Nat /\ Len(topic) \in Nat
      /\ c \in 0..Len(filter) /\ d \in 1..(Len(filter) + 1) /\ c < d /\ c \in Nat /\ d \in Nat
      /\ g \in 0..Len(topic) /\ e \in 1..(Len(topic) + 1) /\ g < e /\ g \in Nat /\ e \in Nat
  BY FacingTypes
<1>2. /\ k \in Nat /\ Depth(filter) \in Nat /\ k <= Depth(filter)
      /\ d = Len(filter) + 1 => Depth(filter) = k
      /\ d <= Len(filter) => k < Depth(filter)
      /\ LevelNo(filter, k) = level
  <2>1. filter \in Seq(Bytes) /\ Level(filter, c, d) BY <1>1
  <2> HIDE DEF level
  <2>2. LevelNo(filter, k) = SubSeq(filter, c + 1, d - 1)
    BY ONLY <2>1, k = Rank(filter, c) + 1, LevelIs, Zenon
  <2>3. /\ k \in Nat /\ Depth(filter) \in Nat /\ k <= Depth(filter)
        /\ d = Len(filter) + 1 => Depth(filter) = k
        /\ d <= Len(filter) => k < Depth(filter)
    BY ONLY <2>1, k = Rank(filter, c) + 1, DepthFrom
  <2> QED BY ONLY <2>2, <2>3 DEF level, Text
<1>3. /\ Depth(topic) \in Nat /\ k <= Depth(topic)
      /\ e = Len(topic) + 1 => Depth(topic) = k
      /\ e <= Len(topic) => k < Depth(topic)
      /\ LevelNo(topic, k) = other
  <2>1. topic \in Seq(Bytes) /\ Level(topic, g, e) BY <1>1
  <2> HIDE DEF other
  <2>2. LevelNo(topic, k) = SubSeq(topic, g + 1, e - 1)
    BY ONLY <2>1, k = Rank(topic, g) + 1, LevelIs, Zenon
  <2>3. /\ Depth(topic) \in Nat /\ k <= Depth(topic)
        /\ e = Len(topic) + 1 => Depth(topic) = k
        /\ e <= Len(topic) => k < Depth(topic)
    BY ONLY <2>1, k = Rank(topic, g) + 1, DepthFrom
  <2> QED BY ONLY <2>2, <2>3 DEF other, Text
<1>4. /\ level = <<Hash>> => d = Len(filter) + 1 /\ found
      /\ level # <<Hash>> /\ level \in {<<Plus>>, other} => w[c + 1][g + 1] = w[d][e]
      /\ level # <<Hash>> /\ level \notin {<<Plus>>, other} => ~found
  <2>1. level = Text(filter, c, d) /\ other = Text(topic, g, e) OBVIOUS
  <2> HIDE DEF level, other
  <2> QED BY ONLY Facing(w, filter, topic, c, d, g, e), <2>1, LevelDecides
<1>5. /\ LevelNo(filter, k) = <<Hash>> /\ k = Depth(filter) => covers
      /\ LevelNo(filter, k) # <<Hash>> =>
              /\ LevelNo(filter, k) \notin {<<Plus>>, LevelNo(topic, k)} => ~covers
              /\ LevelNo(filter, k) \in {<<Plus>>, LevelNo(topic, k)} =>
                   /\ k = Depth(filter) => (covers <=> Depth(topic) = k)
                   /\ k < Depth(filter) /\ k = Depth(topic) => ~covers
                   /\ k < Depth(filter) => (covers <=> covers1)
  BY ONLY <1>2, <1>3, CoversCases
<1>6. /\ level = <<Hash>> /\ k = Depth(filter) => covers
      /\ level # <<Hash>> /\ level \notin {<<Plus>>, other} => ~covers
      /\ level # <<Hash>> /\ level \in {<<Plus>>, other} =>
                   /\ k = Depth(filter) => (covers <=> Depth(topic) = k)
                   /\ k < Depth(filter) /\ k = Depth(topic) => ~covers
                   /\ k < Depth(filter) => (covers <=> covers1)
  BY ONLY <1>2, <1>3, <1>5, Zenon
<1> HIDE DEF level, other, covers, covers1
<1>7. CASE level = <<Hash>>
  <2>1. found /\ d = Len(filter) + 1 BY <1>4, <1>7
  <2>2. covers BY ONLY <1>2, <1>6, <1>7, <2>1
  <2> QED BY <2>1, <2>2 DEF covers
<1>8. CASE level # <<Hash>> /\ level \notin {<<Plus>>, other}
  <2>1. ~found BY ONLY <1>4, <1>8
  <2>2. ~covers BY ONLY <1>6, <1>8
  <2> QED BY <2>1, <2>2 DEF covers
<1>9. CASE level # <<Hash>> /\ level \in {<<Plus>>, other}
  <2>1. w[c + 1][g + 1] = w[d][e] BY ONLY <1>4, <1>9
  <2>2. /\ k = Depth(filter) => (covers <=> Depth(topic) = k)
        /\ k < Depth(filter) /\ k = Depth(topic) => ~covers
        /\ k < Depth(filter) => (covers <=> covers1)
    BY ONLY <1>6, <1>9
  <2>3. (d = Len(filter) + 1 \/ d <= Len(filter)) /\ (e = Len(topic) + 1 \/ e <= Len(topic)) BY <1>1
  <2>4. CASE d = Len(filter) + 1
    <3>1. w[d][e] = <<d, e>> BY <1>1, <2>4, StopsAtEnd
    <3>2. found <=> e = Len(topic) + 1 BY <2>1, <2>4, <3>1 DEF Outcome
    <3>3. k = Depth(filter) BY <1>2, <2>4
    <3>4. Depth(topic) = k <=> e = Len(topic) + 1
      <4>1. ASSUME e <= Len(topic) PROVE Depth(topic) # k /\ e # Len(topic) + 1
        <5>1. k < Depth(topic) BY <1>3, <4>1
        <5>2. Depth(topic) # k BY ONLY <1>2, <1>3, <5>1
        <5>3. e # Len(topic) + 1 BY <1>1, <4>1
        <5> QED BY <5>2, <5>3
      <4> QED BY <1>3, <2>3, <4>1
    <3>5. covers <=> found BY ONLY <2>2, <3>2, <3>3, <3>4
    <3> QED BY ONLY <3>5 DEF covers
  <2>5. CASE d <= Len(filter) /\ e = Len(topic) + 1
    <3>1. w[d][e] = <<d, e>> BY <1>1, <2>5, StopsAtEnd
    <3>2. d # Len(filter) + 1 BY <1>1, <2>5
    <3>3. ~found BY <2>1, <3>1, <3>2 DEF Outcome
    <3>4. k < Depth(filter) /\ k = Depth(topic) BY <1>2, <1>3, <2>5
    <3>5. ~covers BY <2>2, <3>4
    <3> QED BY <3>3, <3>5 DEF covers
  <2>6. CASE d <= Len(filter) /\ e <= Len(topic)
    <3>1. filter[d] = Slash BY <1>1, <2>6, LevelChars
    <3>2. topic[e] = Slash BY <1>1, <2>6, LevelChars
    <3>3. SameNext(w, filter, d, topic, e, 1)
      <4>1. \A i \in 0..(1 - 1) : d + i = d /\ e + i = e BY <1>1
      <4>2. d + 1 <= Len(filter) + 1 /\ e + 1 <= Len(topic) + 1 /\ 1 \in Nat BY <1>1, <2>6
      <4>3. \A i \in 0..(1 - 1) : filter[d + i] = topic[e + i] /\ filter[d + i] \notin {Plus, Hash}
        BY <3>1, <3>2, <4>1 DEF Slash, Plus, Hash
      <4> QED BY ONLY <1>1, <4>2, <4>3 DEF SameNext
    <3>4. w[d][e] = w[d + 1][e + 1] BY <3>3, RunsOn
    <3>5. found <=> covers1 BY <2>1, <2>6, <3>4 DEF covers1
    <3>6. k < Depth(filter) BY <1>2, <2>6
    <3>7. covers <=> found BY ONLY <2>2, <3>5, <3>6
    <3> QED BY ONLY <3>7 DEF covers
  <2> QED BY <2>3, <2>4, <2>5, <2>6
<1> QED BY <1>7, <1>8, <1>9

\* From every level on, by induction over the characters behind it.
LEMMA WalkCovers ==
  ASSUME NEW filter, NEW topic, NEW w, ProperFilter(filter), ProperTopic(topic), IsWalk(w, filter, topic)
  PROVE  w[1][1] = Outcome(filter, topic) <=> CoversFrom(filter, topic, 1)
<1> DEFINE Agree(c, g) ==
             w[c + 1][g + 1] = Outcome(filter, topic) <=> CoversFrom(filter, topic, Rank(filter, c) + 1)
           K == {n \in Nat : \A c \in Cuts(filter), g \in Cuts(topic) :
                   /\ Len(filter) - c < n /\ c <= Len(filter) /\ g <= Len(topic)
                   /\ Rank(filter, c) = Rank(topic, g)
                   => Agree(c, g)}
<1>1. /\ filter \in Seq(Bytes) /\ topic \in Seq(Bytes) /\ Len(filter) \in Nat /\ Len(topic) \in Nat
      /\ Cuts(filter) \subseteq Nat /\ Cuts(topic) \subseteq Nat /\ 0 \in Cuts(filter) /\ 0 \in Cuts(topic)
  BY LenProperties, CutsAre DEF ProperFilter, ProperTopic
<1>2. 0 \in K
  <2> HIDE DEF Agree
  <2>1. \A c \in Cuts(filter) : ~(Len(filter) - c < 0 /\ c <= Len(filter)) BY <1>1
  <2> QED BY <2>1
<1>3. ASSUME NEW n \in K PROVE n + 1 \in K
  <2> SUFFICES ASSUME NEW c \in Cuts(filter), NEW g \in Cuts(topic),
                      Len(filter) - c < n + 1, c <= Len(filter), g <= Len(topic),
                      Rank(filter, c) = Rank(topic, g)
               PROVE  Agree(c, g)
    <3> HIDE DEF Agree
    <3>1. n + 1 \in Nat OBVIOUS
    <3> QED BY <3>1
  <2>1. PICK d \in Cuts(filter) : Level(filter, c, d) BY <1>1, LevelAfter
  <2>2. PICK e \in Cuts(topic) : Level(topic, g, e) BY <1>1, LevelAfter
  <2>3. Facing(w, filter, topic, c, d, g, e) BY <2>1, <2>2 DEF Facing
  <2> DEFINE k == Rank(filter, c) + 1
  <2>4. Rank(filter, d) = k /\ Rank(topic, e) = k BY <1>1, <2>1, <2>2, RankNext
  <2>5. ASSUME d <= Len(filter), e <= Len(topic) PROVE Agree(d, e)
    <3>1. n \in Nat /\ c \in Nat /\ d \in Nat /\ c < d BY <1>1, <2>1 DEF Level
    <3>2. Len(filter) - d < n BY <1>1, <3>1
    <3> HIDE DEF Agree
    <3> QED BY <2>4, <2>5, <3>2
  <2>6. d <= Len(filter) /\ e <= Len(topic) =>
           (w[d + 1][e + 1] = Outcome(filter, topic) <=> CoversFrom(filter, topic, k + 1))
    BY ONLY <2>4, <2>5, Zenon
  <2>7. k = Rank(topic, g) + 1 OBVIOUS
  <2>8. w[c + 1][g + 1] = Outcome(filter, topic) <=> CoversFrom(filter, topic, k)
    <3> HIDE DEF k
    <3>1. k = Rank(filter, c) + 1 BY DEF k
    <3> QED BY ONLY <2>3, <2>6, <2>7, <3>1, OneLevel
  <2> QED BY ONLY <2>8
<1>4. Len(filter) + 1 \in K
  <2>1. K \subseteq Nat /\ \A n \in K : n + 1 \in K BY ONLY <1>3
  <2>2. Len(filter) + 1 \in Nat BY <1>1
  <2> HIDE DEF K
  <2> QED BY ONLY <1>2, <2>1, <2>2, NatInd
<1>5. Rank(filter, 0) = 0 /\ Rank(topic, 0) = 0 BY <1>1, RankFirst
<1>6. Agree(0, 0)
  <2>1. Len(filter) - 0 < Len(filter) + 1 /\ 0 <= Len(filter) /\ 0 <= Len(topic) BY <1>1
  <2> HIDE DEF Agree
  <2> QED BY <1>1, <1>4, <1>5, <2>1
<1>7. 0 + 1 = 1 OBVIOUS
<1> QED BY ONLY <1>5, <1>6, <1>7, Zenon

\* A filter covers itself.
LEMMA CoversItself ==
  ASSUME NEW filter \in Seq(Bytes)
  PROVE  Covers(filter, filter)
<1>1. Depth(filter) \in Nat BY RankIs, RankLast
<1>2. Depth(filter) > Depth(filter) - 1 BY <1>1
<1> QED BY <1>2, Zenon DEF Covers

(***************************************************************************)
(* isTopicMatched and MQTTPacket_equals, as deliverMessage of MQTT::Client *)
(* and of MQTTClient-C calls them, find a filter for a topic if and only   *)
(* if it covers the topic level by level, for every filter and topic of    *)
(* the format that the comment in isTopicMatched assumes.                  *)
(***************************************************************************)
THEOREM MatchesLevelByLevel ==
  ASSUME NEW filter, NEW topic, ProperFilter(filter), ProperTopic(topic)
  PROVE  Matches(filter, topic) <=> Covers(filter, topic)
<1>1. filter \in Seq(Bytes) /\ topic \in Seq(Bytes) BY DEF ProperFilter, ProperTopic
<1>2. PICK w : IsWalk(w, filter, topic) /\ isTopicMatched(filter, topic) = (w[1][1] = Outcome(filter, topic))
  BY <1>1, WalkFound
<1>3. w[1][1] = Outcome(filter, topic) <=> CoversFrom(filter, topic, 1) BY <1>2, WalkCovers
<1>4. CoversFrom(filter, topic, 1) <=> Covers(filter, topic) BY Zenon DEF CoversFrom, Covers
<1>5. isTopicMatched(filter, topic) <=> Covers(filter, topic) BY ONLY <1>2, <1>3, <1>4, Zenon
<1>6. MQTTPacket_equals(topic, filter) => Covers(filter, topic) BY <1>1, CoversItself, Zenon DEF MQTTPacket_equals
<1> QED BY <1>5, <1>6, Zenon DEF Matches

\* Every handler of a client that subscribes in this format gets the messages on the topics
\* that its filter covers, and no others, whatever else it has read: deliverMessage of
\* MQTT::Client and of MQTTClient-C tests a topic that readPacket has brought.
THEOREM DeliversAsSubscribed ==
  ASSUME \A f \in Filters : ProperFilter(f),
         \A r \in Readers : \A ps \in Streams(r) :
           \A i \in DOMAIN ps : ps[i].type = PUBLISH => ProperTopic(ps[i].topic)
  PROVE  Spec => []DeliveredAsSubscribed
<1> DEFINE Proper == \A i \in DOMAIN sent : sent[i].type = PUBLISH => ProperTopic(sent[i].topic)
<1>1. Init => Proper BY DEF Init
<1>2. Proper /\ [Next]_vars => Proper'
  <2> SUFFICES ASSUME Proper, [Next]_vars PROVE Proper' OBVIOUS
  <2>1. sent' = sent
    BY DEF Next, Arrive, TimePasses, Begin, NoHeader, HeaderByte, Digit, NoDigit, Body, NoBody, Ends,
           given, vars
  <2> QED BY <2>1
<1>3. RInv /\ Proper => DeliveredAsSubscribed
  <2> SUFFICES ASSUME RInv, Proper, ~broken, got # <<>>, got[Len(got)].rc = PUBLISH, NEW f \in Filters
               PROVE  Matches(f, got[Len(got)].p.topic) <=> Covers(f, got[Len(got)].p.topic)
    BY DEF DeliveredAsSubscribed
  <2> DEFINE last == got[Len(got)]
             n == Len(PacketsRead)
  <2>1. sent \in Seq(Packets) /\ GotInStep BY DEF RInv, InStep
  <2>2. /\ got \in Seq(Results) /\ n <= Len(sent)
        /\ \A i \in 1..n : PacketsRead[i].p = sent[i] /\ PacketsRead[i].rc = sent[i].type
    BY <2>1 DEF GotInStep
  <2>3. last.p # NoPacket
    <3>1. Len(got) \in 1..Len(got) BY <2>2, EmptySeq
    <3>2. last \in Results BY ONLY <2>2, <3>1, ElementOfSeq
    <3> QED BY <3>2 DEF Results
  <2>4. n \in Nat /\ n >= 1 /\ PacketsRead[n] = last
    BY ONLY <2>2, <2>3, got # <<>>, LastRead, PacketsReadType
  <2> HIDE DEF last, n
  <2>5. Len(sent) \in Nat /\ DOMAIN sent = 1..Len(sent) BY <2>1, LenProperties
  <2>6. n \in 1..n /\ n \in DOMAIN sent BY ONLY <2>2, <2>4, <2>5
  <2>7. last.p = sent[n] /\ last.rc = sent[n].type BY ONLY <2>2, <2>4, <2>6
  <2>8. last.rc = PUBLISH BY DEF last
  <2>9. ProperTopic(last.p.topic) BY <2>6, <2>7, <2>8
  <2>10. Matches(f, last.p.topic) <=> Covers(f, last.p.topic) BY <2>9, MatchesLevelByLevel
  <2> QED BY ONLY <2>10 DEF last
<1> HIDE DEF Proper
<1> QED BY <1>1, <1>2, <1>3, RInvHolds, PTL DEF Spec

===============================================================================
