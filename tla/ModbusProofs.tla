----------------------------- MODULE ModbusProofs -----------------------------
(***************************************************************************)
(* The Modbus client and its servers, for every memory, payload, fault of  *)
(* the line and number of calls: the types of what they hold, of what is   *)
(* on the line and of what a call ends in; and over TCP, where no frame is *)
(* cut, that a call returns the answer to its own request, that a write is *)
(* reported only once it is made and made only if it was asked for, and    *)
(* that every call is answered when nothing fails.                         *)
(***************************************************************************)
EXTENDS ModbusSystem, SequenceTheorems, WellFoundedInduction, TLAPS

(***************************************************************************)
(* Bytes and words.                                                        *)
(***************************************************************************)
LEMMA Max16 == UINT16_MAX \in Nat /\ UINT16_MAX = 65535
BY SMT DEF UINT16_MAX

LEMMA Max16Nat == UINT16_MAX \in Nat
BY Max16

LEMMA InWords16 ==
  /\ \A v \in Nat : v <= UINT16_MAX => v \in Words16
  /\ \A v \in Words16 : v \in Nat /\ v <= UINT16_MAX
BY Max16Nat DEF Words16

LEMMA InBytes ==
  /\ \A v \in Nat : v <= 255 => v \in Bytes
  /\ \A v \in Bytes : v \in Nat /\ v <= 255
BY DEF Bytes

LEMMA WordParts ==
  ASSUME NEW v \in Nat, v <= UINT16_MAX
  PROVE  /\ v \div 256 \in Nat /\ v \div 256 <= 255
         /\ v % 256 \in Nat /\ v % 256 <= 255
         /\ 256 * (v \div 256) + (v % 256) = v
BY Max16, SMT

LEMMA WordType ==
  ASSUME NEW v \in Words16
  PROVE  /\ Word(v) \in Seq(Bytes) /\ Len(Word(v)) = 2
         /\ Word(v)[1] \in Bytes /\ Word(v)[2] \in Bytes
         /\ 256 * Word(v)[1] + Word(v)[2] = v
<1> DEFINE h == v \div 256
           l == v % 256
<1>1. h \in Bytes /\ l \in Bytes /\ 256 * h + l = v BY InWords16, InBytes, WordParts
<1>2. Word(v) = <<h, l>> BY DEF Word
<1> HIDE DEF h, l
<1> QED BY <1>1, <1>2

LEMMA WordAtType ==
  ASSUME NEW b \in Seq(Bytes), NEW i \in 1..(Len(b) - 1)
  PROVE  WordAt(b, i) \in Words16
<1> DEFINE h == b[i]
           l == b[i + 1]
<1>1. i \in 1..Len(b) /\ i + 1 \in 1..Len(b) OBVIOUS
<1>2. h \in Bytes /\ l \in Bytes BY <1>1, ElementOfSeq
<1>3. WordAt(b, i) = 256 * h + l BY DEF WordAt
<1> HIDE DEF h, l
<1>4. h \in Nat /\ l \in Nat /\ h <= 255 /\ l <= 255 BY ONLY <1>2, InBytes
<1>5. 256 * h + l \in Nat /\ 256 * h + l <= UINT16_MAX BY ONLY <1>4, Max16
<1> QED BY ONLY <1>3, <1>5, InWords16

LEMMA TwoWordsType ==
  ASSUME NEW b \in Seq(Bytes), Len(b) >= 4
  PROVE  WordAt(b, 1) \in Words16 /\ WordAt(b, 3) \in Words16 /\ WordAt(b, 1) \in Nat /\ WordAt(b, 3) \in Nat
<1>1. 1 \in 1..(Len(b) - 1) /\ 3 \in 1..(Len(b) - 1) BY LenProperties
<1>2. WordAt(b, 1) \in Words16 /\ WordAt(b, 3) \in Words16 BY <1>1, WordAtType
<1> QED BY <1>2, InWords16

LEMMA WordsType ==
  ASSUME NEW vs, NEW n \in Nat, DOMAIN vs = 1..n, vs \in Seq(Words16)
  PROVE  Words(vs) \in Seq(Bytes) /\ Len(Words(vs)) = 2 * n
<1>1. Len(vs) = n BY LenProperties
<1>2. Words(vs) = [j \in 1..2 * n |-> Word(vs[(j + 1) \div 2])[2 - (j % 2)]] BY <1>1 DEF Words
<1>3. ASSUME NEW j \in 1..2 * n PROVE Word(vs[(j + 1) \div 2])[2 - (j % 2)] \in Bytes
  <2>1. (j + 1) \div 2 \in 1..n /\ 2 - (j % 2) \in {1, 2} BY SMT
  <2>2. vs[(j + 1) \div 2] \in Words16 BY <2>1, <1>1, ElementOfSeq
  <2> QED BY <2>1, <2>2, WordType
<1>4. 2 * n \in Nat OBVIOUS
<1> QED BY <1>2, <1>3, <1>4, IsASeq

LEMMA PackedType ==
  ASSUME NEW bits \in Seq({0, 1})
  PROVE  Packed(bits) \in Seq(Bytes) /\ Len(Packed(bits)) = BitBytes(Len(bits))
<1> DEFINE bit(i) == IF i <= Len(bits) THEN bits[i] ELSE 0
           n == BitBytes(Len(bits))
           byte(j) == bit(8*j - 7) + 2 * bit(8*j - 6) + 4 * bit(8*j - 5) + 8 * bit(8*j - 4)
                      + 16 * bit(8*j - 3) + 32 * bit(8*j - 2) + 64 * bit(8*j - 1) + 128 * bit(8*j)
<1>1. Packed(bits) = [j \in 1..n |-> byte(j)] BY DEF Packed
<1>2. n \in Nat 
  <2>1. Len(bits) \in Nat BY LenProperties
  <2> QED BY <2>1, SMT DEF BitBytes
<1>3. ASSUME NEW j \in 1..n PROVE byte(j) \in Bytes
  <2>1. \A i \in Nat \ {0} : bit(i) \in {0, 1} BY ElementOfSeq
  <2>2. /\ bit(8*j - 7) \in {0, 1} /\ bit(8*j - 6) \in {0, 1} /\ bit(8*j - 5) \in {0, 1} /\ bit(8*j - 4) \in {0, 1}
        /\ bit(8*j - 3) \in {0, 1} /\ bit(8*j - 2) \in {0, 1} /\ bit(8*j - 1) \in {0, 1} /\ bit(8*j) \in {0, 1}
    <3> HIDE DEF bit
    <3>1. /\ 8*j - 7 \in Nat \ {0} /\ 8*j - 6 \in Nat \ {0} /\ 8*j - 5 \in Nat \ {0} /\ 8*j - 4 \in Nat \ {0}
          /\ 8*j - 3 \in Nat \ {0} /\ 8*j - 2 \in Nat \ {0} /\ 8*j - 1 \in Nat \ {0} /\ 8*j \in Nat \ {0}
      BY <1>2
    <3> QED BY <2>1, <3>1
  <2> DEFINE b0 == bit(8*j - 7) b1 == bit(8*j - 6) b2 == bit(8*j - 5) b3 == bit(8*j - 4)
             b4 == bit(8*j - 3) b5 == bit(8*j - 2) b6 == bit(8*j - 1) b7 == bit(8*j)
  <2>3. byte(j) = b0 + 2 * b1 + 4 * b2 + 8 * b3 + 16 * b4 + 32 * b5 + 64 * b6 + 128 * b7
    OBVIOUS
  <2>4. /\ b0 \in {0, 1} /\ b1 \in {0, 1} /\ b2 \in {0, 1} /\ b3 \in {0, 1}
        /\ b4 \in {0, 1} /\ b5 \in {0, 1} /\ b6 \in {0, 1} /\ b7 \in {0, 1}
    BY ONLY <2>2
  <2> HIDE DEF byte, b0, b1, b2, b3, b4, b5, b6, b7
  <2>5. /\ b0 + 2 * b1 + 4 * b2 + 8 * b3 + 16 * b4 + 32 * b5 + 64 * b6 + 128 * b7 \in Nat
        /\ b0 + 2 * b1 + 4 * b2 + 8 * b3 + 16 * b4 + 32 * b5 + 64 * b6 + 128 * b7 <= 255
    BY ONLY <2>4
  <2> QED BY ONLY <2>3, <2>5, InBytes
<1> HIDE DEF byte, n
<1>4. [j \in 1..n |-> byte(j)] \in Seq(Bytes) /\ Len([j \in 1..n |-> byte(j)]) = n
  BY <1>2, <1>3, IsASeq
<1> QED BY <1>1, <1>4 DEF n

-----------------------------------------------------------------------------
(* Readers.                                                                *)

Errors == {"NONE", "TIMEOUT", "CRC", "INVALID_RESPONSE", "INVALID_UNIT_ID", "INVALID_TCP_MBAP"}
            \cup {Exceptions[i] : i \in DOMAIN Exceptions}
Readers == [err : Errors, buf : Seq(Bytes), in : Seq(Bytes), waits : BOOLEAN]

LEMMA ReaderType == ASSUME NEW in \in Seq(Bytes) PROVE Reader(in) \in Readers /\ Good(Reader(in))
BY DEF Reader, Readers, Errors, Good

LEMMA AReader ==
  ASSUME NEW p \in Readers PROVE p = [err |-> p.err, buf |-> p.buf, in |-> p.in, waits |-> p.waits]
BY DEF Readers

\* A reader from its parts.
Parts(e, b, c, w) == [err |-> e, buf |-> b, in |-> c, waits |-> w]

LEMMA PartsType ==
  ASSUME NEW e \in Errors, NEW b \in Seq(Bytes), NEW c \in Seq(Bytes), NEW w \in BOOLEAN
  PROVE  /\ Parts(e, b, c, w) \in Readers
         /\ Parts(e, b, c, w).err = e /\ Parts(e, b, c, w).buf = b
         /\ Parts(e, b, c, w).in = c /\ Parts(e, b, c, w).waits = w
BY DEF Parts, Readers

LEMMA ReaderParts ==
  ASSUME NEW p \in Readers
  PROVE  /\ p.err \in Errors /\ p.buf \in Seq(Bytes) /\ p.in \in Seq(Bytes) /\ p.waits \in BOOLEAN
         /\ p = Parts(p.err, p.buf, p.in, p.waits)
BY DEF Parts, Readers

LEMMA UpdatedAll ==
  ASSUME NEW p \in Readers, NEW e \in Errors, NEW b \in Seq(Bytes), NEW c \in Seq(Bytes)
  PROVE  [p EXCEPT !.err = e, !.buf = b, !.in = c] = Parts(e, b, c, p.waits)
<1> DEFINE q == [p EXCEPT !.err = e, !.buf = b, !.in = c]
<1>1. q \in Readers BY DEF Readers
<1>2. q.err = e /\ q.buf = b /\ q.in = c /\ q.waits = p.waits BY DEF Readers
<1> HIDE DEF q
<1>3. q = Parts(q.err, q.buf, q.in, q.waits) BY <1>1, ReaderParts
<1> QED BY <1>1, <1>2, <1>3 DEF q

LEMMA UpdatedBoth ==
  ASSUME NEW p \in Readers, NEW b \in Seq(Bytes), NEW c \in Seq(Bytes)
  PROVE  [p EXCEPT !.buf = b, !.in = c] = Parts(p.err, b, c, p.waits)
<1> DEFINE q == [p EXCEPT !.buf = b, !.in = c]
<1>1. q \in Readers BY DEF Readers
<1>2. q.err = p.err /\ q.buf = b /\ q.in = c /\ q.waits = p.waits BY DEF Readers
<1> HIDE DEF q
<1>3. q = Parts(q.err, q.buf, q.in, q.waits) BY <1>1, ReaderParts
<1> QED BY <1>1, <1>2, <1>3 DEF q

LEMMA UpdatedBuf ==
  ASSUME NEW p \in Readers, NEW b \in Seq(Bytes)
  PROVE  [p EXCEPT !.buf = b] = Parts(p.err, b, p.in, p.waits)
<1> DEFINE q == [p EXCEPT !.buf = b]
<1>1. q \in Readers BY DEF Readers
<1>2. q.err = p.err /\ q.buf = b /\ q.in = p.in /\ q.waits = p.waits BY DEF Readers
<1> HIDE DEF q
<1>3. q = Parts(q.err, q.buf, q.in, q.waits) BY <1>1, ReaderParts
<1> QED BY <1>1, <1>2, <1>3 DEF q

LEMMA UpdatedWaits ==
  ASSUME NEW p \in Readers, NEW w \in BOOLEAN
  PROVE  [p EXCEPT !.waits = w] = Parts(p.err, p.buf, p.in, w)
<1> DEFINE q == [p EXCEPT !.waits = w]
<1>1. q \in Readers BY DEF Readers
<1>2. q.err = p.err /\ q.buf = p.buf /\ q.in = p.in /\ q.waits = w BY DEF Readers
<1> HIDE DEF q
<1>3. q = Parts(q.err, q.buf, q.in, q.waits) BY <1>1, ReaderParts
<1> QED BY <1>1, <1>2, <1>3 DEF q

LEMMA UpdatedErr ==
  ASSUME NEW p \in Readers, NEW e \in Errors
  PROVE  Fail(p, e) = Parts(e, p.buf, p.in, p.waits)
<1> DEFINE q == Fail(p, e)
<1>1. q \in Readers BY DEF Readers, Fail
<1>2. q.err = e /\ q.buf = p.buf /\ q.in = p.in /\ q.waits = p.waits BY DEF Readers, Fail
<1> HIDE DEF q
<1>3. q = Parts(q.err, q.buf, q.in, q.waits) BY <1>1, ReaderParts
<1> QED BY <1>1, <1>2, <1>3 DEF q

LEMMA FailType ==
  ASSUME NEW p \in Readers, NEW e \in Errors
  PROVE  /\ Fail(p, e) \in Readers /\ Fail(p, e).err = e
         /\ Fail(p, e).buf = p.buf /\ Fail(p, e).in = p.in /\ Fail(p, e).waits = p.waits
<1>1. Fail(p, e) = Parts(e, p.buf, p.in, p.waits) BY UpdatedErr
<1> QED BY <1>1, ReaderParts, PartsType

\* What recv does when there are too few bytes and when there are enough.
LEMMA RecvShort ==
  ASSUME NEW p \in Readers, NEW n \in Nat, Good(p), Len(p.in) < n
  PROVE  Recv(p, n) = Parts("TIMEOUT", p.buf \o p.in, <<>>, p.waits)
<1>1. p.buf \o p.in \in Seq(Bytes) BY ReaderParts, ConcatProperties
<1>2. Recv(p, n) = [p EXCEPT !.err = "TIMEOUT", !.buf = p.buf \o p.in, !.in = <<>>] BY DEF Recv
<1>3. "TIMEOUT" \in Errors BY DEF Errors
<1>4. <<>> \in Seq(Bytes) /\ TRUE \in BOOLEAN OBVIOUS
<1> DEFINE b == p.buf \o p.in
<1> HIDE DEF b
<1>5. [p EXCEPT !.err = "TIMEOUT", !.buf = b, !.in = <<>>] = Parts("TIMEOUT", b, <<>>, p.waits)
  BY ONLY p \in Readers, <1>1, <1>3, <1>4, UpdatedAll DEF b
<1> QED BY <1>2, <1>5 DEF b

LEMMA RecvEnough ==
  ASSUME NEW p \in Readers, NEW n \in Nat, Good(p), ~(Len(p.in) < n)
  PROVE  /\ SubSeq(p.in, 1, n) \in Seq(Bytes) /\ Len(SubSeq(p.in, 1, n)) = n
         /\ SubSeq(p.in, n + 1, Len(p.in)) \in Seq(Bytes)
         /\ Recv(p, n) = Parts("NONE", p.buf \o SubSeq(p.in, 1, n), SubSeq(p.in, n + 1, Len(p.in)), p.waits)
<1> DEFINE u == SubSeq(p.in, 1, n)
           v == SubSeq(p.in, n + 1, Len(p.in))
           b == p.buf \o u
<1>0. p.in \in Seq(Bytes) /\ Len(p.in) \in Nat /\ p.buf \in Seq(Bytes) BY ReaderParts, LenProperties
<1>1. u \in Seq(Bytes) /\ Len(u) = n BY <1>0, SubSeqProperties
<1>2. v \in Seq(Bytes) BY <1>0, SubSeqProperties
<1>3. Recv(p, n) = [p EXCEPT !.buf = b, !.in = v] BY DEF Recv
<1> HIDE DEF u, v
<1>4. b \in Seq(Bytes) BY <1>0, <1>1, ConcatProperties
<1>5. p.err = "NONE" /\ p.err \in Errors /\ TRUE \in BOOLEAN BY ReaderParts DEF Good
<1> HIDE DEF b
<1>6. [p EXCEPT !.buf = b, !.in = v] = Parts(p.err, b, v, p.waits)
  BY ONLY p \in Readers, <1>2, <1>4, UpdatedBoth
<1> QED BY <1>1, <1>2, <1>3, <1>5, <1>6 DEF u, v, b

LEMMA RecvType ==
  ASSUME NEW p \in Readers, NEW n \in Nat
  PROVE  /\ Recv(p, n) \in Readers
         /\ Good(Recv(p, n)) => Good(p) /\ Len(Recv(p, n).buf) = Len(p.buf) + n
<1>1. p.buf \in Seq(Bytes) /\ p.in \in Seq(Bytes) /\ p.waits \in BOOLEAN BY ReaderParts
<1>2. CASE ~Good(p) BY <1>2 DEF Recv
<1>3. CASE Good(p) /\ Len(p.in) < n
  <2> DEFINE b == p.buf \o p.in
  <2>1. b \in Seq(Bytes) BY <1>1, ConcatProperties
  <2>2. "TIMEOUT" \in Errors /\ <<>> \in Seq(Bytes) BY DEF Errors
  <2>3. Recv(p, n) = Parts("TIMEOUT", b, <<>>, p.waits) BY <1>3, RecvShort
  <2> HIDE DEF b
  <2> DEFINE none == <<>>
             r == Parts("TIMEOUT", b, none, p.waits)
  <2> HIDE DEF none
  <2>4. "TIMEOUT" \in Errors /\ none \in Seq(Bytes) BY <2>2 DEF none
  <2>6. r \in Readers /\ r.err = "TIMEOUT" BY ONLY <1>1, <2>1, <2>4, PartsType
  <2> HIDE DEF r
  <2>5. ~Good(r) BY <2>6 DEF Good
  <2> QED BY ONLY <2>3, <2>5, <2>6 DEF r, none
<1>4. CASE Good(p) /\ ~(Len(p.in) < n)
  <2> DEFINE u == SubSeq(p.in, 1, n)
             v == SubSeq(p.in, n + 1, Len(p.in))
             b == p.buf \o u
  <2>1. u \in Seq(Bytes) /\ Len(u) = n /\ v \in Seq(Bytes) /\ Recv(p, n) = Parts("NONE", b, v, p.waits)
    BY <1>4, RecvEnough
  <2> HIDE DEF u, v
  <2>2. b \in Seq(Bytes) /\ Len(b) = Len(p.buf) + n BY <1>1, <2>1, ConcatProperties
  <2>3. "NONE" \in Errors BY DEF Errors
  <2> HIDE DEF b
  <2> DEFINE r == Parts("NONE", b, v, p.waits)
  <2>4. r \in Readers /\ r.buf = b BY ONLY <1>1, <2>1, <2>2, <2>3, PartsType
  <2> HIDE DEF r
  <2> QED BY ONLY <1>4, <2>1, <2>2, <2>4 DEF r
<1> QED BY <1>2, <1>3, <1>4

LEMMA CountedType ==
  ASSUME NEW q \in Readers, Good(q) => Len(q.buf) > 0
  PROVE  /\ RecvAsMany(q) \in Readers
         /\ Good(RecvAsMany(q)) => Len(RecvAsMany(q).buf) = Len(q.buf) + q.buf[Len(q.buf)]
<1>1. CASE ~Good(q) BY <1>1 DEF RecvAsMany
<1>2. CASE Good(q)
  <2>1. q.buf \in Seq(Bytes) /\ Len(q.buf) \in Nat BY LenProperties, ReaderParts
  <2>2. q.buf[Len(q.buf)] \in Nat BY <1>2, <2>1, ElementOfSeq, InBytes
  <2> QED BY <1>2, <2>2, RecvType DEF RecvAsMany
<1> QED BY <1>1, <1>2

LEMMA CountedReads ==
  ASSUME NEW p \in Readers
  PROVE  /\ Counted(p) \in Readers
         /\ Good(Counted(p)) => Good(p) /\ Len(Counted(p).buf) > Len(p.buf)
<1>1. Recv(p, 1) \in Readers /\ (Good(Recv(p, 1)) => Good(p) /\ Len(Recv(p, 1).buf) = Len(p.buf) + 1)
  BY RecvType
<1>2. Len(p.buf) \in Nat BY LenProperties, ReaderParts
<1>3. CASE ~Good(Recv(p, 1)) BY <1>1, <1>3 DEF Counted, RecvAsMany
<1>4. CASE Good(Recv(p, 1))
  <2> DEFINE q == Recv(p, 1)
  <2>1. Len(q.buf) > 0 BY <1>1, <1>2, <1>4
  <2>2. q.buf \in Seq(Bytes) /\ Len(q.buf) \in Nat BY <1>1, LenProperties, ReaderParts
  <2>3. q.buf[Len(q.buf)] \in Nat BY <2>1, <2>2, ElementOfSeq, InBytes
  <2>4. RecvAsMany(q) \in Readers /\ (Good(RecvAsMany(q)) => Len(RecvAsMany(q).buf) = Len(q.buf) + q.buf[Len(q.buf)])
    BY <1>1, <2>1, CountedType
  <2> QED BY <1>1, <1>2, <1>4, <2>3, <2>4 DEF Counted
<1> QED BY <1>3, <1>4

LEMMA FooterType ==
  ASSUME NEW t, NEW p \in Readers
  PROVE  /\ Footer(t, p) \in Readers
         /\ Good(Footer(t, p)) => Good(p) /\ Len(Footer(t, p).buf) >= Len(p.buf)
<1>1. Recv(p, 2) \in Readers /\ (Good(Recv(p, 2)) => Good(p) /\ Len(Recv(p, 2).buf) = Len(p.buf) + 2)
  BY RecvType
<1>2. Len(p.buf) \in Nat BY LenProperties, ReaderParts
<1>3. "CRC" \in Errors BY DEF Errors
<1>4. Fail(Recv(p, 2), "CRC") \in Readers /\ ~Good(Fail(Recv(p, 2), "CRC"))
  BY <1>1, <1>3 DEF Fail, Readers, Good
<1>5. CrcChecked(p, Recv(p, 2)) \in {Recv(p, 2), Fail(Recv(p, 2), "CRC")} BY DEF CrcChecked
<1>6. Footer(t, p) \in {p, CrcChecked(p, Recv(p, 2))} BY DEF Footer
<1> QED BY <1>1, <1>2, <1>4, <1>5, <1>6

LEMMA HeaderType ==
  ASSUME NEW t, NEW p \in Readers
  PROVE  /\ MsgHeader(t, p) \in Readers
         /\ Good(MsgHeader(t, p)) => Len(MsgHeader(t, p).buf) = HeaderLen(t)
<1> DEFINE empty == [p EXCEPT !.buf = <<>>]
           first == Recv(empty, 1)
           n == IF t = "RTU" THEN 1 ELSE 7
           q == Recv(first, n)
<1>1. empty \in Readers /\ Len(empty.buf) = 0
  <2>1. <<>> \in Seq(Bytes) /\ Len(<<>>) = 0 OBVIOUS
  <2>2. p.err \in Errors /\ p.in \in Seq(Bytes) /\ p.waits \in BOOLEAN BY ReaderParts
  <2>3. empty = Parts(p.err, <<>>, p.in, p.waits) BY <2>1, <2>2, UpdatedBuf
  <2> HIDE DEF empty
  <2> DEFINE none == <<>>
             r == Parts(p.err, none, p.in, p.waits)
  <2>4. none \in Seq(Bytes) BY <2>1
  <2> HIDE DEF none
  <2>5. r \in Readers /\ r.buf = none BY <2>2, <2>4, PartsType
  <2> HIDE DEF r
  <2> QED BY ONLY <2>1, <2>3, <2>5 DEF r, none
<1> HIDE DEF empty
<1>2. first \in Readers /\ (Good(first) => Len(first.buf) = 1)
  <2>1. first \in Readers /\ (Good(first) => Len(first.buf) = Len(empty.buf) + 1) BY <1>1, RecvType
  <2> QED BY <1>1, <2>1
<1> HIDE DEF first
<1>3. n \in Nat /\ 1 + n = HeaderLen(t) BY DEF HeaderLen
<1>4. q \in Readers /\ (Good(q) => Len(q.buf) = HeaderLen(t)) BY <1>2, <1>3, RecvType
<1>5. "INVALID_TCP_MBAP" \in Errors BY DEF Errors
<1> HIDE DEF n, q
<1>6. MbapChecked(t, q) \in Readers /\ (Good(MbapChecked(t, q)) => Good(q) /\ MbapChecked(t, q) = q)
  BY <1>4, <1>5 DEF MbapChecked, Fail, Readers, Good
<1>7. [first EXCEPT !.waits = TRUE] \in Readers BY <1>2 DEF Readers
<1>8. AfterFirst(t, first) \in Readers /\ (Good(AfterFirst(t, first)) => AfterFirst(t, first) = q /\ Good(q))
  BY <1>2, <1>6, <1>7 DEF AfterFirst, n, q, Good
<1> QED BY <1>4, <1>8 DEF MsgHeader, empty, first

LEMMA ExceptionErrors == \A i \in DOMAIN Exceptions : Exceptions[i] \in Errors /\ Exceptions[i] # "NONE"
<1>1. DOMAIN Exceptions = 1..4 /\ \A i \in 1..4 : Exceptions[i] # "NONE" BY DEF Exceptions
<1> QED BY <1>1 DEF Errors

LEMMA ResHeaderType ==
  ASSUME NEW t, NEW p \in Readers, NEW m
  PROVE  /\ ResHeader(t, p, m) \in Readers
         /\ Good(ResHeader(t, p, m)) =>
              /\ Len(ResHeader(t, p, m).buf) = HeaderLen(t)
              /\ ResHeader(t, p, m) = MsgHeader(t, p)
<1> DEFINE h == MsgHeader(t, p)
           e == Footer(t, Recv(h, 1))
           code == e.buf[HeaderLen(t) + 1]
<1>1. h \in Readers /\ (Good(h) => Len(h.buf) = HeaderLen(t)) BY HeaderType
<1>2. e \in Readers BY <1>1, RecvType, FooterType
<1>3. {"INVALID_TCP_MBAP", "INVALID_UNIT_ID", "INVALID_RESPONSE"} \subseteq Errors BY DEF Errors
<1>4. \A q \in Readers, x \in Errors \ {"NONE"} : Fail(q, x) \in Readers /\ ~Good(Fail(q, x))
  BY DEF Fail, Readers, Good
<1>5. ExceptionRead(t, e) \in Readers /\ ~Good(ExceptionRead(t, e))
  <2>1. CASE ~Good(e) BY <1>2, <2>1 DEF ExceptionRead
  <2>2. CASE Good(e)
    <3>1. (IF code \in DOMAIN Exceptions THEN Exceptions[code] ELSE "INVALID_RESPONSE") \in Errors \ {"NONE"}
      BY <1>3, ExceptionErrors
    <3> HIDE DEF e, code
    <3> QED BY <1>2, <1>4, <2>2, <3>1 DEF ExceptionRead, code
  <2> QED BY <2>1, <2>2
<1> HIDE DEF h, e
<1>6. ResChecked(t, h, m) \in Readers /\ (Good(ResChecked(t, h, m)) => ResChecked(t, h, m) = h)
  <2> USE <1>1, <1>3, <1>4, <1>5 DEF e
  <2>1. CASE ~Good(h) BY <2>1 DEF ResChecked
  <2>2. CASE Good(h)
    <3>1. ResChecked(t, h, m) \in {h, Fail(h, "INVALID_TCP_MBAP"), Fail(h, "INVALID_UNIT_ID"),
                                   Fail(h, "INVALID_RESPONSE"), ExceptionRead(t, Footer(t, Recv(h, 1)))}
      BY <2>2 DEF ResChecked
    <3> QED BY <3>1
  <2> QED BY <2>1, <2>2
<1> QED BY <1>1, <1>6 DEF ResHeader, h

LEMMA ExpectType ==
  ASSUME NEW p \in Readers, NEW test PROVE Expect(p, test) \in Readers
<1>1. "INVALID_RESPONSE" \in Errors BY DEF Errors
<1> QED BY <1>1, FailType DEF Expect

LEMMA UptoType ==
  ASSUME NEW p \in Readers, NEW n \in Nat PROVE Upto(p, n) \in Readers
<1>1. \A i \in 1..n : i <= Len(p.buf) => p.buf[i] \in Bytes
  BY ElementOfSeq, LenProperties, ReaderParts
<1>2. [i \in 1..n |-> IF i <= Len(p.buf) THEN p.buf[i] ELSE 0] \in Seq(Bytes)
  BY <1>1, IsASeq DEF Bytes
<1> QED BY <1>2 DEF Upto, Readers

-----------------------------------------------------------------------------
(* What the client makes of what comes.                                    *)

LEMMA DataType ==
  ASSUME NEW t, NEW p \in Readers
  PROVE  /\ HeaderLen(t) \in {2, 8}
         /\ Len(p.buf) >= HeaderLen(t) =>
              Data(t, p) \in Seq(Bytes) /\ Len(Data(t, p)) = Len(p.buf) - HeaderLen(t)
<1>1. HeaderLen(t) \in {2, 8} BY DEF HeaderLen
<1>2. p.buf \in Seq(Bytes) /\ Len(p.buf) \in Nat BY ReaderParts, LenProperties
<1>3. CASE Len(p.buf) >= HeaderLen(t)
  <2> DEFINE h == HeaderLen(t)
             b == p.buf
  <2>1. h \in Nat /\ h <= Len(b) BY <1>1, <1>3
  <2>2. Data(t, p) = SubSeq(b, h + 1, Len(b)) BY DEF Data
  <2> HIDE DEF h, b
  <2>3. /\ SubSeq(b, h + 1, Len(b)) \in Seq(Bytes)
        /\ Len(SubSeq(b, h + 1, Len(b))) = Len(b) - h
    BY ONLY <1>2, <2>1, SubSeqProperties DEF b
  <2> QED BY <1>1, <2>2, <2>3 DEF h, b
<1> QED BY <1>1, <1>3

LEMMA ByteAtType ==
  ASSUME NEW b \in Seq(Bytes), NEW i \in Nat \ {0} PROVE ByteAt(b, i) \in Bytes /\ ByteAt(b, i) \in Nat
<1>1. 0 \in Bytes BY InBytes
<1>2. Len(b) \in Nat BY LenProperties
<1>3. i <= Len(b) => b[i] \in Bytes BY <1>2, ElementOfSeq
<1> QED BY <1>1, <1>3, InBytes DEF ByteAt

LEMMA EchoType ==
  ASSUME NEW t, NEW p \in Readers, NEW m, NEW a, NEW v
  PROVE  EchoChecked(t, Echoed(t, p, m), a, v) \in Readers
<1>1. ResHeader(t, p, m) \in Readers BY ResHeaderType
<1>2. Recv(ResHeader(t, p, m), 4) \in Readers BY <1>1, RecvType
<1>3. Echoed(t, p, m) \in Readers BY <1>2, FooterType DEF Echoed
<1> QED BY <1>3, ExpectType DEF EchoChecked

LEMMA CountedResponse ==
  ASSUME NEW t, NEW p \in Readers, NEW m
  PROVE  Counted(ResHeader(t, p, m)) \in Readers /\ Footer(t, Counted(ResHeader(t, p, m))) \in Readers
<1>1. ResHeader(t, p, m) \in Readers BY ResHeaderType
<1>2. Counted(ResHeader(t, p, m)) \in Readers BY <1>1, CountedReads
<1> QED BY <1>2, FooterType

LEMMA FileReadType ==
  ASSUME NEW t, NEW p \in Readers, NEW m, NEW asked, NEW count
  PROVE  recv_read_file_record_res(t, p, m, asked, count) \in Readers
<1> DEFINE h == ResHeader(t, p, m)
           q == Counted(h)
           d == Data(t, q)
           size == (ByteAt(d, 2) + 255) % 256
           r == Footer(t, Upto(q, HeaderLen(t) + 3 + size))
           test == asked /\ Good(r) => ByteAt(d, 3) = 6 /\ count = size \div 2
<1>1. h \in Readers /\ (Good(h) => Len(h.buf) = HeaderLen(t))
  BY ResHeaderType
<1>2. q \in Readers /\ (Good(q) => Good(h) /\ Len(q.buf) > Len(h.buf)) BY <1>1, CountedReads
<1>3. recv_read_file_record_res(t, p, m, asked, count) = Expect(r, test)
  BY DEF recv_read_file_record_res, FileRecordRead
<1>4. CASE ~Good(q)
  <2>1. Upto(q, HeaderLen(t) + 3 + size) = q BY <1>4 DEF Upto
  <2> HIDE DEF q, h, d, size
  <2>2. r \in Readers BY <1>2, <2>1, FooterType
  <2> HIDE DEF r, test
  <2> QED BY <1>3, <2>2, ExpectType
<1>5. CASE Good(q)
  <2> HIDE DEF q, h
  <2>1. HeaderLen(t) \in Nat /\ Len(q.buf) \in Nat /\ Len(q.buf) >= HeaderLen(t)
    BY <1>1, <1>2, <1>5, DataType, LenProperties, ReaderParts
  <2>2. d \in Seq(Bytes) BY <1>2, <2>1, DataType
  <2> HIDE DEF d
  <2>3. ByteAt(d, 2) \in Nat BY <2>2, ByteAtType
  <2>4. size \in Nat BY <2>3, SMT
  <2> HIDE DEF size
  <2>5. HeaderLen(t) + 3 + size \in Nat BY <2>1, <2>4
  <2>6. r \in Readers BY <1>2, <2>5, UptoType, FooterType
  <2> HIDE DEF r, test
  <2> QED BY <1>3, <2>6, ExpectType
<1> QED BY <1>4, <1>5

LEMMA FileWrittenType ==
  ASSUME NEW t, NEW p \in Readers, NEW m, NEW asked, NEW data
  PROVE  recv_write_file_record_res(t, p, m, asked, data) \in Readers
<1> DEFINE h == ResHeader(t, p, m)
           q == Counted(h)
           d == Data(t, q)
           length == 256 * ByteAt(d, 7) + ByteAt(d, 8)
           r == Footer(t, Upto(q, HeaderLen(t) + 8 + 2 * length))
           back == Data(t, r)
           test == asked /\ Good(r) => /\ Len(back) >= Len(data)
                                       /\ SubSeq(back, 2, Len(data)) = Tail(data)
<1>1. h \in Readers /\ (Good(h) => Len(h.buf) = HeaderLen(t))
  BY ResHeaderType
<1>2. q \in Readers /\ (Good(q) => Good(h) /\ Len(q.buf) > Len(h.buf)) BY <1>1, CountedReads
<1>3. recv_write_file_record_res(t, p, m, asked, data) = Expect(r, test)
  BY DEF recv_write_file_record_res, FileRecordWritten
<1>4. CASE ~Good(q)
  <2>1. Upto(q, HeaderLen(t) + 8 + 2 * length) = q BY <1>4 DEF Upto
  <2> HIDE DEF q, h, d, length
  <2>2. r \in Readers BY <1>2, <2>1, FooterType
  <2> HIDE DEF r, test
  <2> QED BY <1>3, <2>2, ExpectType
<1>5. CASE Good(q)
  <2> HIDE DEF q, h
  <2>1. HeaderLen(t) \in Nat /\ Len(q.buf) \in Nat /\ Len(q.buf) >= HeaderLen(t)
    BY <1>1, <1>2, <1>5, DataType, LenProperties, ReaderParts
  <2>2. d \in Seq(Bytes) BY <1>2, <2>1, DataType
  <2> HIDE DEF d
  <2>3. ByteAt(d, 7) \in Nat /\ ByteAt(d, 8) \in Nat BY <2>2, ByteAtType
  <2>4. length \in Nat BY <2>3, SMT
  <2> HIDE DEF length
  <2>5. HeaderLen(t) + 8 + 2 * length \in Nat BY <2>1, <2>4
  <2>6. r \in Readers BY <1>2, <2>5, UptoType, FooterType
  <2> HIDE DEF r, test
  <2> QED BY <1>3, <2>6, ExpectType
<1> QED BY <1>4, <1>5

\* The functions by what they make of a response.
BitCodes == {1, 2}
RegisterCodes == {3, 4, 23}
EchoCodes == {5, 6, 15, 16}

LEMMA ResponseBits ==
  ASSUME NEW t, NEW p, NEW m, NEW c, c.raw = FALSE, c.fc \in BitCodes
  PROVE  Response(t, p, m, c) = recv_read_discrete_res(t, p, m)
<1>1. c.fc = 1 => Response(t, p, m, c) = recv_read_discrete_res(t, p, m) BY DEF Response
<1>2. c.fc = 2 => Response(t, p, m, c) = recv_read_discrete_res(t, p, m) BY DEF Response
<1> QED BY <1>1, <1>2 DEF BitCodes

LEMMA ResponseRegisters ==
  ASSUME NEW t, NEW p, NEW m, NEW c, c.raw = FALSE, c.fc \in RegisterCodes
  PROVE  Response(t, p, m, c) = recv_read_registers_res(t, p, m, c.v)
<1>1. c.fc = 3 => Response(t, p, m, c) = recv_read_registers_res(t, p, m, c.v) BY DEF Response
<1>2. c.fc = 4 => Response(t, p, m, c) = recv_read_registers_res(t, p, m, c.v) BY DEF Response
<1>3. c.fc = 23 => Response(t, p, m, c) = recv_read_registers_res(t, p, m, c.v) BY DEF Response
<1> QED BY <1>1, <1>2, <1>3 DEF RegisterCodes

LEMMA ResponseEcho ==
  ASSUME NEW t, NEW p, NEW m, NEW c, c.raw = FALSE, c.fc \in EchoCodes
  PROVE  Response(t, p, m, c) = EchoChecked(t, Echoed(t, p, m), c.a, c.v)
<1>1. c.fc = 5 => Response(t, p, m, c) = recv_write_single_coil_res(t, p, m, c.a, c.v)
  BY DEF Response
<1>2. c.fc = 6 => Response(t, p, m, c) = recv_write_single_register_res(t, p, m, c.a, c.v)
  BY DEF Response
<1>3. c.fc = 15 => Response(t, p, m, c) = recv_write_multiple_coils_res(t, p, m, c.a, c.v)
  BY DEF Response
<1>4. c.fc = 16 => Response(t, p, m, c) = recv_write_single_register_res(t, p, m, c.a, c.v)
  BY DEF Response
<1> QED BY <1>1, <1>2, <1>3, <1>4
       DEF EchoCodes, recv_write_single_coil_res, recv_write_single_register_res, recv_write_multiple_coils_res

\* Every call of a function of the client ends in one of the results of nmbs_error.
LEMMA ResponseType ==
  ASSUME NEW t, NEW p \in Readers, NEW m, NEW c, IsCall(c), c.ok
  PROVE  Response(t, p, m, c) \in Readers
<1>1. CASE c.raw
  <2>1. c.v \in Nat BY InWords16 DEF IsCall
  <2>2. ResHeader(t, p, m) \in Readers BY ResHeaderType
  <2>3. Recv(ResHeader(t, p, m), c.v) \in Readers BY <2>1, <2>2, RecvType
  <2>4. nmbs_receive_raw_pdu_response(t, p, m, c) \in Readers
    BY <2>3, FooterType DEF nmbs_receive_raw_pdu_response
  <2> QED BY <1>1, <2>4 DEF Response
<1>2. CASE ~c.raw
  <2>1. c.raw = FALSE BY <1>2 DEF IsCall
  <2>2. c.fc \in 1..6 \/ c.fc \in {15, 16} \/ c.fc = 23 \/ c.fc \in {20, 21}
    BY <1>2 DEF IsCall, IsRequest
  <2>3. recv_read_discrete_res(t, p, m) \in Readers BY CountedResponse DEF recv_read_discrete_res
  <2>4. recv_read_registers_res(t, p, m, c.v) \in Readers
    BY CountedResponse, ExpectType DEF recv_read_registers_res, RegistersRead
  <2>5. EchoChecked(t, Echoed(t, p, m), c.a, c.v) \in Readers BY EchoType
  <2>6. /\ recv_read_file_record_res(t, p, m, TRUE, c.v) \in Readers
        /\ recv_write_file_record_res(t, p, m, TRUE, c.data) \in Readers
    BY FileReadType, FileWrittenType
  <2>7. CASE c.fc = 20
    BY <2>1, <2>6, <2>7 DEF Response, recv_read_file_record_res, FileRecordRead
  <2>8. CASE c.fc = 21
    BY <2>1, <2>6, <2>8 DEF Response, recv_write_file_record_res, FileRecordWritten
  <2>9. CASE c.fc \in BitCodes
    <3>1. Response(t, p, m, c) = recv_read_discrete_res(t, p, m) BY <2>1, <2>9, ResponseBits
    <3> QED BY <2>3, <3>1
  <2>10. CASE c.fc \in RegisterCodes
    <3>1. Response(t, p, m, c) = recv_read_registers_res(t, p, m, c.v)
      BY <2>1, <2>10, ResponseRegisters
    <3> QED BY <2>4, <3>1
  <2>11. CASE c.fc \in EchoCodes
    <3>1. Response(t, p, m, c) = EchoChecked(t, Echoed(t, p, m), c.a, c.v)
      BY <2>1, <2>11, ResponseEcho
    <3> QED BY <2>5, <3>1
  <2> QED BY <2>2, <2>7, <2>8, <2>9, <2>10, <2>11 DEF BitCodes, RegisterCodes, EchoCodes
<1> QED BY <1>1, <1>2

-----------------------------------------------------------------------------
(* What a server does with a request.                                      *)

Addresses == 0..(ADDRESSES - 1)
Memory == [coils : [Addresses -> {0, 1}], registers : [Addresses -> Words16], files : [Addresses -> Words16]]

LEMMA Limits ==
  /\ MAX_BITS \in Nat /\ MAX_BITS <= 2000 /\ MAX_COILS \in Nat /\ MAX_COILS <= 1968
  /\ MAX_READ \in Nat /\ MAX_READ <= 125 /\ MAX_WRITE \in Nat /\ MAX_WRITE <= 123
  /\ MAX_TID \in Nat /\ MAX_TID <= UINT16_MAX /\ MAX_TID >= 1
  /\ ADDRESSES \in Nat /\ ADDRESSES <= UINT16_MAX + 1
<1>1. \A x \in 1..(UINT16_MAX + 1) : x \in Nat /\ x <= UINT16_MAX + 1 /\ x >= 1 BY Max16Nat
<1> QED BY <1>1, LimitsAssumption DEF LimitsAssumption

LEMMA PatchType ==
  ASSUME NEW D, NEW S, NEW f \in [D -> S], NEW a \in Nat, NEW vs \in Seq(S)
  PROVE  Patch(f, a, vs) \in [D -> S]
<1>1. ASSUME NEW x \in D PROVE (IF x \in a..(a + Len(vs) - 1) THEN vs[x - a + 1] ELSE f[x]) \in S
  <2>1. Len(vs) \in Nat BY LenProperties
  <2>2. CASE x \in a..(a + Len(vs) - 1)
    <3>1. x - a + 1 \in 1..Len(vs) BY <2>1, <2>2
    <3> QED BY <2>2, <3>1, ElementOfSeq
  <2> QED BY <2>2
<1>2. DOMAIN f = D OBVIOUS
<1> QED BY <1>1, <1>2 DEF Patch

LEMMA SliceType ==
  ASSUME NEW S, NEW f \in [Addresses -> S], NEW a \in Nat, NEW q \in Nat, a + q <= ADDRESSES
  PROVE  Slice(f, a, q) \in Seq(S) /\ Len(Slice(f, a, q)) = q /\ DOMAIN Slice(f, a, q) = 1..q
<1>1. \A i \in 1..q : a + i - 1 \in Addresses BY Limits DEF Addresses
<1>2. \A i \in 1..q : f[a + i - 1] \in S BY <1>1
<1>3. [i \in 1..q |-> f[a + i - 1]] \in Seq(S) /\ Len([i \in 1..q |-> f[a + i - 1]]) = q
  BY <1>2, IsASeq
<1> QED BY <1>3 DEF Slice

LEMMA MemoryParts ==
  ASSUME NEW store \in Memory
  PROVE  /\ store.coils \in [Addresses -> {0, 1}] /\ store.registers \in [Addresses -> Words16]
         /\ DOMAIN store.coils = Addresses /\ DOMAIN store.registers = Addresses
         /\ \A c \in [Addresses -> {0, 1}] : [store EXCEPT !.coils = c] \in Memory
         /\ \A r \in [Addresses -> Words16] : [store EXCEPT !.registers = r] \in Memory /\ [store EXCEPT !.registers = r].registers = r
BY DEF Memory

ExceptionNames == {Exceptions[i] : i \in DOMAIN Exceptions}

LEMMA ExceptionKinds ==
  /\ ExceptionNames = {"ILLEGAL_FUNCTION", "ILLEGAL_DATA_ADDRESS", "ILLEGAL_DATA_VALUE", "SERVER_DEVICE_FAILURE"}
  /\ \A e : IsException(e) <=> e \in ExceptionNames
  /\ "NONE" \notin ExceptionNames
  /\ \A e \in ExceptionNames : ExceptionCode(e) \in 1..4 /\ Exceptions[ExceptionCode(e)] = e
<1>1. DOMAIN Exceptions = 1..4 BY DEF Exceptions
<1>2. ExceptionNames = {Exceptions[1], Exceptions[2], Exceptions[3], Exceptions[4]}
  BY <1>1 DEF ExceptionNames
<1>3. ExceptionNames = {"ILLEGAL_FUNCTION", "ILLEGAL_DATA_ADDRESS", "ILLEGAL_DATA_VALUE", "SERVER_DEVICE_FAILURE"}
  BY <1>2 DEF Exceptions
<1>4. \A e : IsException(e) <=> e \in ExceptionNames BY DEF IsException, ExceptionNames
<1>5. ASSUME NEW e \in ExceptionNames PROVE ExceptionCode(e) \in 1..4 /\ Exceptions[ExceptionCode(e)] = e
  <2>1. \E i \in DOMAIN Exceptions : Exceptions[i] = e BY DEF ExceptionNames
  <2>2. ExceptionCode(e) \in DOMAIN Exceptions /\ Exceptions[ExceptionCode(e)] = e
    BY <2>1 DEF ExceptionCode
  <2> QED BY <1>1, <2>2
<1> QED BY <1>3, <1>4, <1>5

LEMMA ReportedType == \A fault : Reported(fault) \in ExceptionNames
BY ExceptionKinds DEF Reported

Refusals == ExceptionNames \cup {"NONE"}

\* What the checks say, and what is known when they find nothing wrong.
LEMMA RefusalNames ==
  /\ {"ILLEGAL_FUNCTION", "ILLEGAL_DATA_ADDRESS", "ILLEGAL_DATA_VALUE", "NONE"} \subseteq Refusals
  /\ ExceptionNames \subseteq Refusals
BY ExceptionKinds DEF Refusals

LEMMA CallbackFailsType == \A fault : CallbackFails(fault) \in Refusals
BY RefusalNames, ReportedType DEF CallbackFails

LEMMA UnsupportedType ==
  ASSUME NEW fc, NEW rest \in Refusals
  PROVE  /\ Unsupported(fc, rest) \in Refusals
         /\ Unsupported(fc, rest) = "NONE" => fc \in Supported /\ rest = "NONE"
BY RefusalNames DEF Unsupported

LEMMA BadCallbackType ==
  ASSUME NEW fc, NEW fault
  PROVE  BadCallback(fc, fault) \in Refusals
BY CallbackFailsType, UnsupportedType DEF BadCallback

LEMMA NoSuchType ==
  ASSUME NEW f, NEW a, NEW rest \in Refusals
  PROVE  NoSuch(f, a, rest) \in Refusals
BY RefusalNames DEF NoSuch

LEMMA BadCountType ==
  ASSUME NEW count, NEW asked, NEW rest \in Refusals
  PROVE  /\ BadCount(count, asked, rest) \in Refusals
         /\ BadCount(count, asked, rest) = "NONE" => count = asked
BY RefusalNames DEF BadCount

LEMMA BadRangeType ==
  ASSUME NEW a, NEW q, NEW max, NEW rest \in Refusals
  PROVE  /\ BadRange(a, q, max, rest) \in Refusals
         /\ BadRange(a, q, max, rest) = "NONE" =>
              ~(q < 1) /\ ~(q > max) /\ ~(a + q > ADDRESSES) /\ rest = "NONE"
BY RefusalNames DEF BadRange

\* The data of an answer to a request with data d: a count and as many bytes, or the
\* first four bytes repeated.
FileCodes == {20, 21}
AnswerData(fc, d, data) ==
  /\ fc \notin FileCodes
  /\ data \in Seq(Bytes) /\ Len(data) > 0
  /\ fc \in BitCodes => Len(data) = 1 + data[1]
  /\ fc \in RegisterCodes => Len(data) = 1 + data[1] /\ data[1] = 2 * WordAt(d, 3)
  /\ fc \in EchoCodes => data = SubSeq(d, 1, 4)

\* The end of a handler that has taken a request d in.
Refuses(t, m, o, e) ==
  /\ o.answer = Answer(e, <<>>)
  /\ o.out = Frame(t, [m EXCEPT !.fc = (@ + 128) % 256], 1, <<ExceptionCode(e)>>)
Obeys(t, m, d, o, n, data) ==
  /\ AnswerData(m.fc, d, data) 
  /\ o.answer = Answer("NONE", data)
  /\ o.out = IF m.broadcast THEN <<>> ELSE Frame(t, m, n, data)
Replied(t, m, d, q, o) ==
  /\ o.in = q.in /\ o.waits = q.waits /\ o.mem \in Memory /\ o.err = "NONE"
  /\ \/ \E e \in ExceptionNames : Refuses(t, m, o, e)
     \/ \E n \in 0..253 : \E data : Obeys(t, m, d, o, n, data)

LEMMA OutcomeParts ==
  ASSUME NEW p, NEW store, NEW out, NEW answer
  PROVE  /\ Outcome(p, store, out, answer).err = p.err /\ Outcome(p, store, out, answer).in = p.in
         /\ Outcome(p, store, out, answer).waits = p.waits
         /\ Outcome(p, store, out, answer).mem = store /\ Outcome(p, store, out, answer).out = out
         /\ Outcome(p, store, out, answer).answer = answer
BY DEF Outcome

LEMMA RefuseReplied ==
  ASSUME NEW t, NEW p \in Readers, Good(p), NEW m, NEW store \in Memory, NEW d, NEW e \in ExceptionNames
  PROVE  Replied(t, m, d, p, send_exception_msg(t, p, m, store, e))
<1> DEFINE out == Frame(t, [m EXCEPT !.fc = (@ + 128) % 256], 1, <<ExceptionCode(e)>>)
           answer == Answer(e, <<>>)
           o == Outcome(p, store, out, answer)
<1>1. send_exception_msg(t, p, m, store, e) = o BY DEF send_exception_msg
<1> HIDE DEF out, answer
<1>2. o.in = p.in /\ o.waits = p.waits /\ o.mem = store /\ o.err = "NONE" /\ o.out = out /\ o.answer = answer
  BY OutcomeParts DEF Good
<1> HIDE DEF o
<1>3. Refuses(t, m, o, e) BY <1>2 DEF Refuses, out, answer
<1> QED BY <1>1, <1>2, <1>3 DEF Replied

LEMMA ReplyReplied ==
  ASSUME NEW t, NEW p \in Readers, Good(p), NEW m, NEW store \in Memory, NEW d,
         NEW refusal \in Refusals, NEW after, NEW n, NEW data,
         refusal = "NONE" => after \in Memory /\ n \in 0..253 /\ AnswerData(m.fc, d, data)
  PROVE  Replied(t, m, d, p, Reply(t, p, m, store, refusal, after, n, data))
<1>1. CASE refusal # "NONE"
  <2>1. refusal \in ExceptionNames BY <1>1 DEF Refusals
  <2>2. Reply(t, p, m, store, refusal, after, n, data) = send_exception_msg(t, p, m, store, refusal)
    BY <1>1 DEF Reply
  <2> QED BY <2>1, <2>2, RefuseReplied
<1>2. CASE refusal = "NONE"
  <2> DEFINE out == IF m.broadcast THEN <<>> ELSE Frame(t, m, n, data)
             answer == Answer("NONE", data)
             o == Outcome(p, after, out, answer)
  <2>1. Reply(t, p, m, store, refusal, after, n, data) = o BY <1>2 DEF Reply
  <2> HIDE DEF out, answer
  <2>2. o.in = p.in /\ o.waits = p.waits /\ o.mem = after /\ o.err = "NONE" /\ o.out = out /\ o.answer = answer
    BY OutcomeParts DEF Good
  <2> HIDE DEF o
  <2>3. Obeys(t, m, d, o, n, data) BY <1>2, <2>2 DEF Obeys, out, answer
  <2> QED BY <1>2, <2>1, <2>2, <2>3 DEF Replied
<1> QED BY <1>1, <1>2

\* A count and as many bytes.
LEMMA CountThenBytes ==
  ASSUME NEW c \in Bytes, NEW w \in Seq(Bytes), Len(w) = c
  PROVE  /\ <<c>> \o w \in Seq(Bytes) /\ Len(<<c>> \o w) = 1 + c /\ Len(<<c>> \o w) > 0
         /\ (<<c>> \o w)[1] = c
<1>1. c \in Nat BY InBytes
<1>2. <<c>> \in Seq(Bytes) /\ Len(<<c>>) = 1 /\ <<c>>[1] = c OBVIOUS
<1> DEFINE one == <<c>>
<1> HIDE DEF one
<1>3. one \in Seq(Bytes) /\ Len(one) = 1 /\ one[1] = c BY <1>2 DEF one
<1>4. one \o w \in Seq(Bytes) /\ Len(one \o w) = 1 + c /\ (one \o w)[1] = one[1]
  BY <1>1, <1>3, ConcatProperties
<1> QED BY <1>1, <1>3, <1>4 DEF one

LEMMA BitsAnswer ==
  ASSUME NEW fc \in BitCodes, NEW d, NEW x \in Seq(Bytes), Len(x) > 0, Len(x) = 1 + x[1]
  PROVE  AnswerData(fc, d, x)
<1>1. fc \notin RegisterCodes /\ fc \notin EchoCodes /\ fc \notin FileCodes
  BY DEF BitCodes, RegisterCodes, EchoCodes, FileCodes
<1> QED BY <1>1 DEF AnswerData

\* A handler that reads bits.
LEMMA ReadDiscreteReplied ==
  ASSUME NEW t, NEW q \in Readers, Good(q), NEW m, m.ignored = FALSE, m.fc \in BitCodes,
         NEW store \in Memory, NEW bits \in [Addresses -> {0, 1}], NEW fault,
         Data(t, q) \in Seq(Bytes), Len(Data(t, q)) >= 4
  PROVE  Replied(t, m, Data(t, q), q, handle_read_discrete(t, q, m, store, bits, fault))
<1> DEFINE d == Data(t, q)
           a == WordAt(d, 1)
           n == WordAt(d, 3)
           bytes == Packed(Slice(bits, a, n))
           data == <<BitBytes(n)>> \o bytes
           refusal == BadRange(a, n, MAX_BITS, BadCallback(m.fc, fault))
<1>1. handle_read_discrete(t, q, m, store, bits, fault)
        = Reply(t, q, m, store, refusal, store, 1 + BitBytes(n), data)
  BY DEF handle_read_discrete
<1>2. d \in Seq(Bytes) /\ Len(d) \in Nat /\ Len(d) >= 4 BY LenProperties
<1> HIDE DEF d
<1>3. a \in Words16 /\ n \in Words16 BY <1>2, WordAtType
<1>4. a \in Nat /\ n \in Nat BY <1>3, InWords16
<1> HIDE DEF a, n
<1>5. BadCallback(m.fc, fault) \in Refusals BY BadCallbackType
<1>6. /\ refusal \in Refusals
      /\ refusal = "NONE" => ~(n > MAX_BITS) /\ ~(a + n > ADDRESSES)
  BY <1>5, BadRangeType
<1> HIDE DEF refusal
<1>7. ASSUME refusal = "NONE" PROVE 1 + BitBytes(n) \in 0..253 /\ AnswerData(m.fc, d, data)
  <2>1. n <= 2000 /\ a + n <= ADDRESSES BY <1>4, <1>6, <1>7, Limits
  <2>2. BitBytes(n) \in Nat /\ BitBytes(n) <= 250 BY <1>4, <2>1, SMT DEF BitBytes
  <2> DEFINE Bit == {0, 1}
  <2> HIDE DEF Bit
  <2>a. Slice(bits, a, n) \in Seq(Bit) /\ Len(Slice(bits, a, n)) = n
    <3>1. bits \in [Addresses -> Bit] BY DEF Bit
    <3> QED BY ONLY <1>4, <2>1, <3>1, SliceType
  <2>3. Slice(bits, a, n) \in Seq({0, 1}) /\ Len(Slice(bits, a, n)) = n BY <2>a DEF Bit
  <2>4. bytes \in Seq(Bytes) /\ Len(bytes) = BitBytes(n) BY <2>3, PackedType
  <2> DEFINE c == BitBytes(n)
  <2> HIDE DEF bytes, c
  <2>5. c \in Bytes /\ c \in Nat BY <2>2, InBytes DEF c
  <2>7. <<c>> \o bytes \in Seq(Bytes) /\ Len(<<c>> \o bytes) = 1 + c /\ Len(<<c>> \o bytes) > 0
        /\ (<<c>> \o bytes)[1] = c
    <3>1. Len(bytes) = c BY <2>4 DEF c
    <3> QED BY ONLY <2>4, <2>5, <3>1, CountThenBytes
  <2> DEFINE fc == m.fc
             x == <<c>> \o bytes
  <2>8. fc \in BitCodes OBVIOUS
  <2>9. x \in Seq(Bytes) /\ Len(x) > 0 /\ Len(x) = 1 + x[1] BY <2>7
  <2> HIDE DEF fc, x
  <2>10. AnswerData(fc, d, x) BY ONLY <2>8, <2>9, BitsAnswer
  <2>11. AnswerData(m.fc, d, data) BY ONLY <2>10 DEF c, fc, x, bytes
  <2>12. 1 + BitBytes(n) \in 0..253 BY ONLY <2>2
  <2> QED BY <2>11, <2>12
<1> HIDE DEF data
<1> QED BY <1>1, <1>6, <1>7, ReplyReplied DEF d

\* A handler that reads registers.
LEMMA RegistersAnswer ==
  ASSUME NEW registers \in [Addresses -> Words16], NEW a \in Nat, NEW n \in Nat, n <= 125, a + n <= ADDRESSES,
         NEW fc \in RegisterCodes, NEW d, n = WordAt(d, 3)
  PROVE  /\ AnswerData(fc, d, <<2 * n>> \o Words(Slice(registers, a, n)))
         /\ 1 + 2 * n \in 0..253
<1> DEFINE s == Slice(registers, a, n)
           w == Words(s)
           c == 2 * n
<1>1. s \in Seq(Words16) /\ DOMAIN s = 1..n
  BY ONLY registers \in [Addresses -> Words16], a \in Nat, n \in Nat, a + n <= ADDRESSES, SliceType
<1> HIDE DEF s
<1>2. w \in Seq(Bytes) /\ Len(w) = 2 * n BY <1>1, WordsType
<1>3. c \in Bytes /\ c \in Nat BY InBytes
<1>4. Len(w) = c BY <1>2
<1>5. 1 + c \in 0..253 OBVIOUS
<1>6. c = 2 * WordAt(d, 3) OBVIOUS
<1> HIDE DEF w, c
<1>8. <<c>> \o w \in Seq(Bytes) /\ Len(<<c>> \o w) = 1 + c /\ Len(<<c>> \o w) > 0 /\ (<<c>> \o w)[1] = c
  BY ONLY <1>2, <1>3, <1>4, CountThenBytes
<1>9. fc \notin BitCodes /\ fc \notin EchoCodes /\ fc \notin FileCodes
  BY DEF BitCodes, RegisterCodes, EchoCodes, FileCodes
<1>10. AnswerData(fc, d, <<c>> \o w) BY <1>3, <1>6, <1>8, <1>9 DEF AnswerData
<1> QED BY <1>5, <1>10 DEF c, w, s

LEMMA ReadRegistersReplied ==
  ASSUME NEW t, NEW q \in Readers, Good(q), NEW m, m.ignored = FALSE, m.fc \in RegisterCodes,
         NEW store \in Memory, NEW registers \in [Addresses -> Words16], NEW fault,
         Data(t, q) \in Seq(Bytes), Len(Data(t, q)) >= 4
  PROVE  Replied(t, m, Data(t, q), q, handle_read_registers(t, q, m, store, registers, fault))
<1> DEFINE d == Data(t, q)
           a == WordAt(d, 1)
           n == WordAt(d, 3)
           data == <<2 * n>> \o Words(Slice(registers, a, n))
           refusal == BadRange(a, n, MAX_READ, BadCallback(m.fc, fault))
<1>1. handle_read_registers(t, q, m, store, registers, fault)
        = Reply(t, q, m, store, refusal, store, 1 + 2 * n, data)
  BY DEF handle_read_registers
<1>2. d \in Seq(Bytes) /\ Len(d) \in Nat /\ Len(d) >= 4 BY LenProperties
<1>3. a \in Words16 /\ n \in Words16
  <2> HIDE DEF d
  <2> QED BY <1>2, WordAtType
<1>4. a \in Nat /\ n \in Nat /\ n = WordAt(d, 3) BY <1>3, InWords16
<1> HIDE DEF a, n, d
<1>5. BadCallback(m.fc, fault) \in Refusals BY BadCallbackType
<1>6. /\ refusal \in Refusals
      /\ refusal = "NONE" => ~(n > MAX_READ) /\ ~(a + n > ADDRESSES)
  BY <1>5, BadRangeType
<1> HIDE DEF refusal
<1>7. ASSUME refusal = "NONE" PROVE 1 + 2 * n \in 0..253 /\ AnswerData(m.fc, d, data)
  <2>1. n <= 125 /\ a + n <= ADDRESSES BY <1>4, <1>6, <1>7, Limits
  <2> QED BY <1>4, <2>1, RegistersAnswer
<1> HIDE DEF data
<1> QED BY <1>1, <1>6, <1>7, ReplyReplied DEF d

\* A handler whose answer repeats the first four bytes.
LEMMA EchoAnswer ==
  ASSUME NEW fc \in EchoCodes, NEW d \in Seq(Bytes), Len(d) >= 4
  PROVE  AnswerData(fc, d, SubSeq(d, 1, 4)) /\ 4 \in 0..253 /\ SubSeq(d, 1, 4) \in Seq(Bytes) /\ Len(SubSeq(d, 1, 4)) = 4
         /\ SubSeq(SubSeq(d, 1, 4), 1, 4) = SubSeq(d, 1, 4)
<1>0. Len(d) \in Nat BY LenProperties
<1>1. SubSeq(d, 1, 4) \in Seq(Bytes) /\ Len(SubSeq(d, 1, 4)) = 4 BY <1>0, SubSeqProperties
<1>2. fc \notin BitCodes /\ fc \notin RegisterCodes /\ fc \notin FileCodes
  BY DEF BitCodes, RegisterCodes, EchoCodes, FileCodes
<1> DEFINE e == SubSeq(d, 1, 4)
<1> HIDE DEF e
<1>3. SubSeq(e, 1, 4) = e BY <1>1, SubSeqFull DEF e
<1> QED BY <1>1, <1>2, <1>3 DEF AnswerData, e

LEMMA WriteSingleReplied ==
  ASSUME NEW t, NEW q \in Readers, Good(q), NEW m, m.ignored = FALSE, m.fc \in EchoCodes,
         NEW store \in Memory, NEW fault, Data(t, q) \in Seq(Bytes), Len(Data(t, q)) >= 4
  PROVE  /\ Replied(t, m, Data(t, q), q, handle_write_single_coil(t, q, m, store, fault))
         /\ Replied(t, m, Data(t, q), q, handle_write_single_register(t, q, m, store, fault))
<1> DEFINE b == Data(t, q)
           d == SubSeq(Data(t, q), 1, 4)
           a == WordAt(d, 1)
           v == WordAt(d, 3)
           after1 == [store EXCEPT !.coils = Patch(store.coils, a, <<CoilValue(v)>>)]
           rest1 == IF v \notin {0, 65280} THEN "ILLEGAL_DATA_VALUE" ELSE NoSuch(store.coils, a, CallbackFails(fault))
           refusal1 == Unsupported(m.fc, rest1)
           after2 == [store EXCEPT !.registers = Patch(store.registers, a, <<v>>)]
           refusal2 == Unsupported(m.fc, NoSuch(store.registers, a, CallbackFails(fault)))
<1>1. /\ handle_write_single_coil(t, q, m, store, fault) = Reply(t, q, m, store, refusal1, after1, 4, d)
      /\ handle_write_single_register(t, q, m, store, fault) = Reply(t, q, m, store, refusal2, after2, 4, d)
  BY DEF handle_write_single_coil, handle_write_single_register
<1>2. AnswerData(m.fc, b, d) /\ 4 \in 0..253 /\ d \in Seq(Bytes) /\ Len(d) = 4
  <2>1. b \in Seq(Bytes) /\ Len(b) >= 4 /\ m.fc \in EchoCodes OBVIOUS
  <2> HIDE DEF b
  <2> DEFINE fc == m.fc
  <2>2. fc \in EchoCodes BY <2>1
  <2> HIDE DEF fc
  <2>3. AnswerData(fc, b, SubSeq(b, 1, 4)) /\ 4 \in 0..253 /\ SubSeq(b, 1, 4) \in Seq(Bytes) /\ Len(SubSeq(b, 1, 4)) = 4
    BY ONLY <2>1, <2>2, EchoAnswer
  <2> QED BY <2>3 DEF b, fc
<1> HIDE DEF d, b
<1>3. a \in Words16 /\ v \in Words16 /\ a \in Nat
  <2>1. d \in Seq(Bytes) /\ Len(d) >= 4 BY <1>2
  <2> QED BY ONLY <2>1, TwoWordsType
<1>4. a \in Nat BY <1>3
<1> HIDE DEF a, v
<1>5. after1 \in Memory
  <2>1. CoilValue(v) \in {0, 1} BY DEF CoilValue
  <2> DEFINE c == CoilValue(v)
  <2> HIDE DEF c
  <2>2. <<c>> \in Seq({0, 1}) BY <2>1 DEF c
  <2>3. Patch(store.coils, a, <<c>>) \in [Addresses -> {0, 1}] BY <1>4, <2>2, MemoryParts, PatchType
  <2> QED BY <2>3, MemoryParts DEF c
<1>6. after2 \in Memory
  <2>1. <<v>> \in Seq(Words16) BY <1>3
  <2>2. Patch(store.registers, a, <<v>>) \in [Addresses -> Words16]
    BY <1>4, <2>1, MemoryParts, PatchType
  <2> QED BY <2>2, MemoryParts
<1> HIDE DEF after1, after2
<1>7. refusal1 \in Refusals /\ refusal2 \in Refusals
  <2>1. CallbackFails(fault) \in Refusals BY CallbackFailsType
  <2>2. NoSuch(store.coils, a, CallbackFails(fault)) \in Refusals
        /\ NoSuch(store.registers, a, CallbackFails(fault)) \in Refusals
    BY <2>1, NoSuchType
  <2>3. "ILLEGAL_DATA_VALUE" \in Refusals BY RefusalNames
  <2>4. rest1 \in Refusals BY <2>2, <2>3
  <2> HIDE DEF rest1
  <2> QED BY <2>2, <2>4, UnsupportedType
<1> HIDE DEF refusal1, refusal2
<1>8. Replied(t, m, b, q, Reply(t, q, m, store, refusal1, after1, 4, d))
  BY <1>2, <1>5, <1>7, ReplyReplied
<1>9. Replied(t, m, b, q, Reply(t, q, m, store, refusal2, after2, 4, d))
  BY <1>2, <1>6, <1>7, ReplyReplied
<1> QED BY <1>1, <1>8, <1>9 DEF b


\* A handler of several coils.
LEMMA BitType ==
  ASSUME NEW b \in Nat, NEW i \in Nat PROVE (b \div 2^(i % 8)) % 2 \in {0, 1}
<1>1. i % 8 \in 0..7 BY SMT
<1>2. ASSUME NEW k \in 0..7 PROVE 2^k \in Nat /\ 2^k > 0
  <2>1. k = 0 \/ k = 1 \/ k = 2 \/ k = 3 \/ k = 4 \/ k = 5 \/ k = 6 \/ k = 7 BY <1>2
  <2> DEFINE Divides(j) == 2^j \in Nat /\ 2^j > 0
  <2>2. Divides(0) /\ Divides(1) /\ Divides(2) /\ Divides(3) /\ Divides(4) /\ Divides(5) /\ Divides(6) /\ Divides(7)
    BY SMT
  <2> HIDE DEF Divides
  <2>3. Divides(k) BY <2>1, <2>2
  <2> QED BY <2>3 DEF Divides
<1> DEFINE w == 2^(i % 8)
<1>3. w \in Nat /\ w > 0 BY <1>1, <1>2
<1> HIDE DEF w
<1> DEFINE x == b \div w
<1>4. x \in Int BY <1>3
<1> HIDE DEF x
<1>5. x % 2 \in {0, 1} BY <1>4
<1> QED BY <1>5 DEF x, w

LEMMA CoilsType ==
  ASSUME NEW b \in Seq(Bytes), NEW n \in Nat, Len(b) = BitBytes(n)
  PROVE  [i \in 1..n |-> BitAt(b, i - 1)] \in Seq({0, 1})
<1>1. ASSUME NEW i \in 1..n PROVE BitAt(b, i - 1) \in {0, 1}
  <2>1. i - 1 \in Nat /\ ((i - 1) \div 8) + 1 \in 1..BitBytes(n) BY SMT DEF BitBytes
  <2>2. b[((i - 1) \div 8) + 1] \in Nat BY <2>1, ElementOfSeq, InBytes
  <2> QED BY <2>1, <2>2, BitType DEF BitAt
<1> QED BY <1>1, IsASeq

LEMMA WordsOfType ==
  ASSUME NEW b \in Seq(Bytes) PROVE WordsOf(b) \in Seq(Words16)
<1>1. Len(b) \in Nat /\ Len(b) \div 2 \in Nat BY LenProperties, SMT
<1>2. ASSUME NEW i \in 1..(Len(b) \div 2) PROVE WordAt(b, 2 * i - 1) \in Words16
  <2>1. 2 * i - 1 \in 1..(Len(b) - 1) BY <1>1, SMT
  <2> QED BY <2>1, WordAtType
<1> QED BY <1>1, <1>2, IsASeq DEF WordsOf

\* The bytes after a count, when there are as many.
LEMMA CountedPart ==
  ASSUME NEW d \in Seq(Bytes), NEW k \in Nat \ {0}, Len(d) >= k, Len(d) >= k + d[k]
  PROVE  /\ d[k] \in Nat
         /\ SubSeq(d, k + 1, k + d[k]) \in Seq(Bytes) /\ Len(SubSeq(d, k + 1, k + d[k])) = d[k]
<1>1. Len(d) \in Nat BY LenProperties
<1>2. k \in 1..Len(d) BY <1>1
<1>3. d[k] \in Nat BY <1>2, ElementOfSeq, InBytes
<1> DEFINE n == d[k]
<1>4. n \in Nat /\ Len(d) >= k + n BY <1>3
<1> HIDE DEF n
<1>5. \A i \in (k + 1)..(k + n) : i \in 1..Len(d) BY <1>1, <1>4
<1>6. SubSeq(d, k + 1, k + n) \in Seq(Bytes) /\ Len(SubSeq(d, k + 1, k + n)) = n
  BY <1>1, <1>4, <1>5, SubSeqProperties
<1> QED BY <1>3, <1>6 DEF n

\* What a request for several coils or registers says, and its answer.
LEMMA WriteCoilsReplied ==
  ASSUME NEW t, NEW q \in Readers, Good(q), NEW m, m.ignored = FALSE, m.fc \in EchoCodes,
         NEW store \in Memory, NEW fault, Data(t, q) \in Seq(Bytes),
         Len(Data(t, q)) >= 5, Len(Data(t, q)) >= 5 + Data(t, q)[5]
  PROVE  Replied(t, m, Data(t, q), q, handle_write_multiple_coils(t, q, m, store, fault))
<1> DEFINE d == Data(t, q)
           a == WordAt(d, 1)
           n == WordAt(d, 3)
           part == SubSeq(d, 6, 5 + d[5])
           bits == [i \in 1..n |-> BitAt(part, i - 1)]
           rest == BadCount(d[5], BitBytes(n), BadCallback(m.fc, fault))
           refusal == BadRange(a, n, MAX_COILS, rest)
           after == [store EXCEPT !.coils = Patch(store.coils, a, bits)]
           data == SubSeq(d, 1, 4)
           fc == m.fc
<1>1. handle_write_multiple_coils(t, q, m, store, fault) = Reply(t, q, m, store, refusal, after, 4, data)
  BY DEF handle_write_multiple_coils
<1>2. d \in Seq(Bytes) /\ Len(d) >= 4 /\ Len(d) >= 5 /\ Len(d) >= 5 + d[5] /\ fc \in EchoCodes
  BY LenProperties
<1> HIDE DEF d, fc, part
<1>3. AnswerData(fc, d, data) /\ 4 \in 0..253 BY ONLY <1>2, EchoAnswer
<1>4. a \in Nat /\ n \in Nat BY ONLY <1>2, TwoWordsType
<1>5. part \in Seq(Bytes) /\ Len(part) = d[5]
  <2>1. 5 \in Nat \ {0} OBVIOUS
  <2>2. SubSeq(d, 5 + 1, 5 + d[5]) \in Seq(Bytes) /\ Len(SubSeq(d, 5 + 1, 5 + d[5])) = d[5]
    BY ONLY <1>2, <2>1, CountedPart
  <2> QED BY <2>2 DEF part
<1> HIDE DEF a, n, data
<1>6. BadCallback(fc, fault) \in Refusals BY BadCallbackType
<1>7. rest \in Refusals /\ (rest = "NONE" => d[5] = BitBytes(n)) BY <1>6, BadCountType DEF fc
<1> HIDE DEF rest
<1>8. refusal \in Refusals /\ (refusal = "NONE" => rest = "NONE") BY ONLY <1>7, BadRangeType
<1> HIDE DEF refusal
<1>9. ASSUME refusal = "NONE" PROVE after \in Memory
  <2>1. Len(part) = BitBytes(n) BY <1>5, <1>7, <1>8, <1>9
  <2>2. bits \in Seq({0, 1}) BY ONLY <1>4, <1>5, <2>1, CoilsType
  <2> HIDE DEF bits
  <2>3. Patch(store.coils, a, bits) \in [Addresses -> {0, 1}] BY <1>4, <2>2, MemoryParts, PatchType
  <2> QED BY <2>3, MemoryParts
<1> HIDE DEF after
<1> QED BY <1>1, <1>3, <1>8, <1>9, ReplyReplied DEF d, fc

LEMMA WriteRegistersReplied ==
  ASSUME NEW t, NEW q \in Readers, Good(q), NEW m, m.ignored = FALSE, m.fc \in EchoCodes,
         NEW store \in Memory, NEW fault, Data(t, q) \in Seq(Bytes),
         Len(Data(t, q)) >= 5, Len(Data(t, q)) >= 5 + Data(t, q)[5]
  PROVE  Replied(t, m, Data(t, q), q, handle_write_multiple_registers(t, q, m, store, fault))
<1> DEFINE d == Data(t, q)
           a == WordAt(d, 1)
           n == WordAt(d, 3)
           part == SubSeq(d, 6, 5 + d[5])
           vs == WordsOf(part)
           rest == BadCount(d[5], 2 * n, BadCallback(m.fc, fault))
           refusal == BadRange(a, n, MAX_WRITE, rest)
           after == [store EXCEPT !.registers = Patch(store.registers, a, vs)]
           data == SubSeq(d, 1, 4)
           fc == m.fc
<1>1. handle_write_multiple_registers(t, q, m, store, fault) = Reply(t, q, m, store, refusal, after, 4, data)
  BY DEF handle_write_multiple_registers
<1>2. d \in Seq(Bytes) /\ Len(d) >= 4 /\ Len(d) >= 5 /\ Len(d) >= 5 + d[5] /\ fc \in EchoCodes
  BY LenProperties
<1> HIDE DEF d, fc, part
<1>3. AnswerData(fc, d, data) /\ 4 \in 0..253 BY ONLY <1>2, EchoAnswer
<1>4. a \in Nat /\ n \in Nat BY ONLY <1>2, TwoWordsType
<1>5. part \in Seq(Bytes)
  <2>1. 5 \in Nat \ {0} OBVIOUS
  <2>2. SubSeq(d, 5 + 1, 5 + d[5]) \in Seq(Bytes)
    BY ONLY <1>2, <2>1, CountedPart
  <2> QED BY <2>2 DEF part
<1> HIDE DEF a, n, data
<1>6. BadCallback(fc, fault) \in Refusals BY BadCallbackType
<1>7. rest \in Refusals BY <1>6, BadCountType DEF fc
<1> HIDE DEF rest
<1>8. refusal \in Refusals BY ONLY <1>7, BadRangeType
<1> HIDE DEF refusal
<1>9. after \in Memory
  <2>2. vs \in Seq(Words16) BY <1>5, WordsOfType
  <2> HIDE DEF vs
  <2>3. Patch(store.registers, a, vs) \in [Addresses -> Words16]
    BY <1>4, <2>2, MemoryParts, PatchType
  <2> QED BY <2>3, MemoryParts
<1> HIDE DEF after
<1> QED BY <1>1, <1>3, <1>8, <1>9, ReplyReplied DEF d, fc

\* Writes come before reads, and stay when the read fails.
LEMMA ReadWriteReplied ==
  ASSUME NEW t, NEW q \in Readers, Good(q), NEW m, m.ignored = FALSE, m.fc \in RegisterCodes,
         NEW store \in Memory, NEW fault, Data(t, q) \in Seq(Bytes),
         Len(Data(t, q)) >= 9, Len(Data(t, q)) >= 9 + Data(t, q)[9]
  PROVE  Replied(t, m, Data(t, q), q, handle_read_write_registers(t, q, m, store, fault))
<1> DEFINE d == Data(t, q)
           ra == WordAt(d, 1)
           rn == WordAt(d, 3)
           wa == WordAt(d, 5)
           wn == WordAt(d, 7)
           part == SubSeq(d, 10, 9 + d[9])
           last3 == Unsupported(3, BadCallback(16, fault))
           bad == IF rn \notin 1..MAX_READ \/ wn \notin 1..MAX_WRITE \/ d[9] # 2 * wn
                  THEN "ILLEGAL_DATA_VALUE"
                  ELSE IF ra + rn > ADDRESSES \/ wa + wn > ADDRESSES THEN "ILLEGAL_DATA_ADDRESS"
                  ELSE last3
           vs == WordsOf(part)
           registers == Patch(store.registers, wa, vs)
           after == [store EXCEPT !.registers = registers]
           refusal == IF fault.at = 2 /\ ~m.broadcast THEN Reported(fault) ELSE "NONE"
           data == <<2 * rn>> \o Words(Slice(after.registers, ra, rn))
           fc == m.fc
<1>1. handle_read_write_registers(t, q, m, store, fault)
        = IF bad # "NONE" THEN send_exception_msg(t, q, m, store, bad)
          ELSE Reply(t, q, m, after, refusal, after, 1 + 2 * rn, data)
  BY DEF handle_read_write_registers
<1>2. d \in Seq(Bytes) /\ Len(d) >= 4 /\ Len(d) >= 9 /\ Len(d) >= 9 + d[9] /\ fc \in RegisterCodes
  BY LenProperties
<1> HIDE DEF d, fc, part
<1>3. ra \in Nat /\ rn \in Nat /\ rn = WordAt(d, 3) BY ONLY <1>2, TwoWordsType
<1>4. wa \in Nat
  <2>1. 5 \in 1..(Len(d) - 1) BY <1>2, LenProperties
  <2> QED BY ONLY <1>2, <2>1, WordAtType, InWords16
<1>5. part \in Seq(Bytes)
  <2>1. 9 \in Nat \ {0} OBVIOUS
  <2>2. SubSeq(d, 9 + 1, 9 + d[9]) \in Seq(Bytes)
    BY ONLY <1>2, <2>1, CountedPart
  <2> QED BY <2>2 DEF part
<1>6. last3 \in Refusals BY BadCallbackType, UnsupportedType
<1> HIDE DEF last3, ra, rn, wa, wn
<1>7. bad \in Refusals /\ (bad = "NONE" => rn \in 1..MAX_READ /\ ~(ra + rn > ADDRESSES))
  BY <1>6, RefusalNames
<1> HIDE DEF bad
<1>8. registers \in [Addresses -> Words16]
  <2>1. vs \in Seq(Words16) BY <1>5, WordsOfType
  <2> HIDE DEF vs
  <2> QED BY <1>4, <2>1, MemoryParts, PatchType
<1> HIDE DEF registers
<1>9. after \in Memory /\ after.registers = registers BY <1>8, MemoryParts
<1>10. refusal \in Refusals BY RefusalNames, ReportedType
<1> HIDE DEF refusal
<1>11. ASSUME bad = "NONE" PROVE 1 + 2 * rn \in 0..253 /\ AnswerData(fc, d, data)
  <2>1. rn <= 125 /\ ra + rn <= ADDRESSES BY <1>3, <1>7, <1>11, Limits
  <2>2. /\ AnswerData(fc, d, <<2 * rn>> \o Words(Slice(registers, ra, rn)))
        /\ 1 + 2 * rn \in 0..253
    BY ONLY <1>2, <1>3, <1>8, <2>1, RegistersAnswer
  <2> HIDE DEF after
  <2> QED BY <1>9, <2>2
<1> HIDE DEF after, data
<1>12. CASE bad = "NONE" BY <1>1, <1>9, <1>10, <1>11, <1>12, ReplyReplied DEF d, fc
<1>13. CASE bad # "NONE"
  <2>1. bad \in ExceptionNames BY <1>7, <1>13 DEF Refusals
  <2> QED BY <1>1, <1>13, <2>1, RefuseReplied DEF d
<1> QED BY <1>12, <1>13

-----------------------------------------------------------------------------
(* What a reader has read and what it has not are, in this order, what it  *)
(* was given.                                                              *)

All(p) == p.buf \o p.in

LEMMA AllType ==
  ASSUME NEW p \in Readers
  PROVE  /\ All(p) \in Seq(Bytes) /\ Len(All(p)) = Len(p.buf) + Len(p.in)
         /\ \A i \in 1..Len(p.buf) : All(p)[i] = p.buf[i]
<1>1. p.buf \in Seq(Bytes) /\ p.in \in Seq(Bytes) BY ReaderParts
<1> DEFINE b == p.buf
           c == p.in
<1> HIDE DEF b, c
<1>2. b \in Seq(Bytes) /\ c \in Seq(Bytes) BY <1>1 DEF b, c
<1>3. Len(b) \in Nat /\ Len(c) \in Nat BY <1>2, LenProperties
<1>4. /\ b \o c \in Seq(Bytes) /\ Len(b \o c) = Len(b) + Len(c)
      /\ \A i \in 1..(Len(b) + Len(c)) : (b \o c)[i] = IF i <= Len(b) THEN b[i] ELSE c[i - Len(b)]
  BY ONLY <1>2, ConcatProperties
<1>5. \A i \in 1..Len(b) : (b \o c)[i] = b[i] BY ONLY <1>3, <1>4
<1> QED BY <1>4, <1>5 DEF All, b, c

LEMMA PartsAll ==
  ASSUME NEW e \in Errors, NEW b \in Seq(Bytes), NEW c \in Seq(Bytes), NEW w \in BOOLEAN
  PROVE  All(Parts(e, b, c, w)) = b \o c
<1> DEFINE r == Parts(e, b, c, w)
<1>1. r.buf = b /\ r.in = c BY PartsType
<1> HIDE DEF r
<1> QED BY <1>1 DEF All, r

LEMMA RecvAll ==
  ASSUME NEW p \in Readers, NEW n \in Nat
  PROVE  All(Recv(p, n)) = All(p)
<1>1. p.buf \in Seq(Bytes) /\ p.in \in Seq(Bytes) /\ p.waits \in BOOLEAN BY ReaderParts
<1> DEFINE b == p.buf
           c == p.in
           w == p.waits
<1> HIDE DEF b, c, w
<1>2. b \in Seq(Bytes) /\ c \in Seq(Bytes) /\ w \in BOOLEAN /\ Len(c) \in Nat
  BY <1>1, LenProperties DEF b, c, w
<1>3. CASE ~Good(p) BY <1>3 DEF Recv
<1>4. CASE Good(p) /\ Len(p.in) < n
  <2> DEFINE none == <<>>
             d == b \o c
             e == "TIMEOUT"
  <2>1. none \in Seq(Bytes) /\ e \in Errors BY DEF Errors
  <2>2. d \in Seq(Bytes) BY <1>2, ConcatProperties
  <2>3. d \o none = d BY <2>2, ConcatEmptySeq
  <2>4. Recv(p, n) = Parts(e, d, none, w) BY <1>4, RecvShort DEF b, c, w
  <2> HIDE DEF none, d, e
  <2>5. All(Recv(p, n)) = d \o none BY <1>2, <2>1, <2>2, <2>4, PartsAll
  <2> QED BY <2>3, <2>5 DEF d, All, b, c
<1>5. CASE Good(p) /\ ~(Len(p.in) < n)
  <2> DEFINE u == SubSeq(c, 1, n)
             v == SubSeq(c, n + 1, Len(c))
             d == b \o u
             e == "NONE"
  <2>1. u \in Seq(Bytes) /\ v \in Seq(Bytes) /\ Recv(p, n) = Parts(e, d, v, w)
    BY <1>5, RecvEnough DEF b, c, w
  <2>2. e \in Errors BY DEF Errors
  <2>3. u \o v = SubSeq(c, 1, Len(c))
    <3>1. 1 \in 1..(Len(c) + 1) /\ n \in (1 - 1)..Len(c) /\ Len(c) \in n..Len(c) BY <1>2, <1>5 DEF c
    <3> QED BY ONLY <1>2, <3>1, ConcatAdjacentSubSeq
  <2>4. u \o v = c BY <1>2, <2>3, SubSeqFull
  <2> HIDE DEF u, v, e
  <2>5. d \in Seq(Bytes) /\ d \o v = b \o (u \o v)
    <3>1. d \in Seq(Bytes) BY <1>2, <2>1, ConcatProperties
    <3> QED BY ONLY <1>2, <2>1, <3>1, ConcatAssociative
  <2> HIDE DEF d
  <2>6. All(Recv(p, n)) = d \o v
    <3>1. w \in BOOLEAN /\ v \in Seq(Bytes) /\ d \in Seq(Bytes) BY ONLY <1>2, <2>1, <2>5
    <3>2. All(Parts(e, d, v, w)) = d \o v BY ONLY <2>2, <3>1, PartsAll
    <3>3. Recv(p, n) = Parts(e, d, v, w) BY ONLY <2>1
    <3> QED BY ONLY <3>2, <3>3
  <2> QED BY <2>4, <2>5, <2>6 DEF All, b, c
<1> QED BY <1>3, <1>4, <1>5

LEMMA FailAll ==
  ASSUME NEW p \in Readers, NEW e \in Errors PROVE All(Fail(p, e)) = All(p)
BY FailType DEF All

LEMMA ManyAll ==
  ASSUME NEW q \in Readers, Good(q) => Len(q.buf) > 0
  PROVE  All(RecvAsMany(q)) = All(q)
<1>1. CASE ~Good(q) BY <1>1 DEF RecvAsMany
<1>2. CASE Good(q)
  <2>1. q.buf \in Seq(Bytes) /\ Len(q.buf) \in Nat BY LenProperties, ReaderParts
  <2>2. q.buf[Len(q.buf)] \in Nat BY <1>2, <2>1, ElementOfSeq, InBytes
  <2> QED BY <1>2, <2>2, RecvAll DEF RecvAsMany
<1> QED BY <1>1, <1>2

LEMMA FooterAll ==
  ASSUME NEW t, NEW p \in Readers PROVE All(Footer(t, p)) = All(p)
<1>1. Recv(p, 2) \in Readers /\ All(Recv(p, 2)) = All(p) BY RecvType, RecvAll
<1>2. "CRC" \in Errors BY DEF Errors
<1>3. All(Fail(Recv(p, 2), "CRC")) = All(p) BY <1>1, <1>2, FailAll
<1>4. CrcChecked(p, Recv(p, 2)) \in {Recv(p, 2), Fail(Recv(p, 2), "CRC")} BY DEF CrcChecked
<1>5. Footer(t, p) \in {p, CrcChecked(p, Recv(p, 2))} BY DEF Footer
<1> QED BY <1>1, <1>3, <1>4, <1>5

\* Bytes read by one reader and by a later one are the same.
LEMMA SamePrefix ==
  ASSUME NEW p \in Readers, NEW q \in Readers, All(p) = All(q), NEW i \in 1..Len(p.buf), i <= Len(q.buf)
  PROVE  p.buf[i] = q.buf[i]
<1>1. Len(p.buf) \in Nat /\ Len(q.buf) \in Nat BY ReaderParts, LenProperties
<1>2. i \in 1..Len(q.buf) BY <1>1
<1>3. All(p)[i] = p.buf[i] BY AllType
<1>4. All(q)[i] = q.buf[i] BY <1>2, AllType
<1> QED BY <1>3, <1>4

LEMMA SubSeqAt ==
  ASSUME NEW b \in Seq(Bytes), NEW h \in Nat, NEW k \in Nat \ {0}, h + k <= Len(b)
  PROVE  SubSeq(b, h + 1, Len(b))[k] = b[h + k]
<1>1. Len(b) \in Nat BY LenProperties
<1> DEFINE n == Len(b)
           m == h + 1
<1>2. n \in Int /\ m \in Int /\ \A i \in m..n : b[i] \in Bytes BY <1>1, ElementOfSeq
<1>3. k \in 1..(n - m + 1) /\ m + k - 1 = h + k BY <1>1
<1> HIDE DEF n, m
<1>4. \A i \in 1..(n - m + 1) : SubSeq(b, m, n)[i] = b[m + i - 1] BY ONLY <1>2, SubSeqProperties
<1> QED BY <1>3, <1>4 DEF n, m

\* k bytes, the last of which says how many more there are.
LEMMA ManyData ==
  ASSUME NEW t, NEW p \in Readers, Good(p), Len(p.buf) = HeaderLen(t), NEW k \in Nat \ {0},
         Good(Footer(t, RecvAsMany(Recv(p, k))))
  PROVE  LET q == Footer(t, RecvAsMany(Recv(p, k)))
             d == Data(t, q)
         IN /\ d \in Seq(Bytes) /\ Len(d) >= k /\ d[k] \in Nat /\ Len(d) >= k + d[k]
<1> DEFINE r == Recv(p, k)
           u == RecvAsMany(r)
           q == Footer(t, u)
           d == Data(t, q)
           h == HeaderLen(t)
<1>1. h \in Nat /\ Len(p.buf) = h BY DataType
<1>2. r \in Readers /\ (Good(r) => Len(r.buf) = h + k) /\ All(r) = All(p) BY <1>1, RecvType, RecvAll
<1> HIDE DEF r
<1>3. Good(r) => Len(r.buf) > 0 BY <1>1, <1>2
<1>4. u \in Readers /\ (Good(u) => Len(u.buf) = Len(r.buf) + r.buf[Len(r.buf)]) /\ All(u) = All(r)
  BY <1>2, <1>3, CountedType, ManyAll
<1>5. Good(u) => Good(r) BY DEF RecvAsMany
<1> HIDE DEF u
<1>6. q \in Readers /\ Good(u) /\ Len(q.buf) >= Len(u.buf) /\ All(q) = All(u)
  <2>1. Good(q) BY DEF u, r
  <2> QED BY <1>4, <2>1, FooterType, FooterAll
<1> HIDE DEF q
<1>7. r.buf \in Seq(Bytes) /\ Len(r.buf) = h + k BY <1>2, <1>5, <1>6, ReaderParts
<1>8. r.buf[h + k] \in Nat
  <2>1. h + k \in 1..Len(r.buf) BY <1>1, <1>7
  <2> QED BY <1>7, <2>1, ElementOfSeq, InBytes
<1>9. Len(q.buf) \in Nat /\ Len(q.buf) >= h + k + r.buf[h + k]
  <2>1. Len(u.buf) = h + k + r.buf[h + k] BY ONLY <1>4, <1>6, <1>7
  <2>2. Len(q.buf) \in Nat BY <1>6, ReaderParts, LenProperties
  <2> QED BY ONLY <1>6, <2>1, <2>2
<1>10. q.buf[h + k] = r.buf[h + k]
  <2>1. h + k \in 1..Len(r.buf) /\ h + k <= Len(q.buf) BY <1>1, <1>7, <1>8, <1>9
  <2> QED BY <1>2, <1>4, <1>6, <2>1, SamePrefix
<1>11. d \in Seq(Bytes) /\ Len(d) = Len(q.buf) - h
  <2>1. Len(q.buf) >= h BY <1>1, <1>8, <1>9
  <2> QED BY <1>6, <2>1, DataType
<1>12. d[k] = q.buf[h + k]
  <2>1. d = SubSeq(q.buf, h + 1, Len(q.buf)) BY DEF Data
  <2>2. q.buf \in Seq(Bytes) BY <1>6, ReaderParts
  <2>3. h + k <= Len(q.buf) BY ONLY <1>1, <1>8, <1>9
  <2> DEFINE b == q.buf
  <2>4. b \in Seq(Bytes) /\ h + k <= Len(b) BY <2>2, <2>3
  <2> HIDE DEF b, d
  <2>5. SubSeq(b, h + 1, Len(b))[k] = b[h + k] BY ONLY <1>1, <2>4, k \in Nat \ {0}, SubSeqAt
  <2> QED BY <2>1, <2>5 DEF b
<1> QED BY <1>1, <1>8, <1>9, <1>10, <1>11, <1>12 DEF q, u, r

-----------------------------------------------------------------------------
(* A request is refused, skipped or carried out.                           *)

Handled(t, m, q, store, o) ==
  \/ ~Good(q) /\ o = Unread(q, m, store)
  \/ Good(q) /\ m.ignored /\ \E r \in Readers : o = Outcome(r, store, <<>>, NoAnswer)
  \/ Good(q) /\ m.ignored = FALSE /\ Replied(t, m, Data(t, q), q, o)


LEMMA WordsData ==
  ASSUME NEW t, NEW p \in Readers, Good(p), Len(p.buf) = HeaderLen(t), Good(TwoWords(t, p))
  PROVE  Data(t, TwoWords(t, p)) \in Seq(Bytes) /\ Len(Data(t, TwoWords(t, p))) >= 4
<1> DEFINE q == TwoWords(t, p)
           h == HeaderLen(t)
<1>1. h \in Nat BY DataType
<1>2. Recv(p, 4) \in Readers /\ (Good(Recv(p, 4)) => Len(Recv(p, 4).buf) = h + 4) BY RecvType
<1>3. q \in Readers /\ Len(q.buf) >= h + 4 BY <1>2, FooterType DEF TwoWords
<1>4. Len(q.buf) \in Nat BY <1>3, ReaderParts, LenProperties
<1> HIDE DEF q
<1>5. Data(t, q) \in Seq(Bytes) /\ Len(Data(t, q)) = Len(q.buf) - h BY <1>1, <1>3, <1>4, DataType
<1> QED BY <1>1, <1>3, <1>4, <1>5 DEF q

LEMMA RequestReaders ==
  ASSUME NEW t, NEW p \in Readers, Good(p), Len(p.buf) = HeaderLen(t)
  PROVE  /\ TwoWords(t, p) \in Readers /\ ManyRequest(t, p) \in Readers
         /\ FileRequest(t, p) \in Readers /\ ReadWriteRequest(t, p) \in Readers
<1>1. HeaderLen(t) \in Nat BY DataType
<1>2. TwoWords(t, p) \in Readers BY RecvType, FooterType DEF TwoWords
<1>3. Recv(p, 5) \in Readers /\ (Good(Recv(p, 5)) => Len(Recv(p, 5).buf) > 0) BY <1>1, RecvType
<1>4. Recv(p, 9) \in Readers /\ (Good(Recv(p, 9)) => Len(Recv(p, 9).buf) > 0) BY <1>1, RecvType
<1>5. RecvAsMany(Recv(p, 5)) \in Readers BY <1>3, CountedType
<1>6. RecvAsMany(Recv(p, 9)) \in Readers BY <1>4, CountedType
<1>7. Counted(p) \in Readers BY CountedReads
<1> QED BY <1>2, <1>5, <1>6, <1>7, FooterType DEF ManyRequest, ReadWriteRequest, FileRequest

LEMMA BitsHandled ==
  ASSUME NEW t, NEW p \in Readers, Good(p), Len(p.buf) = HeaderLen(t), NEW m, m.ignored \in BOOLEAN,
         m.fc \in BitCodes, NEW store \in Memory, NEW bits \in [Addresses -> {0, 1}], NEW fault
  PROVE  Handled(t, m, TwoWords(t, p), store, handle_read_discrete(t, TwoWords(t, p), m, store, bits, fault))
<1> DEFINE q == TwoWords(t, p)
           o == handle_read_discrete(t, q, m, store, bits, fault)
           r == recv_read_discrete_res(t, q, m)
<1>1. q \in Readers BY RequestReaders
<1>2. Good(q) => Data(t, q) \in Seq(Bytes) /\ Len(Data(t, q)) >= 4 BY WordsData
<1> HIDE DEF q
<1>3. r \in Readers BY <1>1, CountedResponse DEF recv_read_discrete_res
<1>4. ~Good(q) => o = Unread(q, m, store) BY DEF handle_read_discrete
<1>5. Good(q) /\ m.ignored => o = Outcome(r, store, <<>>, NoAnswer) BY DEF handle_read_discrete
<1>6. Good(q) /\ m.ignored = FALSE => Replied(t, m, Data(t, q), q, o)
  BY <1>1, <1>2, ReadDiscreteReplied
<1> HIDE DEF o, r
<1>7. Handled(t, m, q, store, o) BY <1>3, <1>4, <1>5, <1>6 DEF Handled
<1> QED BY <1>7 DEF q, o

LEMMA RegistersHandled ==
  ASSUME NEW t, NEW p \in Readers, Good(p), Len(p.buf) = HeaderLen(t), NEW m, m.ignored \in BOOLEAN,
         m.fc \in RegisterCodes, NEW store \in Memory, NEW registers \in [Addresses -> Words16], NEW fault
  PROVE  Handled(t, m, TwoWords(t, p), store, handle_read_registers(t, TwoWords(t, p), m, store, registers, fault))
<1> DEFINE q == TwoWords(t, p)
           o == handle_read_registers(t, q, m, store, registers, fault)
           r == recv_read_registers_res(t, q, m, WordAt(Data(t, q), 3))
<1>1. q \in Readers BY RequestReaders
<1>2. Good(q) => Data(t, q) \in Seq(Bytes) /\ Len(Data(t, q)) >= 4 BY WordsData
<1> HIDE DEF q
<1>3. r \in Readers BY <1>1, CountedResponse, ExpectType DEF recv_read_registers_res, RegistersRead
<1>4. ~Good(q) => o = Unread(q, m, store) BY DEF handle_read_registers
<1>5. Good(q) /\ m.ignored => o = Outcome(r, store, <<>>, NoAnswer) BY DEF handle_read_registers
<1>6. Good(q) /\ m.ignored = FALSE => Replied(t, m, Data(t, q), q, o)
  BY <1>1, <1>2, ReadRegistersReplied
<1> HIDE DEF o, r
<1>7. Handled(t, m, q, store, o) BY <1>3, <1>4, <1>5, <1>6 DEF Handled
<1> QED BY <1>7 DEF q, o

LEMMA SinglesHandled ==
  ASSUME NEW t, NEW p \in Readers, Good(p), Len(p.buf) = HeaderLen(t), NEW m, m.ignored \in BOOLEAN,
         m.fc \in EchoCodes, NEW store \in Memory, NEW fault
  PROVE  /\ Handled(t, m, TwoWords(t, p), store, handle_write_single_coil(t, TwoWords(t, p), m, store, fault))
         /\ Handled(t, m, TwoWords(t, p), store, handle_write_single_register(t, TwoWords(t, p), m, store, fault))
<1> DEFINE q == TwoWords(t, p)
           d == SubSeq(Data(t, q), 1, 4)
           o1 == handle_write_single_coil(t, q, m, store, fault)
           o2 == handle_write_single_register(t, q, m, store, fault)
           r == EchoChecked(t, Echoed(t, q, m), WordAt(d, 1), WordAt(d, 3))
<1>1. q \in Readers BY RequestReaders
<1>2. Good(q) => Data(t, q) \in Seq(Bytes) /\ Len(Data(t, q)) >= 4 BY WordsData
<1> HIDE DEF q
<1>3. r \in Readers BY <1>1, EchoType
<1>4. ~Good(q) => o1 = Unread(q, m, store) /\ o2 = Unread(q, m, store)
  BY DEF handle_write_single_coil, handle_write_single_register
<1>5. Good(q) /\ m.ignored => o1 = Outcome(r, store, <<>>, NoAnswer) /\ o2 = Outcome(r, store, <<>>, NoAnswer)
  BY DEF handle_write_single_coil, handle_write_single_register,
         recv_write_single_coil_res, recv_write_single_register_res
<1>6. Good(q) /\ m.ignored = FALSE =>
        Replied(t, m, Data(t, q), q, o1) /\ Replied(t, m, Data(t, q), q, o2)
  BY <1>1, <1>2, WriteSingleReplied
<1> HIDE DEF o1, o2, r
<1>7. Handled(t, m, q, store, o1) BY <1>3, <1>4, <1>5, <1>6 DEF Handled
<1>8. Handled(t, m, q, store, o2) BY <1>3, <1>4, <1>5, <1>6 DEF Handled
<1> QED BY <1>7, <1>8 DEF q, o1, o2

LEMMA ManyHandled ==
  ASSUME NEW t, NEW p \in Readers, Good(p), Len(p.buf) = HeaderLen(t), NEW m, m.ignored \in BOOLEAN,
         m.fc \in EchoCodes, NEW store \in Memory, NEW fault
  PROVE  /\ Handled(t, m, ManyRequest(t, p), store, handle_write_multiple_coils(t, ManyRequest(t, p), m, store, fault))
         /\ Handled(t, m, ManyRequest(t, p), store, handle_write_multiple_registers(t, ManyRequest(t, p), m, store, fault))
<1> DEFINE q == ManyRequest(t, p)
           o1 == handle_write_multiple_coils(t, q, m, store, fault)
           o2 == handle_write_multiple_registers(t, q, m, store, fault)
           r == EchoChecked(t, Echoed(t, q, m), WordAt(Data(t, q), 1), WordAt(Data(t, q), 3))
<1>1. q \in Readers BY RequestReaders
<1>2. Good(q) => Data(t, q) \in Seq(Bytes) /\ Len(Data(t, q)) >= 5 /\ Len(Data(t, q)) >= 5 + Data(t, q)[5]
  <2>1. 5 \in Nat \ {0} OBVIOUS
  <2> QED BY <2>1, ManyData DEF ManyRequest
<1> HIDE DEF q
<1>3. r \in Readers BY <1>1, EchoType
<1>4. ~Good(q) => o1 = Unread(q, m, store) /\ o2 = Unread(q, m, store)
  BY DEF handle_write_multiple_coils, handle_write_multiple_registers
<1>5. Good(q) /\ m.ignored => o1 = Outcome(r, store, <<>>, NoAnswer) /\ o2 = Outcome(r, store, <<>>, NoAnswer)
  BY DEF handle_write_multiple_coils, handle_write_multiple_registers,
         recv_write_multiple_coils_res, recv_write_multiple_registers_res
<1>6. Good(q) /\ m.ignored = FALSE =>
        Replied(t, m, Data(t, q), q, o1) /\ Replied(t, m, Data(t, q), q, o2)
  BY <1>1, <1>2, WriteCoilsReplied, WriteRegistersReplied
<1> HIDE DEF o1, o2, r
<1>7. Handled(t, m, q, store, o1) BY <1>3, <1>4, <1>5, <1>6 DEF Handled
<1>8. Handled(t, m, q, store, o2) BY <1>3, <1>4, <1>5, <1>6 DEF Handled
<1> QED BY <1>7, <1>8 DEF q, o1, o2

LEMMA ReadWriteHandled ==
  ASSUME NEW t, NEW p \in Readers, Good(p), Len(p.buf) = HeaderLen(t), NEW m, m.ignored \in BOOLEAN,
         m.fc \in RegisterCodes, NEW store \in Memory, NEW fault
  PROVE  Handled(t, m, ReadWriteRequest(t, p), store, handle_read_write_registers(t, ReadWriteRequest(t, p), m, store, fault))
<1> DEFINE q == ReadWriteRequest(t, p)
           o == handle_read_write_registers(t, q, m, store, fault)
           r == EchoChecked(t, Echoed(t, q, m), WordAt(Data(t, q), 5), WordAt(Data(t, q), 7))
<1>1. q \in Readers BY RequestReaders
<1>2. Good(q) => Data(t, q) \in Seq(Bytes) /\ Len(Data(t, q)) >= 9 /\ Len(Data(t, q)) >= 9 + Data(t, q)[9]
  <2>1. 9 \in Nat \ {0} OBVIOUS
  <2> QED BY <2>1, ManyData DEF ReadWriteRequest
<1> HIDE DEF q
<1>3. r \in Readers BY <1>1, EchoType
<1>4. ~Good(q) => o = Unread(q, m, store) BY DEF handle_read_write_registers
<1>5. Good(q) /\ m.ignored => o = Outcome(r, store, <<>>, NoAnswer)
  BY DEF handle_read_write_registers, recv_write_multiple_registers_res
<1>6. Good(q) /\ m.ignored = FALSE => Replied(t, m, Data(t, q), q, o)
  BY <1>1, <1>2, ReadWriteReplied
<1> HIDE DEF o, r
<1>7. Handled(t, m, q, store, o) BY <1>3, <1>4, <1>5, <1>6 DEF Handled
<1> QED BY <1>7 DEF q, o

\* Without callbacks for file records, a request for them is refused.
LEMMA FilesHandled ==
  ASSUME NEW t, NEW p \in Readers, Good(p), Len(p.buf) = HeaderLen(t), NEW m, m.ignored \in BOOLEAN,
         m.fc \notin Supported, NEW store \in Memory, NEW fault
  PROVE  /\ Handled(t, m, FileRequest(t, p), store, handle_read_file_record(t, FileRequest(t, p), m, store, fault))
         /\ Handled(t, m, FileRequest(t, p), store, handle_write_file_record(t, FileRequest(t, p), m, store, fault))
<1> DEFINE q == FileRequest(t, p)
           o1 == handle_read_file_record(t, q, m, store, fault)
           o2 == handle_write_file_record(t, q, m, store, fault)
           r1 == recv_read_file_record_res(t, q, m, FALSE, 0)
           r2 == recv_write_file_record_res(t, q, m, FALSE, <<>>)
<1>1. q \in Readers BY RequestReaders
<1> HIDE DEF q
<1>2. r1 \in Readers /\ r2 \in Readers BY <1>1, FileReadType, FileWrittenType
<1>a. /\ ~Good(q) => o1 = Unread(q, m, store)
      /\ Good(q) /\ m.ignored => o1 = Outcome(r1, store, <<>>, NoAnswer)
  BY DEF handle_read_file_record
<1>b. /\ ~Good(q) => o2 = Unread(q, m, store)
      /\ Good(q) /\ m.ignored => o2 = Outcome(r2, store, <<>>, NoAnswer)
  BY DEF handle_write_file_record
<1>3. ~Good(q) => o1 = Unread(q, m, store) /\ o2 = Unread(q, m, store)
  BY <1>a, <1>b
<1>4. Good(q) /\ m.ignored => o1 = Outcome(r1, store, <<>>, NoAnswer) /\ o2 = Outcome(r2, store, <<>>, NoAnswer)
  BY <1>a, <1>b
<1>5. {"ILLEGAL_FUNCTION", "ILLEGAL_DATA_ADDRESS", "ILLEGAL_DATA_VALUE"} \subseteq ExceptionNames
      /\ "NONE" \notin ExceptionNames
  BY ExceptionKinds
<1>6. Good(q) /\ m.ignored = FALSE => \E e \in ExceptionNames : o1 = send_exception_msg(t, q, m, store, e)
  <2> SUFFICES ASSUME Good(q), m.ignored = FALSE
               PROVE  \E e \in ExceptionNames : o1 = send_exception_msg(t, q, m, store, e)
    OBVIOUS
  <2> DEFINE d == Data(t, q)
             subs == ReadSubs(d)
             refusal == ReadRefusal(d, m, subs, SubRefusals(store, subs, fault))
             size == FileSize(subs)
             data == FileData(store, subs)
  <2>1. o1 = Reply(t, q, m, store, refusal, store, size, data) BY DEF handle_read_file_record
  <2> HIDE DEF d, subs, size, data
  <2>2. refusal \in {"ILLEGAL_FUNCTION", "ILLEGAL_DATA_ADDRESS", "ILLEGAL_DATA_VALUE"}
    BY DEF ReadRefusal, Unsupported
  <2> HIDE DEF refusal
  <2>3. refusal \in ExceptionNames /\ refusal # "NONE" BY <1>5, <2>2
  <2> QED BY <2>1, <2>3 DEF Reply
<1>7. Good(q) /\ m.ignored = FALSE => \E e \in ExceptionNames : o2 = send_exception_msg(t, q, m, store, e)
  <2> SUFFICES ASSUME Good(q), m.ignored = FALSE
               PROVE  \E e \in ExceptionNames : o2 = send_exception_msg(t, q, m, store, e)
    OBVIOUS
  <2> DEFINE d == SubSeq(Data(t, q), 1, 1 + Data(t, q)[1])
             subs == WriteSubs(d)
             early == WriteRefusal(d, m, subs[Len(subs)])
  <2>1. o2 = WriteFile(t, q, m, store, fault, d, subs) BY DEF handle_write_file_record
  <2> HIDE DEF d, subs
  <2>2. early \in {"ILLEGAL_FUNCTION", "ILLEGAL_DATA_ADDRESS", "ILLEGAL_DATA_VALUE"}
    BY DEF WriteRefusal
  <2> HIDE DEF early
  <2>3. early \in ExceptionNames /\ early # "NONE" BY <1>5, <2>2
  <2>4. WriteFile(t, q, m, store, fault, d, subs) = send_exception_msg(t, q, m, store, early)
    BY <2>3 DEF WriteFile, early
  <2> QED BY <2>1, <2>3, <2>4
<1> HIDE DEF o1, o2, r1, r2
<1>8. Good(q) /\ m.ignored = FALSE => Replied(t, m, Data(t, q), q, o1) /\ Replied(t, m, Data(t, q), q, o2)
  BY <1>1, <1>6, <1>7, RefuseReplied
<1>9. Handled(t, m, q, store, o1) BY <1>2, <1>3, <1>4, <1>8 DEF Handled
<1>10. Handled(t, m, q, store, o2) BY <1>2, <1>3, <1>4, <1>8 DEF Handled
<1> QED BY <1>9, <1>10 DEF q, o1, o2

-----------------------------------------------------------------------------
(* Frames.                                                                 *)

\* The check of a message is bytes, as nmbs_crc_calc's is.
CrcIsBytes == \A b \in Seq(Bytes) : Crc(b) \in Seq(Bytes)
Message(m) == m.unit \in Bytes /\ m.fc \in Bytes /\ m.tid \in Words16

LEMMA PairType ==
  ASSUME NEW a \in Bytes, NEW b \in Bytes
  PROVE  <<a, b>> \in Seq(Bytes) /\ Len(<<a, b>>) = 2 /\ <<a, b>>[1] = a /\ <<a, b>>[2] = b
OBVIOUS

LEMMA JoinType ==
  ASSUME NEW a \in Seq(Bytes), NEW b \in Seq(Bytes)
  PROVE  /\ a \o b \in Seq(Bytes) /\ Len(a \o b) = Len(a) + Len(b)
         /\ \A i \in 1..Len(a) : (a \o b)[i] = a[i]
         /\ \A i \in 1..Len(b) : (a \o b)[Len(a) + i] = b[i]
<1>1. Len(a) \in Nat /\ Len(b) \in Nat BY LenProperties
<1>2. /\ a \o b \in Seq(Bytes) /\ Len(a \o b) = Len(a) + Len(b)
      /\ \A i \in 1..(Len(a) + Len(b)) : (a \o b)[i] = IF i <= Len(a) THEN a[i] ELSE b[i - Len(a)]
  BY ConcatProperties
<1> QED BY <1>1, <1>2

LEMMA JoinLen ==
  ASSUME NEW a \in Seq(Bytes), NEW b \in Seq(Bytes), NEW k, Len(a) + Len(b) = k
  PROVE  a \o b \in Seq(Bytes) /\ Len(a \o b) = k
BY JoinType

LEMMA HeaderBytes ==
  ASSUME NEW t, NEW m, Message(m), NEW n \in Nat, 2 + n <= UINT16_MAX
  PROVE  Header(t, m, n) \in Seq(Bytes) /\ Len(Header(t, m, n)) = HeaderLen(t)
<1> DEFINE u == m.unit
           f == m.fc
           end == <<u, f>>
           a == Word(m.tid)
           b == Word(0)
           c == Word(2 + n)
<1>1. end \in Seq(Bytes) /\ Len(end) = 2 BY PairType DEF Message
<1>2. m.tid \in Words16 /\ 0 \in Words16 /\ 2 + n \in Words16 BY InWords16, Max16Nat DEF Message
<1>3. /\ a \in Seq(Bytes) /\ Len(a) = 2 /\ b \in Seq(Bytes) /\ Len(b) = 2
      /\ c \in Seq(Bytes) /\ Len(c) = 2
  BY <1>2, WordType
<1>4. Header(t, m, n) = IF t = "RTU" THEN end ELSE a \o b \o c \o end BY DEF Header
<1> HIDE DEF end, a, b, c
<1> DEFINE ab == a \o b
<1>5. ab \in Seq(Bytes) /\ Len(ab) = 4
  <2>1. a \in Seq(Bytes) /\ Len(a) = 2 /\ b \in Seq(Bytes) /\ Len(b) = 2 BY ONLY <1>3
  <2> QED BY ONLY <2>1, JoinType
<1> HIDE DEF ab
<1> DEFINE abc == ab \o c
<1>6. abc \in Seq(Bytes) /\ Len(abc) = 6
  <2>1. c \in Seq(Bytes) /\ Len(ab) + Len(c) = 6 BY ONLY <1>3, <1>5
  <2> QED BY ONLY <1>5, <2>1, JoinLen
<1> HIDE DEF abc
<1> DEFINE all == abc \o end
<1>7. all \in Seq(Bytes) /\ Len(all) = 8
  <2>1. end \in Seq(Bytes) /\ Len(abc) + Len(end) = 8 BY ONLY <1>1, <1>6
  <2> QED BY ONLY <1>6, <2>1, JoinLen
<1> HIDE DEF all
<1>8. Header(t, m, n) = IF t = "RTU" THEN end ELSE all BY <1>4 DEF all, abc, ab
<1> QED BY <1>1, <1>7, <1>8 DEF HeaderLen

LEMMA FrameType ==
  ASSUME CrcIsBytes, NEW t, NEW m, Message(m), NEW n \in Nat, 2 + n <= UINT16_MAX, NEW data \in Seq(Bytes)
  PROVE  Frame(t, m, n, data) \in Seq(Bytes)
<1> DEFINE f == Header(t, m, n) \o data
<1>1. f \in Seq(Bytes) BY HeaderBytes, ConcatProperties
<1>2. Frame(t, m, n, data) = IF t = "RTU" THEN f \o Crc(f) ELSE f BY DEF Frame
<1> HIDE DEF f
<1>3. Crc(f) \in Seq(Bytes) BY <1>1 DEF CrcIsBytes
<1> DEFINE g == Crc(f)
<1> HIDE DEF g
<1>4. f \o g \in Seq(Bytes) BY <1>1, <1>3, ConcatProperties DEF g
<1> QED BY <1>1, <1>2, <1>4 DEF g

LEMMA RepliedType ==
  ASSUME CrcIsBytes, NEW t, NEW m, Message(m), NEW d, NEW q \in Readers, NEW o, Replied(t, m, d, q, o)
  PROVE  o.in \in Seq(Bytes) /\ o.mem \in Memory /\ o.err = "NONE" /\ o.out \in Seq(Bytes)
<1>1. o.in \in Seq(Bytes) /\ o.mem \in Memory /\ o.err = "NONE" BY ReaderParts DEF Replied
<1>2. ASSUME NEW e \in ExceptionNames, Refuses(t, m, o, e) PROVE o.out \in Seq(Bytes)
  <2> DEFINE x == [m EXCEPT !.fc = (@ + 128) % 256]
             c == ExceptionCode(e)
             data == <<c>>
             n == 1
  <2>1. c \in 1..4 BY ExceptionKinds
  <2> HIDE DEF c
  <2>2. c \in Bytes BY <2>1, InBytes
  <2>3. data \in Seq(Bytes) BY <2>2
  <2>4. n \in Nat /\ 2 + n <= UINT16_MAX BY Max16
  <2>5. o.out = Frame(t, x, n, data) BY <1>2 DEF Refuses, c
  <2>6. Message(x)
    <3>1. m.fc \in Nat BY InBytes DEF Message
    <3>2. (m.fc + 128) % 256 \in Nat /\ (m.fc + 128) % 256 <= 255 BY <3>1, SMT
    <3>3. (m.fc + 128) % 256 \in Bytes BY <3>2, InBytes
    <3>4. x.unit = m.unit /\ x.tid = m.tid /\ x.fc \in Bytes BY <3>3
    <3> QED BY <3>4 DEF Message
  <2> HIDE DEF x, data, n
  <2> QED BY <2>3, <2>4, <2>5, <2>6, FrameType
<1>3. ASSUME NEW n \in 0..253, NEW data, Obeys(t, m, d, o, n, data) PROVE o.out \in Seq(Bytes)
  <2>1. data \in Seq(Bytes) BY <1>3 DEF Obeys, AnswerData
  <2>2. n \in Nat /\ 2 + n <= UINT16_MAX BY Max16
  <2>3. Frame(t, m, n, data) \in Seq(Bytes) BY <2>1, <2>2, FrameType
  <2>4. o.out = IF m.broadcast THEN <<>> ELSE Frame(t, m, n, data) BY <1>3 DEF Obeys
  <2>5. <<>> \in Seq(Bytes) OBVIOUS
  <2> QED BY <2>3, <2>4, <2>5
<1> QED BY <1>1, <1>2, <1>3 DEF Replied

-----------------------------------------------------------------------------
(* A server's poll.                                                        *)

LEMMA InputsType ==
  ASSUME NEW s \in Servers
  PROVE  Bits(s) \in [Addresses -> {0, 1}] /\ InputRegisters(s) \in [Addresses -> Words16]
BY ApplicationAssumption DEF ApplicationAssumption, Bits, InputRegisters, Addresses

\* What is read of a request with function code fc.
RequestReader(t, p, fc) ==
  IF fc \in 1..6 THEN TwoWords(t, p)
  ELSE IF fc \in {15, 16} THEN ManyRequest(t, p)
  ELSE IF fc \in FileCodes THEN FileRequest(t, p) ELSE ReadWriteRequest(t, p)
RequestCodes == (1..6) \cup {15, 16, 20, 21, 23}

LEMMA FcHandled ==
  ASSUME Supported \cap FileCodes = {}, NEW t, NEW s \in Servers, NEW p \in Readers, Good(p),
         Len(p.buf) = HeaderLen(t), NEW m, m.ignored \in BOOLEAN, NEW store \in Memory, NEW fault
  PROVE  /\ RequestReader(t, p, m.fc) \in Readers
         /\ \/ Handled(t, m, RequestReader(t, p, m.fc), store, handle_req_fc(t, s, p, m, store, fault))
            \/ /\ m.fc \notin RequestCodes
               /\ handle_req_fc(t, s, p, m, store, fault)
                    = Outcome(Fail(p, "ILLEGAL_FUNCTION"), store, <<>>, NoAnswer)
<1> DEFINE o == handle_req_fc(t, s, p, m, store, fault)
           fc == m.fc
           two == TwoWords(t, p)
           many == ManyRequest(t, p)
           file == FileRequest(t, p)
           both == ReadWriteRequest(t, p)
           reader == RequestReader(t, p, fc)
           SomeHandled == Handled(t, m, reader, store, o)
<1>1. two \in Readers /\ many \in Readers /\ file \in Readers /\ both \in Readers BY RequestReaders
<1>r. reader \in Readers BY <1>1 DEF RequestReader
<1>2. store.coils \in [Addresses -> {0, 1}] /\ store.registers \in [Addresses -> Words16]
  BY MemoryParts
<1>3. Bits(s) \in [Addresses -> {0, 1}] /\ InputRegisters(s) \in [Addresses -> Words16]
  BY InputsType
<1>4. ASSUME fc = 1 PROVE SomeHandled
  <2>1. o = handle_read_discrete(t, two, m, store, store.coils, fault) BY <1>4 DEF handle_req_fc
  <2>2. m.fc \in BitCodes BY <1>4 DEF BitCodes
  <2>r. reader = two BY <1>4 DEF RequestReader, FileCodes
  <2> QED BY <2>r, <1>1, <1>2, <2>1, <2>2, BitsHandled
<1>5. ASSUME fc = 2 PROVE SomeHandled
  <2>1. o = handle_read_discrete(t, two, m, store, Bits(s), fault) BY <1>5 DEF handle_req_fc
  <2>2. m.fc \in BitCodes BY <1>5 DEF BitCodes
  <2>r. reader = two BY <1>5 DEF RequestReader, FileCodes
  <2> QED BY <2>r, <1>1, <1>3, <2>1, <2>2, BitsHandled
<1>6. ASSUME fc = 3 PROVE SomeHandled
  <2>1. o = handle_read_registers(t, two, m, store, store.registers, fault)
    BY <1>6 DEF handle_req_fc
  <2>2. m.fc \in RegisterCodes BY <1>6 DEF RegisterCodes
  <2>r. reader = two BY <1>6 DEF RequestReader, FileCodes
  <2> QED BY <2>r, <1>1, <1>2, <2>1, <2>2, RegistersHandled
<1>7. ASSUME fc = 4 PROVE SomeHandled
  <2>1. o = handle_read_registers(t, two, m, store, InputRegisters(s), fault)
    BY <1>7 DEF handle_req_fc
  <2>2. m.fc \in RegisterCodes BY <1>7 DEF RegisterCodes
  <2>r. reader = two BY <1>7 DEF RequestReader, FileCodes
  <2> QED BY <2>r, <1>1, <1>3, <2>1, <2>2, RegistersHandled
<1>8. ASSUME fc = 5 PROVE SomeHandled
  <2>1. o = handle_write_single_coil(t, two, m, store, fault) BY <1>8 DEF handle_req_fc
  <2>2. m.fc \in EchoCodes BY <1>8 DEF EchoCodes
  <2>r. reader = two BY <1>8 DEF RequestReader, FileCodes
  <2> QED BY <2>r, <1>1, <2>1, <2>2, SinglesHandled
<1>9. ASSUME fc = 6 PROVE SomeHandled
  <2>1. o = handle_write_single_register(t, two, m, store, fault) BY <1>9 DEF handle_req_fc
  <2>2. m.fc \in EchoCodes BY <1>9 DEF EchoCodes
  <2>r. reader = two BY <1>9 DEF RequestReader, FileCodes
  <2> QED BY <2>r, <1>1, <2>1, <2>2, SinglesHandled
<1>10. ASSUME fc = 15 PROVE SomeHandled
  <2>1. o = handle_write_multiple_coils(t, many, m, store, fault) BY <1>10 DEF handle_req_fc
  <2>2. m.fc \in EchoCodes BY <1>10 DEF EchoCodes
  <2>r. reader = many BY <1>10 DEF RequestReader, FileCodes
  <2> QED BY <2>r, <1>1, <2>1, <2>2, ManyHandled
<1>11. ASSUME fc = 16 PROVE SomeHandled
  <2>1. o = handle_write_multiple_registers(t, many, m, store, fault) BY <1>11 DEF handle_req_fc
  <2>2. m.fc \in EchoCodes BY <1>11 DEF EchoCodes
  <2>r. reader = many BY <1>11 DEF RequestReader, FileCodes
  <2> QED BY <2>r, <1>1, <2>1, <2>2, ManyHandled
<1>12. ASSUME fc = 20 PROVE SomeHandled
  <2>1. o = handle_read_file_record(t, file, m, store, fault) BY <1>12 DEF handle_req_fc
  <2>2. m.fc \notin Supported BY <1>12 DEF FileCodes
  <2>r. reader = file BY <1>12 DEF RequestReader, FileCodes
  <2> QED BY <2>r, <1>1, <2>1, <2>2, FilesHandled
<1>13. ASSUME fc = 21 PROVE SomeHandled
  <2>1. o = handle_write_file_record(t, file, m, store, fault) BY <1>13 DEF handle_req_fc
  <2>2. m.fc \notin Supported BY <1>13 DEF FileCodes
  <2>r. reader = file BY <1>13 DEF RequestReader, FileCodes
  <2> QED BY <2>r, <1>1, <2>1, <2>2, FilesHandled
<1>14. ASSUME fc = 23 PROVE SomeHandled
  <2>1. o = handle_read_write_registers(t, both, m, store, fault) BY <1>14 DEF handle_req_fc
  <2>2. m.fc \in RegisterCodes BY <1>14 DEF RegisterCodes
  <2>r. reader = both BY <1>14 DEF RequestReader, FileCodes
  <2> QED BY <2>r, <1>1, <2>1, <2>2, ReadWriteHandled
<1>15. ASSUME fc # 1, fc # 2, fc # 3, fc # 4, fc # 5, fc # 6, fc # 15, fc # 16, fc # 20, fc # 21, fc # 23
       PROVE  o = Outcome(Fail(p, "ILLEGAL_FUNCTION"), store, <<>>, NoAnswer)
  BY <1>15 DEF handle_req_fc
<1> HIDE DEF o, fc, reader, SomeHandled
<1>16. CASE fc \in RequestCodes
  <2>1. \/ fc = 1 \/ fc = 2 \/ fc = 3 \/ fc = 4 \/ fc = 5 \/ fc = 6 \/ fc = 15 \/ fc = 16
        \/ fc = 20 \/ fc = 21 \/ fc = 23
    BY <1>16 DEF RequestCodes
  <2>2. SomeHandled
    BY ONLY <2>1, <1>4, <1>5, <1>6, <1>7, <1>8, <1>9, <1>10, <1>11, <1>12, <1>13, <1>14
  <2> QED BY <1>r, <2>2 DEF o, fc, reader, SomeHandled
<1>17. CASE fc \notin RequestCodes
  <2>1. fc # 1 /\ fc # 2 /\ fc # 3 /\ fc # 4 /\ fc # 5 /\ fc # 6 /\ fc # 15 /\ fc # 16
        /\ fc # 20 /\ fc # 21 /\ fc # 23
    BY <1>17 DEF RequestCodes
  <2>2. o = Outcome(Fail(p, "ILLEGAL_FUNCTION"), store, <<>>, NoAnswer) BY <1>15, <2>1
  <2> QED BY <1>r, <1>17, <2>2 DEF o, fc, reader
<1> QED BY <1>16, <1>17

\* What a poll leaves, whatever bytes it finds and whatever the callbacks return.
PollLeaves(o) == o.in \in Seq(Bytes) /\ o.mem \in Memory /\ o.err \in Errors /\ o.out \in Seq(Bytes)

LEMMA OutcomeLeaves ==
  ASSUME NEW r \in Readers, NEW store \in Memory, NEW answer
  PROVE  PollLeaves(Outcome(r, store, <<>>, answer))
<1> DEFINE none == <<>>
           o == Outcome(r, store, none, answer)
<1>1. none \in Seq(Bytes) OBVIOUS
<1> HIDE DEF none
<1>2. o.err = r.err /\ o.in = r.in /\ o.mem = store /\ o.out = none BY OutcomeParts
<1>3. r.err \in Errors /\ r.in \in Seq(Bytes) BY ReaderParts
<1> HIDE DEF o
<1>4. PollLeaves(o) BY <1>1, <1>2, <1>3 DEF PollLeaves
<1> QED BY <1>4 DEF o, none

LEMMA RequestHeader ==
  ASSUME NEW t, NEW s, NEW p \in Readers, Len(p.buf) = HeaderLen(t)
  PROVE  LET m == recv_req_header(t, s, p)
         IN Message(m) /\ m.ignored \in BOOLEAN /\ m.broadcast \in BOOLEAN
<1> DEFINE b == p.buf
           h == HeaderLen(t)
           m == recv_req_header(t, s, p)
<1>1. b \in Seq(Bytes) /\ Len(b) = h BY ReaderParts
<1>2. h \in {2, 8} /\ (t = "TCP" => h = 8) BY DEF HeaderLen
<1>3. m.unit = b[h - 1] /\ m.fc = b[h] /\ m.tid = IF t = "TCP" THEN WordAt(b, 1) ELSE 0
  BY DEF recv_req_header, UnitOf, FcOf
<1>4. m.ignored \in BOOLEAN /\ m.broadcast \in BOOLEAN BY DEF recv_req_header
<1> HIDE DEF b, h, m
<1>5. b[h - 1] \in Bytes /\ b[h] \in Bytes
  <2>1. h - 1 \in 1..Len(b) /\ h \in 1..Len(b) BY <1>1, <1>2
  <2> QED BY <1>1, <2>1, ElementOfSeq
<1>6. t = "TCP" => WordAt(b, 1) \in Words16
  <2>1. t = "TCP" => 1 \in 1..(Len(b) - 1) BY <1>1, <1>2
  <2> QED BY <1>1, <2>1, WordAtType
<1>7. 0 \in Words16 BY InWords16, Max16Nat
<1>8. m.tid \in Words16 BY <1>3, <1>6, <1>7
<1>9. Message(m) BY <1>3, <1>5, <1>8 DEF Message
<1> QED BY <1>4, <1>9 DEF m

LEMMA UnreadLeaves ==
  ASSUME NEW q \in Readers, NEW m, m.ignored \in BOOLEAN, NEW store \in Memory
  PROVE  PollLeaves(Unread(q, m, store))
<1> DEFINE none == <<>>
           e == Parts(q.err, q.buf, none, q.waits)
<1>1. CASE ~(m.ignored /\ q.err # "TIMEOUT") BY <1>1, OutcomeLeaves DEF Unread
<1>2. CASE m.ignored /\ q.err # "TIMEOUT"
  <2>1. Unread(q, m, store) = Outcome(e, store, <<>>, NoAnswer) BY <1>2 DEF Unread, Outcome, Parts
  <2>2. none \in Seq(Bytes) OBVIOUS
  <2> HIDE DEF none
  <2>3. e \in Readers BY <2>2, ReaderParts, PartsType
  <2> HIDE DEF e
  <2>4. PollLeaves(Outcome(e, store, <<>>, NoAnswer)) BY <2>3, OutcomeLeaves
  <2> QED BY <2>1, <2>4
<1> QED BY <1>1, <1>2

LEMMA PollType ==
  ASSUME CrcIsBytes, Supported \cap FileCodes = {}, NEW t, NEW s \in Servers, NEW in \in Seq(Bytes),
         NEW store \in Memory, NEW fault
  PROVE  PollLeaves(nmbs_server_poll(t, s, in, store, fault))
<1> DEFINE h == MsgHeader(t, Reader(in))
           m == recv_req_header(t, s, h)
           o == handle_req_fc(t, s, h, m, store, fault)
<1>1. h \in Readers /\ (Good(h) => Len(h.buf) = HeaderLen(t)) BY ReaderType, HeaderType
<1> HIDE DEF h
<1>2. nmbs_server_poll(t, s, in, store, fault)
        = IF ~Good(h) THEN Outcome(h, store, <<>>, NoAnswer) ELSE o
  BY DEF nmbs_server_poll, h
<1>3. CASE ~Good(h)
  <2>1. PollLeaves(Outcome(h, store, <<>>, NoAnswer)) BY <1>1, OutcomeLeaves
  <2> QED BY <1>2, <1>3, <2>1
<1>4. CASE Good(h)
  <2>1. Message(m) /\ m.ignored \in BOOLEAN BY <1>1, <1>4, RequestHeader
  <2> HIDE DEF m
  <2>2. \/ \E q \in Readers : Handled(t, m, q, store, o)
        \/ o = Outcome(Fail(h, "ILLEGAL_FUNCTION"), store, <<>>, NoAnswer)
    <3> DEFINE q == RequestReader(t, h, m.fc)
    <3>1. /\ q \in Readers
          /\ Handled(t, m, q, store, o) \/ o = Outcome(Fail(h, "ILLEGAL_FUNCTION"), store, <<>>, NoAnswer)
      BY <1>1, <1>4, <2>1, FcHandled
    <3> HIDE DEF q, o
    <3> QED BY <3>1
  <2> HIDE DEF o
  <2>3. PollLeaves(o)
    <3>1. ASSUME NEW q \in Readers, Handled(t, m, q, store, o) PROVE PollLeaves(o)
      <4>1. CASE o = Unread(q, m, store) BY <2>1, <4>1, UnreadLeaves
      <4>2. CASE \E r \in Readers : o = Outcome(r, store, <<>>, NoAnswer) BY <4>2, OutcomeLeaves
      <4>3. CASE Replied(t, m, Data(t, q), q, o)
        <5>1. q.in \in Seq(Bytes) BY ReaderParts
        <5>2. o.in \in Seq(Bytes) /\ o.mem \in Memory /\ o.err = "NONE" /\ o.out \in Seq(Bytes)
          BY <2>1, <4>3, <5>1, RepliedType
        <5>3. "NONE" \in Errors BY DEF Errors
        <5> QED BY <5>2, <5>3 DEF PollLeaves
      <4> QED BY <3>1, <4>1, <4>2, <4>3 DEF Handled
    <3>2. CASE o = Outcome(Fail(h, "ILLEGAL_FUNCTION"), store, <<>>, NoAnswer)
      <4>1. "ILLEGAL_FUNCTION" \in Errors BY DEF Errors, Exceptions
      <4>2. Fail(h, "ILLEGAL_FUNCTION") \in Readers BY <1>1, <4>1, FailType
      <4> QED BY <3>2, <4>2, OutcomeLeaves
    <3> QED BY <2>2, <3>1, <3>2
  <2> QED BY <1>2, <1>4, <2>3
<1> QED BY <1>3, <1>4

-----------------------------------------------------------------------------
(* Every reachable state is well typed.                                    *)

Packets == [to : SUBSET Stations, bytes : Seq(Bytes)]
Kinds == FrameFaults \cup {"callback"}
IsPending(c) == c.to \in Bytes /\ IsCall(c.c) /\ c.c.ok

LineTypes == rx \in [Stations -> Seq(Bytes)] /\ air \in Seq(Packets) /\ mem \in [Servers -> Memory]
CountTypes == calls \in 0..MaxCalls /\ faults \in Seq(Kinds) /\ Len(faults) <= MaxFaults
ClientTypes ==
  /\ transport \in Transports /\ menu \in Menus(transport) /\ tid \in 0..MAX_TID
  /\ last.err \in ResultErrors
  /\ call = NoCall \/ IsPending(call)
Types == LineTypes /\ CountTypes /\ ClientTypes

LEMMA TypesGiveTypeOK == Types => TypeOK
<1> SUFFICES ASSUME Types PROVE TypeOK OBVIOUS
<1> USE DEF Types, LineTypes, CountTypes, ClientTypes
<1>1. \A s \in Stations : rx[s] \in Seq(Bytes) OBVIOUS
<1>2. \A i \in DOMAIN air : air[i].to \subseteq Stations /\ air[i].bytes \in Seq(Bytes)
  <2>1. \A i \in DOMAIN air : air[i] \in Packets BY LenProperties, ElementOfSeq
  <2> QED BY <2>1 DEF Packets
<1>3. \A s \in Servers : \A a \in 0..(ADDRESSES - 1) :
        /\ mem[s].coils[a] \in {0, 1}
        /\ mem[s].registers[a] \in Words16 /\ mem[s].files[a] \in Words16
  BY DEF Memory, Addresses
<1> QED BY <1>1, <1>2, <1>3 DEF TypeOK

LEMMA StationTypes ==
  /\ Client \in Stations /\ Servers \subseteq Stations /\ \A s \in Servers : s \in Nat /\ s # Client
  /\ \A s \in Stations : Hearers(s) \subseteq Stations
<1>1. Client \in Stations /\ Servers \subseteq Stations BY DEF Stations
<1>2. (CHOOSE x \in Servers : TRUE) \in Servers BY SystemAssumption DEF SystemAssumption
<1>3. \A s \in Servers : s \in Nat /\ s # Client BY SystemAssumption DEF SystemAssumption, Client
<1> QED BY <1>1, <1>2, <1>3 DEF Hearers

LEMMA TransmitType ==
  ASSUME air \in Seq(Packets), NEW s \in Stations, NEW frame \in Seq(Bytes)
  PROVE  Transmit(s, frame) \in Seq(Packets)
<1>1. [to |-> Hearers(s), bytes |-> frame] \in Packets BY StationTypes DEF Packets
<1> QED BY <1>1, AppendProperties DEF Transmit

LEMMA ErrorsAreResults == Errors \subseteq ResultErrors /\ "INVALID_ARGUMENT" \in ResultErrors /\ "TIMEOUT" \in ResultErrors
BY DEF Errors, ResultErrors

LEMMA FaultyType ==
  ASSUME CountTypes, NEW f \in Kinds, Len(faults) < MaxFaults, faults' = Append(faults, f)
  PROVE  faults' \in Seq(Kinds) /\ Len(faults') <= MaxFaults
<1>1. MaxFaults \in Nat BY SystemAssumption DEF SystemAssumption
<1>2. Len(faults) \in Nat BY LenProperties DEF CountTypes
<1>3. faults' \in Seq(Kinds) /\ Len(faults') = Len(faults) + 1 BY AppendProperties DEF CountTypes
<1> QED BY <1>1, <1>2, <1>3

LEMMA StartType == ASSUME CountTypes, Start PROVE calls' \in 0..MaxCalls
<1>1. MaxCalls \in Nat /\ MaxBrokenCalls \in Nat /\ MaxBrokenCalls <= MaxCalls
  BY SystemAssumption DEF SystemAssumption
<1>2. Limit \in Nat /\ Limit <= MaxCalls BY <1>1 DEF Limit
<1>3. calls \in Nat /\ calls < Limit /\ calls' = calls + 1 BY DEF CountTypes, Start
<1> QED BY <1>1, <1>2, <1>3

LEMMA NextTidType == tid \in 0..MAX_TID => NextTid(tid) \in 0..MAX_TID /\ NextTid(tid) \in Words16
<1> SUFFICES ASSUME tid \in 0..MAX_TID PROVE NextTid(tid) \in 0..MAX_TID /\ NextTid(tid) \in Words16 OBVIOUS
<1>1. MAX_TID \in Nat /\ MAX_TID <= UINT16_MAX /\ MAX_TID >= 1 BY Limits
<1>2. NextTid(tid) \in 0..MAX_TID BY <1>1 DEF NextTid
<1> HIDE DEF NextTid
<1>3. NextTid(tid) \in Nat /\ NextTid(tid) <= UINT16_MAX BY <1>1, <1>2, Max16Nat
<1> QED BY <1>2, <1>3, InWords16

\* A call the application may make, and the frame of its request.
LEMMA MenuType ==
  ASSUME ClientTypes, NEW r \in menu PROVE r.to \in Bytes /\ IsCall(r.c)
BY ApplicationAssumption DEF ApplicationAssumption, ClientTypes

LEMMA RequestMessage ==
  ASSUME NEW r, r.to \in Bytes, r.c.fc \in Bytes, NEW t, NEW number \in Words16
  PROVE  Message(Request(r, t, number))
BY DEF Message, Request, RequestState

LEMMA RequestType ==
  ASSUME CrcIsBytes, NEW r, r.to \in Bytes, IsCall(r.c), r.c.ok, NEW number \in Words16
  PROVE  RequestFrame(r, number) \in Seq(Bytes)
<1> DEFINE m == Request(r, transport, number)
           n == r.c.len
           d == r.c.data
<1>1. r.c.fc \in Bytes /\ n \in 0..(UINT16_MAX - 2) /\ d \in Seq(Bytes) BY DEF IsCall
<1>2. Message(m) BY <1>1, RequestMessage
<1>3. n \in Nat /\ 2 + n <= UINT16_MAX BY <1>1, Max16Nat
<1> HIDE DEF m, n, d
<1>4. Frame(transport, m, n, d) \in Seq(Bytes) BY <1>1, <1>2, <1>3, FrameType
<1> QED BY <1>4 DEF RequestFrame, m, n, d

LEMMA ReceivedType ==
  ASSUME Types, call # NoCall PROVE Received \in Readers
<1>1. Reader(rx[Client]) \in Readers BY StationTypes, ReaderType DEF Types, LineTypes
<1>2. IsCall(call.c) /\ call.c.ok BY DEF Types, ClientTypes, IsPending
<1> QED BY <1>1, <1>2, ResponseType DEF Received

LEMMA InitTypes == Init => Types
<1> SUFFICES ASSUME Init PROVE Types OBVIOUS
<1> USE DEF Init
<1>1. rx \in [Stations -> Seq(Bytes)] /\ air \in Seq(Packets)
  <2>1. <<>> \in Seq(Bytes) /\ <<>> \in Seq(Packets) OBVIOUS
  <2> QED BY <2>1
<1>2. mem \in [Servers -> Memory]
  <2>1. 0 \in Words16 BY InWords16, Max16Nat
  <2> QED BY <2>1 DEF Memory, Addresses
<1>3. CountTypes
  <2>1. MaxCalls \in Nat /\ MaxFaults \in Nat BY SystemAssumption DEF SystemAssumption
  <2>2. <<>> \in Seq(Kinds) /\ Len(<<>>) = 0 OBVIOUS
  <2> QED BY <2>1, <2>2 DEF CountTypes
<1>4. ClientTypes
  <2>1. 0 \in 0..MAX_TID BY Limits
  <2>2. "NONE" \in ResultErrors BY DEF ResultErrors
  <2>3. last.err = "NONE" OBVIOUS
  <2>4. tid = 0 /\ call = NoCall /\ transport \in Transports /\ menu \in Menus(transport) OBVIOUS
  <2> QED BY <2>1, <2>2, <2>3, <2>4 DEF ClientTypes
<1> QED BY <1>1, <1>2, <1>3, <1>4 DEF Types, LineTypes

\* One step, action by action.
LEMMA RefuseTypes == ASSUME Types, NEW r \in menu, Refuse(r) PROVE Types'
<1>1. calls' \in 0..MaxCalls BY StartType DEF Types, Refuse
<1>2. last'.err = "INVALID_ARGUMENT" BY DEF Refuse, Result
<1>3. last'.err \in ResultErrors BY <1>2, ErrorsAreResults
<1>4. UNCHANGED <<transport, menu, tid, call, rx, air, mem, faults>> BY DEF Refuse, fixed
<1>5. LineTypes' BY <1>4 DEF Types, LineTypes
<1>6. CountTypes' BY <1>1, <1>4 DEF Types, CountTypes
<1>7. ClientTypes' BY <1>3, <1>4 DEF Types, ClientTypes, IsPending
<1> QED BY <1>5, <1>6, <1>7 DEF Types

LEMMA SendTypes == ASSUME CrcIsBytes, Types, NEW r \in menu, Send(r) PROVE Types'
<1> DEFINE number == NextTid(tid)
           pending == [to |-> r.to, c |-> r.c, clean |-> Silent /\ rx[Client] = <<>>]
<1>1. r.to \in Bytes /\ IsCall(r.c) /\ r.c.ok BY MenuType DEF Types, Send
<1>2. number \in 0..MAX_TID /\ number \in Words16 BY NextTidType DEF Types, ClientTypes
<1>3. UNCHANGED <<transport, menu, rx, mem, faults>> /\ tid' = number
      /\ air' = Transmit(Client, RequestFrame(r, number))
  BY DEF Send, fixed
<1>4. calls' \in 0..MaxCalls BY StartType DEF Types, Send
<1>5. CASE call' = pending /\ UNCHANGED last
  <2>1. IsPending(call') BY <1>1, <1>5 DEF IsPending
  <2>2. ClientTypes' BY <1>2, <1>3, <1>5, <2>1 DEF Types, ClientTypes
  <2>3. RequestFrame(r, number) \in Seq(Bytes) BY <1>1, <1>2, RequestType
  <2>4. air' \in Seq(Packets) BY <1>3, <2>3, TransmitType, StationTypes DEF Types, LineTypes
  <2>5. LineTypes' BY <1>3, <2>4 DEF Types, LineTypes
  <2>6. CountTypes' BY <1>3, <1>4 DEF Types, CountTypes
  <2> QED BY <2>2, <2>5, <2>6 DEF Types
<1>6. CASE last' = Result(r, "NONE", <<>>, 0, TRUE) /\ UNCHANGED call
  <2>0. last'.err = "NONE" BY <1>6 DEF Result
  <2>1. last'.err \in ResultErrors BY <2>0 DEF ResultErrors
  <2>2. ClientTypes' BY <1>2, <1>3, <1>6, <2>1 DEF Types, ClientTypes, IsPending
  <2>3. RequestFrame(r, number) \in Seq(Bytes) BY <1>1, <1>2, RequestType
  <2>4. air' \in Seq(Packets) BY <1>3, <2>3, TransmitType, StationTypes DEF Types, LineTypes
  <2>5. LineTypes' BY <1>3, <2>4 DEF Types, LineTypes
  <2>6. CountTypes' BY <1>3, <1>4 DEF Types, CountTypes
  <2> QED BY <2>2, <2>5, <2>6 DEF Types
<1> QED BY <1>5, <1>6 DEF Send

LEMMA SendShortTypes == ASSUME CrcIsBytes, Types, NEW r \in menu, NEW n, SendShort(r, n) PROVE Types'
<1> DEFINE number == NextTid(tid)
           frame == RequestFrame(r, number)
<1>1. r.to \in Bytes /\ IsCall(r.c) /\ r.c.ok BY MenuType DEF Types, SendShort
<1>2. number \in 0..MAX_TID /\ number \in Words16 BY NextTidType DEF Types, ClientTypes
<1>3. UNCHANGED <<transport, menu, call, rx, mem>> /\ tid' = number
      /\ n \in 1..(Len(frame) - 1)
      /\ air' = Transmit(Client, SubSeq(frame, 1, n)) /\ last' = Result(r, "TIMEOUT", <<>>, 0, FALSE)
  BY DEF SendShort, fixed
<1>4. calls' \in 0..MaxCalls BY StartType DEF Types, SendShort
<1>5. frame \in Seq(Bytes) BY <1>1, <1>2, RequestType
<1> HIDE DEF number, frame
<1>6. SubSeq(frame, 1, n) \in Seq(Bytes)
  <2>1. n \in Int /\ 1 \in Int BY <1>3
  <2>2. \A i \in 1..n : frame[i] \in Bytes BY <1>3, <1>5, LenProperties, ElementOfSeq
  <2> QED BY <2>1, <2>2, SubSeqProperties
<1>7. air' \in Seq(Packets) BY <1>3, <1>6, TransmitType, StationTypes DEF Types, LineTypes
<1>8. last'.err \in ResultErrors
  <2>1. last'.err = "TIMEOUT" BY <1>3 DEF Result
  <2> QED BY <2>1, ErrorsAreResults
<1>9. faults' \in Seq(Kinds) /\ Len(faults') <= MaxFaults
  <2>1. "short" \in Kinds /\ Len(faults) < MaxFaults /\ faults' = Append(faults, "short")
    BY DEF SendShort, Faulty, Kinds
  <2> QED BY <2>1, FaultyType DEF Types
<1>10. LineTypes' BY <1>3, <1>7 DEF Types, LineTypes
<1>11. CountTypes' BY <1>4, <1>9 DEF Types, CountTypes
<1>12. ClientTypes' BY <1>2, <1>3, <1>8 DEF Types, ClientTypes, IsPending
<1> QED BY <1>10, <1>11, <1>12 DEF Types

LEMMA ReturnTypes == ASSUME Types, NEW p \in Readers, Return(p) PROVE LineTypes' /\ ClientTypes' /\ UNCHANGED calls
<1>1. p.err \in Errors /\ p.in \in Seq(Bytes) BY ReaderParts
<1>2. last'.err = p.err BY DEF Return, Result
<1>3. last'.err \in ResultErrors BY <1>1, <1>2, ErrorsAreResults
<1>4. call' = NoCall /\ rx' = [rx EXCEPT ![Client] = p.in]
      /\ UNCHANGED <<transport, menu, tid, air, mem, calls>>
  BY DEF Return, fixed
<1>5. rx' \in [Stations -> Seq(Bytes)] BY <1>1, <1>4 DEF Types, LineTypes
<1> QED BY <1>3, <1>4, <1>5 DEF Types, LineTypes, ClientTypes, NoCall

LEMMA ReceiveTypes == ASSUME Types, Receive \/ ReceiveTooLate PROVE Types'
<1>1. Received \in Readers /\ Return(Received) BY ReceivedType DEF Receive, ReceiveTooLate
<1>2. LineTypes' /\ ClientTypes' /\ UNCHANGED calls BY <1>1, ReturnTypes
<1>3. CASE UNCHANGED faults BY <1>2, <1>3 DEF Types, CountTypes
<1>4. CASE Faulty("late")
  <2>1. "late" \in Kinds /\ Len(faults) < MaxFaults /\ faults' = Append(faults, "late")
    BY <1>4 DEF Faulty, Kinds
  <2>2. faults' \in Seq(Kinds) /\ Len(faults') <= MaxFaults BY <2>1, FaultyType DEF Types
  <2> QED BY <1>2, <2>2 DEF Types, CountTypes
<1> QED BY <1>3, <1>4 DEF Receive, ReceiveTooLate

LEMMA PollTypes ==
  ASSUME CrcIsBytes, Supported \cap FileCodes = {}, Types, NEW s \in Servers, NEW f, Poll(s, Polled(s, f))
  PROVE  LineTypes' /\ ClientTypes' /\ UNCHANGED calls
<1> DEFINE o == Polled(s, f)
<1>1. s \in Stations /\ rx[s] \in Seq(Bytes) /\ mem[s] \in Memory
  BY StationTypes DEF Types, LineTypes
<1>2. PollLeaves(o) BY <1>1, PollType DEF Polled
<1>3. rx' = [rx EXCEPT ![s] = o.in] /\ mem' = [mem EXCEPT ![s] = o.mem] /\ air' = Transmit(s, o.out)
      /\ UNCHANGED <<transport, menu, tid, call, last, calls>>
  BY DEF Poll, fixed
<1> HIDE DEF o
<1>4. o.in \in Seq(Bytes) /\ o.mem \in Memory /\ o.out \in Seq(Bytes) BY <1>2 DEF PollLeaves
<1>5. rx' \in [Stations -> Seq(Bytes)] /\ mem' \in [Servers -> Memory]
  BY <1>3, <1>4 DEF Types, LineTypes
<1>6. air' \in Seq(Packets) BY <1>1, <1>3, <1>4, TransmitType DEF Types, LineTypes
<1>7. ClientTypes' BY <1>3 DEF Types, ClientTypes, IsPending
<1> QED BY <1>3, <1>5, <1>6, <1>7 DEF LineTypes

LEMMA ServerTypes ==
  ASSUME CrcIsBytes, Supported \cap FileCodes = {}, Types, NEW s \in Servers,
         PollServer(s) \/ PollTooLate(s) \/ PollFailing(s)
  PROVE  Types'
<1>1. PICK f : Poll(s, Polled(s, f)) BY DEF PollServer, PollTooLate, PollFailing
<1>2. LineTypes' /\ ClientTypes' /\ UNCHANGED calls BY <1>1, PollTypes
<1>3. CASE UNCHANGED faults BY <1>2, <1>3 DEF Types, CountTypes
<1>4. ASSUME NEW k \in Kinds, Len(faults) < MaxFaults, faults' = Append(faults, k) PROVE Types'
  <2>1. faults' \in Seq(Kinds) /\ Len(faults') <= MaxFaults BY <1>4, FaultyType DEF Types
  <2> QED BY <1>2, <2>1 DEF Types, CountTypes
<1>5. UNCHANGED faults \/ \E k \in Kinds : Len(faults) < MaxFaults /\ faults' = Append(faults, k)
  BY DEF PollServer, PollTooLate, PollFailing, Faulty, Kinds
<1> QED BY <1>3, <1>4, <1>5

LEMMA ArriveTypes ==
  ASSUME Types, NEW to, NEW bytes \in Seq(Bytes), NEW rest \in Seq(Packets), Arrive(to, bytes, rest)
  PROVE  LineTypes' /\ ClientTypes' /\ UNCHANGED calls
<1>1. rx' = [s \in Stations |-> IF s \in to THEN rx[s] \o bytes ELSE rx[s]] /\ air' = rest
      /\ UNCHANGED <<transport, menu, tid, call, mem, last, calls>>
  BY DEF Arrive, fixed
<1>2. \A s \in Stations : rx[s] \o bytes \in Seq(Bytes) /\ rx[s] \in Seq(Bytes)
  <2>1. \A s \in Stations : rx[s] \in Seq(Bytes) BY DEF Types, LineTypes
  <2> QED BY <2>1, JoinType
<1>3. rx' \in [Stations -> Seq(Bytes)] BY <1>1, <1>2
<1>4. ClientTypes' BY <1>1 DEF Types, ClientTypes, IsPending
<1> QED BY <1>1, <1>3, <1>4 DEF Types, LineTypes

LEMMA AirParts ==
  ASSUME Types, air # <<>>
  PROVE  /\ Head(air) \in Packets /\ Head(air).to \subseteq Stations /\ Head(air).bytes \in Seq(Bytes)
         /\ Tail(air) \in Seq(Packets)
         /\ \A b \in Seq(Bytes) : <<[Head(air) EXCEPT !.bytes = b]>> \o Tail(air) \in Seq(Packets)
         /\ \A s : Without(s) \in Seq(Packets)
<1>1. Head(air) \in Packets /\ Tail(air) \in Seq(Packets) BY HeadTailProperties DEF Types, LineTypes
<1>2. Head(air).to \subseteq Stations /\ Head(air).bytes \in Seq(Bytes) BY <1>1 DEF Packets
<1>3. ASSUME NEW x \in Packets PROVE <<x>> \o Tail(air) \in Seq(Packets)
  <2>1. <<x>> \in Seq(Packets) OBVIOUS
  <2> QED BY <1>1, <2>1, ConcatProperties
<1>4. \A b \in Seq(Bytes) : [Head(air) EXCEPT !.bytes = b] \in Packets BY <1>1 DEF Packets
<1>5. \A s : [Head(air) EXCEPT !.to = @ \ {s}] \in Packets BY <1>1 DEF Packets
<1> QED BY <1>1, <1>2, <1>3, <1>4, <1>5 DEF Without

LEMMA LineStepTypes == ASSUME Types, Line PROVE Types'
<1> DEFINE Kept == LineTypes' /\ ClientTypes' /\ UNCHANGED calls
<1>0. <<>> \in Seq(Bytes) OBVIOUS
<1>a. ASSUME NEW k \in FrameFaults, Faulty(k), Kept PROVE Types'
  <2>1. k \in Kinds /\ Len(faults) < MaxFaults /\ faults' = Append(faults, k)
    BY <1>a DEF Faulty, Kinds
  <2>2. faults' \in Seq(Kinds) /\ Len(faults') <= MaxFaults BY <2>1, FaultyType DEF Types
  <2> QED BY <1>a, <2>2 DEF Types, CountTypes
<1>1. CASE Deliver
  <2>1. Kept BY <1>1, AirParts, ArriveTypes DEF Deliver
  <2> QED BY <1>1, <2>1 DEF Types, CountTypes, Deliver
<1>2. ASSUME NEW s \in Stations, Lose(s) PROVE Types'
  <2> DEFINE none == <<>>
  <2>1. Arrive({}, none, Without(s)) /\ air # <<>> BY <1>2 DEF Lose
  <2>2. Without(s) \in Seq(Packets) BY <2>1, AirParts
  <2>3. none \in Seq(Bytes) BY <1>0
  <2> HIDE DEF none
  <2>4. Kept BY <2>1, <2>2, <2>3, ArriveTypes
  <2>5. Faulty("lose") /\ "lose" \in FrameFaults BY <1>2 DEF Lose, Faulty
  <2> QED BY <1>a, <2>4, <2>5
<1>3. ASSUME NEW s \in Stations, NEW k \in 1..MaxByte, Corrupt(s, k) PROVE Types'
  <2> DEFINE old == Head(air).bytes
             new == [old EXCEPT ![k] = (@ + 1) % 256]
  <2>1. air # <<>> /\ k \in DOMAIN old /\ Arrive({s}, new, Without(s)) BY <1>3 DEF Corrupt
  <2>2. old \in Seq(Bytes) /\ Without(s) \in Seq(Packets) BY <2>1, AirParts
  <2> HIDE DEF old
  <2>3. new \in Seq(Bytes)
    <3>1. k \in 1..Len(old) BY <2>1, <2>2, LenProperties
    <3>2. old[k] \in Nat BY <2>2, <3>1, ElementOfSeq, InBytes
    <3> DEFINE v == (old[k] + 1) % 256
    <3>3. v \in Nat /\ v <= 255 BY <3>2, SMT
    <3> HIDE DEF v
    <3>4. v \in Bytes BY <3>3, InBytes
    <3>5. [old EXCEPT ![k] = v] \in Seq(Bytes) BY <2>2, <3>1, <3>4, ExceptSeq
    <3> QED BY <3>5 DEF v
  <2> HIDE DEF new
  <2>4. Kept BY <2>1, <2>2, <2>3, ArriveTypes
  <2>5. Faulty("corrupt") /\ "corrupt" \in FrameFaults BY <1>3 DEF Corrupt, Faulty
  <2> QED BY <1>a, <2>4, <2>5
<1>4. ASSUME NEW k \in 1..MaxByte, Cut(k) PROVE Types'
  <2> DEFINE bytes == Head(air).bytes
             first == SubSeq(bytes, 1, k)
             second == SubSeq(bytes, k + 1, Len(bytes))
             rest == <<[Head(air) EXCEPT !.bytes = second]>> \o Tail(air)
  <2>1. air # <<>> /\ k \in 1..(Len(bytes) - 1) /\ Arrive(Head(air).to, first, rest) BY <1>4 DEF Cut
  <2>2. bytes \in Seq(Bytes) BY <2>1, AirParts
  <2> HIDE DEF bytes
  <2>3. Len(bytes) \in Nat /\ k \in Nat /\ k < Len(bytes) BY <2>1, <2>2, LenProperties
  <2>4. first \in Seq(Bytes) BY <2>2, <2>3, SubSeqProperties, ElementOfSeq
  <2>5. second \in Seq(Bytes) BY <2>2, <2>3, SubSeqProperties, ElementOfSeq
  <2> HIDE DEF first, second
  <2>6. rest \in Seq(Packets) BY <2>1, <2>5, AirParts
  <2> HIDE DEF rest
  <2>7. Kept BY <2>1, <2>4, <2>6, ArriveTypes
  <2>8. Faulty("cut") /\ "cut" \in FrameFaults BY <1>4 DEF Cut, Faulty
  <2> QED BY <1>a, <2>7, <2>8
<1> QED BY <1>1, <1>2, <1>3, <1>4 DEF Line

LEMMA NextTypes ==
  ASSUME CrcIsBytes, Supported \cap FileCodes = {}, Types, [Next]_vars PROVE Types'
<1>1. ASSUME NEW r \in menu, Refuse(r) \/ Send(r) \/ \E n \in 1..MaxByte : SendShort(r, n) PROVE Types'
  BY <1>1, RefuseTypes, SendTypes, SendShortTypes
<1>2. CASE Receive \/ ReceiveTooLate BY <1>2, ReceiveTypes
<1>3. ASSUME NEW s \in Servers, PollServer(s) \/ PollTooLate(s) \/ PollFailing(s) PROVE Types'
  BY <1>3, ServerTypes
<1>4. CASE Line BY <1>4, LineStepTypes
<1>5. CASE UNCHANGED vars BY <1>5 DEF vars, Types, LineTypes, CountTypes, ClientTypes, IsPending
<1> QED BY <1>1, <1>2, <1>3, <1>4, <1>5 DEF Next, Finished

\* In every reachable state what is on the line and in the buffers is bytes, what a
\* server holds fits its registers, and a call ends in one of nmbs_error's results,
\* whatever is lost, altered, cut or late: for servers without callbacks for file
\* records.
THEOREM TypeCorrect ==
  ASSUME CrcIsBytes, Supported \cap FileCodes = {}
  PROVE  Spec => []TypeOK
<1>1. Init => Types BY InitTypes
<1>2. Types /\ [Next]_vars => Types' BY NextTypes
<1>3. Types => TypeOK BY TypesGiveTypeOK
<1> QED BY <1>1, <1>2, <1>3, PTL DEF Spec

-----------------------------------------------------------------------------
(* Streams.  A reader that finds the bytes it asks for takes them and       *)
(* leaves the rest; how a stream is divided into two parts is known by      *)
(* their lengths.                                                           *)

LEMMA Divide ==
  ASSUME NEW b \in Seq(Bytes), NEW k \in Nat, k <= Len(b)
  PROVE  /\ SubSeq(b, 1, k) \in Seq(Bytes) /\ Len(SubSeq(b, 1, k)) = k
         /\ SubSeq(b, k + 1, Len(b)) \in Seq(Bytes) /\ Len(SubSeq(b, k + 1, Len(b))) = Len(b) - k
         /\ SubSeq(b, 1, k) \o SubSeq(b, k + 1, Len(b)) = b
<1> DEFINE u == SubSeq(b, 1, k)
           v == SubSeq(b, k + 1, Len(b))
<1>0. Len(b) \in Nat /\ \A i \in 1..Len(b) : b[i] \in Bytes BY LenProperties, ElementOfSeq
<1>1. u \in Seq(Bytes) /\ Len(u) = k /\ \A i \in 1..k : u[i] = b[i]
  BY <1>0, SubSeqProperties
<1>2. v \in Seq(Bytes) /\ Len(v) = Len(b) - k /\ \A i \in 1..(Len(b) - k) : v[i] = b[k + i]
  BY <1>0, SubSeqProperties
<1> HIDE DEF u, v
<1>3. u \o v \in Seq(Bytes) /\ Len(u \o v) = Len(b)
      /\ \A i \in 1..Len(b) : (u \o v)[i] = IF i <= k THEN u[i] ELSE v[i - k]
  BY <1>0, <1>1, <1>2, ConcatProperties
<1>4. ASSUME NEW i \in 1..Len(b) PROVE (u \o v)[i] = b[i]
  <2>1. (u \o v)[i] = IF i <= k THEN u[i] ELSE v[i - k] BY <1>3
  <2>2. CASE i <= k
    <3>1. i \in 1..k BY <2>2
    <3> QED BY <1>1, <2>1, <2>2, <3>1
  <2>3. CASE ~(i <= k)
    <3>1. i - k \in 1..(Len(b) - k) /\ k + (i - k) = i BY <1>0, <2>3
    <3>2. v[i - k] = b[k + (i - k)] BY <1>2, <3>1
    <3> QED BY <2>1, <2>3, <3>1, <3>2
  <2> QED BY <2>2, <2>3
<1>5. u \o v = b BY <1>3, <1>4, SeqEqual
<1> QED BY <1>1, <1>2, <1>5 DEF u, v

LEMMA JoinParts ==
  ASSUME NEW a \in Seq(Bytes), NEW b \in Seq(Bytes)
  PROVE  SubSeq(a \o b, 1, Len(a)) = a /\ SubSeq(a \o b, Len(a) + 1, Len(a \o b)) = b
<1> DEFINE c == a \o b
           u == SubSeq(c, 1, Len(a))
           v == SubSeq(c, Len(a) + 1, Len(c))
<1>0. Len(a) \in Nat /\ Len(b) \in Nat /\ \A i \in 1..Len(b) : b[i] \in Bytes BY LenProperties, ElementOfSeq
<1>1. c \in Seq(Bytes) /\ Len(c) = Len(a) + Len(b)
      /\ (\A i \in 1..Len(a) : c[i] = a[i]) /\ (\A i \in 1..Len(b) : c[Len(a) + i] = b[i])
  BY ONLY a \in Seq(Bytes), b \in Seq(Bytes), JoinType
<1> HIDE DEF c
<1>2. \A i \in 1..Len(c) : c[i] \in Bytes BY <1>1, ElementOfSeq
<1>3. u \in Seq(Bytes) /\ Len(u) = Len(a) /\ \A i \in 1..Len(a) : u[i] = c[i]
  BY <1>0, <1>1, <1>2, SubSeqProperties
<1>4. v \in Seq(Bytes) /\ Len(v) = Len(b) /\ \A i \in 1..Len(b) : v[i] = c[Len(a) + i]
  BY <1>0, <1>1, <1>2, SubSeqProperties
<1> HIDE DEF u, v
<1>5. u = a BY <1>1, <1>3, SeqEqual
<1>6. v = b BY <1>1, <1>4, SeqEqual
<1> QED BY <1>5, <1>6 DEF u, v, c

LEMMA JoinThree ==
  ASSUME NEW a \in Seq(Bytes), NEW b \in Seq(Bytes), NEW c \in Seq(Bytes)
  PROVE  (a \o b) \o c = a \o (b \o c)
BY ConcatAssociative

LEMMA RecvTakes ==
  ASSUME NEW b \in Seq(Bytes), NEW d \in Seq(Bytes), NEW rest \in Seq(Bytes), NEW w \in BOOLEAN
  PROVE  Recv(Parts("NONE", b, d \o rest, w), Len(d)) = Parts("NONE", b \o d, rest, w)
<1> DEFINE in == d \o rest
           p == Parts("NONE", b, in, w)
           n == Len(d)
<1>1. in \in Seq(Bytes) /\ Len(in) = n + Len(rest) BY ONLY d \in Seq(Bytes), rest \in Seq(Bytes), JoinType
<1>2. SubSeq(in, 1, n) = d /\ SubSeq(in, n + 1, Len(in)) = rest
  BY ONLY d \in Seq(Bytes), rest \in Seq(Bytes), JoinParts
<1>3. n \in Nat /\ Len(rest) \in Nat BY LenProperties
<1> HIDE DEF in, n
<1>4. "NONE" \in Errors BY DEF Errors
<1>5. p \in Readers /\ p.err = "NONE" /\ p.buf = b /\ p.in = in /\ p.waits = w
  BY ONLY <1>1, <1>4, b \in Seq(Bytes), w \in BOOLEAN, PartsType
<1> HIDE DEF p
<1>6. Good(p) /\ ~(Len(p.in) < n) BY <1>1, <1>3, <1>5 DEF Good
<1>7. Recv(p, n) = Parts("NONE", p.buf \o SubSeq(p.in, 1, n), SubSeq(p.in, n + 1, Len(p.in)), p.waits)
  BY ONLY <1>3, <1>5, <1>6, RecvEnough
<1>8. Recv(p, n) = Parts("NONE", b \o d, rest, w) BY <1>2, <1>5, <1>7
<1> QED BY <1>8 DEF p, in, n

\* k bytes, of which the last counts those that follow.
LEMMA CountedTakes ==
  ASSUME NEW b \in Seq(Bytes), NEW d \in Seq(Bytes), NEW rest \in Seq(Bytes), NEW w \in BOOLEAN,
         NEW k \in Nat \ {0}, k <= Len(d), Len(d) = k + d[k]
  PROVE  RecvAsMany(Recv(Parts("NONE", b, d \o rest, w), k)) = Parts("NONE", b \o d, rest, w)
<1> DEFINE u == SubSeq(d, 1, k)
           v == SubSeq(d, k + 1, Len(d))
           q == Parts("NONE", b \o u, v \o rest, w)
<1>0. Len(d) \in Nat /\ Len(b) \in Nat /\ d[k] \in Nat BY LenProperties, ElementOfSeq, InBytes
<1>a. k \in Nat /\ k <= Len(d) OBVIOUS
<1>b. u \in Seq(Bytes) /\ Len(u) = k /\ v \in Seq(Bytes) /\ Len(v) = Len(d) - k /\ u \o v = d
  BY ONLY <1>a, d \in Seq(Bytes), Divide
<1>1. u \in Seq(Bytes) /\ v \in Seq(Bytes) BY <1>b
<1>c. Len(u) = k /\ Len(v) = d[k]
  <2> HIDE DEF u, v
  <2> QED BY <1>0, <1>b
<1>2. u[k] = d[k] BY <1>0, SubSeqProperties, ElementOfSeq
<1> HIDE DEF u, v
<1>d. (u \o v) \o rest = u \o (v \o rest) BY ONLY <1>1, rest \in Seq(Bytes), JoinThree, Zenon
<1>3. d \o rest = u \o (v \o rest) BY <1>b, <1>d
<1>4. v \o rest \in Seq(Bytes) BY ONLY <1>1, rest \in Seq(Bytes), JoinType
<1>5. Recv(Parts("NONE", b, d \o rest, w), k) = q
  <2> DEFINE more == v \o rest
  <2> HIDE DEF more
  <2>1. more \in Seq(Bytes) BY <1>4 DEF more
  <2>2. Recv(Parts("NONE", b, u \o more, w), Len(u)) = Parts("NONE", b \o u, more, w)
    BY ONLY <1>1, <2>1, b \in Seq(Bytes), w \in BOOLEAN, RecvTakes
  <2> QED BY <1>3, <1>c, <2>2 DEF more
<1>6. b \o u \in Seq(Bytes) /\ Len(b \o u) = Len(b) + k /\ (b \o u)[Len(b) + k] = u[k]
  <2>1. k \in 1..Len(u) BY <1>c
  <2>2. b \o u \in Seq(Bytes) /\ Len(b \o u) = Len(b) + Len(u)
        /\ \A i \in 1..Len(u) : (b \o u)[Len(b) + i] = u[i]
    BY ONLY <1>1, b \in Seq(Bytes), JoinType
  <2> QED BY <2>1, <2>2, <1>c
<1>7. Good(q) /\ q.buf = b \o u BY DEF Good, Parts
<1> HIDE DEF q
<1>8. q.buf[Len(q.buf)] = Len(v) BY <1>2, <1>c, <1>6, <1>7
<1>9. RecvAsMany(q) = Recv(q, Len(v)) BY <1>7, <1>8 DEF RecvAsMany
<1>10. Recv(q, Len(v)) = Parts("NONE", (b \o u) \o v, rest, w)
  <2> DEFINE x == b \o u
  <2>1. x \in Seq(Bytes) BY <1>6
  <2> HIDE DEF x
  <2>2. Recv(Parts("NONE", x, v \o rest, w), Len(v)) = Parts("NONE", x \o v, rest, w)
    BY ONLY <1>1, <2>1, w \in BOOLEAN, rest \in Seq(Bytes), RecvTakes
  <2> QED BY <2>2 DEF x, q
<1>e. (b \o u) \o v = b \o (u \o v) BY ONLY <1>1, b \in Seq(Bytes), JoinThree, Zenon
<1>11. (b \o u) \o v = b \o d BY <1>b, <1>e
<1> QED BY <1>5, <1>9, <1>10, <1>11

\* A reader that has not got its first byte waits for it.
LEMMA RecvNothing ==
  ASSUME NEW b \in Seq(Bytes), NEW w \in BOOLEAN, NEW n \in Nat \ {0}
  PROVE  Recv(Parts("NONE", b, <<>>, w), n) = Parts("TIMEOUT", b, <<>>, w)
<1> DEFINE none == <<>>
           p == Parts("NONE", b, none, w)
<1>1. Len(none) = 0 OBVIOUS
<1>2. b \o none = b BY ConcatEmptySeq
<1>a. none \in Seq(Bytes) OBVIOUS
<1> HIDE DEF none
<1>3. "NONE" \in Errors BY DEF Errors
<1>4. p \in Readers /\ p.err = "NONE" /\ p.buf = b /\ p.in = none /\ p.waits = w
  BY ONLY <1>a, <1>3, b \in Seq(Bytes), w \in BOOLEAN, PartsType
<1> HIDE DEF p
<1>5. Good(p) /\ Len(p.in) < n BY <1>1, <1>4 DEF Good
<1>6. Recv(p, n) = Parts("TIMEOUT", p.buf \o p.in, <<>>, p.waits) BY <1>4, <1>5, RecvShort
<1>7. Recv(p, n) = Parts("TIMEOUT", b, <<>>, w) BY <1>2, <1>4, <1>6
<1> QED BY <1>7 DEF p, none

-----------------------------------------------------------------------------
(* Frames on a connection.                                                  *)

Tcp == "TCP"
LEMMA TcpIs == Tcp = "TCP" /\ Tcp # "RTU" /\ HeaderLen(Tcp) = 8
BY DEF Tcp, HeaderLen

LEMMA PairAt ==
  ASSUME NEW a \in Seq(Bytes), Len(a) = 2, NEW x \in Seq(Bytes)
  PROVE  /\ x \o a \in Seq(Bytes) /\ Len(x \o a) = Len(x) + 2
         /\ \A i \in 1..Len(x) : (x \o a)[i] = x[i]
         /\ (x \o a)[Len(x) + 1] = a[1] /\ (x \o a)[Len(x) + 2] = a[2]
<1>1. x \o a \in Seq(Bytes) /\ Len(x \o a) = Len(x) + Len(a)
      /\ (\A i \in 1..Len(x) : (x \o a)[i] = x[i])
      /\ (\A i \in 1..Len(a) : (x \o a)[Len(x) + i] = a[i])
  BY ONLY x \in Seq(Bytes), a \in Seq(Bytes), JoinType
<1> QED BY <1>1

LEMMA TcpHeader ==
  ASSUME NEW m, Message(m), NEW n \in 0..253
  PROVE  LET h == Header(Tcp, m, n)
         IN /\ h \in Seq(Bytes) /\ Len(h) = 8
            /\ WordAt(h, 1) = m.tid /\ WordAt(h, 3) = 0 /\ WordAt(h, 5) <= 255
            /\ h[7] = m.unit /\ h[8] = m.fc
<1> DEFINE u == m.unit
           f == m.fc
           end == <<u, f>>
           a == Word(m.tid)
           b == Word(0)
           c == Word(2 + n)
           h == Header(Tcp, m, n)
<1>1. end \in Seq(Bytes) /\ Len(end) = 2 /\ end[1] = u /\ end[2] = f BY PairType DEF Message
<1>2. m.tid \in Words16 /\ 0 \in Words16 /\ 2 + n \in Words16 BY InWords16, Max16 DEF Message
<1>3. /\ a \in Seq(Bytes) /\ Len(a) = 2 /\ 256 * a[1] + a[2] = m.tid
      /\ b \in Seq(Bytes) /\ Len(b) = 2 /\ 256 * b[1] + b[2] = 0
      /\ c \in Seq(Bytes) /\ Len(c) = 2 /\ 256 * c[1] + c[2] = 2 + n
  BY <1>2, WordType
<1>4. h = a \o b \o c \o end BY TcpIs DEF Header
<1> HIDE DEF end, a, b, c, u, f, h
<1> DEFINE ab == a \o b
<1>5. ab \in Seq(Bytes) /\ Len(ab) = 4 /\ ab[1] = a[1] /\ ab[2] = a[2] /\ ab[3] = b[1] /\ ab[4] = b[2]
  <2>1. \A i \in 1..Len(a) : ab[i] = a[i] BY ONLY <1>3, PairAt
  <2>2. ab \in Seq(Bytes) /\ Len(ab) = Len(a) + 2 /\ ab[Len(a) + 1] = b[1] /\ ab[Len(a) + 2] = b[2]
    BY ONLY <1>3, PairAt
  <2> HIDE DEF ab
  <2> QED BY <1>3, <2>1, <2>2
<1> HIDE DEF ab
<1> DEFINE abc == ab \o c
<1>6. abc \in Seq(Bytes) /\ Len(abc) = 6 /\ (\A i \in 1..4 : abc[i] = ab[i])
      /\ abc[5] = c[1] /\ abc[6] = c[2]
  <2>2. abc \in Seq(Bytes) /\ Len(abc) = Len(ab) + 2 /\ (\A i \in 1..Len(ab) : abc[i] = ab[i])
        /\ abc[Len(ab) + 1] = c[1] /\ abc[Len(ab) + 2] = c[2]
    <3>1. ab \in Seq(Bytes) /\ c \in Seq(Bytes) /\ Len(c) = 2 BY ONLY <1>3, <1>5
    <3> QED BY ONLY <3>1, PairAt
  <2> HIDE DEF abc
  <2> QED BY <1>5, <2>2
<1> HIDE DEF abc
<1>7. h = abc \o end BY <1>4 DEF abc, ab
<1>8. h \in Seq(Bytes) /\ Len(h) = 8 /\ (\A i \in 1..6 : h[i] = abc[i]) /\ h[7] = u /\ h[8] = f
  <2> DEFINE all == abc \o end
  <2>2. all \in Seq(Bytes) /\ Len(all) = Len(abc) + 2 /\ (\A i \in 1..Len(abc) : all[i] = abc[i])
        /\ all[Len(abc) + 1] = end[1] /\ all[Len(abc) + 2] = end[2]
    <3>1. abc \in Seq(Bytes) /\ end \in Seq(Bytes) /\ Len(end) = 2 BY ONLY <1>1, <1>6
    <3> QED BY ONLY <3>1, PairAt
  <2> HIDE DEF all
  <2>3. h = all BY <1>7 DEF all
  <2> QED BY <1>1, <1>6, <2>2, <2>3
<1>9. /\ h[1] = a[1] /\ h[2] = a[2] /\ h[3] = b[1] /\ h[4] = b[2] /\ h[5] = c[1] /\ h[6] = c[2]
  BY <1>5, <1>6, <1>8
<1>10. WordAt(h, 1) = m.tid /\ WordAt(h, 3) = 0 /\ WordAt(h, 5) = 2 + n
  BY <1>3, <1>9 DEF WordAt
<1>11. WordAt(h, 5) <= 255
  <2>1. 2 + n <= 255 OBVIOUS
  <2> QED BY ONLY <1>10, <2>1
<1>12. /\ h \in Seq(Bytes) /\ Len(h) = 8
       /\ WordAt(h, 1) = m.tid /\ WordAt(h, 3) = 0 /\ WordAt(h, 5) <= 255
       /\ h[7] = u /\ h[8] = f
  BY ONLY <1>8, <1>10, <1>11
<1> QED BY ONLY <1>12 DEF u, f, h

LEMMA TcpFrame ==
  ASSUME NEW m, NEW n, NEW data PROVE Frame(Tcp, m, n, data) = Header(Tcp, m, n) \o data
BY TcpIs DEF Frame

\* The header of a frame is read whatever the buffer held, and what follows it stays.
LEMMA HeaderTakes ==
  ASSUME NEW h \in Seq(Bytes), Len(h) = 8, WordAt(h, 3) = 0, WordAt(h, 5) <= 255,
         NEW rest \in Seq(Bytes)
  PROVE  MsgHeader(Tcp, Reader(h \o rest)) = Parts("NONE", h, rest, FALSE)
<1> DEFINE u == SubSeq(h, 1, 1)
           v == SubSeq(h, 2, Len(h))
           none == <<>>
           in == h \o rest
           more == v \o rest
<1>1. u \in Seq(Bytes) /\ Len(u) = 1 /\ v \in Seq(Bytes) /\ Len(v) = 7 /\ u \o v = h
  <2>1. 1 \in Nat /\ 1 <= Len(h) OBVIOUS
  <2>2. /\ SubSeq(h, 1, 1) \in Seq(Bytes) /\ Len(SubSeq(h, 1, 1)) = 1
        /\ SubSeq(h, 1 + 1, Len(h)) \in Seq(Bytes) /\ Len(SubSeq(h, 1 + 1, Len(h))) = Len(h) - 1
        /\ SubSeq(h, 1, 1) \o SubSeq(h, 1 + 1, Len(h)) = h
    BY ONLY <2>1, h \in Seq(Bytes), Divide
  <2> QED BY <2>2
<1> HIDE DEF u, v
<1>2. none \in Seq(Bytes) OBVIOUS
<1>3. none \o u = u BY <1>1, ConcatEmptySeq
<1>4. more \in Seq(Bytes) BY ONLY <1>1, rest \in Seq(Bytes), JoinType
<1>5. in = u \o more
  <2>1. (u \o v) \o rest = u \o (v \o rest) BY ONLY <1>1, rest \in Seq(Bytes), JoinThree, Zenon
  <2> QED BY <1>1, <2>1
<1> HIDE DEF in, more
<1>6. in \in Seq(Bytes) BY ONLY h \in Seq(Bytes), rest \in Seq(Bytes), JoinType DEF in
<1> HIDE DEF none
<1>7. [Reader(in) EXCEPT !.buf = <<>>] = Parts("NONE", none, in, FALSE)
  <2> DEFINE p == Reader(in)
  <2>1. p \in Readers BY <1>6, ReaderType
  <2>2. p.err = "NONE" /\ p.in = in /\ p.waits = FALSE BY DEF Reader
  <2> HIDE DEF p
  <2>3. [p EXCEPT !.buf = none] = Parts(p.err, none, p.in, p.waits) BY <1>2, <2>1, UpdatedBuf
  <2> QED BY <2>2, <2>3 DEF p, none
<1>8. Recv(Parts("NONE", none, in, FALSE), 1) = Parts("NONE", u, more, FALSE)
  <2>1. Recv(Parts("NONE", none, u \o more, FALSE), Len(u)) = Parts("NONE", none \o u, more, FALSE)
    <3>1. u \in Seq(Bytes) /\ FALSE \in BOOLEAN BY <1>1
    <3> QED BY ONLY <1>2, <1>4, <3>1, RecvTakes
  <2> QED BY <1>1, <1>3, <1>5, <2>1
<1>9. Recv(Parts("NONE", u, more, FALSE), 7) = Parts("NONE", h, rest, FALSE)
  <2>1. Recv(Parts("NONE", u, v \o rest, FALSE), Len(v)) = Parts("NONE", u \o v, rest, FALSE)
    <3>1. u \in Seq(Bytes) /\ v \in Seq(Bytes) /\ FALSE \in BOOLEAN BY <1>1
    <3> QED BY ONLY <3>1, rest \in Seq(Bytes), RecvTakes
  <2> QED BY <1>1, <2>1 DEF more
<1> DEFINE first == Parts("NONE", u, more, FALSE)
           q == Parts("NONE", h, rest, FALSE)
<1>10. Good(first) /\ Good(Reader(in)) /\ q.buf = h BY DEF Good, Parts, Reader
<1>11. MsgHeader(Tcp, Reader(in)) = AfterFirst(Tcp, first) BY <1>7, <1>8, <1>10 DEF MsgHeader
<1>12. AfterFirst(Tcp, first) = MbapChecked(Tcp, q) BY <1>9, <1>10, TcpIs DEF AfterFirst
<1>13. MbapChecked(Tcp, q) = q
  <2>1. ~(WordAt(h, 3) # 0 \/ WordAt(h, 5) > 255)
    <3>1. WordAt(h, 5) \in Words16
      <4>1. 5 \in 1..(Len(h) - 1) OBVIOUS
      <4> QED BY <4>1, WordAtType
    <3> QED BY <3>1, InWords16
  <2> HIDE DEF q
  <2> QED BY <1>10, <2>1 DEF MbapChecked
<1> QED BY <1>11, <1>12, <1>13 DEF in

LEMMA HeaderOfNothing ==
  MsgHeader(Tcp, Reader(<<>>)) = Parts("TIMEOUT", <<>>, <<>>, TRUE)
<1> DEFINE none == <<>>
           first == Parts("TIMEOUT", none, <<>>, FALSE)
<1>1. [Reader(<<>>) EXCEPT !.buf = <<>>] = Parts("NONE", none, <<>>, FALSE) /\ Good(Reader(<<>>))
  BY DEF Reader, Parts, Good
<1>2. none \in Seq(Bytes) OBVIOUS
<1> HIDE DEF none
<1>3. [first EXCEPT !.waits = TRUE] = Parts("TIMEOUT", none, <<>>, TRUE) /\ ~Good(first)
  <2> DEFINE empty == <<>>
             e == "TIMEOUT"
             no == FALSE
             p == Parts(e, none, empty, no)
  <2>1. empty \in Seq(Bytes) /\ e \in Errors /\ TRUE \in BOOLEAN /\ no \in BOOLEAN
    BY DEF Errors
  <2> HIDE DEF empty, e, no
  <2>2. p \in Readers /\ p.err = e /\ p.buf = none /\ p.in = empty
    BY ONLY <1>2, <2>1, PartsType
  <2> HIDE DEF p
  <2>3. [p EXCEPT !.waits = TRUE] = Parts(e, none, empty, TRUE)
    BY <2>1, <2>2, UpdatedWaits
  <2>4. ~Good(p) BY <2>2 DEF Good, e
  <2> QED BY <2>3, <2>4 DEF p, empty, e, no
<1>4. Recv(Parts("NONE", none, <<>>, FALSE), 1) = first
  <2>1. FALSE \in BOOLEAN /\ 1 \in Nat \ {0} OBVIOUS
  <2> QED BY ONLY <1>2, <2>1, RecvNothing
<1> HIDE DEF first
<1>5. MsgHeader(Tcp, Reader(<<>>)) = AfterFirst(Tcp, first) BY <1>1, <1>4 DEF MsgHeader
<1> QED BY <1>3, <1>5 DEF AfterFirst, none

LEMMA FooterTcp == \A p : Footer(Tcp, p) = p
BY TcpIs DEF Footer

\* A request is read to its end and no further.
LEMMA RequestTakes ==
  ASSUME NEW c, IsCall(c), c.ok, ~c.raw, NEW h \in Seq(Bytes), NEW rest \in Seq(Bytes)
  PROVE  /\ c.fc \in RequestCodes
         /\ RequestReader(Tcp, Parts("NONE", h, c.data \o rest, FALSE), c.fc)
              = Parts("NONE", h \o c.data, rest, FALSE)
<1> DEFINE d == c.data
           no == FALSE
           p == Parts("NONE", h, d \o rest, no)
           q == Parts("NONE", h \o d, rest, no)
<1>1. d \in Seq(Bytes) /\ IsRequest(c) /\ c.len = Len(d) BY DEF IsCall, IsRequest
<1>2. no \in BOOLEAN OBVIOUS
<1>3. ASSUME NEW k \in Nat \ {0}, k <= Len(d), Len(d) = k + d[k] PROVE RecvAsMany(Recv(p, k)) = q
  <2> HIDE DEF d, no
  <2>1. RecvAsMany(Recv(Parts("NONE", h, d \o rest, no), k)) = Parts("NONE", h \o d, rest, no)
    BY ONLY <1>1, <1>2, <1>3, h \in Seq(Bytes), rest \in Seq(Bytes), k \in Nat \ {0}, CountedTakes
  <2> QED BY <2>1
<1>4. Recv(p, Len(d)) = q
  <2> HIDE DEF d, no
  <2> QED BY ONLY <1>1, <1>2, h \in Seq(Bytes), rest \in Seq(Bytes), RecvTakes DEF p, q
<1> HIDE DEF p, q
<1>5. CASE c.fc \in 1..6 /\ c.len = 4
  <2>1. RequestReader(Tcp, p, c.fc) = Recv(p, 4) BY <1>5, FooterTcp DEF RequestReader, TwoWords
  <2> QED BY <1>1, <1>4, <1>5, <2>1 DEF RequestCodes, p, q
<1>6. CASE c.fc \in {15, 16} /\ c.len >= 5 /\ c.len = 5 + d[5]
  <2>1. c.fc \notin 1..6 BY <1>6
  <2>2. RequestReader(Tcp, p, c.fc) = RecvAsMany(Recv(p, 5))
    BY <1>6, <2>1, FooterTcp DEF RequestReader, ManyRequest
  <2>3. RecvAsMany(Recv(p, 5)) = q BY <1>1, <1>3, <1>6
  <2> QED BY <1>6, <2>2, <2>3 DEF RequestCodes, p, q
<1>7. CASE c.fc = 23 /\ c.len >= 9 /\ c.len = 9 + d[9]
  <2>1. c.fc \notin 1..6 /\ c.fc \notin {15, 16} /\ c.fc \notin FileCodes BY <1>7 DEF FileCodes
  <2>2. RequestReader(Tcp, p, c.fc) = RecvAsMany(Recv(p, 9))
    BY <1>7, <2>1, FooterTcp DEF RequestReader, ReadWriteRequest
  <2>3. RecvAsMany(Recv(p, 9)) = q BY <1>1, <1>3, <1>7
  <2> QED BY <1>7, <2>2, <2>3 DEF RequestCodes, p, q
<1>8. CASE c.fc \in {20, 21} /\ c.len >= 1 /\ c.len = 1 + d[1]
  <2>1. c.fc \notin 1..6 /\ c.fc \notin {15, 16} /\ c.fc \in FileCodes BY <1>8 DEF FileCodes
  <2>2. RequestReader(Tcp, p, c.fc) = RecvAsMany(Recv(p, 1))
    BY <1>8, <2>1, FooterTcp DEF RequestReader, FileRequest, Counted
  <2>3. RecvAsMany(Recv(p, 1)) = q BY <1>1, <1>3, <1>8
  <2> QED BY <1>8, <2>2, <2>3 DEF RequestCodes, p, q
<1> QED BY <1>1, <1>5, <1>6, <1>7, <1>8 DEF IsRequest

\* The message of a request is what its server takes it for.
TcpRequest(m, unit, fc, number) ==
  /\ m = [unit |-> unit, fc |-> fc, tid |-> number, broadcast |-> FALSE, ignored |-> FALSE]
  /\ Message(m) /\ m.broadcast = FALSE /\ m.ignored = FALSE
  /\ m.fc = fc /\ m.unit = unit /\ m.tid = number

LEMMA RequestMessageIs ==
  ASSUME NEW number \in Words16, NEW unit \in Bytes, NEW fc \in Bytes
  PROVE  TcpRequest(RequestState(Tcp, number, unit, fc), unit, fc, number)
<1> DEFINE m == RequestState(Tcp, number, unit, fc)
<1>1. m = [unit |-> unit, fc |-> fc, tid |-> number, broadcast |-> FALSE, ignored |-> FALSE]
  BY TcpIs DEF RequestState
<1>2. Message(m) BY <1>1 DEF Message
<1> HIDE DEF m
<1>3. m.fc = fc /\ m.unit = unit /\ m.tid = number /\ m.broadcast = FALSE /\ m.ignored = FALSE BY <1>1
<1>4. TcpRequest(m, unit, fc, number) BY <1>1, <1>2, <1>3 DEF TcpRequest
<1> QED BY <1>4 DEF m

LEMMA SameMessage ==
  ASSUME NEW h, NEW s, NEW p, p.buf = h
  PROVE  recv_req_header(Tcp, s, p)
           = [unit |-> h[7], fc |-> h[8], tid |-> WordAt(h, 1), broadcast |-> FALSE, ignored |-> FALSE]
<1>1. UnitOf(Tcp, p) = h[7] /\ FcOf(Tcp, p) = h[8] BY TcpIs DEF UnitOf, FcOf
<1>2. (Tcp = "RTU" /\ UnitOf(Tcp, p) = 0) = FALSE /\ (Tcp = "RTU" /\ UnitOf(Tcp, p) \notin {0, s}) = FALSE
  BY TcpIs
<1>3. (IF Tcp = "TCP" THEN WordAt(p.buf, 1) ELSE 0) = WordAt(h, 1) BY TcpIs
<1> QED BY <1>1, <1>2, <1>3, Zenon DEF recv_req_header

\* A server that finds a whole request answers it and leaves what follows.
Answers(m, d, rest, o) ==
  /\ o.in = rest /\ o.waits = FALSE /\ o.err = "NONE" /\ o.mem \in Memory
  /\ \/ \E e \in ExceptionNames : Refuses(Tcp, m, o, e)
     \/ \E n \in 0..253 : \E data : Obeys(Tcp, m, d, o, n, data)

LEMMA CallParts ==
  ASSUME NEW c, IsCall(c), c.ok, ~c.raw
  PROVE  /\ c.data \in Seq(Bytes) /\ c.fc \in Bytes /\ c.len = Len(c.data) /\ c.len \in 0..253
         /\ IsRequest(c)
<1>1. c.data \in Seq(Bytes) /\ c.fc \in Bytes /\ IsRequest(c) BY DEF IsCall
<1>2. c.len = Len(c.data) /\ c.len <= 253 BY <1>1 DEF IsRequest
<1>3. Len(c.data) \in Nat BY ONLY <1>1, LenProperties
<1>4. \A n \in Nat : n <= 253 => n \in 0..253 OBVIOUS
<1>5. c.len \in Nat BY <1>2, <1>3
<1>6. c.len \in 0..253 BY <1>2, <1>4, <1>5
<1> QED BY <1>1, <1>2, <1>6

LEMMA CallFrame ==
  ASSUME NEW c, IsCall(c), c.ok, ~c.raw, NEW m, Message(m), NEW rest \in Seq(Bytes)
  PROVE  LET h == Header(Tcp, m, c.len)
         IN /\ c.data \in Seq(Bytes) /\ c.len \in 0..253 /\ c.fc \in Bytes
            /\ h \in Seq(Bytes) /\ Len(h) = 8 /\ h[8] = m.fc
            /\ Frame(Tcp, m, c.len, c.data) = h \o c.data
            /\ Frame(Tcp, m, c.len, c.data) \o rest = h \o (c.data \o rest)
            /\ MsgHeader(Tcp, Reader(h \o (c.data \o rest))) = Parts("NONE", h, c.data \o rest, FALSE)
<1> DEFINE d == c.data
           n == c.len
           h == Header(Tcp, m, n)
           more == d \o rest
<1>1. d \in Seq(Bytes) /\ c.fc \in Bytes /\ n = Len(d) BY CallParts
<1>2. n \in 0..253 BY CallParts
<1> HIDE DEF n, d
<1>3. /\ h \in Seq(Bytes) /\ Len(h) = 8 /\ WordAt(h, 3) = 0 /\ WordAt(h, 5) <= 255 /\ h[8] = m.fc
  BY <1>2, TcpHeader
<1>4. Frame(Tcp, m, n, d) = h \o d BY TcpFrame
<1> HIDE DEF h
<1>5. (h \o d) \o rest = h \o more BY ONLY <1>1, <1>3, rest \in Seq(Bytes), JoinThree, Zenon DEF more
<1>6. more \in Seq(Bytes) BY ONLY <1>1, rest \in Seq(Bytes), JoinType
<1> HIDE DEF more
<1>7. MsgHeader(Tcp, Reader(h \o more)) = Parts("NONE", h, more, FALSE)
  BY ONLY <1>3, <1>6, HeaderTakes
<1> QED BY <1>1, <1>2, <1>3, <1>4, <1>5, <1>7 DEF h, n, d, more

LEMMA PollAnswers ==
  ASSUME Supported \cap FileCodes = {}, NEW c, IsCall(c), c.ok, ~c.raw,
         NEW unit \in Bytes, NEW number \in Words16, NEW s \in Servers,
         NEW rest \in Seq(Bytes), NEW store \in Memory, NEW fault
  PROVE  LET m == RequestState(Tcp, number, unit, c.fc)
         IN Answers(m, c.data, rest,
                    nmbs_server_poll(Tcp, s, Frame(Tcp, m, c.len, c.data) \o rest, store, fault))
<1> DEFINE d == c.data
           fc == c.fc
           n == c.len
           m == RequestState(Tcp, number, unit, fc)
           h == Header(Tcp, m, n)
           p == Parts("NONE", h, d \o rest, FALSE)
           q == Parts("NONE", h \o d, rest, FALSE)
           in == Frame(Tcp, m, n, d) \o rest
           o == handle_req_fc(Tcp, s, p, m, store, fault)
<1>1. fc \in Bytes /\ n \in 0..253 BY CallParts
<1> HIDE DEF fc, n
<1>2. /\ Message(m) /\ m.broadcast = FALSE /\ m.ignored = FALSE
      /\ m.fc = fc /\ recv_req_header(Tcp, s, p) = m
  <2>1. TcpRequest(m, unit, fc, number)
    BY ONLY <1>1, unit \in Bytes, number \in Words16, RequestMessageIs
  <2>2. m = [unit |-> unit, fc |-> fc, tid |-> number, broadcast |-> FALSE, ignored |-> FALSE]
        /\ Message(m) /\ m.broadcast = FALSE /\ m.ignored = FALSE
        /\ m.fc = fc /\ m.unit = unit /\ m.tid = number
    BY ONLY <2>1 DEF TcpRequest
  <2>3. p.buf = h BY DEF Parts
  <2> HIDE DEF p
  <2>4. recv_req_header(Tcp, s, p)
          = [unit |-> h[7], fc |-> h[8], tid |-> WordAt(h, 1), broadcast |-> FALSE, ignored |-> FALSE]
    BY ONLY <2>3, SameMessage
  <2> HIDE DEF m
  <2>5. LET hm == Header(Tcp, m, n) IN hm[7] = m.unit /\ hm[8] = m.fc /\ WordAt(hm, 1) = m.tid
    BY ONLY <1>1, <2>2, TcpHeader
  <2>6. h = Header(Tcp, m, n) OBVIOUS
  <2> HIDE DEF h
  <2> QED BY <2>2, <2>4, <2>5, <2>6
<1> HIDE DEF m
<1>3. /\ d \in Seq(Bytes) /\ h \in Seq(Bytes) /\ Len(h) = 8
      /\ in = h \o (d \o rest) /\ MsgHeader(Tcp, Reader(h \o (d \o rest))) = p
  BY ONLY <1>2, IsCall(c), c.ok, ~c.raw, rest \in Seq(Bytes), CallFrame DEF n
<1> HIDE DEF h, d
<1>a. d \o rest \in Seq(Bytes) BY ONLY <1>3, rest \in Seq(Bytes), JoinType
<1>b. h \o d \in Seq(Bytes) BY ONLY <1>3, JoinType
<1>4. p \in Readers /\ p.err = "NONE" /\ p.buf = h
  <2> DEFINE no == FALSE
             none == "NONE"
             more == d \o rest
  <2>1. no \in BOOLEAN /\ none \in Errors BY DEF Errors
  <2> HIDE DEF no, none, more
  <2>2. more \in Seq(Bytes) BY <1>a DEF more
  <2>3. Parts(none, h, more, no) \in Readers /\ Parts(none, h, more, no).err = none /\ Parts(none, h, more, no).buf = h
    BY ONLY <1>3, <2>1, <2>2, PartsType
  <2> QED BY <2>3 DEF no, none, more
<1>5. q \in Readers /\ q.err = "NONE" /\ q.buf = h \o d /\ q.in = rest /\ q.waits = FALSE
  <2> DEFINE no == FALSE
             none == "NONE"
             all == h \o d
  <2>1. no \in BOOLEAN /\ none \in Errors BY DEF Errors
  <2> HIDE DEF no, none, all
  <2>2. all \in Seq(Bytes) BY <1>b DEF all
  <2>3. LET r == Parts(none, all, rest, no)
        IN r \in Readers /\ r.err = none /\ r.buf = all /\ r.in = rest /\ r.waits = no
    BY ONLY <2>1, <2>2, rest \in Seq(Bytes), PartsType
  <2> QED BY <2>3 DEF no, none, all
<1>6. fc \in RequestCodes /\ RequestReader(Tcp, p, fc) = q
  BY <1>3, RequestTakes DEF d, fc
<1> HIDE DEF p, q, in
<1>7. Good(p) /\ Len(p.buf) = HeaderLen(Tcp) /\ Good(q) BY <1>3, <1>4, <1>5, TcpIs DEF Good
<1>8. Handled(Tcp, m, q, store, o)
  <2>1. m.ignored \in BOOLEAN BY <1>2
  <2>2. \/ Handled(Tcp, m, RequestReader(Tcp, p, m.fc), store, o)
        \/ m.fc \notin RequestCodes
    BY <1>4, <1>7, <2>1, FcHandled
  <2> HIDE DEF o
  <2> QED BY <1>2, <1>6, <2>2
<1>9. nmbs_server_poll(Tcp, s, in, store, fault) = o
  BY <1>2, <1>3, <1>7 DEF nmbs_server_poll
<1> HIDE DEF o
<1>11. Data(Tcp, q) = d
  <2>1. SubSeq(h \o d, Len(h) + 1, Len(h \o d)) = d BY ONLY <1>3, JoinParts
  <2> QED BY <1>3, <1>5, <2>1, TcpIs DEF Data
<1>12. Replied(Tcp, m, d, q, o) BY <1>2, <1>7, <1>8, <1>11 DEF Handled
<1>13. Answers(m, d, rest, o) BY <1>5, <1>12 DEF Replied, Answers
<1> QED BY <1>9, <1>13 DEF m, d, in, fc, n

LEMMA PayloadIs ==
  ASSUME transport = Tcp, NEW h \in Seq(Bytes), Len(h) = 8, NEW d \in Seq(Bytes)
  PROVE  Payload(h \o d) = d /\ h \o d \in Seq(Bytes)
<1> DEFINE b == h \o d
<1>1. SubSeq(b, Len(h) + 1, Len(b)) = d BY ONLY h \in Seq(Bytes), d \in Seq(Bytes), JoinParts
<1>2. b \in Seq(Bytes) BY ONLY h \in Seq(Bytes), d \in Seq(Bytes), JoinType
<1> HIDE DEF b
<1>3. Len(b) \in Nat BY <1>2, LenProperties
<1>4. Payload(b) = SubSeq(b, 9, Len(b))
  <2>1. HeaderLen(transport) + 1 = 9 /\ transport # "RTU" BY TcpIs
  <2>2. Len(b) - (IF transport = "RTU" THEN 2 ELSE 0) = Len(b) BY <1>3, <2>1
  <2> QED BY <2>1, <2>2 DEF Payload
<1> QED BY <1>1, <1>2, <1>4 DEF b

LEMMA AskedIs ==
  ASSUME transport = Tcp, NEW s, NEW o, NEW h \in Seq(Bytes), Len(h) = 8, NEW d \in Seq(Bytes),
         NEW rest \in Seq(Bytes), rx[s] = (h \o d) \o rest, o.in = rest
  PROVE  Asked(s, o) = d /\ rx[s][HeaderLen(transport)] = h[8]
<1> DEFINE f == h \o d
           b == f \o rest
<1>1. Payload(f) = d /\ f \in Seq(Bytes) BY PayloadIs
<1>2. Len(f) = 8 + Len(d) /\ f[8] = h[8]
  <2>1. Len(f) = Len(h) + Len(d) /\ \A i \in 1..Len(h) : f[i] = h[i]
    BY ONLY h \in Seq(Bytes), d \in Seq(Bytes), JoinType
  <2> QED BY <2>1
<1>3. Len(d) \in Nat /\ Len(rest) \in Nat BY LenProperties
<1> HIDE DEF f
<1>4. SubSeq(b, 1, Len(f)) = f BY ONLY <1>1, rest \in Seq(Bytes), JoinParts
<1>5. Len(b) = Len(f) + Len(rest) /\ \A i \in 1..Len(f) : b[i] = f[i]
  BY ONLY <1>1, rest \in Seq(Bytes), JoinType
<1> HIDE DEF b
<1>6. rx[s] = b BY DEF b, f
<1>7. b[8] = h[8] BY <1>2, <1>3, <1>5
<1>8. Len(b) - Len(rest) = Len(f) BY <1>2, <1>3, <1>5
<1>9. Asked(s, o) = Payload(SubSeq(b, 1, Len(b) - Len(rest))) BY <1>6 DEF Asked
<1> QED BY <1>1, <1>4, <1>6, <1>7, <1>8, <1>9, TcpIs

\* A function returns the error it met in the header of the response.
LEMMA ResponseFails ==
  ASSUME NEW p, NEW m, NEW c, IsCall(c), c.ok, ~c.raw, ~Good(ResHeader(Tcp, p, m))
  PROVE  Response(Tcp, p, m, c) = ResHeader(Tcp, p, m)
<1> DEFINE e == ResHeader(Tcp, p, m)
<1>1. c.raw = FALSE /\ IsRequest(c) BY DEF IsCall
<1>2. c.fc \in 1..6 \/ c.fc \in {15, 16} \/ c.fc = 23 \/ c.fc \in {20, 21} BY <1>1 DEF IsRequest
<1>3. \A n : Recv(e, n) = e BY DEF Recv
<1>4. Counted(e) = e BY <1>3 DEF Counted, RecvAsMany
<1>5. \A n : Upto(e, n) = e BY DEF Upto
<1>6. \A x : Expect(e, x) = e BY DEF Expect
<1>7. recv_read_discrete_res(Tcp, p, m) = e BY <1>4, FooterTcp DEF recv_read_discrete_res
<1>8. \A v : recv_read_registers_res(Tcp, p, m, v) = e
  BY <1>4, <1>6, FooterTcp DEF recv_read_registers_res, RegistersRead
<1>9. \A a, v : EchoChecked(Tcp, Echoed(Tcp, p, m), a, v) = e
  BY <1>3, <1>6, FooterTcp DEF EchoChecked, Echoed
<1>10. \A x, v : recv_read_file_record_res(Tcp, p, m, x, v) = e
  BY <1>4, <1>5, <1>6, FooterTcp DEF recv_read_file_record_res, FileRecordRead
<1>11. \A x, v : recv_write_file_record_res(Tcp, p, m, x, v) = e
  BY <1>4, <1>5, <1>6, FooterTcp DEF recv_write_file_record_res, FileRecordWritten
<1> HIDE DEF e
<1>12. CASE c.fc = 20
  <2>1. Response(Tcp, p, m, c) = recv_read_file_record_res(Tcp, p, m, TRUE, c.v) BY <1>1, <1>12 DEF Response
  <2> QED BY <2>1, <1>10 DEF e
<1>13. CASE c.fc = 21
  <2>1. c.raw = FALSE BY <1>1
  <2>2. Response(Tcp, p, m, c) = recv_write_file_record_res(Tcp, p, m, TRUE, c.data)
    BY ONLY <1>13, <2>1 DEF Response, recv_write_file_record_res, FileRecordWritten
  <2> QED BY <2>2, <1>11 DEF e
<1>14. CASE c.fc \in BitCodes
  <2>1. Response(Tcp, p, m, c) = recv_read_discrete_res(Tcp, p, m) BY <1>1, <1>14, ResponseBits
  <2> QED BY <2>1, <1>7 DEF e
<1>15. CASE c.fc \in RegisterCodes
  <2>1. Response(Tcp, p, m, c) = recv_read_registers_res(Tcp, p, m, c.v) BY <1>1, <1>15, ResponseRegisters
  <2> QED BY <2>1, <1>8 DEF e
<1>16. CASE c.fc \in EchoCodes
  <2>1. Response(Tcp, p, m, c) = EchoChecked(Tcp, Echoed(Tcp, p, m), c.a, c.v)
    BY <1>1, <1>16, ResponseEcho
  <2> QED BY <2>1, <1>9 DEF e
<1> QED BY <1>2, <1>12, <1>13, <1>14, <1>15, <1>16 DEF BitCodes, RegisterCodes, EchoCodes

\* The header of an answer: what is left is the data, or the code of the exception.
GotHeader(p, h, in) == MsgHeader(Tcp, p) = Parts("NONE", h, in, FALSE)
FrameRead(m, n, data, rest) ==
  LET h == Header(Tcp, m, n)
  IN /\ h \in Seq(Bytes) /\ Len(h) = 8 /\ WordAt(h, 1) = m.tid /\ h[8] = m.fc
     /\ Frame(Tcp, m, n, data) = h \o data
     /\ GotHeader(Reader(Frame(Tcp, m, n, data) \o rest), h, data \o rest)

LEMMA FrameHeader ==
  ASSUME NEW m, Message(m), NEW n \in 0..253, NEW data \in Seq(Bytes), NEW rest \in Seq(Bytes)
  PROVE  FrameRead(m, n, data, rest)
<1> DEFINE h == Header(Tcp, m, n)
           more == data \o rest
<1>1. /\ h \in Seq(Bytes) /\ Len(h) = 8 /\ WordAt(h, 3) = 0 /\ WordAt(h, 5) <= 255 /\ h[8] = m.fc
      /\ WordAt(h, 1) = m.tid
  BY TcpHeader
<1>2. Frame(Tcp, m, n, data) = h \o data BY TcpFrame
<1> HIDE DEF h
<1>3. (h \o data) \o rest = h \o more
  BY ONLY <1>1, data \in Seq(Bytes), rest \in Seq(Bytes), JoinThree, Zenon DEF more
<1>4. more \in Seq(Bytes) BY ONLY data \in Seq(Bytes), rest \in Seq(Bytes), JoinType
<1> HIDE DEF more
<1>5. MsgHeader(Tcp, Reader(h \o more)) = Parts("NONE", h, more, FALSE)
  BY ONLY <1>1, <1>4, HeaderTakes
<1> QED BY <1>1, <1>2, <1>3, <1>5 DEF FrameRead, GotHeader, h, more

\* An answer with the transaction number and the function code of the request is taken.
LEMMA ResHeaderTakes ==
  ASSUME NEW m, NEW p, NEW h, NEW in, GotHeader(p, h, in),
         WordAt(h, 1) = m.tid, h[8] = m.fc
  PROVE  ResHeader(Tcp, p, m) = Parts("NONE", h, in, FALSE)
<1> DEFINE q == Parts("NONE", h, in, FALSE)
<1>1. Good(q) /\ q.buf = h BY DEF Parts, Good
<1> HIDE DEF q
<1>2. FcOf(Tcp, q) = m.fc BY <1>1, TcpIs DEF FcOf
<1>3. ResHeader(Tcp, p, m) = ResChecked(Tcp, q, m) BY DEF ResHeader, GotHeader, q
<1>4. ~(Tcp = "TCP" /\ WordAt(q.buf, 1) # m.tid) /\ ~(Tcp = "RTU" /\ UnitOf(Tcp, q) # m.unit)
  BY <1>1, TcpIs
<1>5. ResChecked(Tcp, q, m) = q BY ONLY <1>1, <1>2, <1>4 DEF ResChecked
<1> QED BY <1>3, <1>5 DEF q

\* One byte that follows the function code with 128 added is an exception.
LEMMA ResHeaderRefused ==
  ASSUME NEW m, m.fc \in Nat, NEW p, NEW h \in Seq(Bytes), Len(h) = 8, NEW one \in Seq(Bytes), Len(one) = 1, one[1] \in 1..4,
         NEW rest \in Seq(Bytes),
         GotHeader(p, h, one \o rest),
         WordAt(h, 1) = m.tid, h[8] = m.fc + 128
  PROVE  ResHeader(Tcp, p, m) = Parts(Exceptions[one[1]], h \o one, rest, FALSE)
<1> DEFINE k == one[1]
           in == one \o rest
           q == Parts("NONE", h, in, FALSE)
           b == h \o one
           r == Parts("NONE", b, rest, FALSE)
<1>1. Good(q) /\ q.buf = h BY DEF Parts, Good
<1>3. one \in Seq(Bytes) /\ Len(one) = 1 /\ one[1] = k /\ k \in 1..4 OBVIOUS
<1> HIDE DEF k
<1>4. b \in Seq(Bytes) /\ b[9] = k
  <2>1. b \in Seq(Bytes) /\ \A i \in 1..Len(one) : b[Len(h) + i] = one[i]
    BY ONLY <1>3, h \in Seq(Bytes), JoinType
  <2> HIDE DEF b
  <2>2. 1 \in 1..Len(one) /\ Len(h) + 1 = 9 BY <1>3
  <2>3. b[Len(h) + 1] = one[1] BY ONLY <2>1, <2>2
  <2> QED BY <1>3, <2>1, <2>2, <2>3
<1>b. b \in Seq(Bytes) BY <1>4
<1>5. Recv(q, 1) = r
  <2> DEFINE no == FALSE
  <2>1. no \in BOOLEAN OBVIOUS
  <2> HIDE DEF no
  <2>2. Recv(Parts("NONE", h, one \o rest, no), Len(one)) = Parts("NONE", h \o one, rest, no)
    BY ONLY <1>3, <2>1, h \in Seq(Bytes), rest \in Seq(Bytes), RecvTakes
  <2> QED BY <1>3, <2>2 DEF no
<1> HIDE DEF in, b
<1>6. Good(r) /\ r.buf = b /\ r.err = "NONE" BY DEF Parts, Good
<1>7. r \in Readers
  <2> DEFINE no == FALSE
             none == "NONE"
  <2>1. no \in BOOLEAN /\ none \in Errors BY DEF Errors
  <2> HIDE DEF no, none
  <2>2. Parts(none, b, rest, no) \in Readers
    BY ONLY <1>b, <2>1, rest \in Seq(Bytes), PartsType
  <2> QED BY <2>2 DEF no, none
<1>r. r.in = rest /\ r.waits = FALSE BY DEF Parts
<1> HIDE DEF q, r
<1>8. FcOf(Tcp, q) = m.fc + 128 /\ FcOf(Tcp, q) # m.fc
  <2>1. FcOf(Tcp, q) = m.fc + 128 BY <1>1, TcpIs DEF FcOf
  <2>2. \A n \in Nat : n + 128 # n OBVIOUS
  <2> QED BY <2>1, <2>2
<1>9. ResHeader(Tcp, p, m) = ResChecked(Tcp, q, m) BY DEF ResHeader, GotHeader, q, in
<1>10. ~(Tcp = "TCP" /\ WordAt(q.buf, 1) # m.tid) /\ ~(Tcp = "RTU" /\ UnitOf(Tcp, q) # m.unit)
  BY <1>1, TcpIs
<1>11. ResChecked(Tcp, q, m) = ExceptionRead(Tcp, Footer(Tcp, Recv(q, 1)))
  BY ONLY <1>1, <1>8, <1>10 DEF ResChecked
<1>12. Footer(Tcp, Recv(q, 1)) = r BY <1>5, FooterTcp DEF q, r, b, in
<1>13. k \in DOMAIN Exceptions /\ HeaderLen(Tcp) + 1 = 9 BY <1>3, TcpIs DEF Exceptions
<1>14. ExceptionRead(Tcp, r) = Fail(r, Exceptions[k])
  BY ONLY <1>4, <1>6, <1>13 DEF ExceptionRead
<1>15. Exceptions[k] \in Errors BY <1>13, ExceptionErrors
<1>16. Fail(r, Exceptions[k]) = Parts(Exceptions[k], r.buf, r.in, r.waits) BY <1>7, <1>15, UpdatedErr
<1> QED BY <1>6, <1>r, <1>9, <1>11, <1>12, <1>14, <1>16 DEF b, k

TakesNothing(m, c) == Response(Tcp, Reader(<<>>), m, c) = Parts("TIMEOUT", <<>>, <<>>, TRUE)
LEMMA ResponseNothing ==
  ASSUME NEW m, NEW c, IsCall(c), c.ok, ~c.raw
  PROVE  TakesNothing(m, c)
<1> DEFINE q == Parts("TIMEOUT", <<>>, <<>>, TRUE)
           p == Reader(<<>>)
<1>1. ~Good(q) BY DEF Parts, Good
<1>2. MsgHeader(Tcp, p) = q BY HeaderOfNothing
<1> HIDE DEF p, q
<1>3. ResHeader(Tcp, p, m) = q BY <1>1, <1>2 DEF ResHeader, ResChecked
<1>4. Response(Tcp, p, m, c) = q BY <1>1, <1>3, ResponseFails
<1> QED BY <1>4 DEF p, q, TakesNothing

\* The frame that refuses a request m, and what a call makes of the answers.
Refusal(m, e) == Frame(Tcp, [m EXCEPT !.fc = (@ + 128) % 256], 1, <<ExceptionCode(e)>>)
TakesRefusal(m, c, e, in, rest) ==
  \E b : b[8] # c.fc /\ Response(Tcp, Reader(in), m, c) = Parts(e, b, rest, FALSE)
TakesAnswer(m, c, data, in, rest) ==
  \E h \in Seq(Bytes) : Len(h) = 8 /\ Response(Tcp, Reader(in), m, c) = Parts("NONE", h \o data, rest, FALSE)

LEMMA ResponseRefused ==
  ASSUME NEW c, IsCall(c), c.ok, ~c.raw, NEW m, Message(m), m.fc = c.fc,
         NEW e \in ExceptionNames, NEW rest \in Seq(Bytes)
  PROVE  TakesRefusal(m, c, e, Refusal(m, e) \o rest, rest)
<1> DEFINE k == ExceptionCode(e)
           one == <<k>>
           x == [m EXCEPT !.fc = (@ + 128) % 256]
           n == 1
           h == Header(Tcp, x, n)
           f == Frame(Tcp, x, n, one)
           p == Reader(f \o rest)
           b == h \o one
<1>1. k \in 1..4 /\ Exceptions[k] = e BY ExceptionKinds
<1>2. m.fc \in Nat /\ m.fc < 128
  <2>1. IsRequest(c) BY CallParts
  <2>2. c.fc \in 1..6 \/ c.fc \in {15, 16} \/ c.fc = 23 \/ c.fc \in {20, 21} BY <2>1 DEF IsRequest
  <2> QED BY ONLY <2>2, m.fc = c.fc
<1> HIDE DEF k
<1>3. one \in Seq(Bytes) /\ Len(one) = 1
  <2>1. k \in Bytes BY <1>1, InBytes
  <2> QED BY <2>1
<1> HIDE DEF one
<1>4. n \in 0..253 OBVIOUS
<1>5. x.fc = m.fc + 128 /\ x.unit = m.unit /\ x.tid = m.tid /\ Message(x)
  <2> DEFINE v == (m.fc + 128) % 256
  <2>1. v = m.fc + 128 /\ v \in Nat /\ v <= 255 BY <1>2
  <2> HIDE DEF v
  <2>2. v \in Bytes BY <2>1, InBytes
  <2>3. x = [m EXCEPT !.fc = v] BY DEF v
  <2> QED BY <2>1, <2>2, <2>3 DEF Message
<1> HIDE DEF x, n
<1>a. FrameRead(x, n, one, rest) BY ONLY <1>3, <1>4, <1>5, rest \in Seq(Bytes), FrameHeader
<1>6. /\ h \in Seq(Bytes) /\ Len(h) = 8 /\ WordAt(h, 1) = x.tid /\ h[8] = x.fc
      /\ f = h \o one /\ GotHeader(p, h, one \o rest)
  BY <1>a DEF FrameRead
<1> HIDE DEF h, f, p
<1>7. ResHeader(Tcp, p, m) = Parts(e, b, rest, FALSE)
  <2>1. one[1] = k BY DEF one
  <2>2. /\ m.fc \in Nat /\ WordAt(h, 1) = m.tid /\ h[8] = m.fc + 128
        /\ h \in Seq(Bytes) /\ Len(h) = 8 /\ one \in Seq(Bytes) /\ Len(one) = 1 /\ one[1] \in 1..4
        /\ GotHeader(p, h, one \o rest)
    BY <1>1, <1>2, <1>3, <1>5, <1>6, <2>1
  <2>3. ResHeader(Tcp, p, m) = Parts(Exceptions[one[1]], h \o one, rest, FALSE)
    BY ONLY <2>2, rest \in Seq(Bytes), ResHeaderRefused
  <2> QED BY <1>1, <2>1, <2>3
<1>8. ~Good(ResHeader(Tcp, p, m))
  <2>1. e # "NONE" BY ExceptionKinds
  <2> HIDE DEF b
  <2> QED BY <1>7, <2>1 DEF Good, Parts
<1>9. Response(Tcp, p, m, c) = Parts(e, b, rest, FALSE) BY <1>7, <1>8, ResponseFails
<1>10. b[8] # c.fc
  <2>1. \A i \in 1..Len(h) : b[i] = h[i] BY ONLY <1>3, <1>6, JoinType
  <2> HIDE DEF b
  <2>2. b[8] = m.fc + 128 BY <1>5, <1>6, <2>1
  <2> QED BY <1>2, <2>2
<1> HIDE DEF b
<1>11. TakesRefusal(m, c, e, f \o rest, rest) BY <1>9, <1>10 DEF TakesRefusal, p
<1> QED BY <1>11 DEF f, x, n, one, k, Refusal

\* The first four bytes of a request are its address and its value or quantity.
LEMMA BeginsWith ==
  ASSUME NEW c, IsCall(c), c.ok, ~c.raw, c.fc \notin FileCodes
  PROVE  Begins(c) /\ c.a \in Words16 /\ c.v \in Words16 /\ Len(c.data) >= 4 /\ WordAt(c.data, 3) = c.v
<1>1. IsRequest(c) /\ c.data \in Seq(Bytes) /\ c.len = Len(c.data) BY CallParts
<1>2. c.a \in Words16 /\ c.v \in Words16 BY <1>1 DEF IsRequest, IsCall
<1>3. Begins(c) /\ Len(c.data) >= 4
  <2>1. \/ c.fc \in 1..6 /\ c.len = 4 /\ Begins(c)
        \/ c.fc \in {15, 16} /\ c.len >= 5 /\ Begins(c)
        \/ c.fc = 23 /\ c.len >= 9 /\ Begins(c)
        \/ c.fc \in {20, 21}
    BY <1>1 DEF IsRequest
  <2>2. Len(c.data) \in Nat BY <1>1, LenProperties
  <2> DEFINE n == Len(c.data)
             B == Begins(c)
  <2>3. c.len = n /\ n \in Nat /\ c.fc \notin {20, 21} BY <1>1, <2>2 DEF FileCodes
  <2>4. (B /\ n = 4) \/ (B /\ n >= 5) \/ (B /\ n >= 9)
    <3> HIDE DEF n, B
    <3> QED BY <2>1, <2>3 DEF B
  <2> HIDE DEF n, B
  <2>5. B /\ n >= 4 BY <2>3, <2>4
  <2> QED BY <2>5 DEF B, n
<1> DEFINE d == c.data
           f == SubSeq(d, 1, 4)
           a == Word(c.a)
           v == Word(c.v)
<1>4. f = a \o v BY <1>3 DEF Begins
<1>5. a \in Seq(Bytes) /\ Len(a) = 2 /\ v \in Seq(Bytes) /\ Len(v) = 2 /\ 256 * v[1] + v[2] = c.v
  BY <1>2, WordType
<1> HIDE DEF a, v
<1>6. (a \o v)[3] = v[1] /\ (a \o v)[4] = v[2]
  <2>1. (a \o v)[Len(a) + 1] = v[1] /\ (a \o v)[Len(a) + 2] = v[2] BY ONLY <1>5, PairAt
  <2>2. Len(a) + 1 = 3 /\ Len(a) + 2 = 4 BY <1>5
  <2> DEFINE w == a \o v
  <2> HIDE DEF w
  <2>3. w[3] = v[1] /\ w[4] = v[2] BY <2>1, <2>2 DEF w
  <2> QED BY <2>3 DEF w
<1>7. f[3] = d[3] /\ f[4] = d[4]
  <2> HIDE DEF d
  <2>1. Len(d) \in Nat /\ \A i \in 1..4 : d[i] \in Bytes BY <1>1, <1>3, LenProperties, ElementOfSeq DEF d
  <2> QED BY <2>1, SubSeqProperties
<1> HIDE DEF d, f
<1>8. WordAt(d, 3) = c.v
  <2>1. d[3] = v[1] /\ d[4] = v[2] BY <1>4, <1>6, <1>7
  <2> QED BY <1>5, <2>1 DEF WordAt
<1> QED BY <1>2, <1>3, <1>8 DEF d

\* The answer of a server that has obeyed is taken whole, and found right.
LEMMA ResponseObeyed ==
  ASSUME NEW c, IsCall(c), c.ok, ~c.raw, NEW m, Message(m), m.fc = c.fc,
         NEW n \in 0..253, NEW data, AnswerData(c.fc, c.data, data), NEW rest \in Seq(Bytes)
  PROVE  TakesAnswer(m, c, data, Frame(Tcp, m, n, data) \o rest, rest)
<1> DEFINE h == Header(Tcp, m, n)
           in == Frame(Tcp, m, n, data) \o rest
           p == Reader(in)
           no == FALSE
           q == Parts("NONE", h, data \o rest, no)
           b == h \o data
           r == Parts("NONE", b, rest, no)
<1>1. data \in Seq(Bytes) /\ c.fc \notin FileCodes BY DEF AnswerData
<1>2. FrameRead(m, n, data, rest) BY <1>1, FrameHeader
<1>3. /\ h \in Seq(Bytes) /\ Len(h) = 8 /\ WordAt(h, 1) = m.tid /\ h[8] = m.fc
      /\ GotHeader(p, h, data \o rest)
  BY <1>2 DEF FrameRead, p, in
<1> HIDE DEF h, p, in
<1>4. ResHeader(Tcp, p, m) = q
  <2> DEFINE more == data \o rest
  <2> HIDE DEF more
  <2>1. GotHeader(p, h, more) /\ WordAt(h, 1) = m.tid /\ h[8] = m.fc BY <1>3 DEF more
  <2>2. ResHeader(Tcp, p, m) = Parts("NONE", h, more, FALSE) BY <2>1, ResHeaderTakes
  <2> QED BY <2>2 DEF more
<1>5. no \in BOOLEAN OBVIOUS
<1> HIDE DEF no
<1>6. Len(data) = 1 + data[1] => Counted(q) = r
  <2>1. ASSUME Len(data) = 1 + data[1] PROVE RecvAsMany(Recv(q, 1)) = r
    <3>1. 1 \in Nat \ {0} /\ 1 <= Len(data)
      <4>1. Len(data) \in Nat /\ Len(data) > 0 BY <1>1, LenProperties DEF AnswerData
      <4> QED BY <4>1
    <3> QED BY ONLY <1>1, <1>3, <1>5, <2>1, <3>1, rest \in Seq(Bytes), CountedTakes DEF q, r, b
  <2> HIDE DEF q, r
  <2> QED BY <2>1 DEF Counted
<1>7. Recv(q, Len(data)) = r
  BY ONLY <1>1, <1>3, <1>5, rest \in Seq(Bytes), RecvTakes DEF q, r, b
<1>8. Good(r) /\ r.buf = b BY DEF Good, Parts
<1>9. Data(Tcp, r) = data
  <2>1. SubSeq(b, Len(h) + 1, Len(b)) = data BY ONLY <1>1, <1>3, JoinParts DEF b
  <2> HIDE DEF b, r
  <2> QED BY <1>3, <1>8, <2>1, TcpIs DEF Data
<1> HIDE DEF q, r, b
<1>10. ASSUME c.fc \in BitCodes PROVE Response(Tcp, p, m, c) = r
  <2>1. Len(data) = 1 + data[1] BY <1>10 DEF AnswerData
  <2>2. Response(Tcp, p, m, c) = recv_read_discrete_res(Tcp, p, m)
    <3>1. c.raw = FALSE BY DEF IsCall
    <3> QED BY <3>1, <1>10, ResponseBits
  <2>3. recv_read_discrete_res(Tcp, p, m) = r
    BY <1>4, <1>6, <2>1, FooterTcp DEF recv_read_discrete_res
  <2> QED BY <2>2, <2>3
<1>11. ASSUME c.fc \in RegisterCodes PROVE Response(Tcp, p, m, c) = r
  <2>1. Len(data) = 1 + data[1] /\ data[1] = 2 * WordAt(c.data, 3) BY <1>11 DEF AnswerData
  <2>2. Response(Tcp, p, m, c) = recv_read_registers_res(Tcp, p, m, c.v)
    <3>1. c.raw = FALSE BY DEF IsCall
    <3> QED BY <3>1, <1>11, ResponseRegisters
  <2>3. data[1] = 2 * c.v BY <1>1, <2>1, BeginsWith
  <2>4. RegistersRead(Tcp, r, c.v) = r
    BY ONLY <1>8, <1>9, <2>3 DEF RegistersRead, Expect
  <2>5. recv_read_registers_res(Tcp, p, m, c.v) = r
    BY <1>4, <1>6, <2>1, <2>4, FooterTcp DEF recv_read_registers_res
  <2> QED BY <2>2, <2>5
<1>12. ASSUME c.fc \in EchoCodes PROVE Response(Tcp, p, m, c) = r
  <2> DEFINE d == c.data
  <2>1. data = SubSeq(d, 1, 4) BY <1>12 DEF AnswerData
  <2>2. Response(Tcp, p, m, c) = EchoChecked(Tcp, Echoed(Tcp, p, m), c.a, c.v)
    <3>1. c.raw = FALSE BY DEF IsCall
    <3> QED BY <3>1, <1>12, ResponseEcho
  <2>3. d \in Seq(Bytes) /\ Len(d) >= 4 /\ SubSeq(d, 1, 4) = Word(c.a) \o Word(c.v)
    BY <1>1, BeginsWith, CallParts DEF Begins
  <2> HIDE DEF d
  <2>4. Len(data) = 4
    <3>1. Len(d) \in Nat /\ 4 \in Nat /\ 4 <= Len(d) BY <2>3, LenProperties
    <3>2. Len(SubSeq(d, 1, 4)) = 4 BY ONLY <2>3, <3>1, Divide
    <3> QED BY <2>1, <3>2
  <2>5. Echoed(Tcp, p, m) = r BY <1>4, <1>7, <2>4, FooterTcp DEF Echoed
  <2>6. SubSeq(data, 1, 4) = data
    <3>1. \A i \in 1..4 : data[i] \in Bytes BY <1>1, <2>4, ElementOfSeq
    <3> DEFINE u == SubSeq(data, 1, 4)
    <3>2. u \in Seq(Bytes) /\ Len(u) = 4 /\ \A i \in 1..4 : u[i] = data[i]
      BY <3>1, SubSeqProperties
    <3> HIDE DEF u
    <3>3. u = data BY <1>1, <2>4, <3>2, SeqEqual
    <3> QED BY <3>3 DEF u
  <2>7. SubSeq(Data(Tcp, r), 1, 4) = Word(c.a) \o Word(c.v) BY <1>9, <2>1, <2>3, <2>6
  <2>8. EchoChecked(Tcp, r, c.a, c.v) = r BY ONLY <1>8, <2>7 DEF EchoChecked, Repeats, Expect
  <2> QED BY <2>2, <2>5, <2>8
<1>13. c.fc \in BitCodes \/ c.fc \in RegisterCodes \/ c.fc \in EchoCodes
  <2>1. IsRequest(c) BY CallParts
  <2>2. c.fc \in 1..6 \/ c.fc \in {15, 16} \/ c.fc = 23 \/ c.fc \in {20, 21} BY <2>1 DEF IsRequest
  <2> QED BY ONLY <1>1, <2>2 DEF BitCodes, RegisterCodes, EchoCodes, FileCodes
<1>14. Response(Tcp, p, m, c) = r BY <1>10, <1>11, <1>12, <1>13
<1>15. \E k \in Seq(Bytes) : Len(k) = 8 /\ Response(Tcp, p, m, c) = Parts("NONE", k \o data, rest, FALSE)
  BY <1>3, <1>14 DEF r, b, no
<1> QED BY <1>15 DEF TakesAnswer, p, in

-----------------------------------------------------------------------------
(* A server on a connection never waits for what it does not answer: only   *)
(* the first byte of a message may be waited for in vain.                   *)

LEMMA RecvWaits ==
  ASSUME NEW p \in Readers, NEW n \in Nat
  PROVE  Recv(p, n) \in Readers /\ Recv(p, n).waits = p.waits
<1>0. Recv(p, n) \in Readers BY RecvType
<1>1. CASE ~Good(p) BY <1>0, <1>1 DEF Recv
<1>2. CASE Good(p) /\ Len(p.in) < n
  <2> DEFINE b == p.buf \o p.in
  <2>1. Recv(p, n) = Parts("TIMEOUT", b, <<>>, p.waits) BY <1>2, RecvShort
  <2> HIDE DEF b
  <2>2. Parts("TIMEOUT", b, <<>>, p.waits).waits = p.waits BY DEF Parts
  <2> QED BY ONLY <1>0, <2>1, <2>2
<1>3. CASE Good(p) /\ ~(Len(p.in) < n)
  <2> DEFINE b == p.buf \o SubSeq(p.in, 1, n)
             v == SubSeq(p.in, n + 1, Len(p.in))
  <2>1. Recv(p, n) = Parts("NONE", b, v, p.waits) BY <1>3, RecvEnough
  <2> HIDE DEF b, v
  <2>2. Parts("NONE", b, v, p.waits).waits = p.waits BY DEF Parts
  <2> QED BY ONLY <1>0, <2>1, <2>2
<1> QED BY <1>1, <1>2, <1>3

LEMMA HeaderWaits ==
  ASSUME NEW in \in Seq(Bytes), in # <<>>
  PROVE  MsgHeader(Tcp, Reader(in)).waits = FALSE
<1> DEFINE none == <<>>
           no == FALSE
           p == Reader(in)
           start == [p EXCEPT !.buf = none]
           first == Recv(start, 1)
           q == Recv(first, 7)
<1>1. none \in Seq(Bytes) /\ no \in BOOLEAN OBVIOUS
<1>2. Len(in) \in Nat /\ Len(in) # 0 BY LenProperties, EmptySeq
<1>3. p \in Readers /\ p.err = "NONE" /\ p.in = in /\ p.waits = no BY ReaderType DEF Reader
<1> HIDE DEF p, none, no
<1>4. start = Parts("NONE", none, in, no) BY <1>1, <1>3, UpdatedBuf
<1>5. start \in Readers /\ Good(start) /\ start.in = in /\ start.waits = no
  <2> DEFINE e == "NONE"
  <2>1. e \in Errors BY DEF Errors
  <2> HIDE DEF e
  <2>2. LET r == Parts(e, none, in, no) IN r \in Readers /\ r.err = e /\ r.in = in /\ r.waits = no
    BY ONLY <1>1, <2>1, in \in Seq(Bytes), PartsType
  <2> QED BY <1>4, <2>2 DEF e, Good
<1> HIDE DEF start
<1>6. first \in Readers /\ first.waits = no /\ Good(first)
  <2>1. first \in Readers /\ first.waits = no BY <1>5, RecvWaits
  <2>2. ~(Len(start.in) < 1) BY <1>2, <1>5
  <2> DEFINE b == start.buf \o SubSeq(start.in, 1, 1)
             v == SubSeq(start.in, 1 + 1, Len(start.in))
  <2>3. first = Parts("NONE", b, v, start.waits) BY <1>5, <2>2, RecvEnough
  <2> HIDE DEF b, v, first
  <2>4. Good(first) BY <2>3 DEF Parts, Good
  <2> QED BY <2>1, <2>4
<1> HIDE DEF first
<1>7. q \in Readers /\ q.waits = no BY <1>6, RecvWaits
<1> HIDE DEF q
<1>8. MsgHeader(Tcp, p) = MbapChecked(Tcp, q)
  <2>1. Good(p) BY <1>3 DEF Good
  <2>2. MsgHeader(Tcp, p) = AfterFirst(Tcp, first) BY <2>1 DEF MsgHeader, first, start, none
  <2> QED BY <1>6, <2>2, TcpIs DEF AfterFirst, q
<1>9. MbapChecked(Tcp, q).waits = no
  <2>1. "INVALID_TCP_MBAP" \in Errors BY DEF Errors
  <2>2. Fail(q, "INVALID_TCP_MBAP").waits = no BY <1>7, <2>1, FailType
  <2> QED BY <1>7, <2>2 DEF MbapChecked
<1> QED BY <1>8, <1>9 DEF p, no

LEMMA ReaderWaits ==
  ASSUME NEW p \in Readers, Good(p), Len(p.buf) = 8, NEW fc
  PROVE  RequestReader(Tcp, p, fc).waits = p.waits
<1>1. ASSUME NEW k \in Nat \ {0} PROVE RecvAsMany(Recv(p, k)).waits = p.waits
  <2> DEFINE q == Recv(p, k)
  <2>1. q \in Readers /\ q.waits = p.waits BY RecvWaits
  <2>2. Good(q) => Len(q.buf) = 8 + k BY RecvType
  <2> HIDE DEF q
  <2>3. CASE ~Good(q) BY <2>1, <2>3 DEF RecvAsMany, q
  <2>4. CASE Good(q)
    <3>1. q.buf \in Seq(Bytes) /\ Len(q.buf) \in Nat /\ Len(q.buf) > 0
      BY <2>1, <2>2, <2>4, LenProperties, ReaderParts
    <3>2. q.buf[Len(q.buf)] \in Nat BY <3>1, ElementOfSeq, InBytes
    <3>3. Recv(q, q.buf[Len(q.buf)]).waits = q.waits BY <2>1, <3>2, RecvWaits
    <3> QED BY <2>1, <2>4, <3>3 DEF RecvAsMany, q
  <2> QED BY <2>3, <2>4
<1>2. Recv(p, 4).waits = p.waits BY RecvWaits
<1>3. TwoWords(Tcp, p).waits = p.waits BY <1>2, FooterTcp DEF TwoWords
<1>4. ManyRequest(Tcp, p).waits = p.waits BY <1>1, FooterTcp DEF ManyRequest
<1>5. FileRequest(Tcp, p).waits = p.waits BY <1>1, FooterTcp DEF FileRequest, Counted
<1>6. ReadWriteRequest(Tcp, p).waits = p.waits BY <1>1, FooterTcp DEF ReadWriteRequest
<1> QED BY <1>3, <1>4, <1>5, <1>6 DEF RequestReader

LEMMA PollNeverWaits ==
  ASSUME Supported \cap FileCodes = {}, NEW s \in Servers, NEW in \in Seq(Bytes), in # <<>>,
         NEW store \in Memory, NEW fault
  PROVE  nmbs_server_poll(Tcp, s, in, store, fault).waits = FALSE
<1> DEFINE h == MsgHeader(Tcp, Reader(in))
           m == recv_req_header(Tcp, s, h)
           q == RequestReader(Tcp, h, m.fc)
           o == handle_req_fc(Tcp, s, h, m, store, fault)
           no == FALSE
<1>1. h \in Readers /\ (Good(h) => Len(h.buf) = HeaderLen(Tcp)) BY ReaderType, HeaderType
<1>2. h.waits = no BY HeaderWaits
<1> HIDE DEF h
<1>3. nmbs_server_poll(Tcp, s, in, store, fault)
        = IF ~Good(h) THEN Outcome(h, store, <<>>, NoAnswer) ELSE o
  BY DEF nmbs_server_poll, h
<1>4. CASE ~Good(h)
  <2>1. Outcome(h, store, <<>>, NoAnswer).waits = no BY <1>2, OutcomeParts
  <2> QED BY <1>3, <1>4, <2>1 DEF no
<1>5. CASE Good(h)
  <2>1. m.ignored = FALSE
    <3> DEFINE b == h.buf
    <3>1. h.buf = b OBVIOUS
    <3> HIDE DEF b
    <3>2. m = [unit |-> b[7], fc |-> b[8], tid |-> WordAt(b, 1), broadcast |-> FALSE, ignored |-> FALSE]
      BY ONLY <3>1, SameMessage DEF m
    <3> HIDE DEF m
    <3> QED BY <3>2
  <2> HIDE DEF m, no
  <2>2. Len(h.buf) = 8 BY <1>1, <1>5, TcpIs
  <2>3. q.waits = no BY <1>1, <1>2, <1>5, <2>2, ReaderWaits
  <2>4. /\ q \in Readers
        /\ \/ Handled(Tcp, m, q, store, o)
           \/ o = Outcome(Fail(h, "ILLEGAL_FUNCTION"), store, <<>>, NoAnswer)
    <3>1. m.ignored \in BOOLEAN BY <2>1
    <3> QED BY <1>1, <1>5, <3>1, FcHandled
  <2> HIDE DEF o, q
  <2>5. ASSUME o = Unread(q, m, store) PROVE o.waits = no BY <2>1, <2>3, <2>5 DEF Unread, Outcome
  <2>6. ASSUME Replied(Tcp, m, Data(Tcp, q), q, o) PROVE o.waits = no BY <2>3, <2>6 DEF Replied
  <2>7. ASSUME o = Outcome(Fail(h, "ILLEGAL_FUNCTION"), store, <<>>, NoAnswer) PROVE o.waits = no
    <3>1. "ILLEGAL_FUNCTION" \in Errors BY DEF Errors, Exceptions
    <3>2. Fail(h, "ILLEGAL_FUNCTION").waits = h.waits BY <1>1, <3>1, FailType
    <3>3. o.waits = h.waits BY <2>7, <3>2 DEF Outcome
    <3> QED BY <1>2, <3>3
  <2>8. o.waits = no BY <2>1, <2>4, <2>5, <2>6, <2>7 DEF Handled
  <2> QED BY <1>3, <1>5, <2>8 DEF no
<1> QED BY <1>4, <1>5

-----------------------------------------------------------------------------
(* The exchange of a call on a connection on which nothing is cut: the       *)
(* request is under way, has come, and so has its answer, and there is       *)
(* nothing else on the connection.                                           *)

TheServer == CHOOSE x \in Servers : TRUE
Pending == RequestState(Tcp, tid, call.to, call.c.fc)
Question == Frame(Tcp, Pending, call.c.len, call.c.data)
OnlyAt(s) == \A x \in Stations : x # s => rx[x] = <<>>
NothingRead == \A x \in Stations : rx[x] = <<>>

\* b is the frame of the answer that a server has given, e, to a request m with data d.
AnswerIs(m, d, e, b) ==
  /\ e.fc = m.fc /\ e.data = d
  /\ \/ \E x \in ExceptionNames :
          /\ e.answer = Answer(x, <<>>)
          /\ b = Refusal(m, x)
     \/ \E n \in 0..253 : \E data :
          AnswerData(m.fc, d, data) /\ e.answer = Answer("NONE", data) /\ b = Frame(Tcp, m, n, data)
CarriedOut(e) ==
  (e.answer.err = "NONE" /\ e.fc \in WriteCodes) => \E w \in written : w[2] = e.fc /\ w[3] = e.data
Answered(e, b) == e \in carried /\ AnswerIs(Pending, call.c.data, e, b) /\ CarriedOut(e)

Asking == air = <<[to |-> {TheServer}, bytes |-> Question]>> /\ NothingRead
AskedOf == air = <<>> /\ rx[TheServer] = Question /\ OnlyAt(TheServer)
Answering == \E e, b : Answered(e, b) /\ air = <<[to |-> {Client}, bytes |-> b]>> /\ NothingRead
ToRead == \E e, b : Answered(e, b) /\ air = <<>> /\ rx[Client] = b /\ OnlyAt(Client)
Exchange == Asking \/ AskedOf \/ Answering \/ ToRead

LEMMA TheServerIs == TheServer \in Servers /\ TheServer \in Stations /\ TheServer # Client
<1>1. TheServer \in Servers BY SystemAssumption DEF SystemAssumption, TheServer
<1> QED BY <1>1, StationTypes

\* A call that is awaited, and not a raw one.
Awaited == call # NoCall /\ ~call.c.raw
LEMMA AwaitedParts ==
  ASSUME Types, Awaited
  PROVE  /\ IsCall(call.c) /\ call.c.ok /\ ~call.c.raw
         /\ call.to \in Bytes /\ call.c.fc \in Bytes /\ call.c.data \in Seq(Bytes) /\ call.c.len \in 0..253
         /\ tid \in Words16 /\ Message(Pending) /\ Pending.fc = call.c.fc
<1>1. IsPending(call) BY DEF Types, ClientTypes, Awaited
<1>2. IsCall(call.c) /\ call.c.ok /\ ~call.c.raw /\ call.to \in Bytes BY <1>1 DEF IsPending, Awaited
<1>3. tid \in Words16
  <2>1. tid \in 0..MAX_TID /\ MAX_TID \in Nat /\ MAX_TID <= UINT16_MAX BY Limits DEF Types, ClientTypes
  <2>2. tid \in Nat /\ tid <= UINT16_MAX BY <2>1, Max16Nat
  <2> QED BY <2>2, InWords16
<1>4. call.c.data \in Seq(Bytes) /\ call.c.fc \in Bytes /\ call.c.len \in 0..253 BY <1>2, CallParts
<1>5. TcpRequest(Pending, call.to, call.c.fc, tid) BY <1>2, <1>3, <1>4, RequestMessageIs DEF Pending
<1>6. Message(Pending) /\ Pending.fc = call.c.fc BY ONLY <1>5 DEF TcpRequest
<1> QED BY <1>2, <1>3, <1>4, <1>6

LEMMA QuestionParts ==
  ASSUME Types, Awaited
  PROVE  LET h == Header(Tcp, Pending, call.c.len)
         IN /\ h \in Seq(Bytes) /\ Len(h) = 8 /\ h[8] = call.c.fc
            /\ Question = h \o call.c.data /\ Question \in Seq(Bytes) /\ Question # <<>>
<1> DEFINE m == Pending
           n == call.c.len
           d == call.c.data
           h == Header(Tcp, m, n)
           q == h \o d
<1>1. Message(m) /\ n \in 0..253 /\ d \in Seq(Bytes) /\ m.fc = call.c.fc BY AwaitedParts
<1>2. Question = Frame(Tcp, m, n, d) BY DEF Question
<1> HIDE DEF m, n, d
<1>3. h \in Seq(Bytes) /\ Len(h) = 8 /\ h[8] = m.fc BY <1>1, TcpHeader
<1>4. Question = q BY <1>2, TcpFrame
<1> HIDE DEF h
<1>5. q \in Seq(Bytes) /\ Len(q) = 8 + Len(d)
  <2>1. h \o d \in Seq(Bytes) /\ Len(h \o d) = Len(h) + Len(d) BY ONLY <1>1, <1>3, JoinType
  <2> QED BY <1>3, <2>1
<1> HIDE DEF q
<1>6. Len(d) \in Nat BY <1>1, LenProperties
<1>7. q # <<>> BY <1>5, <1>6
<1> QED BY <1>1, <1>3, <1>4, <1>5, <1>7 DEF m, n, d, h, q

LEMMA SomeFrame ==
  ASSUME NEW m, Message(m), NEW n \in 0..253, NEW data \in Seq(Bytes)
  PROVE  Frame(Tcp, m, n, data) # <<>> /\ Frame(Tcp, m, n, data) \in Seq(Bytes)
<1> DEFINE h == Header(Tcp, m, n)
           b == h \o data
<1>1. h \in Seq(Bytes) /\ Len(h) = 8 BY TcpHeader
<1>2. Frame(Tcp, m, n, data) = b BY TcpFrame
<1> HIDE DEF h
<1>3. b \in Seq(Bytes) /\ Len(b) = 8 + Len(data)
  <2>1. h \o data \in Seq(Bytes) /\ Len(h \o data) = Len(h) + Len(data)
    BY ONLY <1>1, data \in Seq(Bytes), JoinType
  <2> QED BY <1>1, <2>1
<1> HIDE DEF b
<1>4. Len(data) \in Nat BY LenProperties
<1>5. b # <<>> BY <1>3, <1>4
<1> QED BY <1>2, <1>3, <1>5

\* The answer a server gives, its frame and what is kept of it.
LEMMA AnswerMade ==
  ASSUME NEW unit, NEW fc, NEW number, NEW m, TcpRequest(m, unit, fc, number),
         NEW d, NEW rest, NEW o, Answers(m, d, rest, o), NEW e, e.fc = m.fc, e.data = d, e.answer = o.answer
  PROVE  o.answer # NoAnswer /\ o.out # <<>> /\ AnswerIs(m, d, e, o.out)
<1>0. Message(m) /\ m.broadcast = FALSE BY DEF TcpRequest
<1>1. ASSUME NEW x \in ExceptionNames, Refuses(Tcp, m, o, x)
      PROVE  o.answer # NoAnswer /\ o.out # <<>> /\ AnswerIs(m, d, e, o.out)
  <2> DEFINE k == ExceptionCode(x)
             one == <<k>>
             y == [m EXCEPT !.fc = (@ + 128) % 256]
             n == 1
  <2>1. o.answer = Answer(x, <<>>) /\ o.out = Frame(Tcp, y, n, one) BY <1>1 DEF Refuses
  <2>2. o.answer # NoAnswer
    <3>1. x # "none" BY ExceptionKinds
    <3> QED BY <2>1, <3>1 DEF NoAnswer, Answer
  <2>3. o.out # <<>>
    <3>1. k \in 1..4 BY ExceptionKinds
    <3> HIDE DEF k
    <3>2. one \in Seq(Bytes)
      <4>1. k \in Bytes BY <3>1, InBytes
      <4> QED BY <4>1
    <3>3. Message(y)
      <4> DEFINE v == (m.fc + 128) % 256
      <4>1. m.fc \in Nat BY <1>0, InBytes DEF Message
      <4>2. v \in Nat /\ v <= 255 BY <4>1, SMT
      <4>3. y = [m EXCEPT !.fc = v] OBVIOUS
      <4> HIDE DEF v, y
      <4>4. v \in Bytes BY <4>2, InBytes
      <4>5. m = [unit |-> unit, fc |-> fc, tid |-> number, broadcast |-> FALSE, ignored |-> FALSE]
        BY DEF TcpRequest
      <4>6. m.unit = unit /\ m.tid = number /\ unit \in Bytes /\ number \in Words16
        BY <1>0 DEF TcpRequest, Message
      <4>7. y = [unit |-> unit, fc |-> v, tid |-> number, broadcast |-> FALSE, ignored |-> FALSE]
        BY <4>3, <4>5
      <4>8. y.unit = unit /\ y.tid = number /\ y.fc = v BY ONLY <4>7
      <4> QED BY <4>4, <4>6, <4>8 DEF Message
    <3>4. n \in 0..253 OBVIOUS
    <3> HIDE DEF y, one, n
    <3>5. Frame(Tcp, y, n, one) # <<>> BY <3>2, <3>3, <3>4, SomeFrame
    <3> QED BY <2>1, <3>5
  <2>4. AnswerIs(m, d, e, o.out)
    <3>1. e.answer = Answer(x, <<>>) /\ o.out = Refusal(m, x) BY <2>1 DEF Refusal
    <3> QED BY ONLY <3>1, x \in ExceptionNames, e.fc = m.fc, e.data = d, Zenon DEF AnswerIs
  <2> QED BY <2>2, <2>3, <2>4
<1>2. ASSUME NEW n \in 0..253, NEW data, Obeys(Tcp, m, d, o, n, data)
      PROVE  o.answer # NoAnswer /\ o.out # <<>> /\ AnswerIs(m, d, e, o.out)
  <2>1. AnswerData(m.fc, d, data) /\ o.answer = Answer("NONE", data) /\ o.out = Frame(Tcp, m, n, data)
    BY <1>0, <1>2 DEF Obeys
  <2>2. o.answer # NoAnswer BY <2>1 DEF NoAnswer, Answer
  <2>3. data \in Seq(Bytes) BY <2>1 DEF AnswerData
  <2>4. o.out # <<>> BY <1>0, <2>1, <2>3, SomeFrame
  <2>5. AnswerIs(m, d, e, o.out) BY <2>1 DEF AnswerIs
  <2> QED BY <2>2, <2>4, <2>5
<1> QED BY <1>1, <1>2 DEF Answers

\* The poll of the server a request has come to.
LEMMA QuestionPolled ==
  ASSUME Supported \cap FileCodes = {}, Types, transport = Tcp, Awaited, AskedOf,
         NEW s \in Servers, NEW f, Poll(s, Polled(s, f))
  PROVE  Answering'
<1> DEFINE m == Pending
           d == call.c.data
           h == Header(Tcp, m, call.c.len)
           none == <<>>
           o == Polled(s, f)
           fc == rx[s][HeaderLen(transport)]
           e == [server |-> s, fc |-> fc, data |-> Asked(s, o), answer |-> o.answer]
<1>1. s = TheServer BY TheServerIs DEF AskedOf, OnlyAt, Poll, Stations
<1>2. rx[s] = Question /\ air = <<>> BY <1>1 DEF AskedOf
<1>3. /\ IsCall(call.c) /\ call.c.ok /\ ~call.c.raw /\ call.to \in Bytes /\ tid \in Words16
      /\ d \in Seq(Bytes) /\ Message(m) /\ m.fc = call.c.fc
  BY AwaitedParts
<1>4. /\ h \in Seq(Bytes) /\ Len(h) = 8 /\ h[8] = call.c.fc /\ Question = h \o d
  BY QuestionParts
<1>5. none \in Seq(Bytes) OBVIOUS
<1> HIDE DEF none
<1>6. Question \o none = Question
  <2>1. h \o d \in Seq(Bytes) BY ONLY <1>3, <1>4, JoinType
  <2> DEFINE q == Question
  <2>2. q \in Seq(Bytes) BY <1>4, <2>1
  <2> HIDE DEF q
  <2>3. q \o none = q BY <2>2, ConcatEmptySeq DEF none
  <2> QED BY <2>3 DEF q
<1>7. Answers(m, d, none, o)
  <2>1. mem[s] \in Memory BY DEF Types, LineTypes
  <2>2. LET k == RequestState(Tcp, tid, call.to, call.c.fc)
        IN Answers(k, call.c.data, none,
                   nmbs_server_poll(Tcp, s, Frame(Tcp, k, call.c.len, call.c.data) \o none, mem[s], f))
    BY ONLY <1>3, <1>5, <2>1, s \in Servers, Supported \cap FileCodes = {}, PollAnswers
  <2>3. o = nmbs_server_poll(Tcp, s, Question \o none, mem[s], f) BY <1>2, <1>6 DEF Polled
  <2> QED BY <2>2, <2>3 DEF Question, Pending
<1>8. TcpRequest(m, call.to, call.c.fc, tid)
  <2>1. call.c.fc \in Bytes BY AwaitedParts
  <2> QED BY <1>3, <2>1, RequestMessageIs DEF Pending
<1> HIDE DEF m, d, h, o
<1>9. o.in = none BY <1>7 DEF Answers
<1>10. Asked(s, o) = d /\ fc = h[8]
  <2>1. rx[s] = (h \o d) \o none BY <1>2, <1>4, <1>6
  <2> QED BY ONLY <1>3, <1>4, <1>5, <1>9, <2>1, transport = Tcp, AskedIs
<1>11. e.fc = m.fc /\ e.data = d /\ e.answer = o.answer BY <1>3, <1>4, <1>10
<1>12. Poll(s, o) BY DEF o
<1> HIDE DEF e, fc
<1>13. o.answer # NoAnswer /\ o.out # <<>> /\ AnswerIs(m, d, e, o.out)
  BY ONLY <1>7, <1>8, <1>11, AnswerMade
<1>14. PICK a, b : a = e /\ b = o.out OBVIOUS
<1>15. rx' = [rx EXCEPT ![s] = none] /\ air' = Transmit(s, b) /\ carried' = carried \cup {a}
  BY <1>9, <1>12, <1>13, <1>14 DEF Poll, e, fc
<1>16. NothingRead'
  <2>1. rx' = [rx EXCEPT ![s] = <<>>] BY <1>15 DEF none
  <2>2. \A x \in Stations : x # s => rx[x] = <<>> BY <1>1 DEF AskedOf, OnlyAt
  <2>3. DOMAIN rx = Stations BY DEF Types, LineTypes
  <2> QED BY <2>1, <2>2, <2>3 DEF NothingRead
<1>17. air' = <<[to |-> {Client}, bytes |-> b]>>
  <2>1. s # Client /\ transport # "RTU" BY StationTypes, TcpIs
  <2>2. Hearers(s) = {Client} BY <2>1 DEF Hearers
  <2>3. air' = Append(air, [to |-> {Client}, bytes |-> b]) BY <1>13, <1>14, <1>15, <2>2 DEF Transmit
  <2>4. \A r : Append(<<>>, r) = <<r>> OBVIOUS
  <2> QED BY ONLY <1>2, <2>3, <2>4
<1>18. CarriedOut(a)'
  <2>1. ASSUME a.answer.err = "NONE", a.fc \in WriteCodes
        PROVE  \E w \in written' : w[2] = a.fc /\ w[3] = a.data
    <3>1. a.fc = fc /\ a.data = Asked(s, o) /\ a.answer = o.answer BY <1>14 DEF e
    <3>2. written' = written \cup {<<s, fc, Asked(s, o)>>}
      BY <1>12, <1>13, <2>1, <3>1 DEF Poll, fc
    <3> DEFINE w == <<s, fc, Asked(s, o)>>
    <3>3. w \in written' /\ w[2] = a.fc /\ w[3] = a.data BY <3>1, <3>2
    <3> QED BY <3>3
  <2> QED BY <2>1 DEF CarriedOut
<1>19. UNCHANGED <<tid, call>> BY <1>12 DEF Poll
<1>20. Pending' = Pending BY <1>19 DEF Pending
<1>21. Answered(a, b)'
  <2>1. AnswerIs(Pending', call'.c.data, a, b) BY <1>13, <1>14, <1>19, <1>20 DEF m, d
  <2>2. a \in carried' BY <1>15
  <2> QED BY <1>18, <2>1, <2>2 DEF Answered
<1> QED BY <1>16, <1>17, <1>21 DEF Answering

\* Nothing is left of earlier calls when no server waits and nothing is under way.
LEMMA SilentNothing ==
  ASSUME Supported \cap FileCodes = {}, Types, transport = Tcp, Silent
  PROVE  air = <<>> /\ \A s \in Servers : rx[s] = <<>>
<1>1. air = <<>> BY DEF Silent
<1>2. ASSUME NEW s \in Servers, rx[s] # <<>> PROVE FALSE
  <2>1. AwaitsOther(s) BY <1>2 DEF Silent
  <2>2. rx[s] \in Seq(Bytes) /\ mem[s] \in Memory BY StationTypes DEF Types, LineTypes
  <2>3. nmbs_server_poll(Tcp, s, rx[s], mem[s], NoFault).waits = FALSE BY <1>2, <2>2, PollNeverWaits
  <2>4. AwaitsOther(s) = nmbs_server_poll(Tcp, s, rx[s], mem[s], NoFault).waits
    BY DEF AwaitsOther, Polled
  <2> QED BY <2>1, <2>3, <2>4
<1> QED BY <1>1, <1>2

LEMMA SendAsks ==
  ASSUME Supported \cap FileCodes = {}, Types, transport = Tcp, NEW r \in menu, Send(r)
  PROVE  /\ call' = [to |-> r.to, c |-> r.c, clean |-> Silent /\ rx[Client] = <<>>]
         /\ call = NoCall /\ call' # NoCall /\ call'.c = r.c /\ call'.to = r.to
         /\ call'.clean = (Silent /\ rx[Client] = <<>>)
         /\ UNCHANGED <<last, written, faults, rx>> /\ sent' = SentBy(r)
         /\ (call'.clean /\ ~call'.c.raw) => Asking'
<1> DEFINE number == NextTid(tid)
           m == Request(r, transport, number)
           pending == [to |-> r.to, c |-> r.c, clean |-> Silent /\ rx[Client] = <<>>]
           n == r.c.len
           d == r.c.data
           frame == Frame(Tcp, m, n, d)
<1>1. r.to \in Bytes /\ IsCall(r.c) /\ r.c.ok BY MenuType DEF Types, Send
<1>2. number \in Words16 BY NextTidType DEF Types, ClientTypes
<1>3. r.c.fc \in Bytes BY <1>1 DEF IsCall
<1>4. m = RequestState(Tcp, number, r.to, r.c.fc) BY DEF Request
<1>5. TcpRequest(m, r.to, r.c.fc, number) BY <1>1, <1>2, <1>3, <1>4, RequestMessageIs
<1>6. Message(m) /\ m.broadcast = FALSE BY <1>5 DEF TcpRequest
<1>7. Waits(m, r.c) BY <1>6 DEF Waits
<1>8. /\ call = NoCall /\ call' = pending /\ UNCHANGED <<last, rx, written, faults>> /\ tid' = number
      /\ air' = Transmit(Client, RequestFrame(r, number)) /\ sent' = SentBy(r)
  BY <1>7 DEF Send, Start
<1>9. call'.c = r.c /\ call'.to = r.to /\ call'.clean = (Silent /\ rx[Client] = <<>>) BY <1>8
<1>10. call' # NoCall
  <2>1. "ok" \in DOMAIN r.c BY <1>1 DEF IsCall
  <2>2. "ok" \notin DOMAIN NoCall.c BY DEF NoCall
  <2> QED BY <1>9, <2>1, <2>2
<1>11. ASSUME call'.clean, ~call'.c.raw PROVE Asking'
  <2>1. Silent /\ rx[Client] = <<>> BY <1>9, <1>11
  <2>2. air = <<>> /\ \A s \in Servers : rx[s] = <<>> BY <2>1, SilentNothing
  <2>3. NothingRead' BY <1>8, <2>1, <2>2 DEF NothingRead, Stations
  <2>4. n \in 0..253 /\ d \in Seq(Bytes)
    <3>1. ~r.c.raw BY <1>9, <1>11
    <3> QED BY <1>1, <3>1, CallParts
  <2>5. frame # <<>>
    <3> HIDE DEF m, n, d
    <3> QED BY <1>6, <2>4, SomeFrame
  <2>6. RequestFrame(r, number) = frame BY DEF RequestFrame
  <2>7. Question' = frame
    <3>1. Question' = Frame(Tcp, RequestState(Tcp, tid', call'.to, call'.c.fc), call'.c.len, call'.c.data)
      BY DEF Question, Pending
    <3> QED BY <1>4, <1>8, <1>9, <3>1
  <2> HIDE DEF frame, number
  <2>8. air' = <<[to |-> {TheServer}, bytes |-> frame]>>
    <3>1. Hearers(Client) = {TheServer} BY TcpIs DEF Hearers, TheServer
    <3>2. air' = Append(air, [to |-> {TheServer}, bytes |-> frame])
      BY <1>8, <2>5, <2>6, <3>1 DEF Transmit
    <3>3. \A x : Append(<<>>, x) = <<x>> OBVIOUS
    <3> QED BY ONLY <2>2, <3>2, <3>3
  <2> QED BY <2>3, <2>7, <2>8 DEF Asking
<1> QED BY <1>8, <1>9, <1>10, <1>11

\* What was under way to one station has come, and is all that is there.
LEMMA Delivered ==
  ASSUME Types, NEW x \in Stations, NEW b, air = <<[to |-> {x}, bytes |-> b]>>, NothingRead, Deliver
  PROVE  /\ air' = <<>> /\ rx'[x] = b /\ OnlyAt(x)'
         /\ UNCHANGED <<tid, call, last, carried, written, sent, faults, calls>>
<1> DEFINE none == <<>>
           packet == [to |-> {x}, bytes |-> b]
<1>1. air # <<>> /\ Head(air) = packet /\ Tail(air) = <<>> OBVIOUS
<1>2. packet.to = {x} /\ packet.bytes = b OBVIOUS
<1> HIDE DEF packet
<1>3. Head(air).to = {x} /\ Head(air).bytes = b BY <1>1, <1>2
<1>4. b \in Seq(Bytes) BY <1>1, <1>3, AirParts
<1>5. /\ rx' = [s \in Stations |-> IF s \in {x} THEN rx[s] \o b ELSE rx[s]] /\ air' = <<>>
      /\ UNCHANGED <<tid, call, last, carried, written, sent, faults, calls>>
  BY <1>1, <1>3 DEF Deliver, Arrive, history
<1>6. rx[x] = none BY DEF NothingRead
<1>7. \A s \in Stations : s # x => rx'[s] = <<>> BY <1>5 DEF NothingRead
<1>8. rx'[x] = none \o b BY <1>5, <1>6
<1>9. none \o b = b BY <1>4, ConcatEmptySeq
<1> HIDE DEF none
<1>10. OnlyAt(x)' BY <1>7 DEF OnlyAt
<1> QED BY <1>5, <1>8, <1>9, <1>10

LEMMA DeliverMoves ==
  ASSUME Types, Exchange, Deliver PROVE Exchange'
<1>1. air # <<>> BY DEF Deliver
<1>2. CASE Asking
  <2> DEFINE q == Question
  <2>1. air = <<[to |-> {TheServer}, bytes |-> q]>> /\ NothingRead BY <1>2 DEF Asking
  <2>2. PICK b : b = q OBVIOUS
  <2>3. /\ air' = <<>> /\ rx'[TheServer] = b /\ OnlyAt(TheServer)' /\ UNCHANGED <<tid, call>>
    BY <2>1, <2>2, TheServerIs, Delivered
  <2>4. Question' = b BY <2>2, <2>3 DEF Question, Pending
  <2>5. AskedOf' BY <2>3, <2>4 DEF AskedOf
  <2> QED BY <2>5 DEF Exchange
<1>3. CASE Answering
  <2>1. PICK e, b : Answered(e, b) /\ air = <<[to |-> {Client}, bytes |-> b]>> /\ NothingRead
    BY <1>3 DEF Answering
  <2>2. /\ air' = <<>> /\ rx'[Client] = b /\ OnlyAt(Client)' /\ UNCHANGED <<tid, call, carried, written>>
    BY <2>1, StationTypes, Delivered
  <2>3. Pending' = Pending BY <2>2 DEF Pending
  <2>4. Answered(e, b)' BY <2>1, <2>2, <2>3 DEF Answered, CarriedOut
  <2>5. ToRead' BY <2>2, <2>4 DEF ToRead
  <2> QED BY <2>5 DEF Exchange
<1> QED BY <1>1, <1>2, <1>3 DEF Exchange, AskedOf, ToRead

LEMMA PollMoves ==
  ASSUME Supported \cap FileCodes = {}, Types, transport = Tcp, Awaited, Exchange,
         NEW s \in Servers, NEW f, Poll(s, Polled(s, f))
  PROVE  Exchange'
<1>1. s \in Stations /\ s # Client /\ rx[s] # <<>> BY StationTypes DEF Poll
<1>2. AskedOf BY <1>1 DEF Exchange, Asking, Answering, ToRead, NothingRead, OnlyAt
<1> QED BY <1>2, QuestionPolled DEF Exchange

\* What a call makes of what has come, before its answer has and after.
LEMMA ReceivedIs ==
  ASSUME transport = Tcp
  PROVE  Received = Response(Tcp, Reader(rx[Client]), Pending, call.c)
BY DEF Received, Request, Pending

LEMMA TooEarly ==
  ASSUME Types, transport = Tcp, Awaited, Asking \/ AskedOf \/ Answering
  PROVE  Received = Parts("TIMEOUT", <<>>, <<>>, TRUE)
<1> DEFINE c == call.c
           m == Pending
<1>1. rx[Client] = <<>>
  BY StationTypes, TheServerIs DEF Asking, AskedOf, Answering, NothingRead, OnlyAt
<1>2. Received = Response(Tcp, Reader(<<>>), m, c) BY <1>1, ReceivedIs
<1>3. IsCall(c) /\ c.ok /\ ~c.raw BY AwaitedParts
<1> HIDE DEF c, m
<1>4. TakesNothing(m, c) BY ONLY <1>3, ResponseNothing
<1> QED BY <1>2, <1>4 DEF TakesNothing

Refused(e, x) ==
  /\ e.answer = Answer(x, <<>>)
  /\ \E b : b[8] # call.c.fc /\ Received = Parts(x, b, <<>>, FALSE)
Obeyed(e, data) ==
  /\ data \in Seq(Bytes) /\ e.answer = Answer("NONE", data)
  /\ \E h \in Seq(Bytes) : Len(h) = 8 /\ Received = Parts("NONE", h \o data, <<>>, FALSE)

LEMMA AnswerDue ==
  ASSUME Types, transport = Tcp, Awaited, NEW e, NEW b, Answered(e, b), rx[Client] = b
  PROVE  (\E x \in ExceptionNames : Refused(e, x)) \/ (\E data : Obeyed(e, data))
<1> DEFINE m == Pending
           c == call.c
           none == <<>>
<1>1. IsCall(c) /\ c.ok /\ ~c.raw /\ Message(m) /\ m.fc = c.fc BY AwaitedParts
<1>2. Received = Response(Tcp, Reader(b), m, c) BY ReceivedIs
<1>3. AnswerIs(m, c.data, e, b) BY DEF Answered
<1>4. none \in Seq(Bytes) OBVIOUS
<1>5. b \in Seq(Bytes) BY StationTypes DEF Types, LineTypes
<1>6. b \o none = b BY <1>5, ConcatEmptySeq
<1>7. c.fc = call.c.fc OBVIOUS
<1> HIDE DEF m, c, none
<1>8. ASSUME NEW x \in ExceptionNames, e.answer = Answer(x, <<>>), b = Refusal(m, x)
      PROVE  Refused(e, x)
  <2>1. TakesRefusal(m, c, x, Refusal(m, x) \o none, none)
    BY ONLY <1>1, <1>4, x \in ExceptionNames, ResponseRefused
  <2>2. TakesRefusal(m, c, x, b, none) BY <1>6, <1>8, <2>1
  <2> QED BY <1>2, <1>7, <1>8, <2>2 DEF TakesRefusal, Refused, none
<1>9. ASSUME NEW n \in 0..253, NEW data, AnswerData(m.fc, c.data, data),
             e.answer = Answer("NONE", data), b = Frame(Tcp, m, n, data)
      PROVE  Obeyed(e, data)
  <2>1. data \in Seq(Bytes) BY <1>9 DEF AnswerData
  <2>2. AnswerData(c.fc, c.data, data) BY <1>1, <1>9
  <2>3. TakesAnswer(m, c, data, Frame(Tcp, m, n, data) \o none, none)
    BY ONLY <1>1, <1>4, <2>2, n \in 0..253, ResponseObeyed
  <2>4. TakesAnswer(m, c, data, b, none) BY <1>6, <1>9, <2>3
  <2> QED BY <1>2, <1>9, <2>1, <2>4 DEF TakesAnswer, Obeyed, none
<1>10. \/ \E x \in ExceptionNames : e.answer = Answer(x, <<>>) /\ b = Refusal(m, x)
       \/ \E n \in 0..253 : \E data :
            AnswerData(m.fc, c.data, data) /\ e.answer = Answer("NONE", data) /\ b = Frame(Tcp, m, n, data)
  BY ONLY <1>3, Zenon DEF AnswerIs
<1> QED BY ONLY <1>8, <1>9, <1>10, Zenon

(***************************************************************************)
(* The result of a call.                                                   *)
(***************************************************************************)
Right == AnswersItsRequest /\ AcknowledgedIsWritten /\ RegisterReadsHeld

LEMMA ReturnParts ==
  ASSUME NEW p, Return(p)
  PROVE  /\ last'.to = call.to /\ last'.c = call.c /\ last'.clean = call.clean
         /\ last'.err = p.err /\ last'.value = RegisterValue(p)
         /\ p.err = "NONE" => last'.data = Payload(p.buf)
         /\ call' = NoCall /\ rx' = [rx EXCEPT ![Client] = p.in]
         /\ UNCHANGED <<transport, menu, tid, air, mem, calls, carried, written, sent>>
BY DEF Return, Result, fixed, history

LEMMA TimeoutRight ==
  ASSUME transport = Tcp, Received = Parts("TIMEOUT", <<>>, <<>>, TRUE), Return(Received)
  PROVE  Right' /\ last'.err = "TIMEOUT"
<1>1. Received.err = "TIMEOUT" /\ Len(Received.buf) = 0 BY DEF Parts
<1>2. last'.err = "TIMEOUT" /\ last'.value = RegisterValue(Received) BY <1>1, ReturnParts
<1>3. RegisterValue(Received) = 0
  <2>1. HeaderLen(transport) = 8 BY TcpIs
  <2>2. (Len(Received.buf) > HeaderLen(transport)) = FALSE BY ONLY <1>1, <2>1
  <2> QED BY ONLY <2>2, Zenon DEF RegisterValue
<1>4. ~IsException("TIMEOUT") BY DEF IsException, Exceptions
<1>5. AnswersItsRequest' BY <1>2, <1>4 DEF AnswersItsRequest
<1>6. AcknowledgedIsWritten' BY <1>2 DEF AcknowledgedIsWritten
<1>7. RegisterReadsHeld' BY <1>2, <1>3 DEF RegisterReadsHeld
<1> QED BY <1>2, <1>5, <1>6, <1>7 DEF Right

LEMMA RefusalRight ==
  ASSUME transport = Tcp, NEW e \in carried, e.fc = call.c.fc, e.data = call.c.data,
         NEW x \in ExceptionNames, Refused(e, x), Return(Received)
  PROVE  Right' /\ last'.err = x /\ rx' = [rx EXCEPT ![Client] = <<>>]
<1>1. PICK b : b[8] # call.c.fc /\ Received = Parts(x, b, <<>>, FALSE) BY DEF Refused
<1>2. Received.err = x /\ Received.buf = b /\ Received.in = <<>> BY <1>1 DEF Parts
<1>3. /\ last'.c = call.c /\ last'.err = x /\ last'.value = RegisterValue(Received)
      /\ rx' = [rx EXCEPT ![Client] = <<>>] /\ UNCHANGED <<transport, carried>>
  BY <1>2, ReturnParts
<1>4. x # "NONE" BY ExceptionKinds
<1>5. RegisterValue(Received) = 0
  <2>1. FcOf(transport, Received) # call.c.fc BY <1>1, <1>2, TcpIs DEF FcOf
  <2>2. ~Good(Received) BY <1>2, <1>4 DEF Good
  <2> QED BY <2>1 DEF RegisterValue
<1>6. AnswersItsRequest'
  <2>1. e \in carried' /\ e.fc = last'.c.fc /\ e.data = last'.c.data BY <1>3
  <2>2. e.answer.err = x BY DEF Refused, Answer
  <2>3. Addressed(e, last.to)' BY <1>3, TcpIs DEF Addressed
  <2> QED BY <1>3, <1>4, <2>1, <2>2, <2>3 DEF AnswersItsRequest
<1>7. AcknowledgedIsWritten' BY <1>3, <1>4 DEF AcknowledgedIsWritten
<1>8. RegisterReadsHeld' BY <1>3, <1>5 DEF RegisterReadsHeld
<1> QED BY <1>3, <1>6, <1>7, <1>8 DEF Right

LEMMA AnswerRight ==
  ASSUME transport = Tcp, NEW e \in carried, e.fc = call.c.fc, e.data = call.c.data, CarriedOut(e),
         NEW data, Obeyed(e, data), Return(Received)
  PROVE  Right' /\ last'.err = "NONE" /\ rx' = [rx EXCEPT ![Client] = <<>>]
<1>1. PICK h \in Seq(Bytes) : Len(h) = 8 /\ Received = Parts("NONE", h \o data, <<>>, FALSE)
  BY DEF Obeyed
<1> DEFINE b == h \o data
<1>2. data \in Seq(Bytes) /\ e.answer = Answer("NONE", data) BY DEF Obeyed
<1>3. Payload(b) = data /\ SubSeq(b, Len(h) + 1, Len(b)) = data
  <2>1. Payload(h \o data) = data BY ONLY <1>1, <1>2, transport = Tcp, PayloadIs
  <2>2. SubSeq(h \o data, Len(h) + 1, Len(h \o data)) = data BY ONLY <1>2, h \in Seq(Bytes), JoinParts
  <2> QED BY <2>1, <2>2
<1>4. Received = Parts("NONE", b, <<>>, FALSE) BY <1>1
<1> HIDE DEF b
<1>5. Received.err = "NONE" /\ Received.buf = b /\ Received.in = <<>> BY <1>4 DEF Parts
<1>6. /\ last'.c = call.c /\ last'.err = "NONE" /\ last'.data = data
      /\ last'.value = RegisterValue(Received)
      /\ rx' = [rx EXCEPT ![Client] = <<>>] /\ UNCHANGED <<transport, carried, written>>
  BY <1>3, <1>5, ReturnParts
<1>7. Data(transport, Received) = data BY <1>1, <1>3, <1>5, TcpIs DEF Data
<1>8. e.answer.err = "NONE" /\ e.answer.data = data BY <1>2 DEF Answer
<1>9. e \in carried' /\ e.fc = last'.c.fc /\ e.data = last'.c.data /\ Addressed(e, last.to)'
  BY <1>6, TcpIs DEF Addressed
<1>10. AnswersItsRequest' BY <1>6, <1>8, <1>9 DEF AnswersItsRequest
<1>11. AcknowledgedIsWritten'
  <2>1. SUFFICES ASSUME last'.c.fc \in WriteCodes
        PROVE  \E w \in written' : transport' = "TCP" /\ w[2] = last'.c.fc /\ w[3] = last'.c.data
    BY <1>6, TcpIs DEF AcknowledgedIsWritten
  <2>2. PICK w \in written : w[2] = e.fc /\ w[3] = e.data BY <1>8, <1>9, <2>1 DEF CarriedOut
  <2> QED BY <1>6, <1>9, <2>2, TcpIs
<1>12. RegisterReadsHeld'
  <2>1. RegisterValue(Received) \in {0, WordAt(data, 2)} BY <1>7 DEF RegisterValue
  <2> QED BY <1>6, <1>8, <1>9, <2>1 DEF RegisterReadsHeld
<1> QED BY <1>6, <1>10, <1>11, <1>12 DEF Right

LEMMA AnswerRead ==
  ASSUME Types, transport = Tcp, Awaited, ToRead, Return(Received)
  PROVE  /\ Right' /\ last'.err \in {"NONE"} \cup ExceptionNames
         /\ NothingRead' /\ UNCHANGED air /\ air = <<>>
<1>1. PICK e, b : Answered(e, b) /\ air = <<>> /\ rx[Client] = b /\ OnlyAt(Client) BY DEF ToRead
<1>2. e \in carried /\ e.fc = call.c.fc /\ e.data = call.c.data /\ CarriedOut(e)
  <2>1. Pending.fc = call.c.fc BY AwaitedParts
  <2>2. e \in carried /\ AnswerIs(Pending, call.c.data, e, b) /\ CarriedOut(e) BY <1>1 DEF Answered
  <2>3. e.fc = Pending.fc /\ e.data = call.c.data BY <2>2, Zenon DEF AnswerIs
  <2> QED BY <2>1, <2>2, <2>3
<1>3. Right' /\ last'.err \in {"NONE"} \cup ExceptionNames /\ rx' = [rx EXCEPT ![Client] = <<>>]
  <2>1. ASSUME NEW x \in ExceptionNames, Refused(e, x)
        PROVE  Right' /\ last'.err \in {"NONE"} \cup ExceptionNames /\ rx' = [rx EXCEPT ![Client] = <<>>]
    BY <1>2, <2>1, RefusalRight
  <2>2. ASSUME NEW data, Obeyed(e, data)
        PROVE  Right' /\ last'.err \in {"NONE"} \cup ExceptionNames /\ rx' = [rx EXCEPT ![Client] = <<>>]
    BY <1>2, <2>2, AnswerRight
  <2>3. (\E x \in ExceptionNames : Refused(e, x)) \/ (\E data : Obeyed(e, data)) BY <1>1, AnswerDue
  <2> QED BY <2>1, <2>2, <2>3
<1>4. NothingRead'
  <2>1. DOMAIN rx = Stations BY DEF Types, LineTypes
  <2> QED BY <1>1, <1>3, <2>1 DEF NothingRead, OnlyAt
<1>5. UNCHANGED air BY DEF Return
<1> QED BY <1>1, <1>3, <1>4, <1>5

LEMMA ReceiveRight ==
  ASSUME Types, transport = Tcp, Awaited, Exchange, Return(Received) PROVE Right'
<1>1. CASE ToRead BY <1>1, AnswerRead
<1>2. CASE Asking \/ AskedOf \/ Answering BY <1>2, TooEarly, TimeoutRight
<1> QED BY <1>1, <1>2 DEF Exchange

\* A call that has not been answered is not given up while nothing is too late.
LEMMA ReceiveInTime ==
  ASSUME Supported \cap FileCodes = {}, Types, transport = Tcp, Awaited, Exchange, Receive PROVE ToRead
<1>1. SUFFICES ASSUME Asking \/ AskedOf \/ Answering PROVE FALSE BY DEF Exchange
<1>2. Received.waits = TRUE
  <2>1. Received = Parts("TIMEOUT", <<>>, <<>>, TRUE) BY <1>1, TooEarly
  <2> QED BY <2>1 DEF Parts
<1>3. Silent BY <1>2 DEF Receive
<1>4. air = <<>> /\ \A s \in Servers : rx[s] = <<>> BY <1>3, SilentNothing
<1>5. AskedOf BY <1>1, <1>4 DEF Asking, Answering
<1>6. rx[TheServer] = Question BY <1>5 DEF AskedOf
<1>7. Question # <<>> BY QuestionParts
<1> QED BY <1>4, <1>6, <1>7, TheServerIs

\* The line only takes bytes along, but for the faults.
LEMMA FaultsGrow ==
  ASSUME Types, [Next]_vars, NEW f, Happened(f) PROVE Happened(f)'
<1>1. faults' = faults \/ \E k : faults' = Append(faults, k)
  BY DEF Next, vars, Refuse, Send, SendShort, Receive, ReceiveTooLate, PollServer, PollTooLate, PollFailing,
         Line, Deliver, Lose, Corrupt, Cut, Finished, Faulty
<1>2. faults \in Seq(Kinds) BY DEF Types, CountTypes
<1>3. PICK i \in DOMAIN faults : faults[i] = f BY DEF Happened
<1>4. CASE faults' = faults BY <1>3, <1>4 DEF Happened
<1>5. ASSUME NEW k, faults' = Append(faults, k) PROVE Happened(f)'
  <2>1. i \in 1..Len(faults) /\ Len(faults) \in Nat BY <1>2, <1>3, LenProperties
  <2>2. i \in DOMAIN faults' /\ faults'[i] = faults[i] BY <1>2, <1>5, <2>1
  <2> QED BY <1>3, <2>2 DEF Happened
<1> QED BY <1>1, <1>4, <1>5

LEMMA FaultAdded ==
  ASSUME Types, NEW f, Faulty(f) PROVE Happened(f)'
<1>1. faults \in Seq(Kinds) BY DEF Types, CountTypes
<1>2. faults' = Append(faults, f) BY DEF Faulty
<1> DEFINE i == Len(faults) + 1
<1>3. Len(faults) \in Nat BY <1>1, LenProperties
<1>4. i \in DOMAIN faults' /\ faults'[i] = f BY <1>1, <1>2, <1>3
<1> QED BY <1>4 DEF Happened

\* The result of the last call stays right until the next one.
LEMMA RightStays ==
  ASSUME Right, UNCHANGED <<transport, last>>, written \subseteq written',
         call' # NoCall \/ (call = NoCall /\ carried \subseteq carried'),
         Happened("corrupt") => Happened("corrupt")'
  PROVE  Right'
<1>1. AnswersItsRequest'
  <2>1. CASE call' # NoCall BY <2>1 DEF AnswersItsRequest
  <2>2. CASE call = NoCall /\ carried \subseteq carried'
    BY <2>2 DEF Right, AnswersItsRequest, Addressed
  <2> QED BY <2>1, <2>2
<1>2. AcknowledgedIsWritten' BY DEF Right, AcknowledgedIsWritten
<1>3. RegisterReadsHeld'
  <2>1. CASE call' # NoCall BY <2>1 DEF RegisterReadsHeld
  <2>2. CASE call = NoCall /\ carried \subseteq carried'
    BY <2>2 DEF Right, RegisterReadsHeld, Addressed
  <2> QED BY <2>1, <2>2
<1> QED BY <1>1, <1>2, <1>3 DEF Right

-----------------------------------------------------------------------------
(* A connection on which no frame is cut: a call that found it silent is    *)
(* being answered, and the one before was answered rightly.                 *)

InOrder ==
  /\ call.clean /\ ~call.c.raw => Exchange
  /\ last.clean /\ ~last.c.raw => Right
Orderly == transport = Tcp /\ ~Happened("cut") => InOrder

LEMMA NoCallParts == NoCall.c.raw = TRUE /\ NoCall.clean = TRUE
BY DEF NoCall

LEMMA InitOrderly == Init => Orderly
BY NoCallParts DEF Init, Orderly, InOrder

LEMMA RefuseOrderly == ASSUME InOrder, NEW r, Refuse(r) PROVE InOrder' /\ last'.err = "INVALID_ARGUMENT"
<1>1. /\ call = NoCall /\ UNCHANGED call /\ last' = Result(r, "INVALID_ARGUMENT", <<>>, 0, TRUE)
  BY DEF Refuse, Start
<1>2. last'.err = "INVALID_ARGUMENT" /\ last'.value = 0 BY <1>1 DEF Result
<1>3. ~IsException("INVALID_ARGUMENT") BY DEF IsException, Exceptions
<1>4. Right' BY <1>2, <1>3 DEF Right, AnswersItsRequest, AcknowledgedIsWritten, RegisterReadsHeld
<1> QED BY <1>1, <1>2, <1>4, NoCallParts DEF InOrder

LEMMA SendOrderly ==
  ASSUME Supported \cap FileCodes = {}, Types, transport = Tcp, InOrder, NEW r \in menu, Send(r)
  PROVE  InOrder'
<1>1. /\ call' # NoCall /\ UNCHANGED <<last, written, faults>>
      /\ (call'.clean /\ ~call'.c.raw) => Asking'
  BY SendAsks
<1>2. UNCHANGED transport BY DEF Send, fixed
<1>3. Happened("corrupt") => Happened("corrupt")' BY <1>1 DEF Happened
<1>4. Right => Right' BY <1>1, <1>2, <1>3, RightStays
<1>5. Asking' => Exchange' BY DEF Exchange
<1> QED BY <1>1, <1>4, <1>5 DEF InOrder

LEMMA SendShortOrderly ==
  ASSUME Types, InOrder, NEW r, NEW n, SendShort(r, n) PROVE InOrder' /\ Happened("short")'
<1>1. call = NoCall /\ UNCHANGED call /\ last' = Result(r, "TIMEOUT", <<>>, 0, FALSE) /\ Faulty("short")
  BY DEF SendShort, Start
<1>2. last'.clean = FALSE BY <1>1 DEF Result
<1> QED BY <1>1, <1>2, NoCallParts, FaultAdded DEF InOrder

LEMMA ReceiveOrderly ==
  ASSUME Types, transport = Tcp, InOrder, Receive \/ ReceiveTooLate PROVE InOrder'
<1>1. call # NoCall /\ Return(Received) BY DEF Receive, ReceiveTooLate
<1>2. call' = NoCall /\ last'.c = call.c /\ last'.clean = call.clean BY <1>1, ReturnParts
<1>3. ASSUME call.clean, ~call.c.raw PROVE Right'
  <2>1. Awaited /\ Exchange BY <1>1, <1>3 DEF Awaited, InOrder
  <2> QED BY <1>1, <2>1, ReceiveRight
<1> QED BY <1>2, <1>3, NoCallParts DEF InOrder

LEMMA PollOrderly ==
  ASSUME Supported \cap FileCodes = {}, Types, transport = Tcp, InOrder,
         NEW s \in Servers, NEW f, Poll(s, Polled(s, f)),
         Happened("corrupt") => Happened("corrupt")'
  PROVE  InOrder'
<1>1. UNCHANGED <<transport, last, call>> /\ carried \subseteq carried' /\ written \subseteq written'
  BY DEF Poll, fixed
<1>2. ASSUME call.clean, ~call.c.raw PROVE Exchange'
  <2>1. Awaited /\ Exchange BY <1>2, NoCallParts DEF Awaited, InOrder
  <2> QED BY <2>1, PollMoves
<1>3. Right => Right' BY <1>1, RightStays
<1> QED BY <1>1, <1>2, <1>3 DEF InOrder

LEMMA DeliverOrderly ==
  ASSUME Types, InOrder, Deliver PROVE InOrder'
<1>1. UNCHANGED <<transport, last, call, carried, written, faults>>
  BY DEF Deliver, Arrive, fixed, history
<1>2. ASSUME call.clean, ~call.c.raw PROVE Exchange'
  BY <1>2, DeliverMoves DEF InOrder
<1>3. Right => Right'
  <2>1. Happened("corrupt") => Happened("corrupt")' BY <1>1 DEF Happened
  <2> QED BY <1>1, <2>1, RightStays
<1> QED BY <1>1, <1>2, <1>3 DEF InOrder

\* Over a connection a step of the line delivers a frame or cuts one.
LEMMA TcpLine ==
  ASSUME Types, transport = Tcp, Line, ~Happened("cut")' PROVE Deliver
<1>1. ASSUME NEW k, Cut(k) PROVE FALSE
  <2>1. Faulty("cut") BY <1>1 DEF Cut
  <2> QED BY <2>1, FaultAdded
<1> QED BY <1>1, TcpIs DEF Line, Lose, Corrupt

LEMMA StillOrderly == ASSUME InOrder, UNCHANGED vars PROVE InOrder'
<1>1. UNCHANGED <<transport, call, last, tid, rx, air, carried, written, faults>> BY DEF vars
<1>2. Right => Right'
  BY <1>1 DEF Right, AnswersItsRequest, AcknowledgedIsWritten, RegisterReadsHeld, Addressed, Happened
<1>3. Pending' = Pending BY <1>1 DEF Pending
<1>4. Question' = Question BY <1>1, <1>3 DEF Question
<1>5. Asking => Asking' BY <1>1, <1>4 DEF Asking, NothingRead
<1>6. AskedOf => AskedOf' BY <1>1, <1>4 DEF AskedOf, OnlyAt
<1>7. \A e, b : Answered(e, b) => Answered(e, b)' BY <1>1, <1>3 DEF Answered, CarriedOut
<1>8. Answering => Answering'
  <2>1. NothingRead => NothingRead' BY <1>1 DEF NothingRead
  <2> QED BY <1>1, <1>7, <2>1 DEF Answering
<1>9. ToRead => ToRead'
  <2>1. OnlyAt(Client) => OnlyAt(Client)' BY <1>1 DEF OnlyAt
  <2> QED BY <1>1, <1>7, <2>1 DEF ToRead
<1>10. Exchange => Exchange' BY <1>5, <1>6, <1>8, <1>9 DEF Exchange
<1> QED BY <1>1, <1>2, <1>10 DEF InOrder

LEMMA SameConnection == [Next]_vars => UNCHANGED <<transport, menu>>
BY DEF Next, vars, Refuse, Send, SendShort, Receive, ReceiveTooLate, Return, PollServer, PollTooLate, PollFailing,
       Poll, Line, Deliver, Lose, Corrupt, Cut, Arrive, Finished, fixed

LEMMA NextOrderly ==
  ASSUME Supported \cap FileCodes = {}, Types, Orderly, [Next]_vars PROVE Orderly'
<1>1. SUFFICES ASSUME transport' = Tcp, ~Happened("cut")' PROVE InOrder' BY DEF Orderly
<1>2. transport = Tcp /\ InOrder BY <1>1, SameConnection, FaultsGrow DEF Orderly
<1>3. Happened("corrupt") => Happened("corrupt")' BY FaultsGrow
<1>4. ASSUME NEW r \in menu, Refuse(r) \/ Send(r) \/ \E n \in 1..MaxByte : SendShort(r, n) PROVE InOrder'
  BY <1>2, <1>4, RefuseOrderly, SendOrderly, SendShortOrderly
<1>5. CASE Receive \/ ReceiveTooLate BY <1>2, <1>5, ReceiveOrderly
<1>6. ASSUME NEW s \in Servers, PollServer(s) \/ PollTooLate(s) \/ PollFailing(s) PROVE InOrder'
  <2>1. PICK f : Poll(s, Polled(s, f)) BY <1>6 DEF PollServer, PollTooLate, PollFailing
  <2> QED BY <1>2, <1>3, <2>1, PollOrderly
<1>7. CASE Line BY <1>1, <1>2, <1>7, TcpLine, DeliverOrderly
<1>8. CASE UNCHANGED vars BY <1>2, <1>8, StillOrderly
<1> QED BY <1>4, <1>5, <1>6, <1>7, <1>8 DEF Next, Finished


LEMMA AlwaysOrderly ==
  ASSUME CrcIsBytes, Supported \cap FileCodes = {} PROVE Spec => [](Types /\ Orderly)
<1>1. Init => Types /\ Orderly BY InitTypes, InitOrderly
<1>2. Types /\ Orderly /\ [Next]_vars => Types' /\ Orderly' BY NextTypes, NextOrderly
<1> QED BY <1>1, <1>2, PTL DEF Spec

\* The latest call went over a connection, found it silent and is one of the functions of
\* the interface, and no frame has been cut.
Whole == transport = "TCP" /\ ~Happened("cut") /\ last.clean /\ ~last.c.raw

LEMMA WholeRight == Orderly => (Whole => Right)
BY TcpIs DEF Orderly, InOrder, Whole

\* Over a connection the answer of such a call, data or exception, is the one a server gave to
\* that very request, however the calls before it ended: stopped short, answered too
\* late or refused by a failing callback.
THEOREM AnswersOverTcp ==
  ASSUME CrcIsBytes, Supported \cap FileCodes = {}
  PROVE  Spec => [](Whole => AnswersItsRequest)
<1>1. Orderly => (Whole => AnswersItsRequest) BY WholeRight DEF Right
<1> QED BY <1>1, AlwaysOrderly, PTL

\* A write that such a call reports as done has been carried out by a server, with the
\* very data of the request: also one of several coils or registers, whose answer
\* does not repeat them.
THEOREM WritesOverTcp ==
  ASSUME CrcIsBytes, Supported \cap FileCodes = {}
  PROVE  Spec => [](Whole => AcknowledgedIsWritten)
<1>1. Orderly => (Whole => AcknowledgedIsWritten) BY WholeRight DEF Right
<1> QED BY <1>1, AlwaysOrderly, PTL

\* The value such a call makes ModbusRegister::read return is 0 or the register's, as the
\* server answered it to that very request.
THEOREM ReadsOverTcp ==
  ASSUME CrcIsBytes, Supported \cap FileCodes = {}
  PROVE  Spec => [](Whole => RegisterReadsHeld)
<1>1. Orderly => (Whole => RegisterReadsHeld) BY WholeRight DEF Right
<1> QED BY <1>1, AlwaysOrderly, PTL

-----------------------------------------------------------------------------
(* A connection on which nothing fails: between calls it is silent, so that *)
(* every call is one of those above and is waited for until it is answered. *)

Undisturbed ==
  /\ transport = "TCP" /\ \A r \in menu : ~r.c.raw
  /\ ~Happened("cut") /\ ~Happened("short") /\ ~Happened("late")
Idle == air = <<>> /\ NothingRead
GivenAnswers == {"NONE", "INVALID_ARGUMENT"} \cup ExceptionNames
InTime ==
  /\ call = NoCall => Idle
  /\ call # NoCall => call.clean /\ ~call.c.raw
  /\ last.err \in GivenAnswers
Timely == Undisturbed => InTime

LEMMA InitTimely == Init => Timely
<1> SUFFICES ASSUME Init PROVE InTime BY DEF Timely
<1>1. Idle BY DEF Init, Idle, NothingRead
<1>2. last.err = "NONE" /\ call = NoCall BY DEF Init
<1> QED BY <1>1, <1>2 DEF InTime, GivenAnswers

LEMMA RefuseTimely ==
  ASSUME InTime, InOrder, NEW r, Refuse(r) PROVE InTime'
<1>1. UNCHANGED <<call, rx, air>> /\ last'.err = "INVALID_ARGUMENT" /\ call = NoCall
  BY RefuseOrderly DEF Refuse, Start
<1>2. Idle' BY <1>1 DEF InTime, Idle, NothingRead
<1> QED BY <1>1, <1>2 DEF InTime, GivenAnswers

LEMMA SendTimely ==
  ASSUME Supported \cap FileCodes = {}, Types, transport = Tcp, InTime, NEW r \in menu, ~r.c.raw, Send(r)
  PROVE  InTime'
<1>1. /\ call = NoCall /\ call' # NoCall /\ call'.c = r.c /\ call'.to = r.to
      /\ call'.clean = (Silent /\ rx[Client] = <<>>)
      /\ UNCHANGED last
  BY SendAsks
<1>2. Idle BY <1>1 DEF InTime
<1>3. Silent /\ rx[Client] = <<>> BY <1>2, StationTypes DEF Idle, NothingRead, Silent
<1> QED BY <1>1, <1>3 DEF InTime

LEMMA ReceiveTimely ==
  ASSUME Supported \cap FileCodes = {}, Types, transport = Tcp, InTime, InOrder, Receive
  PROVE  InTime'
<1>1. call # NoCall /\ Return(Received) BY DEF Receive
<1>2. Awaited /\ Exchange BY <1>1 DEF InTime, InOrder, Awaited
<1>3. ToRead BY <1>2, ReceiveInTime
<1>4. last'.err \in {"NONE"} \cup ExceptionNames /\ NothingRead' /\ UNCHANGED air /\ air = <<>>
  BY <1>1, <1>2, <1>3, AnswerRead
<1>5. call' = NoCall BY <1>1, ReturnParts
<1>6. Idle' BY <1>4 DEF Idle
<1> QED BY <1>4, <1>5, <1>6 DEF InTime, GivenAnswers

LEMMA PollTimely ==
  ASSUME InTime, NEW s \in Servers, NEW f, Poll(s, Polled(s, f)) PROVE InTime'
<1>1. s \in Stations /\ rx[s] # <<>> BY StationTypes DEF Poll
<1>2. call # NoCall BY <1>1 DEF InTime, Idle, NothingRead
<1>3. UNCHANGED <<last, call>> BY DEF Poll
<1> QED BY <1>2, <1>3 DEF InTime

LEMMA DeliverTimely == ASSUME InTime, Deliver PROVE InTime'
<1>1. UNCHANGED <<last, call>> BY DEF Deliver, Arrive
<1>2. call # NoCall BY DEF InTime, Idle, Deliver
<1> QED BY <1>1, <1>2 DEF InTime

LEMMA StillTimely == ASSUME InTime, UNCHANGED vars PROVE InTime'
<1>1. UNCHANGED <<call, last, rx, air>> BY DEF vars
<1>2. Idle => Idle' BY <1>1 DEF Idle, NothingRead
<1> QED BY <1>1, <1>2 DEF InTime

LEMMA NextTimely ==
  ASSUME Supported \cap FileCodes = {}, Types, Orderly, Timely, [Next]_vars PROVE Timely'
<1>1. SUFFICES ASSUME Undisturbed' PROVE InTime' BY DEF Timely
<1>2. transport = Tcp /\ (\A r \in menu : ~r.c.raw) /\ InTime /\ InOrder
  BY <1>1, SameConnection, FaultsGrow, TcpIs DEF Undisturbed, Timely, Orderly
<1>3. ~Faulty("late") /\ ~Faulty("short") /\ ~Happened("cut")' BY <1>1, FaultAdded DEF Undisturbed
<1>4. ASSUME NEW r \in menu, Refuse(r) \/ Send(r) \/ \E n \in 1..MaxByte : SendShort(r, n) PROVE InTime'
  <2>1. ~\E n \in 1..MaxByte : SendShort(r, n) BY <1>3 DEF SendShort
  <2> QED BY <1>2, <1>4, <2>1, RefuseTimely, SendTimely
<1>5. CASE Receive \/ ReceiveTooLate
  <2>1. ~ReceiveTooLate BY <1>3 DEF ReceiveTooLate
  <2> QED BY <1>2, <1>5, <2>1, ReceiveTimely
<1>6. ASSUME NEW s \in Servers, PollServer(s) \/ PollTooLate(s) \/ PollFailing(s) PROVE InTime'
  <2>1. PICK f : Poll(s, Polled(s, f)) BY <1>6 DEF PollServer, PollTooLate, PollFailing
  <2> QED BY <1>2, <2>1, PollTimely
<1>7. CASE Line BY <1>2, <1>3, <1>7, TcpLine, DeliverTimely
<1>8. CASE UNCHANGED vars BY <1>2, <1>8, StillTimely
<1> QED BY <1>4, <1>5, <1>6, <1>7, <1>8 DEF Next, Finished

LEMMA AlwaysTimely ==
  ASSUME CrcIsBytes, Supported \cap FileCodes = {} PROVE Spec => [](Undisturbed => InTime)
<1>1. Init => Timely BY InitTimely
<1>2. Types /\ Orderly /\ Timely /\ [Next]_vars => Timely' BY NextTimely
<1>3. Timely => (Undisturbed => InTime) BY DEF Timely
<1> QED BY <1>1, <1>2, <1>3, AlwaysOrderly, PTL DEF Spec

\* As long as nothing fails every call gets an answer; on a connection that has not been
\* disturbed also when callbacks have failed.
THEOREM CallsSucceed ==
  ASSUME CrcIsBytes, Supported \cap FileCodes = {}
  PROVE  /\ Spec => [](Undisturbed => last.err \in GivenAnswers)
         /\ Spec => [](transport = "TCP" /\ (\A r \in menu : ~r.c.raw) => FaultFreeCallsSucceed)
<1>1. (Undisturbed => InTime) => (Undisturbed => last.err \in GivenAnswers) BY DEF InTime
<1>2. (Undisturbed => InTime)
      => (transport = "TCP" /\ (\A r \in menu : ~r.c.raw) => FaultFreeCallsSucceed)
  <2>1. SUFFICES ASSUME Undisturbed => InTime, transport = "TCP", \A r \in menu : ~r.c.raw, faults = <<>>
                 PROVE  last.err \in GivenAnswers
    BY DEF FaultFreeCallsSucceed, GivenAnswers, ExceptionNames
  <2>2. \A f : ~Happened(f) BY <2>1 DEF Happened
  <2> QED BY <2>1, <2>2 DEF Undisturbed, InTime
<1> QED BY <1>1, <1>2, AlwaysTimely, PTL

-----------------------------------------------------------------------------
(* What a server on a connection reads is one frame of the client after     *)
(* another, as long as none is cut or stopped short: it writes only what    *)
(* one of them says, also where an answer comes too late for its call.      *)

SentCall(to, c) ==
  /\ to \in Bytes /\ IsCall(c) /\ c.ok /\ ~c.raw
  /\ c.fc \in WriteCodes => <<to, c.fc, c.data>> \in sent
FrameOf(b, number, to, c) ==
  number \in Words16 /\ b = Frame(Tcp, RequestState(Tcp, number, to, c.fc), c.len, c.data)
SentFrame(b) == \E number, to, c : SentCall(to, c) /\ FrameOf(b, number, to, c)

\* f[i] is what is left of b when i frames are.
Rests(b, n, f) ==
  /\ f[0] = <<>> /\ f[n] = b
  /\ \A i \in 1..n : f[i - 1] \in Seq(Bytes) /\ \E x : SentFrame(x) /\ f[i] = x \o f[i - 1]
Frames(b) == \E n \in Nat : \E f : Rests(b, n, f)

LEMMA FrameParts ==
  ASSUME NEW c, IsCall(c), c.ok, ~c.raw, NEW to \in Bytes, NEW number, NEW b, FrameOf(b, number, to, c)
  PROVE  LET h == Header(Tcp, RequestState(Tcp, number, to, c.fc), c.len)
         IN /\ h \in Seq(Bytes) /\ Len(h) = 8 /\ h[8] = c.fc
            /\ b = h \o c.data /\ b \in Seq(Bytes) /\ b # <<>>
<1> DEFINE m == RequestState(Tcp, number, to, c.fc)
           n == c.len
           d == c.data
           h == Header(Tcp, m, n)
<1>1. number \in Words16 /\ b = Frame(Tcp, m, n, d) BY DEF FrameOf
<1>2. d \in Seq(Bytes) /\ n \in 0..253 /\ c.fc \in Bytes BY CallParts
<1>3. TcpRequest(m, to, c.fc, number) BY <1>1, <1>2, RequestMessageIs
<1>4. Message(m) /\ m.fc = c.fc BY ONLY <1>3 DEF TcpRequest
<1> HIDE DEF m, n, d
<1>5. h \in Seq(Bytes) /\ Len(h) = 8 /\ h[8] = m.fc BY <1>2, <1>4, TcpHeader
<1>6. b = h \o d BY <1>1, TcpFrame
<1> HIDE DEF h
<1>7. b \in Seq(Bytes) /\ b # <<>> BY ONLY <1>1, <1>2, <1>4, SomeFrame
<1> QED BY <1>4, <1>5, <1>6, <1>7 DEF h, m, n, d

LEMMA SentFrameType == ASSUME NEW b, SentFrame(b) PROVE b \in Seq(Bytes) /\ b # <<>>
<1>1. PICK number, to, c : SentCall(to, c) /\ FrameOf(b, number, to, c) BY DEF SentFrame
<1> QED BY <1>1, FrameParts DEF SentCall

LEMMA NoFrames == Frames(<<>>)
<1> DEFINE f == [i \in {0} |-> <<>>]
<1>1. f[0] = <<>> OBVIOUS
<1> HIDE DEF f
<1>2. Rests(<<>>, 0, f) BY <1>1 DEF Rests
<1> QED BY <1>2 DEF Frames

LEMMA FirstFrame ==
  ASSUME NEW b, b # <<>>, Frames(b)
  PROVE  \E x : \E rest \in Seq(Bytes) : SentFrame(x) /\ b = x \o rest /\ Frames(rest)
<1>1. PICK n \in Nat : \E f : Rests(b, n, f) BY DEF Frames
<1>2. PICK f : Rests(b, n, f) BY <1>1
<1>3. n # 0 BY <1>2 DEF Rests
<1>4. n \in 1..n /\ n - 1 \in Nat BY <1>3
<1>5. PICK x : SentFrame(x) /\ f[n] = x \o f[n - 1] BY <1>2, <1>4 DEF Rests
<1>6. f[n - 1] \in Seq(Bytes) /\ b = x \o f[n - 1] BY <1>2, <1>4, <1>5 DEF Rests
<1>7. Rests(f[n - 1], n - 1, f)
  <2>1. \A i \in 1..(n - 1) : i \in 1..n BY <1>4
  <2> QED BY <1>2, <2>1 DEF Rests
<1>8. Frames(f[n - 1]) BY <1>4, <1>7 DEF Frames
<1> QED BY <1>5, <1>6, <1>8

LEMMA OneMore ==
  ASSUME NEW b \in Seq(Bytes), Frames(b), NEW x, SentFrame(x) PROVE Frames(b \o x)
<1> DEFINE none == <<>>
<1>1. PICK n \in Nat : \E f : Rests(b, n, f) BY DEF Frames
<1>2. PICK f : Rests(b, n, f) BY <1>1
<1>3. x \in Seq(Bytes) BY SentFrameType
<1>4. none \in Seq(Bytes) /\ none \o x = x /\ x \o none = x BY <1>3, ConcatEmptySeq
<1>5. f[0] = none /\ f[n] = b BY <1>2 DEF Rests
<1> HIDE DEF none
<1> DEFINE g == [i \in 0..(n + 1) |-> IF i = 0 THEN none ELSE f[i - 1] \o x]
<1>6. g[0] = none /\ \A i \in 1..(n + 1) : g[i] = f[i - 1] \o x BY SMT
<1> HIDE DEF g
<1>7. g[n + 1] = b \o x
  <2>1. n + 1 \in 1..(n + 1) /\ (n + 1) - 1 = n OBVIOUS
  <2>2. g[n + 1] = f[(n + 1) - 1] \o x BY <1>6, <2>1
  <2> QED BY <1>5, <2>1, <2>2
<1>8. ASSUME NEW i \in 1..(n + 1)
      PROVE  g[i - 1] \in Seq(Bytes) /\ \E y : SentFrame(y) /\ g[i] = y \o g[i - 1]
  <2>1. CASE i = 1
    <3>1. g[1] = f[0] \o x
      <4>1. 1 \in 1..(n + 1) /\ 1 - 1 = 0 OBVIOUS
      <4>2. g[1] = f[1 - 1] \o x BY <1>6, <4>1
      <4> QED BY <4>1, <4>2
    <3>2. i - 1 = 0 /\ g[i - 1] = none BY <1>6, <2>1
    <3>3. g[i] = x \o g[i - 1] BY <1>4, <1>5, <2>1, <3>1, <3>2
    <3> QED BY <1>4, <3>2, <3>3
  <2>2. CASE i # 1
    <3> DEFINE j == i - 1
    <3>1. j \in 1..n /\ j \in 1..(n + 1) /\ j - 1 = i - 2 BY <2>2
    <3>2. g[i] = f[j] \o x /\ g[j] = f[j - 1] \o x BY <1>6, <3>1
    <3> HIDE DEF j
    <3>3. f[j - 1] \in Seq(Bytes) BY <1>2, <3>1 DEF Rests
    <3>4. PICK y : SentFrame(y) /\ f[j] = y \o f[j - 1] BY <1>2, <3>1 DEF Rests
    <3>5. y \in Seq(Bytes) BY <3>4, SentFrameType
    <3> DEFINE r == f[j - 1]
    <3>6. (y \o r) \o x = y \o (r \o x) BY ONLY <1>3, <3>3, <3>5, JoinThree, Zenon
    <3>7. r \o x \in Seq(Bytes) BY ONLY <1>3, <3>3, JoinType
    <3>8. g[i] = y \o g[j] /\ g[j] \in Seq(Bytes) BY <3>2, <3>4, <3>6, <3>7
    <3> QED BY <3>4, <3>8 DEF j
  <2> QED BY <2>1, <2>2
<1>9. Rests(b \o x, n + 1, g) BY <1>6, <1>7, <1>8 DEF Rests, none
<1>10. n + 1 \in Nat OBVIOUS
<1> QED BY <1>9, <1>10 DEF Frames

LEMMA SentGrows ==
  ASSUME sent \subseteq sent'
  PROVE  /\ \A b : SentFrame(b) => SentFrame(b)'
         /\ \A b : Frames(b) => Frames(b)'
<1>1. \A to, c : SentCall(to, c) => SentCall(to, c)' BY DEF SentCall
<1>2. \A b : SentFrame(b) => SentFrame(b)' BY <1>1 DEF SentFrame
<1>3. \A b, n, f : Rests(b, n, f) => Rests(b, n, f)' BY <1>2 DEF Rests
<1>4. \A b : Frames(b) => Frames(b)' BY <1>3 DEF Frames
<1> QED BY <1>2, <1>4

Uncut == transport = "TCP" /\ (\A r \in menu : ~r.c.raw) /\ ~Happened("cut") /\ ~Happened("short")
ToServer(p) == p.to = {TheServer} /\ SentFrame(p.bytes)
Carried(p) == p.to = {Client} \/ ToServer(p)
Framed ==
  /\ \A i \in 1..Len(air) : Carried(air[i])
  /\ \A s \in Servers : s # TheServer => rx[s] = <<>>
  /\ Frames(rx[TheServer])
  /\ WrittenWasSent
Framing == Uncut => Framed

LEMMA InitFraming == Init => Framing
<1> SUFFICES ASSUME Init PROVE Framed BY DEF Framing
<1>1. \A i \in 1..Len(air) : Carried(air[i]) BY DEF Init
<1>2. \A s \in Servers : rx[s] = <<>> BY StationTypes DEF Init
<1>3. Frames(rx[TheServer])
  <2>1. rx[TheServer] = <<>> BY <1>2, TheServerIs
  <2> QED BY <2>1, NoFrames
<1>4. WrittenWasSent BY DEF Init, WrittenWasSent
<1> QED BY <1>1, <1>2, <1>3, <1>4 DEF Framed

\* A step that leaves the servers' buffers and what is under way to them.
LEMMA FramedStays ==
  ASSUME Framed, transport = Tcp, UNCHANGED <<transport, written>>, sent \subseteq sent',
         \A s \in Servers : rx'[s] = rx[s], \A i \in 1..Len(air') : Carried(air[i])'
  PROVE  Framed'
<1>1. \A s \in Servers : s # TheServer => rx'[s] = <<>> BY DEF Framed
<1>2. Frames(rx[TheServer])'
  <2>1. PICK b : b = rx[TheServer] OBVIOUS
  <2>2. Frames(b) /\ rx'[TheServer] = b BY <2>1, TheServerIs DEF Framed
  <2>3. Frames(b)' BY <2>2, SentGrows
  <2> QED BY <2>2, <2>3
<1>3. WrittenWasSent' BY TcpIs DEF Framed, WrittenWasSent
<1> QED BY <1>1, <1>2, <1>3 DEF Framed

LEMMA CarriedStays == ASSUME sent \subseteq sent', NEW p, Carried(p) PROVE Carried(p)'
BY SentGrows DEF Carried, ToServer

LEMMA SendFramed ==
  ASSUME Supported \cap FileCodes = {}, Types, transport = Tcp, Framed, NEW r \in menu, ~r.c.raw, Send(r)
  PROVE  Framed'
<1> DEFINE number == NextTid(tid)
           frame == RequestFrame(r, number)
           packet == [to |-> {TheServer}, bytes |-> frame]
<1>1. r.to \in Bytes /\ IsCall(r.c) /\ r.c.ok BY MenuType DEF Types, Send
<1>2. number \in Words16 BY NextTidType DEF Types, ClientTypes
<1>3. /\ UNCHANGED <<transport, rx, written>> /\ sent' = SentBy(r) /\ air' = Transmit(Client, frame)
  BY DEF Send, fixed
<1>4. sent \subseteq sent' BY <1>3 DEF SentBy
<1>5. SentCall(r.to, r.c)' BY <1>1, <1>3 DEF SentCall, SentBy
<1>6. FrameOf(frame, number, r.to, r.c) BY <1>2 DEF FrameOf, RequestFrame, Request
<1>7. PICK b, k : b = frame /\ k = number OBVIOUS
<1>8. FrameOf(b, k, r.to, r.c) BY <1>6, <1>7
<1>9. SentFrame(b)' /\ b # <<>>
  <2>1. SentFrame(b)' BY <1>5, <1>8 DEF SentFrame, FrameOf
  <2>2. b # <<>> BY ONLY <1>1, <1>8, ~r.c.raw, FrameParts
  <2> QED BY <2>1, <2>2
<1> HIDE DEF frame
<1>10. air' = Append(air, packet)
  <2>1. Hearers(Client) = {TheServer} BY TcpIs DEF Hearers, TheServer
  <2> QED BY <1>3, <1>7, <1>9, <2>1 DEF Transmit
<1>11. PICK p : p = packet OBVIOUS
<1>12. Carried(p)'
  <2>1. p.to = {TheServer} /\ p.bytes = b BY <1>7, <1>11
  <2> QED BY <1>9, <2>1 DEF Carried, ToServer
<1> HIDE DEF packet
<1>13. ASSUME NEW i \in 1..Len(air') PROVE Carried(air[i])'
  <2>1. air \in Seq(Packets) /\ Len(air) \in Nat BY LenProperties DEF Types, LineTypes
  <2>2. air' = Append(air, p) BY <1>10, <1>11
  <2>3. Len(air') = Len(air) + 1 /\ (i = Len(air) + 1 => air'[i] = p)
        /\ (i # Len(air) + 1 => i \in 1..Len(air) /\ air'[i] = air[i])
    BY <2>1, <2>2
  <2>4. CASE i = Len(air) + 1
    <3>1. air'[i] = p BY <2>3, <2>4
    <3> QED BY <1>12, <3>1
  <2>5. CASE i # Len(air) + 1
    <3>1. PICK y : y = air[i] OBVIOUS
    <3>2. Carried(y) /\ air'[i] = y BY <2>3, <2>5, <3>1 DEF Framed
    <3>3. Carried(y)' BY <1>4, <3>2, CarriedStays
    <3> QED BY <3>2, <3>3
  <2> QED BY <2>4, <2>5
<1> QED BY <1>3, <1>4, <1>13, FramedStays

LEMMA ReceiveFramed ==
  ASSUME Types, transport = Tcp, Framed, NEW p, Return(p) PROVE Framed'
<1>1. rx' = [rx EXCEPT ![Client] = p.in] /\ UNCHANGED <<transport, air, sent, written>>
  BY ReturnParts
<1>2. \A s \in Servers : rx'[s] = rx[s]
  <2>1. DOMAIN rx = Stations BY DEF Types, LineTypes
  <2> QED BY <1>1, <2>1, StationTypes
<1>3. ASSUME NEW i \in 1..Len(air') PROVE Carried(air[i])'
  <2>1. PICK y : y = air[i] OBVIOUS
  <2>2. Carried(y) /\ air'[i] = y BY <1>1, <2>1 DEF Framed
  <2>3. Carried(y)' BY <1>1, <2>2, CarriedStays
  <2> QED BY <2>2, <2>3
<1> QED BY <1>1, <1>2, <1>3, FramedStays

LEMMA StillFramed ==
  ASSUME transport = Tcp, Framed, UNCHANGED <<transport, rx, air, sent, written>> PROVE Framed'
<1>1. ASSUME NEW i \in 1..Len(air') PROVE Carried(air[i])'
  <2>1. PICK y : y = air[i] OBVIOUS
  <2>2. Carried(y) /\ air'[i] = y BY <2>1 DEF Framed
  <2>3. Carried(y)' BY <2>2, CarriedStays
  <2> QED BY <2>2, <2>3
<1> QED BY <1>1, FramedStays

LEMMA PollFramed ==
  ASSUME Supported \cap FileCodes = {}, Types, transport = Tcp, Framed,
         NEW s \in Servers, NEW f, Poll(s, Polled(s, f))
  PROVE  Framed'
<1> DEFINE o == Polled(s, f)
           fc == rx[s][HeaderLen(transport)]
<1>1. s = TheServer /\ s \in Stations /\ s # Client /\ rx[s] # <<>> BY StationTypes DEF Poll, Framed
<1>2. \E x : \E rest \in Seq(Bytes) : SentFrame(x) /\ rx[s] = x \o rest /\ Frames(rest)
  <2>1. PICK b : b = rx[s] OBVIOUS
  <2>2. b # <<>> /\ Frames(b) BY <1>1, <2>1 DEF Framed
  <2> QED BY <2>1, <2>2, FirstFrame
<1>3. PICK x : \E rest \in Seq(Bytes) : SentFrame(x) /\ rx[s] = x \o rest /\ Frames(rest) BY <1>2
<1>4. PICK rest \in Seq(Bytes) : SentFrame(x) /\ rx[s] = x \o rest /\ Frames(rest) BY <1>3
<1>5. PICK number, to, c : SentCall(to, c) /\ FrameOf(x, number, to, c) BY <1>4 DEF SentFrame
<1>6. IsCall(c) /\ c.ok /\ ~c.raw /\ to \in Bytes BY <1>5 DEF SentCall
<1> DEFINE m == RequestState(Tcp, number, to, c.fc)
           d == c.data
           h == Header(Tcp, m, c.len)
<1>7. h \in Seq(Bytes) /\ Len(h) = 8 /\ h[8] = c.fc /\ x = h \o d BY ONLY <1>5, <1>6, FrameParts
<1>8. d \in Seq(Bytes) BY <1>6, CallParts
<1>9. Answers(m, d, rest, o)
  <2>1. mem[s] \in Memory BY DEF Types, LineTypes
  <2>2. number \in Words16 /\ x = Frame(Tcp, m, c.len, d) BY <1>5 DEF FrameOf
  <2>3. Answers(RequestState(Tcp, number, to, c.fc), c.data, rest,
                nmbs_server_poll(Tcp, s, Frame(Tcp, RequestState(Tcp, number, to, c.fc), c.len, c.data) \o rest,
                                 mem[s], f))
    BY ONLY <1>6, <2>1, <2>2, s \in Servers, rest \in Seq(Bytes), Supported \cap FileCodes = {}, PollAnswers
  <2> QED BY <1>4, <2>2, <2>3 DEF Polled
<1> HIDE DEF m, d, h, o
<1>10. o.in = rest BY <1>9 DEF Answers
<1>11. Asked(s, o) = d /\ fc = h[8]
  <2>1. rx[s] = (h \o d) \o rest BY <1>4, <1>7
  <2> QED BY ONLY <1>7, <1>8, <1>10, <2>1, rest \in Seq(Bytes), transport = Tcp, AskedIs
<1>12. /\ rx' = [rx EXCEPT ![s] = rest] /\ air' = Transmit(s, o.out) /\ UNCHANGED <<transport, sent>>
       /\ UNCHANGED written \/ (fc \in WriteCodes /\ written' = written \cup {<<s, fc, Asked(s, o)>>})
  BY <1>10 DEF Poll, fixed, o
<1> HIDE DEF fc
<1>13. ASSUME NEW w \in written' PROVE \E q \in sent : q[2] = w[2] /\ q[3] = w[3]
  <2>1. CASE w \in written BY <2>1, TcpIs DEF Framed, WrittenWasSent
  <2>2. CASE fc \in WriteCodes /\ w = <<s, fc, Asked(s, o)>>
    <3>1. c.fc = fc /\ <<to, c.fc, c.data>> \in sent BY <1>5, <1>7, <1>11, <2>2 DEF SentCall
    <3>2. w[2] = c.fc /\ w[3] = c.data BY <1>11, <2>2, <3>1 DEF d
    <3> QED BY <3>1, <3>2
  <2> QED BY <1>12, <2>1, <2>2
<1>14. WrittenWasSent' BY <1>12, <1>13, TcpIs DEF WrittenWasSent
<1>15. Frames(rx[TheServer])'
  <2>1. Frames(rest)' BY <1>4, <1>12, SentGrows
  <2>2. rx'[TheServer] = rest BY <1>1, <1>12 DEF Types, LineTypes
  <2> QED BY <2>1, <2>2
<1>16. \A y \in Servers : y # TheServer => rx'[y] = <<>>
  <2>1. \A y \in Servers : y # s => rx'[y] = rx[y] BY <1>12, StationTypes DEF Types, LineTypes
  <2> QED BY <1>1, <2>1 DEF Framed
<1>17. ASSUME NEW i \in 1..Len(air') PROVE Carried(air[i])'
  <2> DEFINE p == [to |-> {Client}, bytes |-> o.out]
  <2>1. air' = air \/ air' = Append(air, p)
    <3>1. Hearers(s) = {Client} BY <1>1, TcpIs DEF Hearers
    <3> QED BY <1>12, <3>1 DEF Transmit
  <2>2. p.to = {Client} OBVIOUS
  <2> HIDE DEF p
  <2>3. air \in Seq(Packets) /\ Len(air) \in Nat BY LenProperties DEF Types, LineTypes
  <2>4. CASE i \in 1..Len(air) /\ air'[i] = air[i]
    <3>1. PICK y : y = air[i] OBVIOUS
    <3>2. Carried(y) /\ air'[i] = y BY <2>4, <3>1 DEF Framed
    <3>3. Carried(y)' BY <1>12, <3>2, CarriedStays
    <3> QED BY <3>2, <3>3
  <2>5. CASE air'[i] = p BY <2>2, <2>5 DEF Carried
  <2>6. air' = Append(air, p) => (i \in 1..Len(air) /\ air'[i] = air[i]) \/ air'[i] = p BY <2>3
  <2> QED BY <2>1, <2>4, <2>5, <2>6
<1> QED BY <1>14, <1>15, <1>16, <1>17 DEF Framed

LEMMA DeliverFramed ==
  ASSUME Types, transport = Tcp, Framed, Deliver PROVE Framed'
<1>1. PICK p : p = Head(air) OBVIOUS
<1>2. air # <<>> /\ air' = Tail(air) /\ UNCHANGED <<transport, sent, written>>
      /\ rx' = [s \in Stations |-> IF s \in p.to THEN rx[s] \o p.bytes ELSE rx[s]]
  BY <1>1 DEF Deliver, Arrive, fixed, history
<1>3. air \in Seq(Packets) /\ Len(air) \in Nat /\ Len(air) # 0
  BY <1>2, LenProperties, EmptySeq DEF Types, LineTypes
<1>4. Carried(p)
  <2>1. 1 \in 1..Len(air) /\ p = air[1] BY <1>1, <1>3
  <2> QED BY <2>1 DEF Framed
<1>5. ASSUME NEW i \in 1..Len(air') PROVE Carried(air[i])'
  <2>1. i + 1 \in 1..Len(air) /\ air'[i] = air[i + 1] BY <1>2, <1>3
  <2>2. PICK y : y = air[i + 1] OBVIOUS
  <2>3. Carried(y) /\ air'[i] = y BY <2>1, <2>2 DEF Framed
  <2>4. Carried(y)' BY <1>2, <2>3, CarriedStays
  <2> QED BY <2>3, <2>4
<1>6. CASE p.to = {Client}
  <2>1. \A s \in Servers : rx'[s] = rx[s] BY <1>2, <1>6, StationTypes
  <2> QED BY <1>2, <1>5, <2>1, FramedStays
<1>7. CASE ToServer(p)
  <2>1. PICK b, x : b = rx[TheServer] /\ x = p.bytes OBVIOUS
  <2>2. SentFrame(x) /\ p.to = {TheServer} BY <1>7, <2>1 DEF ToServer
  <2>3. b \in Seq(Bytes) /\ Frames(b) BY <2>1, TheServerIs DEF Framed, Types, LineTypes
  <2>4. PICK y : y = b \o x OBVIOUS
  <2>5. Frames(y) BY <2>2, <2>3, <2>4, OneMore
  <2>6. Frames(y)' BY <1>2, <2>5, SentGrows
  <2>7. rx'[TheServer] = y BY <1>2, <2>1, <2>2, <2>4, TheServerIs
  <2>8. \A s \in Servers : s # TheServer => rx'[s] = <<>> BY <1>2, <2>2, StationTypes DEF Framed
  <2>9. WrittenWasSent' BY <1>2 DEF Framed, WrittenWasSent
  <2> QED BY <1>5, <2>6, <2>7, <2>8, <2>9 DEF Framed
<1> QED BY <1>4, <1>6, <1>7 DEF Carried

LEMMA NextFraming ==
  ASSUME Supported \cap FileCodes = {}, Types, Framing, [Next]_vars PROVE Framing'
<1>1. SUFFICES ASSUME Uncut' PROVE Framed' BY DEF Framing
<1>2. transport = Tcp /\ (\A r \in menu : ~r.c.raw) /\ Framed
  BY <1>1, SameConnection, FaultsGrow, TcpIs DEF Uncut, Framing
<1>3. ~Faulty("short") /\ ~Happened("cut")' BY <1>1, FaultAdded DEF Uncut
<1>4. ASSUME NEW r \in menu, Refuse(r) \/ Send(r) \/ \E n \in 1..MaxByte : SendShort(r, n) PROVE Framed'
  <2>1. ~\E n \in 1..MaxByte : SendShort(r, n) BY <1>3 DEF SendShort
  <2>2. ASSUME Refuse(r) PROVE Framed'
    <3>1. UNCHANGED <<transport, rx, air, sent, written>> BY <2>2 DEF Refuse, fixed, history
    <3> QED BY <1>2, <3>1, StillFramed
  <2> QED BY <1>2, <1>4, <2>1, <2>2, SendFramed
<1>5. CASE Receive \/ ReceiveTooLate
  <2>1. Return(Received) BY <1>5 DEF Receive, ReceiveTooLate
  <2> QED BY <1>2, <2>1, ReceiveFramed
<1>6. ASSUME NEW s \in Servers, PollServer(s) \/ PollTooLate(s) \/ PollFailing(s) PROVE Framed'
  <2>1. PICK f : Poll(s, Polled(s, f)) BY <1>6 DEF PollServer, PollTooLate, PollFailing
  <2> QED BY <1>2, <2>1, PollFramed
<1>7. CASE Line BY <1>2, <1>3, <1>7, TcpLine, DeliverFramed
<1>8. CASE UNCHANGED vars
  <2>1. UNCHANGED <<transport, rx, air, sent, written>> BY <1>8 DEF vars
  <2> QED BY <1>2, <2>1, StillFramed
<1> QED BY <1>4, <1>5, <1>6, <1>7, <1>8 DEF Next, Finished

\* Servers on a connection write only what the client has sent, as long as no frame is cut
\* or stopped short: however late the answers are, whichever calls are made before they
\* come, and whatever the callbacks return.
THEOREM WritesWereSent ==
  ASSUME CrcIsBytes, Supported \cap FileCodes = {}
  PROVE  Spec => [](Uncut => WrittenWasSent)
<1>1. Init => Framing BY InitFraming
<1>2. Types /\ Framing /\ [Next]_vars => Framing' BY NextFraming
<1>3. Framing => (Uncut => WrittenWasSent) BY DEF Framing, Framed
<1> QED BY <1>1, <1>2, <1>3, AlwaysOrderly, PTL DEF Spec
===============================================================================
