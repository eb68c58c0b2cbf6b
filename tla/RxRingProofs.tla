---------------------------- MODULE RxRingProofs ----------------------------
(***************************************************************************)
(* Proofs, for every size of the ring and every length of segments, reads  *)
(* and streams, of the safety properties of RxRing and of the refinement   *)
(* of ByteStream.                                                          *)
(***************************************************************************)
EXTENDS RxRing, SequenceTheorems, TLAPS

(***************************************************************************)
(* Arithmetic.  The code only ever takes a remainder by BUF_SIZE of a sum  *)
(* below 2 * BUF_SIZE, and 16 bits hold every such sum.                    *)
(***************************************************************************)
LEMMA ModBelow ==
  ASSUME NEW N \in Nat, N > 0, NEW x \in 0..(N - 1)
  PROVE  x % N = x
  BY SMT

LEMMA ModAbove ==
  ASSUME NEW N \in Nat, N > 0, NEW x \in N..(2 * N - 1)
  PROVE  x % N = x - N
  BY SMT

LEMMA U16Fits ==
  ASSUME NEW x \in Nat, x < 65536
  PROVE  U16(x) = x
  BY Z3 DEF U16

\* The position p cells on from the start of the array, p < 2 * BUF_SIZE.
Around(p) == IF p < BUF_SIZE THEN p ELSE p - BUF_SIZE

LEMMA ModIsAround ==
  ASSUME NEW x \in Nat, x < 2 * BUF_SIZE
  PROVE  x % BUF_SIZE = Around(x) /\ Around(x) \in Cells
  BY BufSizeAssumption, ModBelow, ModAbove, SMT DEF Around, Cells

\* A function on 1..n is a sequence of length n.
LEMMA FunctionIsSeq ==
  ASSUME NEW n \in Nat, NEW S, NEW f \in [1..n -> S]
  PROVE  f \in Seq(S) /\ Len(f) = n
  BY SMT
-----------------------------------------------------------------------------
(***************************************************************************)
(* What TypeOK and RingInv say of the numbers a step computes: no          *)
(* remainder is left, and no 16-bit sum overflows.                         *)
(***************************************************************************)
LEMMA ArriveNumbers ==
  ASSUME TypeOK, RingInv, NEW n \in Nat
  PROVE  LET k == BytesToCopy(n) IN
         /\ k \in Nat /\ k <= n /\ count + k <= BUF_SIZE
         /\ wr = Around(rd + count)
         /\ Wraps(n) <=> wr + k > BUF_SIZE
         /\ Wraps(n) => /\ FirstCopy(n) = BUF_SIZE - wr
                        /\ RestCopy(n) = k - (BUF_SIZE - wr)
                        /\ RestAt(n) = 0
         /\ ~Wraps(n) => /\ FirstCopy(n) = 0
                         /\ RestCopy(n) = k
                         /\ RestAt(n) = wr
         /\ CountAfter(n) = count + k
         /\ (RestAt(n) + RestCopy(n)) % BUF_SIZE = (rd + (count + k)) % BUF_SIZE
         /\ (RestAt(n) + RestCopy(n)) % BUF_SIZE \in Cells
<1> DEFINE k == BytesToCopy(n)
<1>1. /\ BUF_SIZE \in Nat /\ BUF_SIZE > 0 /\ BUF_SIZE <= 32768
      /\ count \in Nat /\ count <= BUF_SIZE
      /\ wr \in Nat /\ wr < BUF_SIZE
      /\ rd \in Nat /\ rd < BUF_SIZE
  BY BufSizeAssumption DEF TypeOK, RingInv, Cells
<1>2. k \in Nat /\ k <= n /\ count + k <= BUF_SIZE
  BY <1>1 DEF BytesToCopy, Smaller
<1>3. wr = Around(rd + count)
  BY <1>1, ModIsAround DEF RingInv
<1> HIDE DEF k
<1>4. Wraps(n) <=> wr + k > BUF_SIZE
  <2>1. U16(wr + k) = wr + k
    BY <1>1, <1>2, U16Fits
  <2> QED  BY <2>1 DEF Wraps, k
<1>5. Wraps(n) => /\ FirstCopy(n) = BUF_SIZE - wr
                  /\ RestCopy(n) = k - (BUF_SIZE - wr)
                  /\ RestAt(n) = 0
  BY <1>1, <1>2 DEF FirstCopy, RestCopy, RestAt, k
<1>6. ~Wraps(n) => /\ FirstCopy(n) = 0
                   /\ RestCopy(n) = k
                   /\ RestAt(n) = wr
  BY <1>1, <1>2 DEF FirstCopy, RestCopy, RestAt, k
<1>7. CountAfter(n) = count + k
  BY <1>1, <1>2, <1>5, <1>6 DEF CountAfter
<1>8. (RestAt(n) + RestCopy(n)) % BUF_SIZE = Around(rd + (count + k))
  <2>1. CASE Wraps(n)
    <3>1. (RestAt(n) + RestCopy(n)) % BUF_SIZE = Around(wr + k - BUF_SIZE)
      BY <2>1, <1>1, <1>2, <1>4, <1>5, ModIsAround
    <3> QED  BY <3>1, <2>1, <1>1, <1>2, <1>3, <1>4 DEF Around
  <2>2. CASE ~Wraps(n)
    <3>1. (RestAt(n) + RestCopy(n)) % BUF_SIZE = Around(wr + k)
      BY <2>2, <1>1, <1>2, <1>4, <1>6, ModIsAround
    <3> QED  BY <3>1, <2>2, <1>1, <1>2, <1>3, <1>4 DEF Around
  <2> QED  BY <2>1, <2>2
<1>9. /\ (rd + (count + k)) % BUF_SIZE = Around(rd + (count + k))
      /\ Around(rd + (count + k)) \in Cells
  BY <1>1, <1>2, ModIsAround
<1> QED
  BY <1>2, <1>3, <1>4, <1>5, <1>6, <1>7, <1>8, <1>9 DEF k

LEMMA ReadNumbers ==
  ASSUME TypeOK, RingInv, NEW len \in Nat
  PROVE  LET k == BytesOut(len) IN
         /\ k \in Nat /\ k <= len /\ k <= count
         /\ ReadWraps(len) <=> rd + k > BUF_SIZE
         /\ NextRd(len) = Around(rd + k)
         /\ NextRd(len) \in Cells
         /\ wr = (NextRd(len) + (count - k)) % BUF_SIZE
<1> DEFINE k == BytesOut(len)
<1>1. /\ BUF_SIZE \in Nat /\ BUF_SIZE > 0 /\ BUF_SIZE <= 32768
      /\ count \in Nat /\ count <= BUF_SIZE
      /\ wr \in Nat /\ wr < BUF_SIZE
      /\ rd \in Nat /\ rd < BUF_SIZE
  BY BufSizeAssumption DEF TypeOK, RingInv, Cells
<1>2. k \in Nat /\ k <= len /\ k <= count
  BY <1>1 DEF BytesOut, Smaller
<1>3. wr = Around(rd + count)
  BY <1>1, ModIsAround DEF RingInv
<1> HIDE DEF k
<1>4. ReadWraps(len) <=> rd + k > BUF_SIZE
  <2>1. U16(rd + k) = rd + k
    BY <1>1, <1>2, U16Fits
  <2> QED  BY <2>1 DEF ReadWraps, k
<1>5. NextRd(len) = Around(rd + k)
  <2>1. CASE ReadWraps(len)
    BY <2>1, <1>1, <1>2, <1>4 DEF NextRd, FirstOut, Around, k
  <2>2. CASE ~ReadWraps(len)
    <3>1. (rd + k) % BUF_SIZE = Around(rd + k)
      BY <2>2, <1>1, <1>2, <1>4, ModIsAround
    <3> QED  BY <3>1, <2>2 DEF NextRd, k
  <2> QED  BY <2>1, <2>2
<1>6. Around(rd + k) \in Cells
  BY <1>1, <1>2, ModIsAround
<1>7. wr = (NextRd(len) + (count - k)) % BUF_SIZE
  <2>1. (Around(rd + k) + (count - k)) % BUF_SIZE
          = Around(Around(rd + k) + (count - k))
    BY <1>1, <1>2, <1>6, ModIsAround DEF Cells
  <2>2. Around(Around(rd + k) + (count - k)) = Around(rd + count)
    BY <1>1, <1>2 DEF Around
  <2> QED  BY <2>1, <2>2, <1>3, <1>5
<1> QED
  BY <1>2, <1>4, <1>5, <1>6, <1>7 DEF k
-----------------------------------------------------------------------------
(***************************************************************************)
(* The ring as a sequence: a segment lengthens Contents at the end, a read *)
(* shortens it at the front, wherever the two indices are in the array.    *)
(***************************************************************************)
Waiting(buf, r, c) == [i \in 1..c |-> buf[(r + i - 1) % BUF_SIZE]]

LEMMA WaitingIsSeq ==
  ASSUME NEW buf \in [Cells -> Nat], NEW r \in Cells,
         NEW c \in Nat, c <= BUF_SIZE
  PROVE  /\ Waiting(buf, r, c) \in Seq(Nat)
         /\ Len(Waiting(buf, r, c)) = c
         /\ \A i \in 1..c : /\ Around(r + i - 1) \in Cells
                            /\ Waiting(buf, r, c)[i] = buf[Around(r + i - 1)]
<1>1. BUF_SIZE \in Nat /\ r \in Nat /\ r < BUF_SIZE
  BY BufSizeAssumption DEF Cells
<1>2. ASSUME NEW i \in 1..c
      PROVE  /\ (r + i - 1) % BUF_SIZE = Around(r + i - 1)
             /\ Around(r + i - 1) \in Cells
  BY <1>1, ModIsAround
<1>3. Waiting(buf, r, c) \in [1..c -> Nat]
  BY <1>1, <1>2 DEF Waiting
<1>4. Waiting(buf, r, c) \in Seq(Nat) /\ Len(Waiting(buf, r, c)) = c
  BY <1>3, FunctionIsSeq
<1> QED
  BY <1>1, <1>2, <1>4 DEF Waiting

LEMMA ContentsIsSeq ==
  ASSUME TypeOK, RingInv
  PROVE  /\ Contents \in Seq(Nat)
         /\ Len(Contents) = count
         /\ \A i \in 1..count : /\ Around(rd + i - 1) \in Cells
                                /\ Contents[i] = buffer[Around(rd + i - 1)]
<1>1. /\ buffer \in [Cells -> Nat] /\ rd \in Cells
      /\ count \in Nat /\ count <= BUF_SIZE
  BY DEF TypeOK, RingInv
<1>2. Contents = Waiting(buffer, rd, count)
  BY DEF Contents, Waiting
<1> QED
  BY <1>1, <1>2, WaitingIsSeq

\* The bytes of a segment that go into the ring.
Fresh(n) == [i \in 1..BytesToCopy(n) |-> arrived + i]

LEMMA FreshIsSeq ==
  ASSUME TypeOK, RingInv, NEW n \in Nat
  PROVE  Fresh(n) \in Seq(Nat) /\ Len(Fresh(n)) = BytesToCopy(n)
<1>1. BytesToCopy(n) \in Nat
  BY ArriveNumbers
<1>2. Fresh(n) \in [1..BytesToCopy(n) -> Nat]
  BY <1>1 DEF Fresh, TypeOK
<1> QED
  BY <1>1, <1>2, FunctionIsSeq

LEMMA ArriveType ==
  ASSUME TypeOK, RingInv, NEW n \in 1..MaxSegment, tcp_client_recv(n)
  PROVE  TypeOK' /\ RingInv'
<1> DEFINE k == BytesToCopy(n)
<1>1. n \in Nat /\ n > 0
  BY BoundsAssumption
<1>2. /\ k \in Nat /\ count + k <= BUF_SIZE
      /\ count' = count + k
      /\ wr' = (rd + (count + k)) % BUF_SIZE
      /\ wr' \in Cells
  BY <1>1, ArriveNumbers DEF tcp_client_recv
<1>3. buffer' \in [Cells -> Nat]
  <2>1. /\ FirstCopy(n) \in Nat /\ wr \in Nat
        /\ RestAt(n) \in Nat /\ arrived \in Nat /\ RestCopy(n) \in Nat
    <3>1. /\ wr \in Nat /\ wr < BUF_SIZE /\ BUF_SIZE \in Nat /\ arrived \in Nat
      BY BufSizeAssumption DEF TypeOK, Cells
    <3>2. CASE Wraps(n)
      BY <1>1, <3>1, <3>2, ArriveNumbers
    <3>3. CASE ~Wraps(n)
      BY <1>1, <3>1, <3>3, ArriveNumbers
    <3> QED  BY <3>2, <3>3
  <2>2. ASSUME NEW buf \in [Cells -> Nat], NEW at \in Nat, NEW len \in Nat,
               NEW offset \in Nat
        PROVE  CopyIn(buf, at, len, offset) \in [Cells -> Nat]
    BY <2>1, BufSizeAssumption DEF CopyIn, Cells
  <2>3. buffer \in [Cells -> Nat]
    BY DEF TypeOK
  <2>4. CopyIn(buffer, wr, FirstCopy(n), 0) \in [Cells -> Nat]
    BY <2>1, <2>2, <2>3
  <2> QED
    BY <2>1, <2>2, <2>4 DEF tcp_client_recv
<1>4. dropped' \in 0..(DroppedModulus - 1)
  <2>1. k \in Nat /\ DroppedModulus \in Nat \ {0} /\ dropped \in Int
    BY <1>2, BoundsAssumption DEF TypeOK
  <2>2. ((dropped + (n - k)) % DroppedModulus) \in 0..(DroppedModulus - 1)
    BY <1>1, <2>1
  <2> QED
    BY <2>2 DEF tcp_client_recv, DroppedBy, TypeOK
<1>5. arrived' \in Nat /\ kept' \in Seq(Nat)
  <2>1. kept' = kept \o Fresh(n) /\ arrived' = arrived + n
    BY DEF tcp_client_recv, Fresh
  <2> QED
    BY <1>1, <2>1, FreshIsSeq, ConcatProperties DEF TypeOK
<1>6. UNCHANGED <<rd, reading, out, atBoot>>
  BY DEF tcp_client_recv
<1>7. count' <= BUF_SIZE /\ wr' = (rd' + count') % BUF_SIZE
  BY <1>2, <1>6
<1>8. count' \in Nat
  BY <1>2 DEF TypeOK
<1> QED
  BY <1>2, <1>3, <1>4, <1>5, <1>6, <1>7, <1>8 DEF TypeOK, RingInv

LEMMA ArriveContents ==
  ASSUME TypeOK, RingInv, NEW n \in 1..MaxSegment, tcp_client_recv(n)
  PROVE  Contents' = Contents \o Fresh(n)
<1> DEFINE k == BytesToCopy(n)
<1>1. n \in Nat
  BY BoundsAssumption
<1>2. TypeOK' /\ RingInv'
  BY ArriveType
<1>3. /\ Contents' \in Seq(Nat) /\ Len(Contents') = count'
      /\ \A i \in 1..count' : /\ Around(rd' + i - 1) \in Cells
                              /\ Contents'[i] = buffer'[Around(rd' + i - 1)]
  <2>1. /\ buffer' \in [Cells -> Nat] /\ rd' \in Cells
        /\ count' \in Nat /\ count' <= BUF_SIZE
    BY <1>2 DEF TypeOK, RingInv
  <2>2. Contents' = Waiting(buffer', rd', count')
    BY DEF Contents, Waiting
  <2> QED
    BY <2>1, <2>2, WaitingIsSeq
<1>4. /\ Contents \in Seq(Nat) /\ Len(Contents) = count
      /\ \A i \in 1..count : Contents[i] = buffer[Around(rd + i - 1)]
  BY ContentsIsSeq
<1>5. Fresh(n) \in Seq(Nat) /\ Len(Fresh(n)) = k
  BY <1>1, FreshIsSeq
<1>6. /\ BUF_SIZE \in Nat
      /\ count \in Nat /\ k \in Nat /\ count + k <= BUF_SIZE
      /\ wr \in Nat /\ wr < BUF_SIZE /\ rd \in Nat /\ rd < BUF_SIZE
      /\ wr = Around(rd + count)
      /\ rd' = rd /\ count' = count + k /\ arrived \in Nat
  BY <1>1, BufSizeAssumption, ArriveNumbers DEF TypeOK, Cells, tcp_client_recv
<1> HIDE DEF k
<1>7. ASSUME NEW i \in 1..(count + k)
      PROVE  buffer'[Around(rd + i - 1)]
               = IF i <= count THEN buffer[Around(rd + i - 1)]
                               ELSE arrived + (i - count)
  <2> DEFINE c == Around(rd + i - 1)
  <2>1. c \in Cells
    BY <1>3, <1>6
  <2>2. c \in Nat /\ c < BUF_SIZE
    BY <2>1, <1>6 DEF Cells
  <2>3. CASE Wraps(n)
    <3>1. buffer' = CopyIn(CopyIn(buffer, wr, BUF_SIZE - wr, 0),
                           0, k - (BUF_SIZE - wr), BUF_SIZE - wr)
      BY <1>1, <2>3, ArriveNumbers DEF tcp_client_recv, k
    <3>2. buffer'[c] = IF c < k - (BUF_SIZE - wr)
                       THEN arrived + (BUF_SIZE - wr) + c + 1
                       ELSE IF c >= wr THEN arrived + (c - wr) + 1
                       ELSE buffer[c]
      BY <3>1, <2>1, <2>2, <1>6 DEF CopyIn
    <3>3. wr + k > BUF_SIZE
      BY <1>1, <2>3, ArriveNumbers DEF k
    <3> QED
      BY <3>2, <3>3, <2>2, <1>6 DEF Around
  <2>4. CASE ~Wraps(n)
    <3>1. buffer' = CopyIn(CopyIn(buffer, wr, 0, 0), wr, k, 0)
      BY <1>1, <2>4, ArriveNumbers DEF tcp_client_recv, k
    <3>2. buffer'[c] = IF c >= wr /\ c < wr + k THEN arrived + (c - wr) + 1
                       ELSE buffer[c]
      BY <3>1, <2>1, <2>2, <1>6 DEF CopyIn
    <3>3. wr + k <= BUF_SIZE
      BY <1>1, <1>6, <2>4, ArriveNumbers DEF k
    <3> QED
      BY <3>2, <3>3, <2>2, <1>6 DEF Around
  <2> QED  BY <2>3, <2>4
<1>8. /\ Contents \o Fresh(n) \in Seq(Nat)
      /\ Len(Contents \o Fresh(n)) = count + k
      /\ \A i \in 1..(count + k) :
            (Contents \o Fresh(n))[i]
              = IF i <= count THEN Contents[i] ELSE Fresh(n)[i - count]
  BY <1>4, <1>5, <1>6, ConcatProperties
<1>9. ASSUME NEW i \in 1..(count + k)
      PROVE  Contents'[i] = (Contents \o Fresh(n))[i]
  <2>1. Contents'[i] = buffer'[Around(rd + i - 1)]
    BY <1>3, <1>6
  <2>2. CASE i <= count
    <3>1. i \in 1..count
      BY <2>2, <1>6
    <3>2. (Contents \o Fresh(n))[i] = Contents[i]
      BY <2>2, <1>8
    <3>3. Contents[i] = buffer[Around(rd + i - 1)]
      BY <3>1, <1>4
    <3>4. buffer'[Around(rd + i - 1)] = buffer[Around(rd + i - 1)]
      BY <2>2, <1>7
    <3> QED
      BY <2>1, <3>2, <3>3, <3>4
  <2>3. CASE ~(i <= count)
    <3>1. i - count \in 1..k
      BY <2>3, <1>6
    <3>2. Fresh(n)[i - count] = arrived + (i - count)
      BY <3>1 DEF Fresh, k
    <3> QED
      BY <3>2, <2>1, <2>3, <1>6, <1>7, <1>8
  <2> QED  BY <2>2, <2>3
<1> QED
  BY <1>3, <1>6, <1>8, <1>9, SeqEqual

LEMMA CopyOutIsSeq ==
  ASSUME TypeOK, NEW at \in Nat, NEW len \in Nat, at + len <= BUF_SIZE
  PROVE  /\ CopyOut(at, len) \in Seq(Nat)
         /\ Len(CopyOut(at, len)) = len
         /\ \A i \in 1..len : CopyOut(at, len)[i] = buffer[at + i - 1]
<1>1. BUF_SIZE \in Nat /\ buffer \in [Cells -> Nat]
  BY BufSizeAssumption DEF TypeOK
<1>2. CopyOut(at, len) \in [1..len -> Nat]
  BY <1>1 DEF CopyOut, Cells
<1>3. CopyOut(at, len) \in Seq(Nat) /\ Len(CopyOut(at, len)) = len
  BY <1>2, FunctionIsSeq
<1> QED
  BY <1>3 DEF CopyOut

\* A read, in one piece or in two, returns the front of what is waiting.
LEMMA ReadCopies ==
  ASSUME TypeOK, RingInv, NEW len \in Nat
  PROVE  Copied(len) = SubSeq(Contents, 1, BytesOut(len))
<1> DEFINE k == BytesOut(len)
           front == SubSeq(Contents, 1, k)
<1>1. /\ Contents \in Seq(Nat) /\ Len(Contents) = count
      /\ \A i \in 1..count : Contents[i] = buffer[Around(rd + i - 1)]
  BY ContentsIsSeq
<1>2. /\ BUF_SIZE \in Nat
      /\ count \in Nat /\ count <= BUF_SIZE
      /\ k \in Nat /\ k <= count
      /\ rd \in Nat /\ rd < BUF_SIZE
      /\ ReadWraps(len) <=> rd + k > BUF_SIZE
  <2>1. /\ k \in Nat /\ k <= count
        /\ ReadWraps(len) <=> rd + k > BUF_SIZE
    BY ReadNumbers
  <2> QED
    BY <2>1, BufSizeAssumption DEF TypeOK, RingInv, Cells
<1> HIDE DEF k
<1>3. /\ front \in Seq(Nat) /\ Len(front) = k
      /\ \A i \in 1..k : front[i] = buffer[Around(rd + i - 1)]
  <2>1. \A i \in 1..k : Contents[i] \in Nat
    BY <1>1, <1>2, ElementOfSeq
  <2>2. /\ front \in Seq(Nat) /\ Len(front) = k
        /\ \A i \in 1..k : front[i] = Contents[1 + i - 1]
    BY <2>1, <1>2, SubSeqProperties
  <2>3. ASSUME NEW i \in 1..k
        PROVE  front[i] = buffer[Around(rd + i - 1)]
    <3>1. i \in 1..count /\ 1 + i - 1 = i
      BY <1>2
    <3>2. front[i] = Contents[i]
      BY <3>1, <2>2
    <3> QED
      BY <3>1, <3>2, <1>1
  <2> QED
    BY <2>2, <2>3
<1> HIDE DEF front
<1>4. CASE ReadWraps(len)
  <2> DEFINE first == BUF_SIZE - rd
             a == CopyOut(rd, first)
             b == CopyOut(0, k - first)
  <2>1. /\ first \in Nat /\ k - first \in Nat
        /\ rd + first = BUF_SIZE /\ 0 + (k - first) <= BUF_SIZE
    BY <1>2, <1>4
  <2>2. Copied(len) = a \o b
    BY <1>4 DEF Copied, FirstOut, k
  <2> HIDE DEF first
  <2>3. /\ a \in Seq(Nat) /\ Len(a) = first
        /\ \A i \in 1..first : a[i] = buffer[rd + i - 1]
    BY <2>1, <1>2, CopyOutIsSeq
  <2>4. /\ b \in Seq(Nat) /\ Len(b) = k - first
        /\ \A i \in 1..(k - first) : b[i] = buffer[i - 1]
    <3>1. \A i \in 1..(k - first) : 0 + i - 1 = i - 1
      BY <2>1
    <3>2. /\ b \in Seq(Nat) /\ Len(b) = k - first
          /\ \A i \in 1..(k - first) : b[i] = buffer[0 + i - 1]
      BY <2>1, CopyOutIsSeq
    <3> QED  BY <3>1, <3>2
  <2> HIDE DEF a, b
  <2>5. /\ a \o b \in Seq(Nat) /\ Len(a \o b) = k
        /\ \A i \in 1..k : (a \o b)[i] = IF i <= first THEN a[i]
                                                  ELSE b[i - first]
    <3>1. /\ a \o b \in Seq(Nat) /\ Len(a \o b) = Len(a) + Len(b)
          /\ \A i \in 1..(Len(a) + Len(b)) :
               (a \o b)[i] = IF i <= Len(a) THEN a[i] ELSE b[i - Len(a)]
      BY <2>3, <2>4, ConcatProperties
    <3>2. Len(a) = first /\ Len(a) + Len(b) = k
      BY <2>1, <2>3, <2>4, <1>2
    <3> QED  BY <3>1, <3>2
  <2>6. ASSUME NEW i \in 1..k
        PROVE  (a \o b)[i] = front[i]
    <3>1. CASE i <= first
      <4>1. a[i] = buffer[rd + i - 1] /\ Around(rd + i - 1) = rd + i - 1
        BY <3>1, <2>1, <2>3, <1>2 DEF Around
      <4> QED  BY <4>1, <3>1, <2>5, <1>3
    <3>2. CASE ~(i <= first)
      <4>1. i - first \in 1..(k - first)
        BY <3>2, <2>1, <1>2
      <4>2. b[i - first] = buffer[(i - first) - 1]
        BY <4>1, <2>4
      <4>3. Around(rd + i - 1) = (i - first) - 1
        BY <3>2, <2>1, <1>2 DEF Around
      <4> QED  BY <4>2, <4>3, <3>2, <2>5, <1>3
    <3> QED  BY <3>1, <3>2
  <2>7. a \o b = front
    BY <2>5, <2>6, <1>3, SeqEqual
  <2> QED
    BY <2>2, <2>7 DEF front, k
<1>5. CASE ~ReadWraps(len)
  <2>1. Copied(len) = CopyOut(rd, k)
    BY <1>5 DEF Copied, k
  <2>2. /\ CopyOut(rd, k) \in Seq(Nat) /\ Len(CopyOut(rd, k)) = k
        /\ \A i \in 1..k : CopyOut(rd, k)[i] = buffer[rd + i - 1]
    BY <1>2, <1>5, CopyOutIsSeq
  <2>3. ASSUME NEW i \in 1..k
        PROVE  Around(rd + i - 1) = rd + i - 1
    BY <1>2, <1>5 DEF Around
  <2>4. ASSUME NEW i \in 1..k
        PROVE  CopyOut(rd, k)[i] = front[i]
    BY <2>2, <2>3, <1>3
  <2>5. CopyOut(rd, k) = front
    BY <2>2, <2>4, <1>3, SeqEqual
  <2> QED
    BY <2>1, <2>5 DEF front, k
<1> QED
  BY <1>4, <1>5 DEF k

LEMMA ReadType ==
  ASSUME TypeOK, RingInv, read_return
  PROVE  TypeOK' /\ RingInv'
<1>1. reading \in Nat /\ reading > 0
  BY BoundsAssumption DEF TypeOK, read_return
<1>2. /\ BytesOut(reading) \in Nat /\ BytesOut(reading) <= count
      /\ NextRd(reading) \in Cells
      /\ wr = (NextRd(reading) + (count - BytesOut(reading))) % BUF_SIZE
  BY <1>1, ReadNumbers
<1>3. count \in Nat /\ count <= BUF_SIZE /\ BUF_SIZE \in Nat
  BY BufSizeAssumption DEF TypeOK, RingInv
<1>4. /\ rd' = NextRd(reading)
      /\ count' = count - BytesOut(reading)
      /\ out' = out \o Copied(reading)
      /\ reading' = 0
      /\ UNCHANGED <<buffer, wr, dropped, arrived, kept, atBoot>>
  BY DEF read_return
<1>5. count' \in Nat /\ count' <= BUF_SIZE /\ rd' \in Cells
      /\ wr' = (rd' + count') % BUF_SIZE
  BY <1>2, <1>3, <1>4
<1>6. out' \in Seq(Nat)
  <2>1. Contents \in Seq(Nat) /\ Len(Contents) = count
    BY ContentsIsSeq
  <2>2. \A i \in 1..BytesOut(reading) : Contents[i] \in Nat
    BY <2>1, <1>2, <1>3, ElementOfSeq
  <2>3. Copied(reading) \in Seq(Nat)
    <3>1. SubSeq(Contents, 1, BytesOut(reading)) \in Seq(Nat)
      BY <2>2, <1>2, SubSeqProperties
    <3> QED
      BY <3>1, <1>1, ReadCopies
  <2>4. out \in Seq(Nat)
    BY DEF TypeOK
  <2> QED
    BY <2>3, <2>4, <1>4, ConcatProperties
<1>7. 0 \in 0..MaxRead
  BY BoundsAssumption
<1> QED
  BY <1>4, <1>5, <1>6, <1>7 DEF TypeOK, RingInv

LEMMA ReadContents ==
  ASSUME TypeOK, RingInv, read_return
  PROVE  LET k == BytesOut(reading) IN
         /\ k \in 0..Len(Contents)
         /\ Copied(reading) = SubSeq(Contents, 1, k)
         /\ Contents' = SubSeq(Contents, k + 1, Len(Contents))
         /\ Copied(reading) \o Contents' = Contents
<1> DEFINE k == BytesOut(reading)
           rest == SubSeq(Contents, k + 1, count)
<1>1. reading \in Nat
  BY BoundsAssumption DEF TypeOK
<1>2. /\ BUF_SIZE \in Nat /\ count \in Nat /\ count <= BUF_SIZE
      /\ rd \in Nat /\ rd < BUF_SIZE
  BY BufSizeAssumption DEF TypeOK, RingInv, Cells
<1>3. k \in Nat /\ k <= count /\ NextRd(reading) = Around(rd + k)
  BY <1>1, ReadNumbers
<1>4. /\ Contents \in Seq(Nat) /\ Len(Contents) = count
      /\ \A i \in 1..count : Contents[i] = buffer[Around(rd + i - 1)]
  BY ContentsIsSeq
<1>5. Copied(reading) = SubSeq(Contents, 1, k)
  BY <1>1, ReadCopies
<1>6. /\ rd' = Around(rd + k) /\ count' = count - k /\ buffer' = buffer
  BY <1>3 DEF read_return
<1> HIDE DEF k
<1>7. /\ Contents' \in Seq(Nat) /\ Len(Contents') = count - k
      /\ \A i \in 1..(count - k) : Contents'[i] = buffer[Around(rd' + i - 1)]
  <2>1. TypeOK' /\ RingInv'
    BY ReadType
  <2>2. /\ buffer' \in [Cells -> Nat] /\ rd' \in Cells
        /\ count' \in Nat /\ count' <= BUF_SIZE
    BY <2>1 DEF TypeOK, RingInv
  <2>3. Contents' = Waiting(buffer', rd', count')
    BY DEF Contents, Waiting
  <2>4. /\ Contents' \in Seq(Nat) /\ Len(Contents') = count'
        /\ \A i \in 1..count' : Contents'[i] = buffer'[Around(rd' + i - 1)]
    BY <2>2, <2>3, WaitingIsSeq
  <2> QED
    BY <2>4, <1>6
<1>8. /\ rest \in Seq(Nat) /\ Len(rest) = count - k
      /\ \A i \in 1..(count - k) : rest[i] = Contents[k + i]
  <2>1. \A i \in (k + 1)..count : Contents[i] \in Nat
    BY <1>2, <1>3, <1>4, ElementOfSeq
  <2>2. /\ rest \in Seq(Nat)
        /\ Len(rest) = IF k + 1 <= count THEN count - (k + 1) + 1 ELSE 0
        /\ \A i \in 1..(count - (k + 1) + 1) : rest[i] = Contents[k + 1 + i - 1]
    BY <2>1, <1>2, <1>3, SubSeqProperties
  <2>3. count - (k + 1) + 1 = count - k /\ \A i \in Int : k + 1 + i - 1 = k + i
    BY <1>2, <1>3
  <2> QED
    BY <2>2, <2>3, <1>2, <1>3
<1> HIDE DEF rest
<1>9. ASSUME NEW i \in 1..(count - k)
      PROVE  Contents'[i] = rest[i]
  <2>1. k + i \in 1..count
    BY <1>2, <1>3
  <2>2. Contents[k + i] = buffer[Around(rd + (k + i) - 1)]
    BY <2>1, <1>4
  <2>3. Around(rd' + i - 1) = Around(rd + (k + i) - 1)
    BY <1>2, <1>3, <1>6 DEF Around
  <2> QED
    BY <2>2, <2>3, <1>7, <1>8
<1>10. Contents' = rest
  BY <1>7, <1>8, <1>9, SeqEqual
<1>11. Copied(reading) \o Contents' = Contents
  <2>1. SubSeq(Contents, 1, k) \o rest = SubSeq(Contents, 1, count)
    <3>1. 1 \in 1..(Len(Contents) + 1) /\ k \in (1 - 1)..Len(Contents)
          /\ count \in k..Len(Contents)
      BY <1>2, <1>3, <1>4
    <3> QED
      BY <3>1, <1>4, ConcatAdjacentSubSeq DEF rest
  <2> QED
    BY <2>1, <1>4, <1>5, <1>10, SubSeqFull
<1>12. k \in 0..Len(Contents) /\ Contents' = SubSeq(Contents, k + 1, Len(Contents))
  <2>1. k \in 0..Len(Contents)
    BY <1>2, <1>3, <1>4
  <2> QED
    BY <2>1, <1>4, <1>10 DEF rest
<1> QED
  BY <1>5, <1>11, <1>12 DEF k
-----------------------------------------------------------------------------
(***************************************************************************)
(* The inductive invariant.  TypeOK alone is not inductive: that the write *)
(* index stays in the array rests on RingInv.                              *)
(***************************************************************************)
IndInv == TypeOK /\ RingInv /\ InOrder

LEMMA InitIndInv == Init => IndInv
<1> SUFFICES ASSUME Init PROVE IndInv
  OBVIOUS
<1>1. /\ buffer = [c \in Cells |-> 0]
      /\ count = 0 /\ wr = 0 /\ rd = 0 /\ reading = 0 /\ arrived = 0
      /\ kept = <<>> /\ out = <<>>
      /\ dropped \in DroppedAtBoot /\ atBoot = dropped
  BY DEF Init
<1>2. TypeOK
  <2>1. 0 \in Cells
    BY BufSizeAssumption DEF Cells
  <2>2. buffer \in [Cells -> Nat]
    BY <1>1
  <2>3. dropped \in 0..(DroppedModulus - 1) /\ 0 \in 0..MaxRead
    BY <1>1, BoundsAssumption
  <2>4. kept \in Seq(Nat) /\ out \in Seq(Nat)
    BY <1>1, EmptySeq
  <2> QED
    BY <2>1, <2>2, <2>3, <2>4, <1>1 DEF TypeOK
<1>3. RingInv
  BY <1>1, BufSizeAssumption, ModBelow DEF RingInv
<1>4. InOrder
  <2>1. Contents \in Seq(Nat) /\ Len(Contents) = 0
    BY <1>1, <1>2, <1>3, ContentsIsSeq
  <2>2. Contents = <<>>
    BY <2>1, EmptySeq
  <2> QED
    BY <1>1, <2>2, EmptySeq, ConcatEmptySeq DEF InOrder
<1> QED
  BY <1>2, <1>3, <1>4 DEF IndInv

LEMMA NextIndInv == IndInv /\ [Next]_vars => IndInv'
<1> SUFFICES ASSUME TypeOK, RingInv, InOrder, [Next]_vars
             PROVE  TypeOK' /\ RingInv' /\ InOrder'
  BY DEF IndInv
<1>1. ASSUME NEW n \in 1..MaxSegment, tcp_client_recv(n)
      PROVE  TypeOK' /\ RingInv' /\ InOrder'
  <2>1. TypeOK' /\ RingInv'
    BY <1>1, ArriveType
  <2>2. Contents' = Contents \o Fresh(n)
    BY <1>1, ArriveContents
  <2>3. out' = out /\ kept' = kept \o Fresh(n)
    BY <1>1 DEF tcp_client_recv, Fresh
  <2>4. n \in Nat
    BY BoundsAssumption
  <2>5. out \in Seq(Nat) /\ Contents \in Seq(Nat) /\ Fresh(n) \in Seq(Nat)
    BY <2>4, ContentsIsSeq, FreshIsSeq DEF TypeOK
  <2>6. (out \o Contents) \o Fresh(n) = out \o (Contents \o Fresh(n))
    BY <2>5, ConcatAssociative
  <2> QED
    BY <2>1, <2>2, <2>3, <2>6 DEF InOrder
<1>2. ASSUME NEW len \in 1..MaxRead, read_call(len)
      PROVE  TypeOK' /\ RingInv' /\ InOrder'
  <2>1. len \in 0..MaxRead
    BY BoundsAssumption
  <2>2. UNCHANGED <<buffer, count, wr, rd, dropped, arrived, kept, out, atBoot>>
        /\ reading' = len
    BY <1>2 DEF read_call, historyVars
  <2>3. Contents' = Contents
    BY <2>2 DEF Contents
  <2> QED
    BY <2>1, <2>2, <2>3 DEF TypeOK, RingInv, InOrder
<1>3. ASSUME read_return
      PROVE  TypeOK' /\ RingInv' /\ InOrder'
  <2>1. TypeOK' /\ RingInv'
    BY <1>3, ReadType
  <2>2. Copied(reading) \o Contents' = Contents
    BY <1>3, ReadContents
  <2>3. out' = out \o Copied(reading) /\ kept' = kept
    BY <1>3 DEF read_return
  <2>4. out \in Seq(Nat) /\ Copied(reading) \in Seq(Nat) /\ Contents' \in Seq(Nat)
    <3>1. /\ BytesOut(reading) \in Int /\ Contents \in Seq(Nat)
          /\ \A i \in 1..BytesOut(reading) : Contents[i] \in Nat
      BY <1>3, ReadContents, ContentsIsSeq, ElementOfSeq
    <3>2. /\ Copied(reading) = SubSeq(Contents, 1, BytesOut(reading))
          /\ Contents' = SubSeq(Contents, BytesOut(reading) + 1, Len(Contents))
      BY <1>3, ReadContents
    <3>3. \A i \in (BytesOut(reading) + 1)..Len(Contents) : Contents[i] \in Nat
      BY <3>1, <1>3, ReadContents, ElementOfSeq, LenProperties
    <3> QED
      BY <3>1, <3>2, <3>3, SubSeqProperties, LenProperties DEF TypeOK
  <2>5. (out \o Copied(reading)) \o Contents' = out \o (Copied(reading) \o Contents')
    BY <2>4, ConcatAssociative
  <2> QED
    BY <2>1, <2>2, <2>3, <2>5 DEF InOrder
<1>4. CASE UNCHANGED vars
  <2>1. UNCHANGED <<buffer, count, wr, rd, dropped, reading,
                    arrived, kept, out, atBoot>>
    BY <1>4 DEF vars, ringVars, historyVars
  <2>2. Contents' = Contents
    BY <2>1 DEF Contents
  <2> QED
    BY <2>1, <2>2 DEF TypeOK, RingInv, InOrder
<1> QED
  BY <1>1, <1>2, <1>3, <1>4 DEF Next

(***************************************************************************)
(* The indices and the array keep their types: for every size of the ring  *)
(* no index leaves the array and the count never goes below zero.          *)
(***************************************************************************)
THEOREM TypeCorrect == Spec => []TypeOK
<1>1. IndInv => TypeOK
  BY DEF IndInv
<1> QED
  BY <1>1, InitIndInv, NextIndInv, PTL DEF Spec

(***************************************************************************)
(* The write index is always count cells after the read index, and the     *)
(* ring is never overfull.                                                 *)
(***************************************************************************)
THEOREM RingCorrect == Spec => []RingInv
<1>1. IndInv => RingInv
  BY DEF IndInv
<1> QED
  BY <1>1, InitIndInv, NextIndInv, PTL DEF Spec

(***************************************************************************)
(* IPStack::read returns the bytes that tcp_client_recv kept, in their     *)
(* order, each one once.                                                   *)
(***************************************************************************)
THEOREM ReadsInOrder == Spec => []InOrder
<1>1. IndInv => InOrder
  BY DEF IndInv
<1> QED
  BY <1>1, InitIndInv, NextIndInv, PTL DEF Spec

(***************************************************************************)
(* No copy of tcp_client_recv or of IPStack::read leaves the array.        *)
(***************************************************************************)
THEOREM NoOverrun == Spec => []CopiesInBounds
<1>1. IndInv => CopiesInBounds
  <2> SUFFICES ASSUME TypeOK, RingInv PROVE CopiesInBounds
    BY DEF IndInv
  <2>1. /\ BUF_SIZE \in Nat /\ count \in Nat /\ count <= BUF_SIZE
        /\ wr \in Nat /\ wr < BUF_SIZE /\ rd \in Nat /\ rd < BUF_SIZE
    BY BufSizeAssumption DEF TypeOK, RingInv, Cells
  <2>2. ASSUME NEW n \in 1..MaxSegment
        PROVE  /\ wr + FirstCopy(n) <= BUF_SIZE
               /\ RestCopy(n) >= 0
               /\ RestAt(n) + RestCopy(n) <= BUF_SIZE
               /\ count + BytesToCopy(n) <= BUF_SIZE
    <3>1. n \in Nat
      BY BoundsAssumption
    <3>2. CASE Wraps(n)
      BY <3>1, <3>2, <2>1, ArriveNumbers
    <3>3. CASE ~Wraps(n)
      BY <3>1, <3>3, <2>1, ArriveNumbers
    <3> QED  BY <3>2, <3>3
  <2>3. ASSUME NEW n \in 1..MaxRead
        PROVE  IF ReadWraps(n) THEN BytesOut(n) - FirstOut(n) \in 1..rd
                               ELSE rd + BytesOut(n) <= BUF_SIZE
    <3>1. n \in Nat
      BY BoundsAssumption
    <3>2. /\ BytesOut(n) \in Nat /\ BytesOut(n) <= count
          /\ ReadWraps(n) <=> rd + BytesOut(n) > BUF_SIZE
      BY <3>1, ReadNumbers
    <3>3. ReadWraps(n) => FirstOut(n) = BUF_SIZE - rd
      BY DEF FirstOut
    <3> QED
      BY <3>2, <3>3, <2>1
  <2> QED
    BY <2>2, <2>3 DEF CopiesInBounds
<1> QED
  BY <1>1, InitIndInv, NextIndInv, PTL DEF Spec
-----------------------------------------------------------------------------
(***************************************************************************)
(* The refinement: an arrival is one Arrive of the abstract stream, a read *)
(* that finds bytes is one Take, and everything else stutters.             *)
(***************************************************************************)
LEMMA ArriveRefines ==
  ASSUME TypeOK, RingInv, NEW n \in 1..MaxSegment, tcp_client_recv(n)
  PROVE  \E m \in 1..MaxArrivals : Stream!Arrive(m)
<1>1. n \in Nat /\ n > 0 /\ arrived \in Nat /\ arrived + n <= MaxArrivals
  BY BoundsAssumption DEF TypeOK, tcp_client_recv
<1>2. n \in 1..MaxArrivals
  BY <1>1, BoundsAssumption
<1>3. /\ arrived' = arrived + n /\ out' = out
      /\ Contents' = Contents \o Fresh(n)
  BY ArriveContents DEF tcp_client_recv
<1>4. Len(Contents) = count /\ count \in Nat /\ count <= BUF_SIZE /\ BUF_SIZE \in Nat
  BY ContentsIsSeq, BufSizeAssumption DEF TypeOK, RingInv
<1>5. BytesToCopy(n) = IF n <= BUF_SIZE - Len(Contents) THEN n
                       ELSE BUF_SIZE - Len(Contents)
  BY <1>1, <1>4 DEF BytesToCopy, Smaller
<1>6. Fresh(n) = Stream!Positions(arrived, BytesToCopy(n))
  BY DEF Fresh, Stream!Positions
<1>7. Stream!Arrive(n)
  BY <1>1, <1>3, <1>5, <1>6 DEF Stream!Arrive
<1> QED
  BY <1>2, <1>7

LEMMA ReadRefines ==
  ASSUME TypeOK, RingInv, read_return
  PROVE  \/ \E m \in 1..Len(Contents) : Stream!Take(m)
         \/ UNCHANGED <<Contents, out, arrived>>
<1> DEFINE k == BytesOut(reading)
<1>1. /\ k \in 0..Len(Contents)
      /\ out' = out \o SubSeq(Contents, 1, k)
      /\ Contents' = SubSeq(Contents, k + 1, Len(Contents))
      /\ arrived' = arrived
  BY ReadContents DEF read_return
<1>2. Contents \in Seq(Nat) /\ out \in Seq(Nat) /\ Len(Contents) \in Nat
  BY ContentsIsSeq DEF TypeOK
<1> HIDE DEF k
<1>3. CASE k = 0
  <2>1. SubSeq(Contents, 1, 0) = <<>>
    BY SubSeqEmpty
  <2>2. SubSeq(Contents, 0 + 1, Len(Contents)) = Contents
    BY <1>2, SubSeqFull
  <2>3. out' = out
    BY <1>1, <1>2, <1>3, <2>1, ConcatEmptySeq
  <2> QED
    BY <1>1, <1>3, <2>2, <2>3
<1>4. CASE k > 0
  <2>1. k \in 1..Len(Contents)
    BY <1>1, <1>2, <1>4
  <2>2. Stream!Take(k)
    BY <1>1 DEF Stream!Take
  <2> QED
    BY <2>1, <2>2
<1> QED
  BY <1>1, <1>2, <1>3, <1>4

(***************************************************************************)
(* IPStack's receive ring implements the abstract byte stream: whatever    *)
(* its size, what a caller of IPStack::read sees is a stream in which only *)
(* the tails of segments that found the ring full are missing.             *)
(***************************************************************************)
THEOREM RingImplementsStream == Spec => ImplementsStream
<1>1. Init => Stream!Init
  <2> SUFFICES ASSUME Init PROVE Stream!Init
    OBVIOUS
  <2>1. TypeOK /\ RingInv /\ count = 0 /\ out = <<>> /\ arrived = 0
    BY InitIndInv DEF IndInv, Init
  <2>2. Contents = <<>>
    BY <2>1, ContentsIsSeq, EmptySeq
  <2> QED
    BY <2>1, <2>2 DEF Stream!Init
<1>2. IndInv /\ [Next]_vars => [Stream!Next]_(Stream!streamVars)
  <2> SUFFICES ASSUME TypeOK, RingInv, [Next]_vars
               PROVE  Stream!Next \/ UNCHANGED <<Contents, out, arrived>>
    BY DEF IndInv, Stream!streamVars
  <2>1. ASSUME NEW n \in 1..MaxSegment, tcp_client_recv(n)
        PROVE  Stream!Next
    BY <2>1, ArriveRefines DEF Stream!Next
  <2>2. ASSUME NEW len \in 1..MaxRead, read_call(len)
        PROVE  UNCHANGED <<Contents, out, arrived>>
    BY <2>2 DEF read_call, historyVars, Contents
  <2>3. ASSUME read_return
        PROVE  Stream!Next \/ UNCHANGED <<Contents, out, arrived>>
    BY <2>3, ReadRefines DEF Stream!Next
  <2>4. CASE UNCHANGED vars
    BY <2>4 DEF vars, ringVars, historyVars, Contents
  <2> QED
    BY <2>1, <2>2, <2>3, <2>4 DEF Next
<1> QED
  BY <1>1, <1>2, InitIndInv, NextIndInv, PTL
     DEF Spec, ImplementsStream, Stream!Spec
-----------------------------------------------------------------------------
(***************************************************************************)
(* The dropped counter.  It wraps, so the invariant behind LossAccounted   *)
(* is that it differs from the loss by a multiple of its modulus.          *)
(***************************************************************************)
LEMMA DivMod ==
  ASSUME NEW M \in Nat, M > 0, NEW x \in Int
  PROVE  /\ x \div M \in Int /\ x % M \in Int /\ 0 <= x % M /\ x % M < M
         /\ x = M * (x \div M) + (x % M)
  BY SMT

LEMMA ModOfSum ==
  ASSUME NEW M \in Nat, M > 0, NEW q \in Int, NEW r \in Int, 0 <= r, r < M
  PROVE  (M * q + r) % M = r
  BY SMT

LEMMA ModShift ==
  ASSUME NEW M \in Nat, M > 0, NEW x \in Int, NEW q \in Int
  PROVE  (x + M * q) % M = x % M
<1> DEFINE d == x \div M
           r == x % M
<1>1. d \in Int /\ r \in Int /\ 0 <= r /\ r < M /\ x = M * d + r
  BY DivMod
<1> HIDE DEF d, r
<1>2. x + M * q = M * (d + q) + r
  BY <1>1
<1>3. d + q \in Int
  BY <1>1
<1>4. (M * (d + q) + r) % M = r
  BY <1>1, <1>3, ModOfSum
<1> QED
  BY <1>2, <1>4 DEF r

Loss == \E q \in Int :
          dropped - atBoot = (arrived - Len(kept)) + DroppedModulus * q

LEMMA LossNext == IndInv /\ Loss /\ [Next]_vars => Loss'
<1> SUFFICES ASSUME TypeOK, RingInv, Loss, [Next]_vars PROVE Loss'
  BY DEF IndInv
<1> DEFINE M == DroppedModulus
<1>1. PICK q \in Int : dropped - atBoot = (arrived - Len(kept)) + M * q
  BY DEF Loss
<1>2. /\ M \in Nat /\ M > 0 /\ dropped \in Int /\ atBoot \in Int
      /\ arrived \in Int /\ Len(kept) \in Int /\ kept \in Seq(Nat)
  BY BoundsAssumption, LenProperties DEF TypeOK
<1> HIDE DEF M
<1>3. ASSUME NEW n \in 1..MaxSegment, tcp_client_recv(n)
      PROVE  Loss'
  <2> DEFINE k == BytesToCopy(n)
  <2>1. n \in Int /\ k \in Int /\ k <= n
    BY BoundsAssumption, ArriveNumbers
  <2>2. /\ kept' = kept \o Fresh(n) /\ arrived' = arrived + n
        /\ atBoot' = atBoot
        /\ dropped' = IF k < n THEN (dropped + (n - k)) % M ELSE dropped
    BY <1>3 DEF tcp_client_recv, Fresh, DroppedBy, M
  <2>3. Len(kept') = Len(kept) + k
    <3>1. Fresh(n) \in Seq(Nat) /\ Len(Fresh(n)) = k
      BY <2>1, BoundsAssumption, FreshIsSeq
    <3> QED
      BY <3>1, <2>2, <1>2, ConcatProperties
  <2> HIDE DEF k
  <2>4. CASE k < n
    <3> DEFINE x == dropped + (n - k)
               d == x \div M
    <3>1. x \in Int
      BY <1>2, <2>1
    <3>2. d \in Int /\ x % M = x - M * d
      <4> HIDE DEF x
      <4>1. d \in Int /\ x % M \in Int /\ x = M * d + (x % M)
        BY <3>1, <1>2, DivMod
      <4> HIDE DEF d
      <4> QED  BY <4>1, <3>1, <1>2
    <3>3. dropped' = x - M * d
      BY <2>2, <2>4, <3>2
    <3> HIDE DEF d
    <3> DEFINE mq == M * q
               md == M * d
    <3>4. mq \in Int /\ md \in Int /\ M * (q - d) = mq - md /\ q - d \in Int
      BY <1>2, <3>2
    <3>5. dropped - atBoot = (arrived - Len(kept)) + mq /\ dropped' = x - md
      BY <1>1, <3>3
    <3> HIDE DEF mq, md
    <3>6. dropped' - atBoot' = (arrived' - Len(kept')) + (mq - md)
      <4>1. /\ arrived' = arrived + n /\ atBoot' = atBoot
            /\ Len(kept') = Len(kept) + k
        BY <2>2, <2>3
      <4> QED
        BY <4>1, <1>2, <2>1, <3>4, <3>5
    <3> QED  BY <3>4, <3>6 DEF Loss, M
  <2>5. CASE ~(k < n)
    <3> DEFINE mq == M * q
    <3>1. mq \in Int /\ dropped - atBoot = (arrived - Len(kept)) + mq
      BY <1>1, <1>2
    <3> HIDE DEF mq
    <3>2. /\ arrived' = arrived + n /\ atBoot' = atBoot /\ dropped' = dropped
          /\ Len(kept') = Len(kept) + n
      <4>1. k = n
        BY <2>1, <2>5
      <4>2. dropped' = dropped
        BY <2>2, <2>5, Zenon
      <4> QED
        BY <4>1, <4>2, <2>2, <2>3
    <3>3. dropped' - atBoot' = (arrived' - Len(kept')) + mq
      BY <3>1, <3>2, <1>2, <2>1
    <3> QED  BY <3>3 DEF Loss, M, mq
  <2> QED  BY <2>4, <2>5
<1>4. CASE \/ \E len \in 1..MaxRead : read_call(len)
           \/ read_return
           \/ UNCHANGED vars
  <2>1. UNCHANGED <<dropped, atBoot, arrived, kept>>
    BY <1>4 DEF read_call, read_return, vars, ringVars, historyVars
  <2> QED  BY <1>1, <2>1 DEF Loss, M
<1> QED
  BY <1>3, <1>4 DEF Next

(***************************************************************************)
(* The dropped counter accounts for every byte of the stream that was not  *)
(* kept, whatever it held at boot and however often it wrapped.            *)
(***************************************************************************)
THEOREM DropsAccounted == Spec => []LossAccounted
<1>1. Init => Loss
  <2> SUFFICES ASSUME Init PROVE Loss
    OBVIOUS
  <2>1. dropped \in Int /\ atBoot = dropped /\ arrived = 0 /\ kept = <<>>
    BY BoundsAssumption DEF Init
  <2>2. dropped - atBoot = (arrived - Len(kept)) + DroppedModulus * 0
    BY <2>1, EmptySeq, BoundsAssumption
  <2> QED  BY <2>2 DEF Loss
<1>2. IndInv /\ Loss => LossAccounted
  <2> SUFFICES ASSUME TypeOK, Loss PROVE LossAccounted
    BY DEF IndInv
  <2>1. PICK q \in Int :
          dropped - atBoot = (arrived - Len(kept)) + DroppedModulus * q
    BY DEF Loss
  <2>2. arrived - Len(kept) \in Int
    BY LenProperties DEF TypeOK
  <2>3. ((arrived - Len(kept)) + DroppedModulus * q) % DroppedModulus
          = (arrived - Len(kept)) % DroppedModulus
    <3>1. DroppedModulus \in Nat /\ DroppedModulus > 0
      BY BoundsAssumption
    <3> QED
      BY <3>1, <2>2, ModShift
  <2> QED
    BY <2>1, <2>3 DEF LossAccounted
<1> QED
  BY <1>1, <1>2, InitIndInv, NextIndInv, LossNext, PTL DEF Spec
=============================================================================
