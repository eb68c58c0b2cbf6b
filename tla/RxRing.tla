------------------------------- MODULE RxRing -------------------------------
(***************************************************************************)
(* The receive ring of IPStack: tcp_client_recv, the lwIP callback that    *)
(* fills it, and IPStack::read, the only thing that empties it.            *)
(*                                                                         *)
(* Both run on the one thread of the program.  The callback runs inside    *)
(* cyw43_arch_poll, which read calls in a loop and main once per turn, so  *)
(* any number of segments may arrive before a read copies bytes out, and   *)
(* none while it copies.                                                   *)
(*                                                                         *)
(* The code never looks at a byte, so a byte is its position 1, 2, ... in  *)
(* the TCP stream, and 0 is what an unwritten cell of the array holds.     *)
(***************************************************************************)
EXTENDS Integers, Sequences

CONSTANTS BUF_SIZE,       \* cells of the ring (2048 in the code)
          MaxSegment,     \* the longest pbuf chain handed to the callback
          MaxRead,        \* the longest read (a packet, in the code)
          MaxArrivals,    \* bound on the bytes that arrive in a behaviour
          DroppedModulus, \* 2^width of the dropped counter (2^32)
          DroppedAtBoot   \* what the counter, never initialised, may hold

\* wr + bytes_to_copy is kept in a uint16_t, hence the upper bound.
ASSUME BufSizeAssumption == BUF_SIZE \in Nat /\ 1 <= BUF_SIZE /\ BUF_SIZE <= 32768

ASSUME BoundsAssumption == /\ MaxSegment \in Nat
                           /\ MaxRead \in Nat
                           /\ MaxArrivals \in Nat
                           /\ DroppedModulus \in Nat \ {0}
                           /\ DroppedAtBoot \subseteq 0..(DroppedModulus - 1)

VARIABLES buffer, count, wr, rd, \* the ring
          dropped,               \* the statistic of dropped bytes
          reading                \* the length asked of read, 0 outside it

\* What happened so far, for the properties only.
VARIABLES arrived, \* bytes TCP has handed over
          kept,    \* the bytes that went into the ring, in order
          out,     \* the bytes read has returned, in order
          atBoot   \* the value dropped started from

ringVars == <<buffer, count, wr, rd, dropped, reading>>
historyVars == <<arrived, kept, out, atBoot>>
vars == <<ringVars, historyVars>>

Cells == 0..(BUF_SIZE - 1)

\* uint16_t arithmetic
U16(x) == x % 65536

Smaller(a, b) == IF a < b THEN a ELSE b

Init ==
  /\ buffer = [c \in Cells |-> 0]
  /\ count = 0 /\ wr = 0 /\ rd = 0
  /\ dropped \in DroppedAtBoot
  /\ reading = 0
  /\ arrived = 0 /\ kept = <<>> /\ out = <<>> /\ atBoot = dropped

-----------------------------------------------------------------------------
(***************************************************************************)
(* tcp_client_recv: how a segment of tot_len bytes is laid out.  First the *)
(* part up to the end of the array, when it does not fit in one piece,     *)
(* then the rest, from where the write index then is.                      *)
(***************************************************************************)
\* slip: one byte more than there is room for
BytesToCopy_OneOver(tot_len) == Smaller(BUF_SIZE - count + 1, tot_len)
BytesToCopy(tot_len) == Smaller(BUF_SIZE - count, tot_len)

\* slip: the end of the array is not noticed
Wraps_Never(tot_len) == FALSE
Wraps(tot_len) == U16(wr + BytesToCopy(tot_len)) > BUF_SIZE

FirstCopy(tot_len) == IF Wraps(tot_len) THEN BUF_SIZE - wr ELSE 0

RestCopy(tot_len) == BytesToCopy(tot_len) - FirstCopy(tot_len)

\* slip: the write index is not reset after the first copy
RestAt_NotReset(tot_len) == wr
RestAt(tot_len) == IF FirstCopy(tot_len) > 0 THEN 0 ELSE wr

\* pbuf_copy_partial: len bytes of the segment, from offset on, to cell at on
CopyIn(buf, at, len, offset) ==
  [c \in Cells |-> IF c >= at /\ c < at + len
                   THEN arrived + offset + (c - at) + 1
                   ELSE buf[c]]

\* slip: the statistic is set, not added to
DroppedBy_Set(tot_len) == tot_len - BytesToCopy(tot_len)
DroppedBy(tot_len) ==
  IF BytesToCopy(tot_len) < tot_len
  THEN (dropped + (tot_len - BytesToCopy(tot_len))) % DroppedModulus
  ELSE dropped

\* slip: the first of two copies is not counted
CountAfter_RestOnly(tot_len) == count + RestCopy(tot_len)
CountAfter(tot_len) == count + FirstCopy(tot_len) + RestCopy(tot_len)

(***************************************************************************)
(* tcp_recved(tpcb, tot_len) opens the TCP window again by all that came,  *)
(* kept or not, so the peer may always send more: nothing but the bound    *)
(* MaxArrivals holds an arrival back, in particular not a full ring.       *)
(***************************************************************************)
tcp_client_recv(tot_len) ==
  LET n     == BytesToCopy(tot_len)
      first == FirstCopy(tot_len)
  IN  /\ arrived + tot_len <= MaxArrivals
      /\ dropped' = DroppedBy(tot_len)
      /\ buffer' = CopyIn(CopyIn(buffer, wr, first, 0),
                          RestAt(tot_len), RestCopy(tot_len), first)
      /\ wr' = (RestAt(tot_len) + RestCopy(tot_len)) % BUF_SIZE
      /\ count' = CountAfter(tot_len)
      /\ kept' = kept \o [i \in 1..n |-> arrived + i]
      /\ arrived' = arrived + tot_len
      /\ UNCHANGED <<rd, reading, out, atBoot>>

-----------------------------------------------------------------------------
(***************************************************************************)
(* IPStack::read(len).  It polls until len bytes are there or its time is  *)
(* up, which may be as soon as it has polled once, then copies what it can *)
(* in one step.                                                            *)
(***************************************************************************)
read_call(len) ==
  /\ reading = 0
  /\ reading' = len
  /\ UNCHANGED <<buffer, count, wr, rd, dropped, historyVars>>

\* std::memcpy of len bytes from cell at on
CopyOut(at, len) == [i \in 1..len |-> buffer[at + i - 1]]

\* The bytes that a read of len bytes copies, in one piece or in two.
BytesOut(len) == Smaller(count, len)

ReadWraps(len) == U16(rd + BytesOut(len)) > BUF_SIZE

FirstOut(len) == IF ReadWraps(len) THEN BUF_SIZE - rd ELSE 0

Copied(len) ==
  IF ReadWraps(len)
  THEN CopyOut(rd, FirstOut(len)) \o CopyOut(0, BytesOut(len) - FirstOut(len))
  ELSE CopyOut(rd, BytesOut(len))

\* slip: as after a read in one piece
NextRd_NoModulo(len) == rd + BytesOut(len)
NextRd(len) == IF ReadWraps(len)
               THEN BytesOut(len) - FirstOut(len)
               ELSE (rd + BytesOut(len)) % BUF_SIZE

read_return ==
  /\ reading > 0
  /\ rd' = NextRd(reading)
  /\ count' = count - BytesOut(reading)
  /\ out' = out \o Copied(reading)
  /\ reading' = 0
  /\ UNCHANGED <<buffer, wr, dropped, arrived, kept, atBoot>>

Next == \/ \E n \in 1..MaxSegment : tcp_client_recv(n)
        \/ \E len \in 1..MaxRead : read_call(len)
        \/ read_return

Spec == Init /\ [][Next]_vars

-----------------------------------------------------------------------------
TypeOK ==
  /\ buffer \in [Cells -> Nat]
  /\ count \in Nat /\ wr \in Cells /\ rd \in Cells
  /\ dropped \in 0..(DroppedModulus - 1)
  /\ reading \in 0..MaxRead
  /\ arrived \in Nat /\ kept \in Seq(Nat) /\ out \in Seq(Nat)
  /\ atBoot \in DroppedAtBoot

(***************************************************************************)
(* The three indices tell one story: the ring never holds more than it has *)
(* cells for, and the write index is count cells after the read index.     *)
(* Four places of the code move them, each by a rule of its own.           *)
(***************************************************************************)
RingInv == /\ count <= BUF_SIZE
           /\ wr = (rd + count) % BUF_SIZE

\* The bytes waiting in the ring, from the read index on.
Contents == [i \in 1..count |-> buffer[(rd + i - 1) % BUF_SIZE]]

(***************************************************************************)
(* What read has returned, followed by what is waiting, is what was kept   *)
(* of the stream: no byte is overwritten before it is read, read twice,    *)
(* skipped or put out of order, however copies and reads wrap around.      *)
(***************************************************************************)
InOrder == out \o Contents = kept

(***************************************************************************)
(* The dropped counter, wherever it started, accounts for every byte of    *)
(* the stream that tcp_client_recv did not keep.                           *)
(***************************************************************************)
LossAccounted ==
  (dropped - atBoot) % DroppedModulus
    = (arrived - Len(kept)) % DroppedModulus

(***************************************************************************)
(* Whatever segment comes or read is made next, each of the copies it does *)
(* stays inside the array, and the two halves together inside the free or  *)
(* the used part: pbuf_copy_partial and memcpy check nothing themselves.   *)
(***************************************************************************)
CopiesInBounds ==
  /\ \A n \in 1..MaxSegment : /\ wr + FirstCopy(n) <= BUF_SIZE
                              /\ RestCopy(n) >= 0
                              /\ RestAt(n) + RestCopy(n) <= BUF_SIZE
                              /\ count + BytesToCopy(n) <= BUF_SIZE
  /\ \A n \in 1..MaxRead :
       IF ReadWraps(n) THEN BytesOut(n) - FirstOut(n) \in 1..rd
                       ELSE rd + BytesOut(n) <= BUF_SIZE

(***************************************************************************)
(* The ring is a ByteStream: seen from IPStack's caller a segment is kept  *)
(* up to the free space and its tail is lost, never a byte in the middle   *)
(* of what follows, and reads take bytes from the front.                   *)
(***************************************************************************)
Stream == INSTANCE ByteStream WITH queue <- Contents, Capacity <- BUF_SIZE

ImplementsStream == Stream!Spec
=============================================================================
