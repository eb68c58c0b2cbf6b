----------------------------- MODULE ByteStream -----------------------------
(***************************************************************************)
(* What a receive buffer in front of a byte stream promises its reader.    *)
(*                                                                         *)
(* Bytes arrive in segments.  A segment is kept up to the free capacity    *)
(* and the rest of it, its tail, is lost.  A reader takes bytes from the   *)
(* front, in order, each one once.  Nothing else ever happens to a byte.   *)
(***************************************************************************)
EXTENDS Integers, Sequences

CONSTANTS Capacity,   \* the most bytes the buffer holds
          MaxArrivals \* bound on the length of the stream

VARIABLES queue,      \* the bytes kept and not yet read
          out,        \* everything handed to the reader so far
          arrived     \* how many bytes of the stream have arrived

streamVars == <<queue, out, arrived>>

\* The stream's bytes are known by their position: 1, 2, 3, ...
Positions(from, n) == [i \in 1..n |-> from + i]

Init == queue = <<>> /\ out = <<>> /\ arrived = 0

Arrive(n) ==
  LET kept == IF n <= Capacity - Len(queue) THEN n ELSE Capacity - Len(queue)
  IN  /\ arrived + n <= MaxArrivals
      /\ queue' = queue \o Positions(arrived, kept)
      /\ arrived' = arrived + n
      /\ UNCHANGED out

Take(n) ==
  /\ out' = out \o SubSeq(queue, 1, n)
  /\ queue' = SubSeq(queue, n + 1, Len(queue))
  /\ UNCHANGED arrived

Next == \/ \E n \in 1..MaxArrivals : Arrive(n)
        \/ \E n \in 1..Len(queue) : Take(n)

Spec == Init /\ [][Next]_streamVars
=============================================================================
