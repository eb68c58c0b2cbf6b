----------------------------- MODULE RingBuffer -----------------------------
(***************************************************************************)
(* The class RingBuffer: a circular queue with one cell always left free,  *)
(* shared by one producer, which moves head, and one consumer, which moves *)
(* tail.  A ring is a record; its methods are split into the accesses to   *)
(* shared memory that an interrupt can come between.                       *)
(***************************************************************************)
EXTENDS Integers, Sequences

\* RingBuffer(size): every cell of a std::vector<uint8_t> starts as 0.
NewRing(size) == [head |-> 0, tail |-> 0, buffer |-> [c \in 0..(size - 1) |-> 0]]

empty(r) == r.head = r.tail

\* slip: forgets the cell that tells a full ring from an empty one
full_NoFreeCell(r, size) == FALSE
full(r, size) == (r.head + 1) % size = r.tail

\* put, first half: the value goes into a cell the consumer cannot see yet
store(r, data) == [r EXCEPT !.buffer = [@ EXCEPT ![r.head] = data]]

\* put, second half: head = nh makes it visible
publish(r, size) == [r EXCEPT !.head = (r.head + 1) % size]

\* get, first half: the value, which is stale when the ring is empty
peek(r) == r.buffer[r.tail]

\* slip: the index runs on past the end
drop_NoModulo(r, size) == IF empty(r) THEN r ELSE [r EXCEPT !.tail = r.tail + 1]
\* get, second half: the cell is given back to the producer
drop(r, size) == IF empty(r) THEN r ELSE [r EXCEPT !.tail = (r.tail + 1) % size]

\* How many bytes are waiting, and which, from the oldest on.
used(r, size) == (r.head - r.tail) % size
waiting(r, size) == [i \in 1..used(r, size) |-> r.buffer[(r.tail + i - 1) % size]]
=============================================================================
