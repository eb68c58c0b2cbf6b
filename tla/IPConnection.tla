----------------------------- MODULE IPConnection -----------------------------
(***************************************************************************)
(* The TCP connections of IPStack: connect, write and disconnect, and what *)
(* lwIP does with the pcb they share with it.  The callbacks run in        *)
(* cyw43_arch_poll, between the application's calls.  Bytes that arrive    *)
(* are RxRing's.                                                           *)
(*                                                                         *)
(* A connection is numbered by the call of connect that made its pcb, and  *)
(* a packet by the call of write that was given it.                        *)
(***************************************************************************)
EXTENDS Integers, Sequences

CONSTANTS
  MaxConnects, \* bound: calls of connect that make a pcb
  MaxWrites,   \* bound: calls of write
  Careful,     \* the application looks at what connect returns; main does not
  Resets,      \* the network may end a connection
  Again        \* the application may disconnect and connect again; main does not

ASSUME IPConnectionAssumption ==
  /\ MaxConnects \in Nat /\ MaxWrites \in Nat
  /\ Careful \in BOOLEAN /\ Resets \in BOOLEAN /\ Again \in BOOLEAN

NULL == 0
UNSET == -1 \* whatever the pointer's memory held, no pcb
Connections == 1..MaxConnects
Writes == 1..MaxWrites

VARIABLES
  tcp_pcb,   \* IPStack's pointer
  connected, \* IPStack's flag, which nothing reads
  calls,     \* of connect that made a pcb
  ready,     \* the application goes on to write
  pcb,       \* lwIP's state of each connection's pcb
  queue,     \* the packets in it
  got,       \* the packets the peer has had by it
  given,     \* the connection each write was meant for
  result,    \* and what it returned
  wild       \* a call has used a pcb that is not there

vars == <<tcp_pcb, connected, calls, ready, pcb, queue, got, given, result, wild>>
network == <<pcb, queue, got>>
writes == <<given, result>>

Written == "len"

\* The constructor leaves the pointer as it finds it.
Init ==
  /\ tcp_pcb \in {NULL, UNSET} /\ connected = FALSE /\ calls = 0 /\ ready = FALSE
  /\ pcb = [c \in Connections |-> "none"]
  /\ queue = [c \in Connections |-> <<>>] /\ got = [c \in Connections |-> <<>>]
  /\ given = <<>> /\ result = <<>>
  /\ wild = FALSE

Live(p) == p \in Connections /\ pcb[p] \in {"new", "connecting", "up"}

(***************************************************************************)
(* IPStack.                                                                *)
(***************************************************************************)
\* A name that needs DNS is refused with the pointer as it was.  When tcp_new has
\* no pcb, the pointer is null; when tcp_connect fails, the new pcb stays.
connect ==
  /\ calls = 0 \/ Again
  /\ ~wild
  /\ \/ /\ tcp_pcb' \in {tcp_pcb, NULL}
        /\ ready' = ~Careful
        /\ UNCHANGED <<calls, network>>
     \/ /\ calls < MaxConnects
        /\ calls' = calls + 1 /\ tcp_pcb' = calls'
        /\ \E err \in BOOLEAN :
             /\ pcb' = [pcb EXCEPT ![calls'] = IF err THEN "new" ELSE "connecting"]
             /\ ready' = (~err \/ ~Careful)
        /\ UNCHANGED <<queue, got>>
  /\ UNCHANGED <<connected, writes, wild>>

\* What write returns of the results of tcp_write and tcp_output.
\* Slip: a packet that lwIP does not take is reported as written.
ResultOf_Taken(taken, sent) == IF ~sent THEN "-2" ELSE Written
ResultOf(taken, sent) == IF ~sent THEN "-2" ELSE IF ~taken THEN "-1" ELSE Written

\* Whole packets are taken, of a connection that is there or under way; the
\* second failure hides the first.
write ==
  LET n == Len(result) + 1
  IN /\ ready /\ n <= MaxWrites /\ ~wild
     /\ IF ~Live(tcp_pcb)
        THEN wild' = TRUE /\ UNCHANGED <<queue, writes>>
        ELSE \E taken, sent \in BOOLEAN :
               /\ taken => pcb[tcp_pcb] # "new"
               /\ queue' = IF taken THEN [queue EXCEPT ![tcp_pcb] = Append(@, n)] ELSE queue
               /\ given' = Append(given, tcp_pcb)
               /\ result' = Append(result, ResultOf(taken, sent))
               /\ wild' = FALSE
     /\ UNCHANGED <<tcp_pcb, connected, calls, ready, pcb, got>>

\* The callbacks are taken off first.  If tcp_close fails, tcp_abort frees the pcb
\* with all it holds.
disconnect ==
  /\ Again /\ ~wild
  /\ ready' = FALSE
  /\ IF tcp_pcb = NULL THEN UNCHANGED <<network, tcp_pcb, wild>>
     ELSE IF ~Live(tcp_pcb) THEN wild' = TRUE /\ tcp_pcb' = NULL /\ UNCHANGED network
     ELSE /\ tcp_pcb' = NULL
          /\ \/ pcb' = [pcb EXCEPT ![tcp_pcb] = "closing"] /\ UNCHANGED queue
             \/ pcb' = [pcb EXCEPT ![tcp_pcb] = "freed"] /\ queue' = [queue EXCEPT ![tcp_pcb] = <<>>]
          /\ UNCHANGED <<got, wild>>
  /\ UNCHANGED <<connected, calls, writes>>

\* The flag is set whatever err says, and never cleared.
tcp_client_connected(c) ==
  /\ pcb[c] = "connecting"
  /\ pcb' = [pcb EXCEPT ![c] = "up"]
  /\ connected' = TRUE
  /\ UNCHANGED <<tcp_pcb, calls, ready, queue, got, writes, wild>>

\* lwIP has freed the pcb; the callback leaves the pointer to it.
tcp_client_err(c) ==
  /\ Resets /\ pcb[c] \in {"connecting", "up"}
  /\ pcb' = [pcb EXCEPT ![c] = "freed"]
  /\ queue' = [queue EXCEPT ![c] = <<>>]
  /\ UNCHANGED <<tcp_pcb, connected, calls, ready, got, writes, wild>>

(***************************************************************************)
(* lwIP and the peer.                                                      *)
(***************************************************************************)
\* A packet gets through; tcp_client_sent, which follows, does nothing.
Deliver(c) ==
  /\ pcb[c] \in {"up", "closing"} /\ queue[c] # <<>>
  /\ queue' = [queue EXCEPT ![c] = Tail(@)]
  /\ got' = [got EXCEPT ![c] = Append(@, Head(queue[c]))]
  /\ UNCHANGED <<tcp_pcb, connected, calls, ready, pcb, writes, wild>>

\* A connection that has been closed ends, at the latest when nothing is left to send.
Gone(c) ==
  /\ pcb[c] = "closing" /\ (queue[c] = <<>> \/ Resets)
  /\ pcb' = [pcb EXCEPT ![c] = "freed"]
  /\ queue' = [queue EXCEPT ![c] = <<>>]
  /\ UNCHANGED <<tcp_pcb, connected, calls, ready, got, writes, wild>>

Next ==
  \/ connect \/ write \/ disconnect
  \/ \E c \in Connections :
       tcp_client_connected(c) \/ tcp_client_err(c) \/ Deliver(c) \/ Gone(c)

Spec == Init /\ [][Next]_vars

(***************************************************************************)
(* Properties.                                                             *)
(***************************************************************************)
Taken(c) == got[c] \o queue[c]
Occurs(n, s) == \E i \in DOMAIN s : s[i] = n

\* While every call has found its pcb: a packet that write has reported as written has
\* reached the peer by the connection it was meant for or is on its way there, unless
\* that was reset or had to be aborted; one that it has reported as -1 is not, and will never be;
\* one reported as -2 may be either.  Packets arrive in the order of the calls, none
\* twice, and none by another connection than its own, however early it was written:
\* before the connection was up, or just before it was closed.
PeerGetsWhatWasWritten ==
  ~wild => \A c \in Connections :
    /\ \A i, j \in DOMAIN Taken(c) : i < j => Taken(c)[i] < Taken(c)[j]
    /\ \A n \in DOMAIN result :
         /\ Occurs(n, Taken(c)) => given[n] = c /\ result[n] # "-1"
         /\ given[n] = c /\ result[n] = Written => Occurs(n, Taken(c)) \/ pcb[c] = "freed"

\* No call uses a pcb that lwIP has freed or never made.  The comment of the error
\* callback says that "the corresponding pcb is already freed when this callback is
\* called"; the callback leaves tcp_pcb as it is, and main goes on writing.
UsesLivePcb == ~wild

===============================================================================
