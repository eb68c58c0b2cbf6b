------------------------------ MODULE PicoUart ------------------------------
(***************************************************************************)
(* PicoUart: the serial port driver, with its two RingBuffers between the  *)
(* main thread (write, read, flush) and the interrupt handler of the UART  *)
(* (uart_irq_rx, uart_irq_tx), and the UART itself.                        *)
(*                                                                         *)
(* The handler interrupts the main thread between any two accesses to      *)
(* shared state unless the interrupt is masked at the NVIC; the main       *)
(* thread does not move while the handler runs.  The UART runs all the     *)
(* time: it sends from its transmit FIFO, receives into its receive FIFO   *)
(* and raises its interrupts in the middle of anything.                    *)
(*                                                                         *)
(* Bytes accepted for sending are numbered 1, 2, ... in order, and so are  *)
(* the bytes that come in on the line.                                     *)
(***************************************************************************)
EXTENDS RingBuffer

CONSTANTS TxSize,    \* cells of the transmit ring (256 in the code)
          RxSize,    \* cells of the receive ring (256)
          FifoDepth, \* each hardware FIFO holds that many bytes (32)
          TxTrigger, \* level the transmit FIFO falls to at its interrupt (4)
          MaxOp,     \* the longest write or read
          MaxTx,     \* bound on bytes offered for sending
          MaxRx      \* bound on bytes that come in

\* A ring of one cell is always full and never carries a byte.
ASSUME SizesAssumption == /\ TxSize \in Nat /\ TxSize >= 2
                          /\ RxSize \in Nat /\ RxSize >= 2
                          /\ FifoDepth \in Nat /\ TxTrigger \in Nat
                          /\ TxTrigger < FifoDepth

ASSUME BoundsAssumption == MaxOp \in Nat /\ MaxTx \in Nat /\ MaxRx \in Nat

VARIABLES tx, rx,   \* the two rings
          nvic,     \* the UART's interrupt is enabled at the NVIC
          txim,     \* the transmit interrupt is enabled in imsc
          txris,    \* the transmit interrupt is raised
          txFifo, rxFifo

\* Control state: pc of the main thread, with the bytes its operation still
\* has to do and the byte get has just returned; isr of the handler; held,
\* the byte that uart_irq_tx has got and not yet written to the UART.
VARIABLES pc, left, value, isr, held

\* What happened so far, for the properties only.
VARIABLES accepted, \* bytes write has put into the ring
          wire,     \* bytes sent, in order
          came,     \* bytes that came in on the line
          stored,   \* bytes uart_irq_rx put into the ring, in order
          taken     \* bytes read or flush took out of it, in order

ringVars == <<tx, rx>>
hwVars == <<nvic, txim, txris, txFifo, rxFifo>>
ctlVars == <<pc, left, value, isr, held>>
historyVars == <<accepted, wire, came, stored, taken>>
vars == <<ringVars, hwVars, ctlVars, historyVars>>

none == 0 \* no byte held

\* The two that run uart_irq_tx, each with a byte on its way to the FIFO.
Contexts == {"main", "isr"}

(***************************************************************************)
(* The constructor ends with only the receive interrupt enabled in imsc    *)
(* and the UART's interrupt enabled at the NVIC.                           *)
(***************************************************************************)
Init ==
  /\ tx = NewRing(TxSize) /\ rx = NewRing(RxSize)
  /\ nvic = TRUE /\ txim = FALSE /\ txris = FALSE
  /\ txFifo = <<>> /\ rxFifo = <<>>
  /\ pc = "idle" /\ left = 0 /\ value = none /\ isr = "off" /\ held = [c \in Contexts |-> none]
  /\ accepted = 0 /\ wire = <<>> /\ came = 0 /\ stored = <<>> /\ taken = <<>>

\* A step of the main thread, from pc = at on, while no handler runs.
Main(at) == isr = "off" /\ pc = at

-----------------------------------------------------------------------------
(* The UART: external, as the driver relies on it.                         *)

\* Room in the transmit FIFO.
uart_is_writable == Len(txFifo) < FifoDepth

\* A byte leaves for the wire.  The interrupt is raised by the fall to the
\* trigger level, not by being below it.
uart_sends ==
  /\ txFifo # <<>>
  /\ wire' = Append(wire, Head(txFifo))
  /\ txFifo' = Tail(txFifo)
  /\ txris' = (txris \/ Len(txFifo) = TxTrigger + 1)
  /\ UNCHANGED <<ringVars, nvic, txim, rxFifo, ctlVars,
                 accepted, came, stored, taken>>

\* A byte comes in; one that finds the FIFO full is lost (overrun).
uart_receives ==
  /\ came < MaxRx
  /\ came' = came + 1
  /\ rxFifo' = IF Len(rxFifo) < FifoDepth THEN Append(rxFifo, came + 1)
                                          ELSE rxFifo
  /\ UNCHANGED <<ringVars, nvic, txim, txris, txFifo, ctlVars,
                 accepted, wire, stored, taken>>

-----------------------------------------------------------------------------
(***************************************************************************)
(* uart_irq_tx, run by the handler and, for the first filling, by write:   *)
(* one byte from the ring to the data register at a time, and an empty     *)
(* ring ends with the transmit interrupt disabled.                         *)
(***************************************************************************)
irq_tx_get(c) ==
  /\ held[c] = none /\ ~empty(tx) /\ uart_is_writable
  /\ held' = [held EXCEPT ![c] = peek(tx)]
  /\ tx' = drop(tx, TxSize)
  /\ UNCHANGED <<txFifo, txris, txim>>

\* dr = ...: a level above the trigger clears the interrupt
irq_tx_put(c) ==
  /\ held[c] # none
  /\ txFifo' = Append(txFifo, held[c])
  /\ txris' = (txris /\ Len(txFifo) + 1 <= TxTrigger)
  /\ held' = [held EXCEPT ![c] = none]
  /\ UNCHANGED <<tx, txim>>

\* slip: the interrupt is turned off when the FIFO is full
TximAfter_AtFull == txim /\ uart_is_writable
TximAfter == txim /\ ~empty(tx)

irq_tx_done(c) ==
  /\ held[c] = none /\ (empty(tx) \/ ~uart_is_writable)
  /\ txim' = TximAfter
  /\ UNCHANGED <<tx, txFifo, txris, held>>

-----------------------------------------------------------------------------
(***************************************************************************)
(* The handler: uart_irq_rx, then uart_irq_tx.  Its receive part runs for  *)
(* the receive interrupts (some bytes in the FIFO, or a pause after one)   *)
(* and empties the FIFO whatever it was called for.                        *)
(***************************************************************************)
irq_pending == rxFifo # <<>> \/ (txim /\ txris)

isr_enter ==
  /\ isr = "off" /\ nvic /\ irq_pending
  /\ isr' = "rx"
  /\ UNCHANGED <<ringVars, hwVars, pc, left, value, held, historyVars>>

\* One byte of uart_irq_rx, which ignores that put may refuse it.
irq_rx_step ==
  /\ isr = "rx" /\ rxFifo # <<>>
  /\ rxFifo' = Tail(rxFifo)
  /\ IF full(rx, RxSize)
     THEN UNCHANGED <<rx, stored>>
     ELSE /\ rx' = publish(store(rx, Head(rxFifo)), RxSize)
          /\ stored' = Append(stored, Head(rxFifo))
  /\ UNCHANGED <<tx, nvic, txim, txris, txFifo, ctlVars,
                 accepted, wire, came, taken>>

irq_rx_done ==
  /\ isr = "rx" /\ rxFifo = <<>>
  /\ isr' = "tx"
  /\ UNCHANGED <<ringVars, hwVars, pc, left, value, held, historyVars>>

isr_tx ==
  /\ isr = "tx"
  /\ \/ (irq_tx_get("isr") \/ irq_tx_put("isr")) /\ isr' = "tx"
     \/ irq_tx_done("isr") /\ isr' = "off"
  /\ UNCHANGED <<rx, nvic, rxFifo, pc, left, value, historyVars>>

Handler == isr_enter \/ irq_rx_step \/ irq_rx_done \/ isr_tx

-----------------------------------------------------------------------------
(* write(n), and send, which calls it and drops its result.                *)

write(n) ==
  /\ Main("idle")
  /\ accepted + n <= MaxTx
  /\ pc' = "w_loop" /\ left' = n
  /\ UNCHANGED <<ringVars, hwVars, value, isr, held, historyVars>>

write_loop ==
  /\ Main("w_loop")
  /\ pc' = IF left > 0 /\ ~full(tx, TxSize) THEN "w_put" ELSE "w_mask"
  /\ UNCHANGED <<ringVars, hwVars, left, value, isr, held, historyVars>>

\* put makes the test again, and write would count a refused byte as sent.
write_put ==
  /\ Main("w_put")
  /\ IF full(tx, TxSize)
     THEN pc' = "w_loop" /\ left' = left - 1 /\ UNCHANGED tx
     ELSE pc' = "w_publish" /\ tx' = store(tx, accepted + 1) /\ UNCHANGED left
  /\ UNCHANGED <<rx, hwVars, value, isr, held, historyVars>>

write_publish ==
  /\ Main("w_publish")
  /\ tx' = publish(tx, TxSize)
  /\ accepted' = accepted + 1
  /\ left' = left - 1
  /\ pc' = "w_loop"
  /\ UNCHANGED <<rx, hwVars, value, isr, held, wire, came, stored, taken>>

\* slip: the handler is left free to run uart_irq_tx as well
Masked_Not == TRUE
Masked == FALSE

write_mask ==
  /\ Main("w_mask")
  /\ nvic' = Masked
  /\ pc' = "w_test"
  /\ UNCHANGED <<ringVars, txim, txris, txFifo, rxFifo,
                 left, value, isr, held, historyVars>>

write_test ==
  /\ Main("w_test")
  /\ pc' = IF txim THEN "w_unmask" ELSE "w_enable"
  /\ UNCHANGED <<ringVars, hwVars, left, value, isr, held, historyVars>>

\* slip: the FIFO is not given its initial filling
AfterEnable_NoFilling == "w_unmask"
AfterEnable == "w_fill"

write_enable ==
  /\ Main("w_enable")
  /\ txim' = TRUE
  /\ pc' = AfterEnable
  /\ UNCHANGED <<ringVars, nvic, txris, txFifo, rxFifo,
                 left, value, isr, held, historyVars>>

\* The first filling: uart_irq_tx on the main thread.
write_fill ==
  /\ Main("w_fill")
  /\ \/ (irq_tx_get("main") \/ irq_tx_put("main")) /\ pc' = "w_fill"
     \/ irq_tx_done("main") /\ pc' = "w_unmask"
  /\ UNCHANGED <<rx, nvic, rxFifo, left, value, isr, historyVars>>

\* slip: the interrupt is only enabled again when the FIFO was filled
Unmasked_WhenIdle == empty(tx)
Unmasked == TRUE

write_unmask ==
  /\ Main("w_unmask")
  /\ nvic' = Unmasked
  /\ pc' = "idle" /\ left' = 0
  /\ UNCHANGED <<ringVars, txim, txris, txFifo, rxFifo,
                 value, isr, held, historyVars>>

-----------------------------------------------------------------------------
(* read(n), and flush, which is a read without a limit whose bytes are     *)
(* thrown away: left is then -1.                                           *)

read(n) ==
  /\ Main("idle")
  /\ pc' = "r_loop" /\ left' = n
  /\ UNCHANGED <<ringVars, hwVars, value, isr, held, historyVars>>

flush ==
  /\ Main("idle")
  /\ pc' = "r_loop" /\ left' = -1
  /\ UNCHANGED <<ringVars, hwVars, value, isr, held, historyVars>>

read_loop ==
  /\ Main("r_loop")
  /\ IF left # 0 /\ ~empty(rx) THEN pc' = "r_get" /\ UNCHANGED left
                               ELSE pc' = "idle" /\ left' = 0
  /\ UNCHANGED <<ringVars, hwVars, value, isr, held, historyVars>>

read_get ==
  /\ Main("r_get")
  /\ value' = peek(rx)
  /\ pc' = "r_drop"
  /\ UNCHANGED <<ringVars, hwVars, left, isr, held, historyVars>>

read_drop ==
  /\ Main("r_drop")
  /\ rx' = drop(rx, RxSize)
  /\ taken' = Append(taken, value)
  /\ left' = IF left > 0 THEN left - 1 ELSE left
  /\ pc' = "r_loop" /\ value' = none
  /\ UNCHANGED <<tx, hwVars, isr, held, accepted, wire, came, stored>>

\* The main thread starts an operation, or goes on with one.
Call == (\E n \in 1..MaxOp : write(n) \/ read(n)) \/ flush

Continue == \/ write_loop \/ write_put \/ write_publish
            \/ write_mask \/ write_test \/ write_enable
            \/ write_fill \/ write_unmask
            \/ read_loop \/ read_get \/ read_drop

Next == Call \/ Continue \/ Handler \/ uart_sends \/ uart_receives

Spec == Init /\ [][Next]_vars

(***************************************************************************)
(* The processor goes on with whatever it is doing and the UART goes on    *)
(* sending.  An enabled, pending interrupt is taken at once, even if the   *)
(* main thread masks it again and again: hence strong fairness.  Nothing   *)
(* says that the main thread ever calls the driver or that bytes come in.  *)
(***************************************************************************)
Fairness == /\ WF_vars(Continue)
            /\ SF_vars(isr_enter)
            /\ WF_vars(irq_rx_step \/ irq_rx_done \/ isr_tx)
            /\ WF_vars(uart_sends)

FairSpec == Spec /\ Fairness

-----------------------------------------------------------------------------
PCs == {"idle", "w_loop", "w_put", "w_publish", "w_mask", "w_test",
        "w_enable", "w_fill", "w_unmask", "r_loop", "r_get", "r_drop"}

RingType(size) == [head : 0..(size - 1), tail : 0..(size - 1),
                   buffer : [0..(size - 1) -> Nat]]

TypeOK ==
  /\ tx \in RingType(TxSize) /\ rx \in RingType(RxSize)
  /\ nvic \in BOOLEAN /\ txim \in BOOLEAN /\ txris \in BOOLEAN
  /\ txFifo \in Seq(Nat) /\ Len(txFifo) <= FifoDepth
  /\ rxFifo \in Seq(Nat) /\ Len(rxFifo) <= FifoDepth
  /\ pc \in PCs /\ left \in Int /\ value \in Nat
  /\ isr \in {"off", "rx", "tx"} /\ held \in [Contexts -> Nat]
  /\ accepted \in Nat /\ wire \in Seq(Nat) /\ came \in Nat
  /\ stored \in Seq(Nat) /\ taken \in Seq(Nat)

(***************************************************************************)
(* The bytes write accepted are on the wire, in the FIFO, on their way     *)
(* there or in the ring, each once and in order: main thread and handler   *)
(* both move bytes from the ring to the FIFO, and never at the same time.  *)
(***************************************************************************)
HeldBy(c) == IF held[c] = none THEN <<>> ELSE <<held[c]>>
InHand == HeldBy("main") \o HeldBy("isr")

SentInOrder ==
  wire \o txFifo \o InHand \o waiting(tx, TxSize) = [i \in 1..accepted |-> i]

(***************************************************************************)
(* No lost wake-up.  When write has returned and no handler runs, a byte   *)
(* left in the ring has an interrupt to come for it: enabled in imsc and   *)
(* at the NVIC, and raised already or still to be raised by the FIFO's     *)
(* fall to the trigger level.  The handler disables the interrupt just as  *)
(* write puts bytes into the ring, and the UART raises it only on a fall.  *)
(***************************************************************************)
Writing == pc \notin {"idle", "r_loop", "r_get", "r_drop"}

TxArmed ==
  ~Writing /\ isr = "off" /\ ~empty(tx)
    => nvic /\ txim /\ (txris \/ Len(txFifo) > TxTrigger)

(***************************************************************************)
(* What read and flush took out, followed by what waits in the ring, is    *)
(* what the handler put in: the main thread and the handler share the ring *)
(* without a lock.  Bytes keep the order of the line; the ones the driver  *)
(* or the UART had no room for are missing, and nothing else.              *)
(***************************************************************************)
Increasing(s) == \A i, j \in 1..Len(s) : i < j => s[i] < s[j]

ReceivedInOrder == /\ taken \o waiting(rx, RxSize) = stored
                   /\ Increasing(stored \o rxFifo)

(***************************************************************************)
(* Every byte write accepted is sent in the end, without another call to   *)
(* the driver.                                                             *)
(***************************************************************************)
AllSent == \A k \in 1..MaxTx : accepted >= k ~> Len(wire) >= k

(***************************************************************************)
(* The handler always comes for received bytes: no operation of the main   *)
(* thread leaves the interrupt masked.                                     *)
(***************************************************************************)
RxServed == rxFifo # <<>> ~> rxFifo = <<>>
=============================================================================
