--------------------------- MODULE PicoUartProofs ---------------------------
(***************************************************************************)
(* Proofs, for every size of the rings and the FIFOs and every length of   *)
(* operations, of the safety properties of PicoUart that do not need the   *)
(* interrupts to come: types, mutual exclusion of the two contexts that    *)
(* move bytes out of the transmit ring, and the order of the bytes sent    *)
(* and received.                                                           *)
(***************************************************************************)
EXTENDS PicoUart, SequenceTheorems, TLAPS

(***************************************************************************)
(* Rings.  The remainders are only ever of numbers between -size and       *)
(* 2 * size.                                                               *)
(***************************************************************************)
LEMMA Wrapped ==
  ASSUME NEW N \in Nat, N > 0, NEW x \in Int
  PROVE  /\ 0 <= x /\ x < N => x % N = x
         /\ N <= x /\ x < 2 * N => x % N = x - N
         /\ -N <= x /\ x < 0 => x % N = x + N
<1>1. 0 <= x /\ x < N => x % N = x
  BY SMT
<1>2. N <= x /\ x < 2 * N => x % N = x - N
  BY SMT
<1>3. -N <= x /\ x < 0 => x % N = x + N
  BY SMT
<1> QED  BY <1>1, <1>2, <1>3

LEMMA Difference ==
  ASSUME NEW N \in Nat, N > 0, NEW h \in 0..(N - 1), NEW t \in 0..(N - 1)
  PROVE  (h - t) % N = IF h >= t THEN h - t ELSE h + N - t
<1>1. h - t \in Int /\ -N <= h - t /\ h - t < N
  OBVIOUS
<1>2. h >= t => 0 <= h - t
  OBVIOUS
<1>3. ~(h >= t) => h - t < 0 /\ (h - t) + N = h + N - t
  OBVIOUS
<1> QED  BY <1>1, <1>2, <1>3, Wrapped

LEMMA Next1 ==
  ASSUME NEW N \in Nat, N >= 2, NEW h \in 0..(N - 1), NEW t \in 0..(N - 1)
  PROVE  (IF h + 1 < N THEN h + 1 ELSE h + 1 - N) = t
            <=> (IF h >= t THEN h - t ELSE h + N - t) = N - 1
  OBVIOUS

\* The fields of a ring, and how many bytes it holds.
Around(p, size) == IF p < size THEN p ELSE p - size
Gap(h, t, size) == IF h >= t THEN h - t ELSE h + size - t
UsedCells(r, size) == Gap(r.head, r.tail, size)

LEMMA GapMoves ==
  ASSUME NEW N \in Nat, N >= 2, NEW h \in 0..(N - 1), NEW t \in 0..(N - 1)
  PROVE  /\ h # t => Gap(h, Around(t + 1, N), N) = Gap(h, t, N) - 1
         /\ Gap(h, t, N) # N - 1 => Gap(Around(h + 1, N), t, N) = Gap(h, t, N) + 1
<1>1. h # t => Gap(h, Around(t + 1, N), N) = Gap(h, t, N) - 1
  BY DEF Gap, Around
<1>2. Gap(h, t, N) # N - 1 => Gap(Around(h + 1, N), t, N) = Gap(h, t, N) + 1
  BY DEF Gap, Around
<1> QED  BY <1>1, <1>2

LEMMA GapCells ==
  ASSUME NEW N \in Nat, N >= 2, NEW h \in 0..(N - 1), NEW t \in 0..(N - 1)
  PROVE  /\ Around(t + Gap(h, t, N), N) = h
         /\ \A i \in 1..Gap(h, t, N) : Around(t + i - 1, N) # h
<1>1. Around(t + Gap(h, t, N), N) = h
  BY DEF Gap, Around
<1>2. ASSUME NEW i \in 1..Gap(h, t, N)
      PROVE  Around(t + i - 1, N) # h
  BY <1>2 DEF Gap, Around
<1> QED  BY <1>1, <1>2

LEMMA NextCell ==
  ASSUME NEW N \in Nat, N >= 2, NEW t \in 0..(N - 1), NEW i \in 2..N
  PROVE  Around(Around(t + 1, N) + (i - 1) - 1, N) = Around(t + i - 1, N)
  BY DEF Around

LEMMA RingNumbers ==
  ASSUME NEW size \in Nat, size >= 2, NEW r \in RingType(size)
  PROVE  /\ r.head \in 0..(size - 1) /\ r.tail \in 0..(size - 1)
         /\ r.buffer \in [0..(size - 1) -> Nat]
         /\ used(r, size) = UsedCells(r, size)
         /\ used(r, size) \in 0..(size - 1)
         /\ empty(r) <=> used(r, size) = 0
         /\ full(r, size) <=> used(r, size) = size - 1
         /\ (r.head + 1) % size = Around(r.head + 1, size)
         /\ (r.tail + 1) % size = Around(r.tail + 1, size)
<1>1. /\ r.head \in 0..(size - 1) /\ r.tail \in 0..(size - 1)
      /\ r.buffer \in [0..(size - 1) -> Nat]
  BY DEF RingType
<1>2. used(r, size) = UsedCells(r, size)
  <2>1. size > 0
    OBVIOUS
  <2> QED  BY <1>1, <2>1, Difference DEF used, UsedCells, Gap
<1>3. (r.head + 1) % size = Around(r.head + 1, size)
  <2>1. r.head + 1 \in Int /\ 0 <= r.head + 1 /\ r.head + 1 < 2 * size /\ size > 0
    BY <1>1
  <2> QED  BY <2>1, Wrapped DEF Around
<1>4. (r.tail + 1) % size = Around(r.tail + 1, size)
  <2>1. r.tail + 1 \in Int /\ 0 <= r.tail + 1 /\ r.tail + 1 < 2 * size /\ size > 0
    BY <1>1
  <2> QED  BY <2>1, Wrapped DEF Around
<1>5. used(r, size) \in 0..(size - 1) /\ (empty(r) <=> used(r, size) = 0)
  BY <1>1, <1>2 DEF UsedCells, Gap, empty
<1>6. full(r, size) <=> used(r, size) = size - 1
  <2>1. full(r, size) <=> Around(r.head + 1, size) = r.tail
    BY <1>3 DEF full
  <2>2. Around(r.head + 1, size) = r.tail <=> UsedCells(r, size) = size - 1
    <3> DEFINE h == r.head
               t == r.tail
    <3>1. h \in 0..(size - 1) /\ t \in 0..(size - 1)
      BY <1>1
    <3>2. UsedCells(r, size) = Gap(h, t, size)
      BY DEF UsedCells
    <3> HIDE DEF h, t
    <3>3. Around(h + 1, size) = t <=> Gap(h, t, size) = size - 1
      BY <3>1, Next1 DEF Gap, Around
    <3> QED  BY <3>2, <3>3 DEF h, t
  <2> QED  BY <2>1, <2>2, <1>2
<1> QED  BY <1>1, <1>2, <1>3, <1>4, <1>5, <1>6

LEMMA NewRingType ==
  ASSUME NEW size \in Nat, size >= 2
  PROVE  NewRing(size) \in RingType(size) /\ empty(NewRing(size))
  BY DEF NewRing, RingType, empty

LEMMA StoreType ==
  ASSUME NEW size \in Nat, size >= 2, NEW r \in RingType(size), NEW data \in Nat
  PROVE  /\ store(r, data) \in RingType(size)
         /\ store(r, data).head = r.head /\ store(r, data).tail = r.tail
         /\ store(r, data).buffer = [r.buffer EXCEPT ![r.head] = data]
<1>1. /\ r.head \in 0..(size - 1) /\ r.tail \in 0..(size - 1)
      /\ r.buffer \in [0..(size - 1) -> Nat]
      /\ r = [head |-> r.head, tail |-> r.tail, buffer |-> r.buffer]
  BY DEF RingType
<1> DEFINE b == [r.buffer EXCEPT ![r.head] = data]
<1>2. b \in [0..(size - 1) -> Nat]
  BY <1>1
<1>3. store(r, data) = [r EXCEPT !.buffer = b]
  BY DEF store
<1> HIDE DEF b
<1>4. [r EXCEPT !.buffer = b] = [head |-> r.head, tail |-> r.tail, buffer |-> b]
  BY <1>1
<1>5. /\ store(r, data) \in RingType(size)
      /\ store(r, data).head = r.head /\ store(r, data).tail = r.tail
      /\ store(r, data).buffer = b
  BY <1>1, <1>2, <1>3, <1>4 DEF RingType
<1> QED  BY <1>5 DEF b

LEMMA PublishType ==
  ASSUME NEW size \in Nat, size >= 2, NEW r \in RingType(size)
  PROVE  /\ publish(r, size) \in RingType(size)
         /\ publish(r, size).head = Around(r.head + 1, size)
         /\ publish(r, size).tail = r.tail /\ publish(r, size).buffer = r.buffer
<1>1. /\ r.head \in 0..(size - 1) /\ r.tail \in 0..(size - 1)
      /\ r.buffer \in [0..(size - 1) -> Nat]
      /\ (r.head + 1) % size = Around(r.head + 1, size)
  BY RingNumbers
<1>2. r = [head |-> r.head, tail |-> r.tail, buffer |-> r.buffer]
  BY DEF RingType
<1>3. publish(r, size) = [head |-> Around(r.head + 1, size), tail |-> r.tail, buffer |-> r.buffer]
  BY <1>1, <1>2 DEF publish
<1>4. Around(r.head + 1, size) \in 0..(size - 1)
  BY <1>1 DEF Around
<1> QED  BY <1>1, <1>3, <1>4 DEF RingType

LEMMA DropType ==
  ASSUME NEW size \in Nat, size >= 2, NEW r \in RingType(size)
  PROVE  /\ drop(r, size) \in RingType(size)
         /\ drop(r, size).head = r.head /\ drop(r, size).buffer = r.buffer
         /\ ~empty(r) => drop(r, size).tail = Around(r.tail + 1, size)
         /\ peek(r) \in Nat
<1>1. /\ r.head \in 0..(size - 1) /\ r.tail \in 0..(size - 1)
      /\ r.buffer \in [0..(size - 1) -> Nat]
      /\ (r.tail + 1) % size = Around(r.tail + 1, size)
  BY RingNumbers
<1>2. r = [head |-> r.head, tail |-> r.tail, buffer |-> r.buffer]
  BY DEF RingType
<1>3. ~empty(r) => drop(r, size) = [head |-> r.head, tail |-> Around(r.tail + 1, size),
                                    buffer |-> r.buffer]
  BY <1>1, <1>2 DEF drop
<1>4. empty(r) => drop(r, size) = r
  BY DEF drop
<1>5. Around(r.tail + 1, size) \in 0..(size - 1)
  BY <1>1 DEF Around
<1>6. peek(r) \in Nat
  BY <1>1 DEF peek
<1>7. CASE empty(r)
  BY <1>4, <1>6, <1>7
<1>8. CASE ~empty(r)
  BY <1>1, <1>3, <1>5, <1>6, <1>8 DEF RingType
<1> QED  BY <1>7, <1>8

-----------------------------------------------------------------------------
(***************************************************************************)
(* Types, and mutual exclusion: the interrupt is masked from write_mask to *)
(* write_unmask, so that a context that has taken a byte out of the ring   *)
(* finds the room in the FIFO that it has seen before.                     *)
(***************************************************************************)
MaskedPCs == {"w_test", "w_enable", "w_fill", "w_unmask"}

Mutex ==
  /\ pc \in MaskedPCs => ~nvic /\ isr = "off"
  /\ held["main"] # none => pc = "w_fill"
  /\ held["isr"] # none => isr = "tx"
  /\ \A c \in Contexts : held[c] # none => Len(txFifo) < FifoDepth

TypeInv == TypeOK /\ Mutex

LEMMA Sizes ==
  /\ TxSize \in Nat /\ TxSize >= 2 /\ RxSize \in Nat /\ RxSize >= 2
  /\ FifoDepth \in Nat /\ MaxOp \in Nat
  BY SizesAssumption, BoundsAssumption

LEMMA InitTypeInv == Init => TypeInv
<1> SUFFICES ASSUME Init PROVE TypeInv
  OBVIOUS
<1>1. tx \in RingType(TxSize) /\ rx \in RingType(RxSize)
  BY Sizes, NewRingType DEF Init
<1>2. <<>> \in Seq(Nat) /\ Len(<<>>) = 0
  OBVIOUS
<1>3. TypeOK
  <2>1. txFifo \in Seq(Nat) /\ Len(txFifo) <= FifoDepth
        /\ rxFifo \in Seq(Nat) /\ Len(rxFifo) <= FifoDepth
        /\ wire \in Seq(Nat) /\ stored \in Seq(Nat) /\ taken \in Seq(Nat)
    BY <1>2, Sizes DEF Init
  <2>2. held \in [Contexts -> Nat] /\ value \in Nat /\ left \in Int
        /\ accepted \in Nat /\ came \in Nat
    BY DEF Init, none
  <2>3. pc \in PCs /\ isr \in {"off", "rx", "tx"}
        /\ nvic \in BOOLEAN /\ txim \in BOOLEAN /\ txris \in BOOLEAN
    BY DEF Init, PCs
  <2> QED  BY <1>1, <2>1, <2>2, <2>3 DEF TypeOK
<1>4. Mutex
  BY DEF Init, Mutex, MaskedPCs, Contexts, none
<1> QED  BY <1>3, <1>4 DEF TypeInv

\* The steps of uart_irq_tx, in either context.
LEMMA IrqTxGet ==
  ASSUME TypeOK, NEW c \in Contexts, irq_tx_get(c)
  PROVE  /\ tx' \in RingType(TxSize) /\ held' = [held EXCEPT ![c] = peek(tx)]
         /\ held' \in [Contexts -> Nat]
         /\ UNCHANGED <<txFifo, txris, txim>>
         /\ Len(txFifo) < FifoDepth
  BY Sizes, DropType DEF TypeOK, irq_tx_get, uart_is_writable

LEMMA IrqTxPut ==
  ASSUME TypeOK, Mutex, NEW c \in Contexts, irq_tx_put(c)
  PROVE  /\ txFifo' = Append(txFifo, held[c])
         /\ txFifo' \in Seq(Nat) /\ Len(txFifo') <= FifoDepth
         /\ txris' \in BOOLEAN
         /\ held' = [held EXCEPT ![c] = none]
         /\ held' \in [Contexts -> Nat]
         /\ UNCHANGED <<tx, txim>>
<1>1. held[c] \in Nat /\ txFifo \in Seq(Nat) /\ Len(txFifo) < FifoDepth
  BY DEF TypeOK, Mutex, irq_tx_put
<1>2. /\ Append(txFifo, held[c]) \in Seq(Nat)
      /\ Len(Append(txFifo, held[c])) = Len(txFifo) + 1
  BY <1>1
<1>3. none \in Nat
  BY DEF none
<1>4. held' = [held EXCEPT ![c] = none] /\ held' \in [Contexts -> Nat]
  BY <1>3 DEF TypeOK, irq_tx_put
<1>5. Len(txFifo) + 1 <= FifoDepth
  BY <1>1, Sizes
<1>6. txris' \in BOOLEAN
  BY DEF irq_tx_put
<1> QED  BY <1>2, <1>4, <1>5, <1>6 DEF irq_tx_put

LEMMA IrqTxDone ==
  ASSUME TypeOK, NEW c \in Contexts, irq_tx_done(c)
  PROVE  txim' \in BOOLEAN /\ UNCHANGED <<tx, txFifo, txris, held>> /\ held[c] = none
  BY DEF TypeOK, irq_tx_done, TximAfter

LEMMA HandlerType ==
  ASSUME TypeInv, Handler
  PROVE  TypeInv'
<1> USE DEF TypeInv
<1>1. CASE isr_enter
  <2>1. TypeOK'
    BY <1>1 DEF TypeOK, isr_enter, ringVars, hwVars, historyVars
  <2>2. Mutex'
    BY <1>1 DEF TypeOK, Mutex, isr_enter, ringVars, hwVars, historyVars, MaskedPCs
  <2> QED  BY <2>1, <2>2
<1>2. CASE irq_rx_step
  <2>1. /\ rxFifo \in Seq(Nat) /\ rxFifo # <<>> /\ Len(rxFifo) <= FifoDepth
        /\ stored \in Seq(Nat)
    BY <1>2 DEF TypeOK, irq_rx_step
  <2>2. /\ Head(rxFifo) \in Nat /\ Tail(rxFifo) \in Seq(Nat)
        /\ Len(Tail(rxFifo)) <= FifoDepth
    BY <2>1, Sizes
  <2>3. stored' \in Seq(Nat) /\ rxFifo' \in Seq(Nat) /\ Len(rxFifo') <= FifoDepth
    <3>1. Append(stored, Head(rxFifo)) \in Seq(Nat)
      BY <2>1, <2>2
    <3> QED  BY <1>2, <2>1, <2>2, <3>1 DEF irq_rx_step
  <2>4. rx' \in RingType(RxSize)
    <3>1. store(rx, Head(rxFifo)) \in RingType(RxSize)
      BY <2>2, Sizes, StoreType DEF TypeOK
    <3>2. publish(store(rx, Head(rxFifo)), RxSize) \in RingType(RxSize)
      BY <3>1, Sizes, PublishType
    <3> QED  BY <1>2, <3>2 DEF TypeOK, irq_rx_step
  <2>5. UNCHANGED <<tx, nvic, txim, txris, txFifo, pc, left, value, isr, held,
                    accepted, wire, came, taken>>
    BY <1>2 DEF irq_rx_step, ctlVars
  <2>6. TypeOK'
    BY <2>3, <2>4, <2>5 DEF TypeOK
  <2>7. Mutex'
    BY <2>5 DEF Mutex
  <2> QED  BY <2>6, <2>7
<1>3. CASE irq_rx_done
  <2>1. TypeOK'
    BY <1>3 DEF TypeOK, irq_rx_done, ringVars, hwVars, historyVars
  <2>2. Mutex'
    BY <1>3 DEF TypeOK, Mutex, irq_rx_done, ringVars, hwVars, historyVars, MaskedPCs
  <2> QED  BY <2>1, <2>2
<1>4. CASE isr_tx
  <2> USE <1>4
  <2>1. /\ isr = "tx" /\ "isr" \in Contexts /\ "main" \in Contexts /\ "main" # "isr"
        /\ pc \notin MaskedPCs /\ held["main"] = none /\ pc' = pc
        /\ UNCHANGED <<rx, nvic, rxFifo, left, value, accepted, wire, came, stored, taken>>
    BY DEF isr_tx, Mutex, Contexts, MaskedPCs, historyVars
  <2>2. CASE irq_tx_get("isr") /\ isr' = "tx"
    <3>1. TypeOK'
      BY <2>1, <2>2, IrqTxGet DEF TypeOK
    <3>2. Mutex'
      BY <2>1, <2>2, IrqTxGet DEF TypeOK, Mutex, Contexts
    <3> QED  BY <3>1, <3>2
  <2>3. CASE irq_tx_put("isr") /\ isr' = "tx"
    <3>1. TypeOK'
      BY <2>1, <2>3, IrqTxPut DEF TypeOK
    <3>2. Mutex'
      BY <2>1, <2>3, IrqTxPut DEF TypeOK, Mutex, Contexts, none
    <3> QED  BY <3>1, <3>2
  <2>4. CASE irq_tx_done("isr") /\ isr' = "off"
    <3>1. TypeOK'
      BY <2>1, <2>4, IrqTxDone DEF TypeOK
    <3>2. Mutex'
      BY <2>1, <2>4, IrqTxDone DEF TypeOK, Mutex, Contexts, none
    <3> QED  BY <3>1, <3>2
  <2> QED  BY <2>2, <2>3, <2>4 DEF isr_tx
<1> QED  BY <1>1, <1>2, <1>3, <1>4 DEF Handler

\* The main thread between two calls, and the steps that only move its pc or
\* set one flag.
LEMMA ControlType ==
  ASSUME TypeInv,
         \/ Call
         \/ write_loop \/ write_mask \/ write_test \/ write_enable \/ write_unmask
         \/ read_loop
  PROVE  TypeInv'
<1> USE DEF TypeInv
<1>1. CASE Call
  <2>1. /\ Main("idle") /\ pc' \in {"w_loop", "r_loop"} /\ left' \in Int
        /\ UNCHANGED <<ringVars, hwVars, value, isr, held, historyVars>>
    BY <1>1, Sizes DEF Call, write, read, flush
  <2>2. TypeOK'
    BY <2>1 DEF TypeOK, PCs, ringVars, hwVars, historyVars
  <2>3. Mutex'
    BY <2>1 DEF Mutex, MaskedPCs, Main, hwVars
  <2> QED  BY <2>2, <2>3
<1>2. CASE write_loop
  <2>1. /\ Main("w_loop") /\ pc' \in {"w_put", "w_mask"}
        /\ UNCHANGED <<ringVars, hwVars, left, value, isr, held, historyVars>>
    BY <1>2 DEF write_loop
  <2>2. TypeOK'
    BY <2>1 DEF TypeOK, PCs, ringVars, hwVars, historyVars
  <2>3. Mutex'
    BY <2>1 DEF Mutex, MaskedPCs, Main, hwVars
  <2> QED  BY <2>2, <2>3
<1>3. CASE write_mask
  <2>1. /\ Main("w_mask") /\ pc' = "w_test" /\ nvic' = FALSE
        /\ UNCHANGED <<ringVars, txim, txris, txFifo, rxFifo,
                       left, value, isr, held, historyVars>>
    BY <1>3 DEF write_mask, Masked
  <2>2. TypeOK'
    BY <2>1 DEF TypeOK, PCs, ringVars, historyVars
  <2>3. Mutex'
    BY <2>1 DEF Mutex, MaskedPCs, Main
  <2> QED  BY <2>2, <2>3
<1>4. CASE write_test
  <2>1. /\ Main("w_test") /\ pc' \in {"w_unmask", "w_enable"}
        /\ UNCHANGED <<ringVars, hwVars, left, value, isr, held, historyVars>>
    BY <1>4 DEF write_test
  <2>2. TypeOK'
    BY <2>1 DEF TypeOK, PCs, ringVars, hwVars, historyVars
  <2>3. Mutex'
    BY <2>1 DEF Mutex, MaskedPCs, Main, hwVars
  <2> QED  BY <2>2, <2>3
<1>5. CASE write_enable
  <2>1. /\ Main("w_enable") /\ pc' = "w_fill" /\ txim' = TRUE
        /\ UNCHANGED <<ringVars, nvic, txris, txFifo, rxFifo,
                       left, value, isr, held, historyVars>>
    BY <1>5 DEF write_enable, AfterEnable
  <2>2. TypeOK'
    BY <2>1 DEF TypeOK, PCs, ringVars, historyVars
  <2>3. Mutex'
    BY <2>1 DEF Mutex, MaskedPCs, Main
  <2> QED  BY <2>2, <2>3
<1>6. CASE write_unmask
  <2>1. /\ Main("w_unmask") /\ pc' = "idle" /\ nvic' = TRUE /\ left' = 0
        /\ UNCHANGED <<ringVars, txim, txris, txFifo, rxFifo,
                       value, isr, held, historyVars>>
    BY <1>6 DEF write_unmask, Unmasked
  <2>2. TypeOK'
    BY <2>1 DEF TypeOK, PCs, ringVars, historyVars
  <2>3. Mutex'
    BY <2>1 DEF Mutex, MaskedPCs, Main
  <2> QED  BY <2>2, <2>3
<1>7. CASE read_loop
  <2>1. /\ Main("r_loop") /\ pc' \in {"r_get", "idle"} /\ left' \in {left, 0}
        /\ UNCHANGED <<ringVars, hwVars, value, isr, held, historyVars>>
    BY <1>7 DEF read_loop
  <2>2. TypeOK'
    BY <2>1 DEF TypeOK, PCs, ringVars, hwVars, historyVars
  <2>3. Mutex'
    BY <2>1 DEF Mutex, MaskedPCs, Main, hwVars
  <2> QED  BY <2>2, <2>3
<1> QED  BY <1>1, <1>2, <1>3, <1>4, <1>5, <1>6, <1>7

\* The steps of the main thread that touch a ring or the FIFO.
LEMMA RingStepType ==
  ASSUME TypeInv,
         write_put \/ write_publish \/ write_fill \/ read_get \/ read_drop
  PROVE  TypeInv'
<1> USE DEF TypeInv
<1>1. CASE write_put
  <2>1. tx' \in RingType(TxSize)
    <3>1. tx \in RingType(TxSize) /\ accepted + 1 \in Nat
      BY DEF TypeOK
    <3>2. store(tx, accepted + 1) \in RingType(TxSize)
      BY <3>1, Sizes, StoreType
    <3> QED  BY <1>1, <3>1, <3>2 DEF write_put
  <2>2. /\ Main("w_put") /\ pc' \in {"w_loop", "w_publish"} /\ left' \in {left, left - 1}
        /\ UNCHANGED <<rx, hwVars, value, isr, held, historyVars>>
    BY <1>1 DEF write_put
  <2>3. TypeOK'
    BY <2>1, <2>2 DEF TypeOK, PCs, hwVars, historyVars
  <2>4. Mutex'
    BY <2>2 DEF Mutex, MaskedPCs, Main, hwVars
  <2> QED  BY <2>3, <2>4
<1>2. CASE write_publish
  <2>1. tx' \in RingType(TxSize)
    BY <1>2, Sizes, PublishType DEF TypeOK, write_publish
  <2>2. /\ Main("w_publish") /\ pc' = "w_loop" /\ left' = left - 1 /\ accepted' = accepted + 1
        /\ UNCHANGED <<rx, hwVars, value, isr, held, wire, came, stored, taken>>
    BY <1>2 DEF write_publish
  <2>3. TypeOK'
    BY <2>1, <2>2 DEF TypeOK, PCs, hwVars
  <2>4. Mutex'
    BY <2>2 DEF Mutex, MaskedPCs, Main, hwVars
  <2> QED  BY <2>3, <2>4
<1>3. CASE write_fill
  <2>1. /\ isr = "off" /\ pc = "w_fill" /\ ~nvic /\ held["isr"] = none
        /\ "isr" \in Contexts /\ "main" \in Contexts /\ "main" # "isr"
        /\ UNCHANGED <<rx, nvic, rxFifo, left, value, isr, accepted, wire, came, stored, taken>>
    BY <1>3 DEF write_fill, Main, Mutex, Contexts, MaskedPCs, historyVars
  <2>2. CASE irq_tx_get("main") /\ pc' = "w_fill"
    <3>1. TypeOK'
      BY <2>1, <2>2, IrqTxGet DEF TypeOK
    <3>2. Mutex'
      BY <2>1, <2>2, IrqTxGet DEF TypeOK, Mutex, Contexts
    <3> QED  BY <3>1, <3>2
  <2>3. CASE irq_tx_put("main") /\ pc' = "w_fill"
    <3>1. TypeOK'
      BY <2>1, <2>3, IrqTxPut DEF TypeOK
    <3>2. Mutex'
      BY <2>1, <2>3, IrqTxPut DEF TypeOK, Mutex, Contexts, none
    <3> QED  BY <3>1, <3>2
  <2>4. CASE irq_tx_done("main") /\ pc' = "w_unmask"
    <3>1. TypeOK'
      BY <2>1, <2>4, IrqTxDone DEF TypeOK, PCs
    <3>2. Mutex'
      BY <2>1, <2>4, IrqTxDone DEF TypeOK, Mutex, Contexts, none
    <3> QED  BY <3>1, <3>2
  <2> QED  BY <1>3, <2>2, <2>3, <2>4 DEF write_fill
<1>4. CASE read_get
  <2>1. value' \in Nat
    BY <1>4, Sizes, DropType DEF TypeOK, read_get
  <2>2. /\ Main("r_get") /\ pc' = "r_drop"
        /\ UNCHANGED <<ringVars, hwVars, left, isr, held, historyVars>>
    BY <1>4 DEF read_get
  <2>3. TypeOK'
    BY <2>1, <2>2 DEF TypeOK, PCs, ringVars, hwVars, historyVars
  <2>4. Mutex'
    BY <2>2 DEF Mutex, MaskedPCs, Main, hwVars
  <2> QED  BY <2>3, <2>4
<1>5. CASE read_drop
  <2>1. rx' \in RingType(RxSize)
    BY <1>5, Sizes, DropType DEF TypeOK, read_drop
  <2>2. /\ Main("r_drop") /\ pc' = "r_loop" /\ left' \in {left, left - 1} /\ value' = none
        /\ UNCHANGED <<tx, hwVars, isr, held, accepted, wire, came, stored>>
    BY <1>5 DEF read_drop
  <2>3. taken' \in Seq(Nat)
    <3>1. taken \in Seq(Nat) /\ value \in Nat
      BY DEF TypeOK
    <3>2. Append(taken, value) \in Seq(Nat)
      BY <3>1
    <3> QED  BY <3>2, <1>5 DEF read_drop
  <2>4. TypeOK'
    BY <2>1, <2>2, <2>3 DEF TypeOK, PCs, hwVars, none
  <2>5. Mutex'
    BY <2>2 DEF Mutex, MaskedPCs, Main, hwVars
  <2> QED  BY <2>4, <2>5
<1> QED  BY <1>1, <1>2, <1>3, <1>4, <1>5

LEMMA UartType ==
  ASSUME TypeInv, uart_sends \/ uart_receives
  PROVE  TypeInv'
<1> USE DEF TypeInv
<1>1. CASE uart_sends
  <2>1. txFifo \in Seq(Nat) /\ txFifo # <<>> /\ Len(txFifo) <= FifoDepth /\ wire \in Seq(Nat)
    BY <1>1 DEF TypeOK, uart_sends
  <2>2. /\ Head(txFifo) \in Nat /\ Tail(txFifo) \in Seq(Nat)
        /\ Len(Tail(txFifo)) = Len(txFifo) - 1
        /\ Append(wire, Head(txFifo)) \in Seq(Nat)
    BY <2>1
  <2>3. /\ txFifo' = Tail(txFifo) /\ wire' = Append(wire, Head(txFifo))
        /\ txris' \in BOOLEAN
        /\ UNCHANGED <<ringVars, nvic, txim, rxFifo, ctlVars, accepted, came, stored, taken>>
    BY <1>1 DEF TypeOK, uart_sends
  <2>4. Len(txFifo') <= FifoDepth /\ (Len(txFifo) < FifoDepth => Len(txFifo') < FifoDepth)
    BY <2>1, <2>2, <2>3, Sizes
  <2>5. TypeOK'
    BY <2>2, <2>3, <2>4 DEF TypeOK, ringVars, ctlVars
  <2>6. Mutex'
    BY <2>3, <2>4 DEF Mutex, ctlVars
  <2> QED  BY <2>5, <2>6
<1>2. CASE uart_receives
  <2>1. /\ rxFifo \in Seq(Nat) /\ Len(rxFifo) <= FifoDepth /\ came \in Nat
        /\ came' = came + 1
        /\ rxFifo' = IF Len(rxFifo) < FifoDepth THEN Append(rxFifo, came + 1) ELSE rxFifo
        /\ UNCHANGED <<ringVars, nvic, txim, txris, txFifo, ctlVars,
                       accepted, wire, stored, taken>>
    BY <1>2 DEF TypeOK, uart_receives
  <2>2. rxFifo' \in Seq(Nat) /\ Len(rxFifo') <= FifoDepth /\ came' \in Nat
    BY <2>1, Sizes
  <2>3. TypeOK'
    BY <2>1, <2>2 DEF TypeOK, ringVars, ctlVars
  <2>4. Mutex'
    BY <2>1 DEF Mutex, ctlVars
  <2> QED  BY <2>3, <2>4
<1> QED  BY <1>1, <1>2

LEMMA NextType ==
  ASSUME TypeInv, [Next]_vars
  PROVE  TypeInv'
<1>1. CASE Next
  BY <1>1, ControlType, RingStepType, HandlerType, UartType DEF Next, Continue
<1>2. CASE UNCHANGED vars
  BY <1>2 DEF TypeInv, TypeOK, Mutex, vars, ringVars, hwVars, ctlVars, historyVars
<1> QED  BY <1>1, <1>2

LEMMA TypeInvHolds == Spec => []TypeInv
  BY InitTypeInv, NextType, PTL DEF Spec

(***************************************************************************)
(* Every ring index stays inside its ring, every level inside its FIFO,    *)
(* and the control state and the flags take only the values named.         *)
(***************************************************************************)
THEOREM TypeCorrect == Spec => []TypeOK
<1>1. TypeInv => TypeOK
  BY DEF TypeInv
<1> QED  BY <1>1, TypeInvHolds, PTL

-----------------------------------------------------------------------------
(***************************************************************************)
(* The bytes waiting in a ring, and what the halves of put and get do to   *)
(* them: the cell put writes to is never one of theirs.                    *)
(***************************************************************************)
LEMMA SeqOfFunction ==
  ASSUME NEW n \in Nat, NEW S, NEW f \in [1..n -> S]
  PROVE  f \in Seq(S) /\ Len(f) = n
  BY SMT

LEMMA RingGap ==
  ASSUME NEW size \in Nat, size >= 2, NEW r \in RingType(size)
  PROVE  LET n == used(r, size) IN
         /\ ~empty(r) => Gap(r.head, Around(r.tail + 1, size), size) = n - 1
         /\ ~full(r, size) => Gap(Around(r.head + 1, size), r.tail, size) = n + 1
         /\ Around(r.tail + n, size) = r.head
         /\ \A i \in 1..n : Around(r.tail + i - 1, size) # r.head
         /\ \A i \in 2..n :
              Around(Around(r.tail + 1, size) + (i - 1) - 1, size) = Around(r.tail + i - 1, size)
<1> DEFINE h == r.head
           t == r.tail
           n == used(r, size)
<1>1. /\ h \in 0..(size - 1) /\ t \in 0..(size - 1) /\ n = Gap(h, t, size)
      /\ n \in 0..(size - 1) /\ (full(r, size) <=> n = size - 1)
  BY RingNumbers DEF UsedCells
<1>2. empty(r) <=> h = t
  BY DEF empty
<1> HIDE DEF h, t, n
<1>3. /\ h # t => Gap(h, Around(t + 1, size), size) = Gap(h, t, size) - 1
      /\ Gap(h, t, size) # size - 1 => Gap(Around(h + 1, size), t, size) = Gap(h, t, size) + 1
  BY <1>1, GapMoves
<1>4. /\ Around(t + Gap(h, t, size), size) = h
      /\ \A i \in 1..Gap(h, t, size) : Around(t + i - 1, size) # h
  BY <1>1, GapCells
<1>5. ASSUME NEW i \in 2..n
      PROVE  Around(Around(t + 1, size) + (i - 1) - 1, size) = Around(t + i - 1, size)
  <2>1. i \in 2..size
    BY <1>1, <1>5
  <2> QED  BY <1>1, <2>1, NextCell
<1> QED  BY <1>1, <1>2, <1>3, <1>4, <1>5 DEF h, t, n

LEMMA WaitingIsSeq ==
  ASSUME NEW size \in Nat, size >= 2, NEW r \in RingType(size)
  PROVE  /\ waiting(r, size) \in Seq(Nat) /\ Len(waiting(r, size)) = used(r, size)
         /\ \A i \in 1..used(r, size) :
              /\ Around(r.tail + i - 1, size) \in 0..(size - 1)
              /\ waiting(r, size)[i] = r.buffer[Around(r.tail + i - 1, size)]
<1> DEFINE n == used(r, size)
<1>1. /\ r.head \in 0..(size - 1) /\ r.tail \in 0..(size - 1)
      /\ r.buffer \in [0..(size - 1) -> Nat] /\ n \in 0..(size - 1)
  BY RingNumbers
<1>2. waiting(r, size) = [i \in 1..n |-> r.buffer[(r.tail + i - 1) % size]]
  BY DEF waiting
<1> HIDE DEF n
<1>3. ASSUME NEW i \in 1..n
      PROVE  /\ (r.tail + i - 1) % size = Around(r.tail + i - 1, size)
             /\ Around(r.tail + i - 1, size) \in 0..(size - 1)
  <2>1. r.tail + i - 1 \in Int /\ 0 <= r.tail + i - 1 /\ r.tail + i - 1 < 2 * size /\ size > 0
    BY <1>1, <1>3
  <2>2. (r.tail + i - 1) % size = Around(r.tail + i - 1, size)
    BY <2>1, Wrapped DEF Around
  <2>3. Around(r.tail + i - 1, size) \in 0..(size - 1)
    BY <2>1 DEF Around
  <2> QED  BY <2>2, <2>3
<1>4. waiting(r, size) \in [1..n -> Nat]
  BY <1>1, <1>2, <1>3
<1>5. n \in Nat
  BY <1>1
<1>6. waiting(r, size) \in Seq(Nat) /\ Len(waiting(r, size)) = n
  BY <1>4, <1>5, SeqOfFunction
<1>7. \A i \in 1..n : waiting(r, size)[i] = r.buffer[Around(r.tail + i - 1, size)]
  BY <1>2, <1>3
<1> QED  BY <1>3, <1>6, <1>7 DEF n

LEMMA WaitingStore ==
  ASSUME NEW size \in Nat, size >= 2, NEW r \in RingType(size), NEW data \in Nat
  PROVE  /\ waiting(store(r, data), size) = waiting(r, size)
         /\ used(store(r, data), size) = used(r, size)
         /\ store(r, data).buffer[r.head] = data
         /\ ~empty(r) => peek(store(r, data)) = peek(r)
<1> DEFINE s == store(r, data)
<1>1. /\ s \in RingType(size) /\ s.head = r.head /\ s.tail = r.tail
      /\ s.buffer = [r.buffer EXCEPT ![r.head] = data]
  BY StoreType
<1> HIDE DEF s
<1>2. /\ r.head \in 0..(size - 1) /\ r.tail \in 0..(size - 1)
      /\ r.buffer \in [0..(size - 1) -> Nat]
      /\ used(r, size) = UsedCells(r, size) /\ used(r, size) \in 0..(size - 1)
  BY RingNumbers
<1>3. used(s, size) = used(r, size)
  BY <1>1 DEF used
<1>4. /\ waiting(s, size) \in Seq(Nat) /\ Len(waiting(s, size)) = used(r, size)
      /\ \A i \in 1..used(r, size) :
           waiting(s, size)[i] = s.buffer[Around(r.tail + i - 1, size)]
  <2>1. /\ waiting(s, size) \in Seq(Nat) /\ Len(waiting(s, size)) = used(s, size)
        /\ \A i \in 1..used(s, size) :
             waiting(s, size)[i] = s.buffer[Around(s.tail + i - 1, size)]
    BY <1>1, WaitingIsSeq
  <2> QED  BY <2>1, <1>1, <1>3
<1>5. /\ waiting(r, size) \in Seq(Nat) /\ Len(waiting(r, size)) = used(r, size)
      /\ \A i \in 1..used(r, size) :
           /\ Around(r.tail + i - 1, size) \in 0..(size - 1)
           /\ waiting(r, size)[i] = r.buffer[Around(r.tail + i - 1, size)]
  BY WaitingIsSeq
<1>6. ASSUME NEW i \in 1..used(r, size)
      PROVE  waiting(s, size)[i] = waiting(r, size)[i]
  <2>1. Around(r.tail + i - 1, size) # r.head
    BY <1>6, RingGap
  <2>2. s.buffer[Around(r.tail + i - 1, size)] = r.buffer[Around(r.tail + i - 1, size)]
    BY <2>1, <1>1, <1>2, <1>5
  <2> QED  BY <2>2, <1>4, <1>5
<1>7. waiting(s, size) = waiting(r, size)
  BY <1>4, <1>5, <1>6, SeqEqual
<1>8. s.buffer[r.head] = data
  BY <1>1, <1>2
<1>9. ~empty(r) => peek(s) = peek(r)
  BY <1>1, <1>2 DEF peek, empty
<1> QED  BY <1>3, <1>7, <1>8, <1>9 DEF s

LEMMA WaitingPublish ==
  ASSUME NEW size \in Nat, size >= 2, NEW r \in RingType(size), ~full(r, size)
  PROVE  /\ waiting(publish(r, size), size) = Append(waiting(r, size), r.buffer[r.head])
         /\ ~empty(publish(r, size))
         /\ ~empty(r) => peek(publish(r, size)) = peek(r)
<1> DEFINE s == publish(r, size)
           n == used(r, size)
<1>1. /\ s \in RingType(size) /\ s.head = Around(r.head + 1, size) /\ s.tail = r.tail
      /\ s.buffer = r.buffer
  BY PublishType
<1> HIDE DEF s
<1>2. /\ r.head \in 0..(size - 1) /\ r.tail \in 0..(size - 1)
      /\ r.buffer \in [0..(size - 1) -> Nat]
      /\ n = UsedCells(r, size) /\ n \in 0..(size - 1) /\ n # size - 1
  BY RingNumbers
<1>3. used(s, size) = UsedCells(s, size) /\ (empty(s) <=> used(s, size) = 0)
  BY <1>1, RingNumbers
<1> HIDE DEF n
<1>4. UsedCells(s, size) = n + 1
  <2>1. Gap(Around(r.head + 1, size), r.tail, size) = n + 1
    BY RingGap DEF n
  <2> QED  BY <1>1, <2>1 DEF UsedCells
<1>5. /\ waiting(s, size) \in Seq(Nat) /\ Len(waiting(s, size)) = n + 1
      /\ \A i \in 1..(n + 1) : waiting(s, size)[i] = r.buffer[Around(r.tail + i - 1, size)]
  <2>1. /\ waiting(s, size) \in Seq(Nat) /\ Len(waiting(s, size)) = used(s, size)
        /\ \A i \in 1..used(s, size) :
             waiting(s, size)[i] = s.buffer[Around(s.tail + i - 1, size)]
    BY <1>1, WaitingIsSeq
  <2> QED  BY <2>1, <1>1, <1>3, <1>4
<1>6. /\ waiting(r, size) \in Seq(Nat) /\ Len(waiting(r, size)) = n
      /\ \A i \in 1..n : waiting(r, size)[i] = r.buffer[Around(r.tail + i - 1, size)]
  BY WaitingIsSeq DEF n
<1> DEFINE t == Append(waiting(r, size), r.buffer[r.head])
<1>7. r.buffer[r.head] \in Nat
  BY <1>2
<1>8. /\ t \in Seq(Nat) /\ Len(t) = n + 1
      /\ \A i \in 1..n : t[i] = waiting(r, size)[i]
      /\ t[n + 1] = r.buffer[r.head]
  BY <1>6, <1>7, AppendProperties
<1> HIDE DEF t
<1>9. ASSUME NEW i \in 1..(n + 1)
      PROVE  waiting(s, size)[i] = t[i]
  <2>1. CASE i \in 1..n
    BY <2>1, <1>5, <1>6, <1>8
  <2>2. CASE i = n + 1
    <3>1. Around(r.tail + n, size) = r.head
      BY RingGap DEF n
    <3>2. r.tail + i - 1 = r.tail + n
      BY <2>2, <1>2
    <3> QED  BY <3>1, <3>2, <2>2, <1>5, <1>8
  <2>3. i \in 1..n \/ i = n + 1
    BY <1>2, <1>9
  <2> QED  BY <2>1, <2>2, <2>3
<1>10. waiting(s, size) = t
  BY <1>5, <1>8, <1>9, SeqEqual
<1>11. ~empty(s)
  BY <1>2, <1>3, <1>4
<1>12. peek(s) = peek(r)
  BY <1>1 DEF peek
<1> QED  BY <1>10, <1>11, <1>12 DEF s, t

LEMMA WaitingDrop ==
  ASSUME NEW size \in Nat, size >= 2, NEW r \in RingType(size), ~empty(r)
  PROVE  /\ waiting(r, size) = <<peek(r)>> \o waiting(drop(r, size), size)
         /\ waiting(r, size)[1] = peek(r) /\ Len(waiting(r, size)) >= 1
         /\ ~full(drop(r, size), size)
<1> DEFINE s == drop(r, size)
           n == used(r, size)
<1>1. /\ s \in RingType(size) /\ s.head = r.head /\ s.tail = Around(r.tail + 1, size)
      /\ s.buffer = r.buffer /\ peek(r) \in Nat
  BY DropType
<1> HIDE DEF s
<1>2. /\ r.head \in 0..(size - 1) /\ r.tail \in 0..(size - 1)
      /\ r.buffer \in [0..(size - 1) -> Nat]
      /\ n = UsedCells(r, size) /\ n \in 1..(size - 1)
  BY RingNumbers
<1>3. /\ used(s, size) = UsedCells(s, size)
      /\ full(s, size) <=> used(s, size) = size - 1
  BY <1>1, RingNumbers
<1> HIDE DEF n
<1>4. UsedCells(s, size) = n - 1
  <2>1. Gap(r.head, Around(r.tail + 1, size), size) = n - 1
    BY RingGap DEF n
  <2> QED  BY <1>1, <2>1 DEF UsedCells
<1>5. /\ waiting(s, size) \in Seq(Nat) /\ Len(waiting(s, size)) = n - 1
      /\ \A i \in 1..(n - 1) :
           waiting(s, size)[i] = r.buffer[Around(Around(r.tail + 1, size) + i - 1, size)]
  <2>1. /\ waiting(s, size) \in Seq(Nat) /\ Len(waiting(s, size)) = used(s, size)
        /\ \A i \in 1..used(s, size) :
             waiting(s, size)[i] = s.buffer[Around(s.tail + i - 1, size)]
    BY <1>1, WaitingIsSeq
  <2> QED  BY <2>1, <1>1, <1>3, <1>4
<1>6. /\ waiting(r, size) \in Seq(Nat) /\ Len(waiting(r, size)) = n
      /\ \A i \in 1..n : waiting(r, size)[i] = r.buffer[Around(r.tail + i - 1, size)]
  BY WaitingIsSeq DEF n
<1> DEFINE t == <<peek(r)>> \o waiting(s, size)
<1>7. <<peek(r)>> \in Seq(Nat) /\ Len(<<peek(r)>>) = 1 /\ <<peek(r)>>[1] = peek(r)
  BY <1>1
<1>8. /\ t \in Seq(Nat) /\ Len(t) = n
      /\ t[1] = peek(r)
      /\ \A i \in 2..n : t[i] = waiting(s, size)[i - 1]
  <2>1. /\ t \in Seq(Nat) /\ Len(t) = 1 + (n - 1)
        /\ \A i \in 1..(1 + (n - 1)) :
             t[i] = IF i <= 1 THEN <<peek(r)>>[i] ELSE waiting(s, size)[i - 1]
    BY <1>5, <1>7, ConcatProperties
  <2> QED  BY <2>1, <1>2, <1>7
<1> HIDE DEF t
<1>9. Around(r.tail + 1 - 1, size) = r.tail
  BY <1>2 DEF Around
<1>10. waiting(r, size)[1] = peek(r)
  BY <1>2, <1>6, <1>9 DEF peek
<1>11. ASSUME NEW i \in 1..n
       PROVE  waiting(r, size)[i] = t[i]
  <2>1. CASE i = 1
    BY <2>1, <1>8, <1>10
  <2>2. CASE i \in 2..n
    <3>1. i - 1 \in 1..(n - 1)
      BY <2>2, <1>2
    <3>2. waiting(s, size)[i - 1]
            = r.buffer[Around(Around(r.tail + 1, size) + (i - 1) - 1, size)]
      BY <3>1, <1>5
    <3>3. Around(Around(r.tail + 1, size) + (i - 1) - 1, size) = Around(r.tail + i - 1, size)
      BY <2>2, RingGap DEF n
    <3> QED  BY <3>2, <3>3, <2>2, <1>6, <1>8
  <2>3. i = 1 \/ i \in 2..n
    BY <1>2, <1>11
  <2> QED  BY <2>1, <2>2, <2>3
<1>12. waiting(r, size) = t
  BY <1>6, <1>8, <1>11, SeqEqual
<1>13. ~full(s, size) /\ n >= 1
  BY <1>2, <1>3, <1>4
<1> QED  BY <1>6, <1>10, <1>12, <1>13 DEF s, t

-----------------------------------------------------------------------------
(***************************************************************************)
(* Sequences: a byte that moves from the front of one to the end of the    *)
(* one before it changes nothing of the whole.                             *)
(***************************************************************************)
Upto(n) == [i \in 1..n |-> i]

LEMMA UptoIsSeq ==
  ASSUME NEW n \in Nat
  PROVE  /\ Upto(n) \in Seq(Nat) /\ Len(Upto(n)) = n
         /\ \A i \in 1..n : Upto(n)[i] = i
<1>1. Upto(n) \in [1..n -> Nat] /\ \A i \in 1..n : Upto(n)[i] = i
  BY DEF Upto
<1> QED  BY <1>1, SeqOfFunction

LEMMA UptoNext ==
  ASSUME NEW n \in Nat
  PROVE  Upto(n + 1) = Append(Upto(n), n + 1)
<1> DEFINE s == Upto(n + 1)
           t == Append(Upto(n), n + 1)
<1>1. s \in Seq(Nat) /\ Len(s) = n + 1 /\ \A i \in 1..(n + 1) : s[i] = i
  BY UptoIsSeq
<1>2. /\ t \in Seq(Nat) /\ Len(t) = n + 1
      /\ \A i \in 1..n : t[i] = i
      /\ t[n + 1] = n + 1
  BY UptoIsSeq, AppendProperties
<1> HIDE DEF s, t
<1>3. ASSUME NEW i \in 1..(n + 1)
      PROVE  s[i] = t[i]
  <2>1. i \in 1..n \/ i = n + 1
    BY <1>3
  <2> QED  BY <2>1, <1>1, <1>2
<1>4. s = t
  BY <1>1, <1>2, <1>3, SeqEqual
<1> QED  BY <1>4 DEF s, t

LEMMA FrontAndRest ==
  ASSUME NEW s \in Seq(Nat), s # <<>>
  PROVE  s = <<Head(s)>> \o Tail(s)
<1> DEFINE t == <<Head(s)>> \o Tail(s)
<1>1. /\ Head(s) \in Nat /\ Tail(s) \in Seq(Nat) /\ Len(Tail(s)) = Len(s) - 1
      /\ \A i \in 1..Len(Tail(s)) : Tail(s)[i] = s[i + 1]
      /\ Len(s) \in Nat /\ Len(s) >= 1 /\ Head(s) = s[1]
  BY HeadTailProperties, EmptySeq
<1>2. <<Head(s)>> \in Seq(Nat) /\ Len(<<Head(s)>>) = 1 /\ <<Head(s)>>[1] = s[1]
  BY <1>1
<1>3. /\ t \in Seq(Nat) /\ Len(t) = Len(s)
      /\ \A i \in 1..Len(s) : t[i] = IF i <= 1 THEN s[1] ELSE Tail(s)[i - 1]
  <2>1. /\ t \in Seq(Nat) /\ Len(t) = 1 + (Len(s) - 1)
        /\ \A i \in 1..(1 + (Len(s) - 1)) :
             t[i] = IF i <= 1 THEN <<Head(s)>>[i] ELSE Tail(s)[i - 1]
    BY <1>1, <1>2, ConcatProperties
  <2> QED  BY <2>1, <1>1, <1>2
<1> HIDE DEF t
<1>4. ASSUME NEW i \in 1..Len(s)
      PROVE  s[i] = t[i]
  <2>1. CASE i = 1
    BY <2>1, <1>3, <1>1
  <2>2. CASE i # 1
    <3>1. i - 1 \in 1..Len(Tail(s)) /\ ~(i <= 1) /\ (i - 1) + 1 = i
      BY <2>2, <1>1
    <3> QED  BY <3>1, <1>1, <1>3
  <2> QED  BY <2>1, <2>2
<1>5. s = t
  BY <1>3, <1>4, SeqEqual
<1> QED  BY <1>5 DEF t

LEMMA MoveFront ==
  ASSUME NEW s \in Seq(Nat), NEW t \in Seq(Nat), NEW x \in Nat
  PROVE  Append(s, x) \o t = s \o (<<x>> \o t)
<1>1. <<x>> \in Seq(Nat)
  OBVIOUS
<1>2. Append(s, x) = s \o <<x>>
  BY AppendIsConcat
<1> QED  BY <1>1, <1>2, ConcatAssociative

LEMMA AppendAfter ==
  ASSUME NEW s \in Seq(Nat), NEW t \in Seq(Nat), NEW x \in Nat
  PROVE  s \o Append(t, x) = Append(s \o t, x)
<1>1. <<x>> \in Seq(Nat) /\ s \o t \in Seq(Nat)
  BY ConcatProperties
<1>2. Append(t, x) = t \o <<x>> /\ Append(s \o t, x) = (s \o t) \o <<x>>
  BY <1>1, AppendIsConcat
<1> QED  BY <1>1, <1>2, ConcatAssociative

\* The three moves of a byte on its way from the ring to the wire.
LEMMA MoveToHand ==
  ASSUME NEW w \in Seq(Nat), NEW f \in Seq(Nat), NEW q \in Seq(Nat), NEW x \in Nat
  PROVE  w \o f \o <<x>> \o q = w \o f \o (<<x>> \o q)
<1>1. w \o f \in Seq(Nat) /\ <<x>> \in Seq(Nat)
  BY ConcatProperties
<1> QED  BY <1>1, ConcatAssociative

LEMMA MoveToFifo ==
  ASSUME NEW w \in Seq(Nat), NEW f \in Seq(Nat), NEW q \in Seq(Nat), NEW x \in Nat
  PROVE  w \o Append(f, x) \o <<>> \o q = w \o f \o <<x>> \o q
<1>1. w \o f \in Seq(Nat) /\ <<x>> \in Seq(Nat)
  BY ConcatProperties
<1>2. w \o Append(f, x) = Append(w \o f, x)
  BY AppendAfter
<1>3. Append(w \o f, x) = w \o f \o <<x>>
  BY <1>1, AppendIsConcat
<1>4. w \o f \o <<x>> \in Seq(Nat)
  BY <1>1, ConcatProperties
<1>5. (w \o f \o <<x>>) \o <<>> = w \o f \o <<x>>
  BY <1>4, ConcatEmptySeq
<1> QED  BY <1>2, <1>3, <1>5

LEMMA MoveToWire ==
  ASSUME NEW w \in Seq(Nat), NEW f \in Seq(Nat), f # <<>>
  PROVE  Append(w, Head(f)) \o Tail(f) = w \o f
<1>1. Head(f) \in Nat /\ Tail(f) \in Seq(Nat)
  BY HeadTailProperties
<1>2. Append(w, Head(f)) \o Tail(f) = w \o (<<Head(f)>> \o Tail(f))
  BY <1>1, MoveFront
<1>3. <<Head(f)>> \o Tail(f) = f
  BY FrontAndRest
<1> QED  BY <1>2, <1>3

\* With the other context's hands empty, what is in hand is what c holds.
LEMMA HandOf ==
  ASSUME NEW h \in [Contexts -> Nat], NEW c \in Contexts,
         \A d \in Contexts : d # c => h[d] = none
  PROVE  (IF h["main"] = none THEN <<>> ELSE <<h["main"]>>)
           \o (IF h["isr"] = none THEN <<>> ELSE <<h["isr"]>>)
         = IF h[c] = none THEN <<>> ELSE <<h[c]>>
<1>1. "main" \in Contexts /\ "isr" \in Contexts /\ "main" # "isr" /\ (c = "main" \/ c = "isr")
  BY DEF Contexts
<1>2. <<>> \in Seq(Nat) /\ <<h["main"]>> \in Seq(Nat) /\ <<h["isr"]>> \in Seq(Nat)
  BY <1>1
<1>3. CASE c = "main"
  <2>1. h["isr"] = none
    BY <1>1, <1>3
  <2>2. <<>> \o <<>> = <<>> /\ <<h["main"]>> \o <<>> = <<h["main"]>>
    BY <1>2, ConcatEmptySeq
  <2> QED  BY <1>3, <2>1, <2>2
<1>4. CASE c = "isr"
  <2>1. h["main"] = none
    BY <1>1, <1>4
  <2>2. <<>> \o <<>> = <<>> /\ <<>> \o <<h["isr"]>> = <<h["isr"]>>
    BY <1>2, ConcatEmptySeq
  <2> QED  BY <1>4, <2>1, <2>2
<1> QED  BY <1>1, <1>3, <1>4

-----------------------------------------------------------------------------
(***************************************************************************)
(* The bytes sent.  The invariant adds that between the two halves of put  *)
(* the byte lies in the cell at head, and that there is still room: the    *)
(* handler may come in between, and only makes more.                       *)
(***************************************************************************)
PutPending == pc = "w_publish" => ~full(tx, TxSize) /\ tx.buffer[tx.head] = accepted + 1

TxOrder == SentInOrder /\ PutPending

LEMMA TxTypes ==
  ASSUME TypeOK
  PROVE  /\ tx \in RingType(TxSize) /\ TxSize \in Nat /\ TxSize >= 2
         /\ waiting(tx, TxSize) \in Seq(Nat)
         /\ wire \in Seq(Nat) /\ txFifo \in Seq(Nat) /\ held \in [Contexts -> Nat]
         /\ accepted \in Nat
<1>1. tx \in RingType(TxSize) /\ TxSize \in Nat /\ TxSize >= 2
  BY Sizes DEF TypeOK
<1>2. waiting(tx, TxSize) \in Seq(Nat)
  BY <1>1, WaitingIsSeq
<1> QED  BY <1>1, <1>2 DEF TypeOK

LEMMA InHandOf ==
  ASSUME TypeOK, NEW c \in Contexts, \A d \in Contexts : d # c => held[d] = none
  PROVE  InHand = IF held[c] = none THEN <<>> ELSE <<held[c]>>
<1>1. held \in [Contexts -> Nat]
  BY DEF TypeOK
<1> QED  BY <1>1, HandOf DEF InHand, HeldBy

LEMMA InHandOfNext ==
  ASSUME TypeOK', NEW c \in Contexts, \A d \in Contexts : d # c => held'[d] = none
  PROVE  InHand' = IF held'[c] = none THEN <<>> ELSE <<held'[c]>>
<1>1. held' \in [Contexts -> Nat]
  BY DEF TypeOK
<1> QED  BY <1>1, HandOf DEF InHand, HeldBy

LEMMA InHandIsSeq ==
  ASSUME TypeOK
  PROVE  InHand \in Seq(Nat)
<1>1. held["main"] \in Nat /\ held["isr"] \in Nat
  BY DEF TypeOK, Contexts
<1>2. <<>> \in Seq(Nat) /\ <<held["main"]>> \in Seq(Nat) /\ <<held["isr"]>> \in Seq(Nat)
  BY <1>1
<1>3. HeldBy("main") \in Seq(Nat) /\ HeldBy("isr") \in Seq(Nat)
  BY <1>2 DEF HeldBy
<1> QED  BY <1>3, ConcatProperties DEF InHand

\* A byte taken out of the ring: never 0, since every byte in it is numbered.
LEMMA GetOrder ==
  ASSUME TypeOK, TypeOK', SentInOrder, NEW c \in Contexts, irq_tx_get(c),
         \A d \in Contexts : d # c => held[d] = none,
         UNCHANGED <<wire, accepted>>
  PROVE  /\ SentInOrder'
         /\ tx'.head = tx.head /\ tx'.buffer = tx.buffer /\ ~full(tx', TxSize)
<1> DEFINE q == waiting(tx', TxSize)
           x == peek(tx)
           u == wire \o txFifo
<1>1. ~empty(tx) /\ held[c] = none /\ tx' = drop(tx, TxSize)
      /\ held' = [held EXCEPT ![c] = x] /\ txFifo' = txFifo
  BY DEF irq_tx_get
<1>2. /\ tx'.head = tx.head /\ tx'.buffer = tx.buffer /\ x \in Nat
      /\ tx' \in RingType(TxSize)
  BY <1>1, TxTypes, DropType
<1>3. /\ waiting(tx, TxSize) = <<x>> \o q
      /\ waiting(tx, TxSize)[1] = x /\ Len(waiting(tx, TxSize)) >= 1
      /\ ~full(tx', TxSize)
  BY <1>1, TxTypes, WaitingDrop
<1>4. q \in Seq(Nat) /\ u \in Seq(Nat)
  <2>1. u \in Seq(Nat)
    BY TxTypes, ConcatProperties
  <2>2. q \in Seq(Nat)
    BY <1>2, TxTypes, WaitingIsSeq
  <2> QED  BY <2>1, <2>2
<1>5. InHand = <<>>
  BY <1>1, InHandOf
<1>6. u \o waiting(tx, TxSize) = Upto(accepted)
  <2>1. u \o <<>> \o waiting(tx, TxSize) = Upto(accepted)
    BY <1>5 DEF SentInOrder, Upto
  <2>2. u \o <<>> = u
    BY <1>4, ConcatEmptySeq
  <2> QED  BY <2>1, <2>2
<1>7. x # none
  <2> DEFINE v == waiting(tx, TxSize)
             k == Len(u) + 1
  <2>1. v \in Seq(Nat) /\ Len(v) \in Nat /\ Len(v) >= 1 /\ v[1] = x /\ Len(u) \in Nat
    BY TxTypes, <1>3, <1>4, LenProperties
  <2> HIDE DEF v
  <2>2. /\ Len(u \o v) = Len(u) + Len(v)
        /\ \A i \in 1..(Len(u) + Len(v)) : (u \o v)[i] = IF i <= Len(u) THEN u[i] ELSE v[i - Len(u)]
    BY <2>1, <1>4, ConcatProperties
  <2> HIDE DEF u
  <2>3. k \in 1..(Len(u) + Len(v)) /\ ~(k <= Len(u)) /\ k - Len(u) = 1
    BY <2>1
  <2>4. (u \o v)[k] = x
    BY <2>1, <2>2, <2>3
  <2>5. u \o v = Upto(accepted)
    BY <1>6 DEF v
  <2>6. /\ Len(Upto(accepted)) = accepted
        /\ \A i \in 1..accepted : Upto(accepted)[i] = i
    BY TxTypes, UptoIsSeq
  <2>7. k \in 1..accepted
    BY <2>2, <2>3, <2>5, <2>6
  <2>8. x = k
    BY <2>4, <2>5, <2>6, <2>7
  <2> QED  BY <2>7, <2>8 DEF none
<1>8. InHand' = <<x>>
  <2>1. \A d \in Contexts : d # c => held'[d] = none
    BY <1>1, TxTypes
  <2>2. held'[c] = x
    BY <1>1, TxTypes
  <2> QED  BY <2>1, <2>2, <1>7, InHandOfNext
<1>9. u \o <<x>> \o q = Upto(accepted)
  <2>1. wire \in Seq(Nat) /\ txFifo \in Seq(Nat) /\ q \in Seq(Nat) /\ x \in Nat
    BY <1>2, <1>4, TxTypes
  <2>2. wire \o txFifo \o <<x>> \o q = wire \o txFifo \o (<<x>> \o q)
    <3> HIDE DEF q, x
    <3> QED  BY <2>1, MoveToHand
  <2> QED  BY <2>2, <1>3, <1>6
<1>10. SentInOrder'
  BY <1>1, <1>8, <1>9 DEF SentInOrder, Upto
<1> QED  BY <1>2, <1>3, <1>10

\* The byte in hand, written to the FIFO.
LEMMA PutOrder ==
  ASSUME TypeOK, TypeOK', SentInOrder, NEW c \in Contexts, irq_tx_put(c),
         \A d \in Contexts : d # c => held[d] = none,
         UNCHANGED <<wire, accepted>>
  PROVE  SentInOrder' /\ tx' = tx
<1> DEFINE q == waiting(tx, TxSize)
           x == held[c]
<1>1. /\ x # none /\ txFifo' = Append(txFifo, x) /\ tx' = tx
      /\ held' = [held EXCEPT ![c] = none]
  BY DEF irq_tx_put
<1>2. x \in Nat /\ q \in Seq(Nat)
  BY TxTypes
<1>3. InHand = <<x>>
  BY <1>1, InHandOf
<1>4. InHand' = <<>>
  <2>1. \A d \in Contexts : held'[d] = none
    BY <1>1, TxTypes
  <2> QED  BY <2>1, InHandOfNext
<1>5. wire \o Append(txFifo, x) \o <<>> \o q = wire \o txFifo \o <<x>> \o q
  <2>1. wire \in Seq(Nat) /\ txFifo \in Seq(Nat)
    BY TxTypes
  <2> HIDE DEF q, x
  <2> QED  BY <1>2, <2>1, MoveToFifo
<1>6. SentInOrder'
  BY <1>1, <1>3, <1>4, <1>5 DEF SentInOrder
<1> QED  BY <1>1, <1>6

LEMMA SameOrder ==
  ASSUME TxOrder, UNCHANGED <<tx, txFifo, held, wire, accepted>>,
         pc' = "w_publish" => pc = "w_publish"
  PROVE  TxOrder'
  BY DEF TxOrder, SentInOrder, PutPending, InHand, HeldBy

LEMMA TxOrderStep ==
  ASSUME TypeInv, TypeInv', TxOrder, [Next]_vars
  PROVE  TxOrder'
<1> USE DEF TypeInv
<1>1. CASE \/ Call \/ write_loop \/ write_mask \/ write_test \/ write_enable
           \/ write_unmask \/ read_loop \/ read_get \/ read_drop
  <2>1. UNCHANGED <<tx, txFifo, held, wire, accepted>> /\ pc' # "w_publish"
    BY <1>1 DEF Call, write, read, flush, write_loop, write_mask, write_test, write_enable,
                write_unmask, read_loop, read_get, read_drop, AfterEnable,
                ringVars, hwVars, historyVars
  <2> QED  BY <2>1, SameOrder
<1>2. CASE isr_enter \/ irq_rx_step \/ irq_rx_done \/ uart_receives \/ UNCHANGED vars
  <2>1. UNCHANGED <<tx, txFifo, held, wire, accepted>> /\ pc' = pc
    BY <1>2 DEF isr_enter, irq_rx_step, irq_rx_done, uart_receives, vars,
                ringVars, hwVars, ctlVars, historyVars
  <2> QED  BY <2>1, SameOrder
<1>3. CASE write_put
  <2>1. CASE full(tx, TxSize)
    <3>1. UNCHANGED <<tx, txFifo, held, wire, accepted>> /\ pc' = "w_loop"
      BY <1>3, <2>1 DEF write_put, hwVars, historyVars
    <3> QED  BY <3>1, SameOrder
  <2>2. CASE ~full(tx, TxSize)
    <3>1. /\ tx' = store(tx, accepted + 1) /\ pc' = "w_publish"
          /\ UNCHANGED <<txFifo, held, wire, accepted>>
      BY <1>3, <2>2 DEF write_put, hwVars, historyVars
    <3>2. accepted + 1 \in Nat
      BY TxTypes
    <3>3. /\ waiting(tx', TxSize) = waiting(tx, TxSize)
          /\ tx'.buffer[tx.head] = accepted + 1
          /\ tx'.head = tx.head /\ tx'.tail = tx.tail
      <4>1. tx \in RingType(TxSize) /\ TxSize \in Nat /\ TxSize >= 2
        BY TxTypes
      <4>2. /\ waiting(store(tx, accepted + 1), TxSize) = waiting(tx, TxSize)
            /\ store(tx, accepted + 1).buffer[tx.head] = accepted + 1
        BY <3>2, <4>1, WaitingStore
      <4>3. /\ store(tx, accepted + 1).head = tx.head
            /\ store(tx, accepted + 1).tail = tx.tail
        BY <3>2, <4>1, StoreType
      <4> QED  BY <3>1, <4>2, <4>3
    <3>4. SentInOrder'
      BY <3>1, <3>3 DEF TxOrder, SentInOrder, InHand, HeldBy
    <3>5. PutPending'
      BY <2>2, <3>1, <3>3 DEF PutPending, full
    <3> QED  BY <3>4, <3>5 DEF TxOrder
  <2> QED  BY <2>1, <2>2
<1>4. CASE write_publish
  <2> DEFINE u == wire \o txFifo \o InHand
             q == waiting(tx, TxSize)
  <2>1. /\ Main("w_publish") /\ tx' = publish(tx, TxSize) /\ accepted' = accepted + 1
        /\ pc' = "w_loop" /\ UNCHANGED <<txFifo, held, wire>>
    BY <1>4 DEF write_publish, hwVars
  <2>2. ~full(tx, TxSize) /\ tx.buffer[tx.head] = accepted + 1
    BY <2>1 DEF TxOrder, PutPending, Main
  <2>3. waiting(tx', TxSize) = Append(q, accepted + 1)
    BY <2>1, <2>2, TxTypes, WaitingPublish
  <2>4. u \in Seq(Nat) /\ q \in Seq(Nat) /\ accepted + 1 \in Nat
    <3>1. InHand \in Seq(Nat)
      BY InHandIsSeq
    <3>2. wire \in Seq(Nat) /\ txFifo \in Seq(Nat) /\ q \in Seq(Nat)
      BY TxTypes
    <3>3. wire \o txFifo \in Seq(Nat)
      BY <3>2, ConcatProperties
    <3>4. u \in Seq(Nat)
      BY <3>1, <3>3, ConcatProperties
    <3> QED  BY <3>2, <3>4, TxTypes
  <2>5. u \o Append(q, accepted + 1) = Append(u \o q, accepted + 1)
    BY <2>4, AppendAfter
  <2>6. u \o q = Upto(accepted)
    BY DEF TxOrder, SentInOrder, Upto
  <2>7. u \o waiting(tx', TxSize) = Upto(accepted + 1)
    BY <2>3, <2>5, <2>6, TxTypes, UptoNext
  <2>8. InHand' = InHand
    BY <2>1 DEF InHand, HeldBy
  <2>9. SentInOrder'
    BY <2>1, <2>7, <2>8 DEF SentInOrder, Upto
  <2>10. PutPending'
    BY <2>1 DEF PutPending
  <2> QED  BY <2>9, <2>10 DEF TxOrder
<1>5. ASSUME NEW c \in Contexts,
             \A d \in Contexts : d # c => held[d] = none,
             irq_tx_get(c) \/ irq_tx_put(c) \/ irq_tx_done(c),
             UNCHANGED <<wire, accepted>>,
             pc' = "w_publish" => pc = "w_publish"
      PROVE  TxOrder'
  <2>1. CASE irq_tx_get(c)
    <3>1. /\ SentInOrder'
          /\ tx'.head = tx.head /\ tx'.buffer = tx.buffer /\ ~full(tx', TxSize)
      BY <2>1, <1>5, GetOrder DEF TxOrder
    <3>2. PutPending'
      BY <3>1, <1>5 DEF TxOrder, PutPending
    <3> QED  BY <3>1, <3>2 DEF TxOrder
  <2>2. CASE irq_tx_put(c)
    <3>1. SentInOrder' /\ tx' = tx
      BY <2>2, <1>5, PutOrder DEF TxOrder
    <3>2. PutPending'
      BY <3>1, <1>5 DEF TxOrder, PutPending
    <3> QED  BY <3>1, <3>2 DEF TxOrder
  <2>3. CASE irq_tx_done(c)
    BY <2>3, <1>5, IrqTxDone, SameOrder
  <2> QED  BY <1>5, <2>1, <2>2, <2>3
<1>6. CASE write_fill
  <2>1. /\ "main" \in Contexts /\ \A d \in Contexts : d # "main" => held[d] = none
        /\ irq_tx_get("main") \/ irq_tx_put("main") \/ irq_tx_done("main")
        /\ UNCHANGED <<wire, accepted>> /\ pc' # "w_publish"
    BY <1>6 DEF write_fill, Main, Mutex, Contexts, historyVars
  <2> QED  BY <2>1, <1>5
<1>7. CASE isr_tx
  <2>1. /\ "isr" \in Contexts /\ \A d \in Contexts : d # "isr" => held[d] = none
        /\ irq_tx_get("isr") \/ irq_tx_put("isr") \/ irq_tx_done("isr")
        /\ UNCHANGED <<wire, accepted>> /\ pc' = pc
    BY <1>7 DEF isr_tx, Mutex, Contexts, MaskedPCs, historyVars
  <2> QED  BY <2>1, <1>5
<1>8. CASE uart_sends
  <2> DEFINE q == waiting(tx, TxSize)
  <2>1. /\ txFifo # <<>> /\ txFifo' = Tail(txFifo) /\ wire' = Append(wire, Head(txFifo))
        /\ UNCHANGED <<tx, held, pc, accepted>>
    BY <1>8 DEF uart_sends, ringVars, ctlVars
  <2>2. InHand \in Seq(Nat)
    BY InHandIsSeq
  <2>3. wire' \o txFifo' \o InHand \o q = wire \o txFifo \o InHand \o q
    <3>1. wire \in Seq(Nat) /\ txFifo \in Seq(Nat)
      BY TxTypes
    <3>2. wire' \o txFifo' = wire \o txFifo
      BY <2>1, <3>1, MoveToWire
    <3> QED  BY <3>2
  <2>4. InHand' = InHand
    BY <2>1 DEF InHand, HeldBy
  <2>5. SentInOrder'
    BY <2>1, <2>3, <2>4 DEF TxOrder, SentInOrder
  <2>6. PutPending'
    BY <2>1 DEF TxOrder, PutPending
  <2> QED  BY <2>5, <2>6 DEF TxOrder
<1> QED
  BY <1>1, <1>2, <1>3, <1>4, <1>6, <1>7, <1>8 DEF Next, Continue, Handler

LEMMA InitTxOrder == Init => TxOrder
<1> SUFFICES ASSUME Init PROVE TxOrder
  OBVIOUS
<1>1. TypeOK
  BY InitTypeInv DEF TypeInv
<1>2. empty(tx)
  BY Sizes, NewRingType DEF Init
<1>3. used(tx, TxSize) = 0
  BY <1>1, <1>2, TxTypes, RingNumbers
<1>4. waiting(tx, TxSize) = <<>>
  <2>1. waiting(tx, TxSize) \in Seq(Nat) /\ Len(waiting(tx, TxSize)) = 0
    BY <1>1, <1>3, TxTypes, WaitingIsSeq
  <2> QED  BY <2>1, EmptySeq
<1>5. InHand = <<>>
  <2>1. "main" \in Contexts /\ \A d \in Contexts : held[d] = none
    BY DEF Init, Contexts
  <2> QED  BY <2>1, <1>1, InHandOf
<1>6. Upto(0) = <<>>
  <2>1. Upto(0) \in Seq(Nat) /\ Len(Upto(0)) = 0
    BY UptoIsSeq
  <2> QED  BY <2>1, EmptySeq
<1>7. <<>> \o <<>> = <<>>
  BY EmptySeq, ConcatEmptySeq
<1>8. SentInOrder
  BY <1>4, <1>5, <1>6, <1>7 DEF SentInOrder, Init, Upto
<1>9. PutPending
  BY DEF PutPending, Init
<1> QED  BY <1>8, <1>9 DEF TxOrder

(***************************************************************************)
(* Whatever the interrupts come between, the bytes write accepted are sent *)
(* each once and in order.                                                 *)
(***************************************************************************)
THEOREM BytesSentInOrder == Spec => []SentInOrder
<1>1. Init => TypeInv /\ TxOrder
  BY InitTypeInv, InitTxOrder
<1>2. TypeInv /\ TxOrder /\ [Next]_vars => TypeInv' /\ TxOrder'
  BY NextType, TxOrderStep
<1>3. TxOrder => SentInOrder
  BY DEF TxOrder
<1> QED  BY <1>1, <1>2, <1>3, PTL DEF Spec

-----------------------------------------------------------------------------
(***************************************************************************)
(* The bytes received.  The invariant adds that no byte in the ring or the *)
(* FIFO is later than the last one that came in, that the byte the main    *)
(* thread saw in the ring before get is still there when it takes it, and  *)
(* that the handler, which may run between the two halves of get, leaves   *)
(* the oldest byte alone.                                                  *)
(***************************************************************************)
UpTo(s, n) == \A i \in 1..Len(s) : s[i] <= n

GetPending == /\ pc \in {"r_get", "r_drop"} => ~empty(rx)
              /\ pc = "r_drop" => value = peek(rx)

RxOrder == ReceivedInOrder /\ UpTo(stored \o rxFifo, came) /\ GetPending

LEMMA IncreasingAppend ==
  ASSUME NEW s \in Seq(Nat), NEW n \in Nat, Increasing(s), UpTo(s, n)
  PROVE  Increasing(Append(s, n + 1)) /\ UpTo(Append(s, n + 1), n + 1)
<1> DEFINE t == Append(s, n + 1)
<1>1. n + 1 \in Nat /\ Len(s) \in Nat /\ \A i \in 1..Len(s) : s[i] \in Nat
  BY LenProperties, ElementOfSeq
<1>2. /\ Len(t) = Len(s) + 1
      /\ \A i \in 1..Len(s) : t[i] = s[i]
      /\ t[Len(s) + 1] = n + 1
  BY <1>1, AppendProperties
<1> HIDE DEF t
<1>3. ASSUME NEW i \in 1..Len(t)
      PROVE  t[i] <= n + 1
  <2>1. i \in 1..Len(s) \/ i = Len(s) + 1
    BY <1>1, <1>2, <1>3
  <2>2. CASE i \in 1..Len(s)
    <3>1. t[i] = s[i] /\ s[i] \in Nat /\ s[i] <= n
      BY <1>1, <1>2, <2>2 DEF UpTo
    <3> QED  BY <3>1
  <2>3. CASE i = Len(s) + 1
    BY <2>3, <1>1, <1>2
  <2> QED  BY <2>1, <2>2, <2>3
<1>4. ASSUME NEW i \in 1..Len(t), NEW j \in 1..Len(t), i < j
      PROVE  t[i] < t[j]
  <2>1. i \in 1..Len(s) /\ (j \in 1..Len(s) \/ j = Len(s) + 1)
    BY <1>1, <1>2, <1>4
  <2>2. t[i] = s[i] /\ s[i] \in Nat /\ s[i] <= n
    BY <1>1, <1>2, <2>1 DEF UpTo
  <2>3. CASE j \in 1..Len(s)
    <3>1. t[j] = s[j] /\ s[i] < s[j]
      BY <1>2, <1>4, <2>1, <2>3 DEF Increasing
    <3> QED  BY <2>2, <3>1
  <2>4. CASE j = Len(s) + 1
    <3>1. t[j] = n + 1
      BY <1>2, <2>4
    <3> QED  BY <2>2, <3>1
  <2> QED  BY <2>1, <2>3, <2>4
<1> QED  BY <1>3, <1>4 DEF UpTo, Increasing, t

\* A byte lost between the two changes nothing of the order.
LEMMA IncreasingWithout ==
  ASSUME NEW s \in Seq(Nat), NEW f \in Seq(Nat), NEW n \in Nat, f # <<>>,
         Increasing(s \o f), UpTo(s \o f, n)
  PROVE  Increasing(s \o Tail(f)) /\ UpTo(s \o Tail(f), n)
<1> DEFINE u == s \o f
           v == s \o Tail(f)
           g == Tail(f)
           At(i) == IF i <= Len(s) THEN i ELSE i + 1
<1>1. /\ g \in Seq(Nat) /\ Len(g) = Len(f) - 1
      /\ \A i \in 1..Len(g) : g[i] = f[i + 1]
      /\ Len(f) \in Nat /\ Len(f) >= 1 /\ Len(s) \in Nat
  BY HeadTailProperties, EmptySeq, LenProperties
<1>2. /\ Len(u) = Len(s) + Len(f)
      /\ \A i \in 1..(Len(s) + Len(f)) : u[i] = IF i <= Len(s) THEN s[i] ELSE f[i - Len(s)]
  BY ConcatProperties
<1>3. /\ Len(v) = Len(s) + Len(g)
      /\ \A i \in 1..(Len(s) + Len(g)) : v[i] = IF i <= Len(s) THEN s[i] ELSE g[i - Len(s)]
  BY <1>1, ConcatProperties
<1>4. Increasing(u) /\ UpTo(u, n)
  OBVIOUS
<1> HIDE DEF u, v, g
<1>5. ASSUME NEW i \in 1..Len(v)
      PROVE  At(i) \in 1..Len(u) /\ v[i] = u[At(i)]
  <2>1. At(i) \in 1..Len(u)
    BY <1>1, <1>2, <1>3, <1>5
  <2>2. CASE i <= Len(s)
    <3>1. i \in 1..(Len(s) + Len(g)) /\ i \in 1..(Len(s) + Len(f))
      BY <1>1, <1>3, <1>5
    <3> QED  BY <2>1, <2>2, <3>1, <1>2, <1>3
  <2>3. CASE ~(i <= Len(s))
    <3>1. /\ i \in 1..(Len(s) + Len(g)) /\ i - Len(s) \in 1..Len(g)
          /\ i + 1 \in 1..(Len(s) + Len(f)) /\ ~(i + 1 <= Len(s))
          /\ (i - Len(s)) + 1 = (i + 1) - Len(s)
      BY <1>1, <1>3, <1>5, <2>3
    <3>2. v[i] = g[i - Len(s)]
      BY <3>1, <2>3, <1>3
    <3>3. g[i - Len(s)] = f[(i - Len(s)) + 1]
      BY <3>1, <1>1
    <3>4. u[i + 1] = f[(i + 1) - Len(s)]
      BY <3>1, <1>2
    <3> QED  BY <2>1, <2>3, <3>1, <3>2, <3>3, <3>4
  <2> QED  BY <2>2, <2>3
<1>6. UpTo(v, n)
  BY <1>4, <1>5 DEF UpTo
<1>7. ASSUME NEW i \in 1..Len(v), NEW j \in 1..Len(v), i < j
      PROVE  v[i] < v[j]
  <2>1. At(i) < At(j)
    BY <1>1, <1>3, <1>7
  <2>2. At(i) \in 1..Len(u) /\ At(j) \in 1..Len(u) /\ v[i] = u[At(i)] /\ v[j] = u[At(j)]
    BY <1>5, <1>7
  <2> HIDE DEF At
  <2> QED  BY <2>1, <2>2, <1>4 DEF Increasing
<1> QED  BY <1>6, <1>7 DEF Increasing, v, g

LEMMA RxTypes ==
  ASSUME TypeOK
  PROVE  /\ rx \in RingType(RxSize) /\ RxSize \in Nat /\ RxSize >= 2
         /\ waiting(rx, RxSize) \in Seq(Nat)
         /\ taken \in Seq(Nat) /\ stored \in Seq(Nat) /\ rxFifo \in Seq(Nat)
         /\ came \in Nat /\ value \in Nat /\ stored \o rxFifo \in Seq(Nat)
<1>1. rx \in RingType(RxSize) /\ RxSize \in Nat /\ RxSize >= 2
  BY Sizes DEF TypeOK
<1>2. waiting(rx, RxSize) \in Seq(Nat)
  BY <1>1, WaitingIsSeq
<1>3. stored \in Seq(Nat) /\ rxFifo \in Seq(Nat)
  BY DEF TypeOK
<1>4. stored \o rxFifo \in Seq(Nat)
  BY <1>3, ConcatProperties
<1> QED  BY <1>1, <1>2, <1>3, <1>4 DEF TypeOK

\* put in the handler, both halves at once.
LEMMA WaitingPut ==
  ASSUME NEW size \in Nat, size >= 2, NEW r \in RingType(size), NEW data \in Nat,
         ~full(r, size)
  PROVE  /\ waiting(publish(store(r, data), size), size) = Append(waiting(r, size), data)
         /\ ~empty(publish(store(r, data), size))
         /\ ~empty(r) => peek(publish(store(r, data), size)) = peek(r)
<1> DEFINE s == store(r, data)
<1>1. s \in RingType(size) /\ s.head = r.head /\ s.tail = r.tail
  BY StoreType
<1>2. /\ waiting(s, size) = waiting(r, size) /\ s.buffer[r.head] = data
      /\ ~empty(r) => peek(s) = peek(r)
  BY WaitingStore
<1> HIDE DEF s
<1>3. ~full(s, size) /\ (empty(s) <=> empty(r))
  BY <1>1 DEF full, empty
<1>4. /\ waiting(publish(s, size), size) = Append(waiting(s, size), s.buffer[s.head])
      /\ ~empty(publish(s, size))
      /\ ~empty(s) => peek(publish(s, size)) = peek(s)
  BY <1>1, <1>3, WaitingPublish
<1> QED  BY <1>1, <1>2, <1>3, <1>4 DEF s

LEMMA SameRxOrder ==
  ASSUME RxOrder, UNCHANGED <<rx, rxFifo, came, stored, taken>>,
         pc' \in {"r_get", "r_drop"} => pc' = pc /\ value' = value
  PROVE  RxOrder'
  BY DEF RxOrder, ReceivedInOrder, GetPending

\* The handler takes a byte in while the main thread may be anywhere in get.
LEMMA IrqRxOrder ==
  ASSUME TypeOK, RxOrder, irq_rx_step
  PROVE  RxOrder'
<1> DEFINE x == Head(rxFifo)
           w == waiting(rx, RxSize)
<1>1. /\ rxFifo # <<>> /\ rxFifo' = Tail(rxFifo)
      /\ UNCHANGED <<pc, value, came, taken>>
  BY DEF irq_rx_step, ctlVars
<1>2. x \in Nat
  BY <1>1, RxTypes, HeadTailProperties
<1>3. CASE full(rx, RxSize)
  <2>1. rx' = rx /\ stored' = stored
    BY <1>3 DEF irq_rx_step
  <2>2. Increasing(stored \o Tail(rxFifo)) /\ UpTo(stored \o Tail(rxFifo), came)
    BY <1>1, RxTypes, IncreasingWithout DEF RxOrder, ReceivedInOrder
  <2> QED  BY <1>1, <2>1, <2>2 DEF RxOrder, ReceivedInOrder, GetPending
<1>4. CASE ~full(rx, RxSize)
  <2>1. rx' = publish(store(rx, x), RxSize) /\ stored' = Append(stored, x)
    BY <1>4 DEF irq_rx_step
  <2>2. rx \in RingType(RxSize) /\ RxSize \in Nat /\ RxSize >= 2
    BY RxTypes
  <2>3. /\ waiting(rx', RxSize) = Append(w, x)
        /\ ~empty(rx') /\ (~empty(rx) => peek(rx') = peek(rx))
    <3> HIDE DEF x
    <3> QED  BY <1>2, <1>4, <2>1, <2>2, WaitingPut
  <2>4. taken \o Append(w, x) = Append(taken \o w, x)
    <3>1. taken \in Seq(Nat) /\ w \in Seq(Nat)
      BY RxTypes
    <3> HIDE DEF x, w
    <3> QED  BY <1>2, <3>1, AppendAfter
  <2>5. taken' \o waiting(rx', RxSize) = stored'
    BY <1>1, <2>1, <2>3, <2>4 DEF RxOrder, ReceivedInOrder
  <2>6. stored' \o rxFifo' = stored \o rxFifo
    BY <1>1, <2>1, RxTypes, MoveToWire
  <2>7. GetPending'
    BY <1>1, <2>3 DEF RxOrder, GetPending
  <2> QED  BY <1>1, <2>5, <2>6, <2>7 DEF RxOrder, ReceivedInOrder
<1> QED  BY <1>3, <1>4

LEMMA ReceiveOrder ==
  ASSUME TypeOK, RxOrder, uart_receives
  PROVE  RxOrder'
<1>1. came' = came + 1 /\ UNCHANGED <<rx, stored, taken, pc, value>>
  BY DEF uart_receives, ringVars, ctlVars
<1>2. GetPending'
  BY <1>1 DEF RxOrder, GetPending
<1>3. taken' \o waiting(rx', RxSize) = stored'
  BY <1>1 DEF RxOrder, ReceivedInOrder
<1>4. Increasing(stored \o rxFifo) /\ UpTo(stored \o rxFifo, came)
  BY DEF RxOrder, ReceivedInOrder
<1>5. CASE Len(rxFifo) < FifoDepth
  <2>1. rxFifo' = Append(rxFifo, came + 1)
    BY <1>5 DEF uart_receives
  <2>2. stored \o Append(rxFifo, came + 1) = Append(stored \o rxFifo, came + 1)
    <3>1. came + 1 \in Nat /\ stored \in Seq(Nat) /\ rxFifo \in Seq(Nat)
      BY RxTypes
    <3> QED  BY <3>1, AppendAfter
  <2>3. /\ Increasing(Append(stored \o rxFifo, came + 1))
        /\ UpTo(Append(stored \o rxFifo, came + 1), came + 1)
    BY <1>4, RxTypes, IncreasingAppend
  <2> QED  BY <1>1, <1>2, <1>3, <2>1, <2>2, <2>3 DEF RxOrder, ReceivedInOrder
<1>6. CASE ~(Len(rxFifo) < FifoDepth)
  <2>1. rxFifo' = rxFifo
    BY <1>6 DEF uart_receives
  <2>2. UpTo(stored \o rxFifo, came + 1)
    <3> DEFINE t == stored \o rxFifo
    <3>1. \A i \in 1..Len(t) : t[i] \in Nat /\ t[i] <= came
      BY <1>4, RxTypes, ElementOfSeq DEF UpTo
    <3>2. came \in Nat
      BY RxTypes
    <3> HIDE DEF t
    <3>3. \A i \in 1..Len(t) : t[i] <= came + 1
      BY <3>1, <3>2
    <3> QED  BY <3>3 DEF UpTo, t
  <2> QED  BY <1>1, <1>2, <1>3, <1>4, <2>1, <2>2 DEF RxOrder, ReceivedInOrder
<1> QED  BY <1>5, <1>6

LEMMA TakeOrder ==
  ASSUME TypeOK, RxOrder, read_drop
  PROVE  RxOrder'
<1> DEFINE q == waiting(drop(rx, RxSize), RxSize)
<1>1. /\ pc = "r_drop" /\ pc' = "r_loop" /\ rx' = drop(rx, RxSize)
      /\ taken' = Append(taken, value) /\ UNCHANGED <<rxFifo, came, stored>>
  BY DEF read_drop, Main, hwVars
<1>2. ~empty(rx) /\ value = peek(rx)
  BY <1>1 DEF RxOrder, GetPending
<1>3. rx \in RingType(RxSize) /\ RxSize \in Nat /\ RxSize >= 2
  BY RxTypes
<1>4. waiting(rx, RxSize) = <<value>> \o q
  BY <1>2, <1>3, WaitingDrop
<1>5. drop(rx, RxSize) \in RingType(RxSize)
  BY <1>3, DropType
<1>6. q \in Seq(Nat)
  BY <1>3, <1>5, WaitingIsSeq
<1>7. Append(taken, value) \o q = taken \o (<<value>> \o q)
  <2>1. taken \in Seq(Nat) /\ value \in Nat
    BY RxTypes
  <2> HIDE DEF q
  <2> QED  BY <1>6, <2>1, MoveFront
<1>8. taken' \o waiting(rx', RxSize) = stored'
  BY <1>1, <1>4, <1>7 DEF RxOrder, ReceivedInOrder
<1>9. GetPending'
  BY <1>1 DEF GetPending
<1> QED  BY <1>1, <1>8, <1>9 DEF RxOrder, ReceivedInOrder

LEMMA RxOrderStep ==
  ASSUME TypeOK, RxOrder, [Next]_vars
  PROVE  RxOrder'
<1>1. CASE \/ Call \/ write_loop \/ write_put \/ write_publish \/ write_mask \/ write_test
           \/ write_enable \/ write_fill \/ write_unmask
  <2>1. UNCHANGED <<rx, rxFifo, came, stored, taken>> /\ pc' \notin {"r_get", "r_drop"}
    BY <1>1 DEF Call, write, read, flush, write_loop, write_put, write_publish, write_mask,
                write_test, write_enable, write_fill, write_unmask, AfterEnable,
                ringVars, hwVars, historyVars
  <2> QED  BY <2>1, SameRxOrder
<1>2. CASE isr_enter \/ irq_rx_done \/ isr_tx \/ uart_sends \/ UNCHANGED vars
  <2>1. UNCHANGED <<rx, rxFifo, came, stored, taken, pc, value>>
    BY <1>2 DEF isr_enter, irq_rx_done, isr_tx, uart_sends, vars,
                ringVars, hwVars, ctlVars, historyVars
  <2> QED  BY <2>1, SameRxOrder
<1>3. CASE read_loop
  <2>1. /\ UNCHANGED <<rx, rxFifo, came, stored, taken>>
        /\ pc' = "idle" \/ (pc' = "r_get" /\ ~empty(rx))
    BY <1>3 DEF read_loop, ringVars, hwVars, historyVars
  <2> QED  BY <2>1 DEF RxOrder, ReceivedInOrder, GetPending
<1>4. CASE read_get
  <2>1. /\ UNCHANGED <<rx, rxFifo, came, stored, taken>>
        /\ pc = "r_get" /\ pc' = "r_drop" /\ value' = peek(rx)
    BY <1>4 DEF read_get, Main, ringVars, hwVars, historyVars
  <2> QED  BY <2>1 DEF RxOrder, ReceivedInOrder, GetPending
<1> QED
  BY <1>1, <1>2, <1>3, <1>4, IrqRxOrder, ReceiveOrder, TakeOrder DEF Next, Continue, Handler

LEMMA InitRxOrder == Init => RxOrder
<1> SUFFICES ASSUME Init PROVE RxOrder
  OBVIOUS
<1>1. TypeOK
  BY InitTypeInv DEF TypeInv
<1>2. empty(rx)
  BY Sizes, NewRingType DEF Init
<1>3. used(rx, RxSize) = 0
  BY <1>1, <1>2, RxTypes, RingNumbers
<1>4. waiting(rx, RxSize) = <<>>
  <2>1. waiting(rx, RxSize) \in Seq(Nat) /\ Len(waiting(rx, RxSize)) = 0
    BY <1>1, <1>3, RxTypes, WaitingIsSeq
  <2> QED  BY <2>1, EmptySeq
<1>5. <<>> \o <<>> = <<>> /\ Len(<<>>) = 0
  BY EmptySeq, ConcatEmptySeq
<1>6. ReceivedInOrder /\ UpTo(stored \o rxFifo, came)
  BY <1>4, <1>5 DEF Init, ReceivedInOrder, Increasing, UpTo
<1>7. GetPending
  BY DEF Init, GetPending
<1> QED  BY <1>6, <1>7 DEF RxOrder

(***************************************************************************)
(* Without a lock, read and flush take out what the handler put in, and in *)
(* the order of the line.                                                  *)
(***************************************************************************)
THEOREM BytesReceivedInOrder == Spec => []ReceivedInOrder
<1>1. Init => TypeInv /\ RxOrder
  BY InitTypeInv, InitRxOrder
<1>2. TypeInv /\ RxOrder /\ [Next]_vars => TypeInv' /\ RxOrder'
  BY NextType, RxOrderStep DEF TypeInv
<1>3. RxOrder => ReceivedInOrder
  BY DEF RxOrder
<1> QED  BY <1>1, <1>2, <1>3, PTL DEF Spec

-----------------------------------------------------------------------------
(***************************************************************************)
(* No lost wake-up.  Once the transmit interrupt is raised, or will be by  *)
(* the FIFO's fall, it stays so: writing to the FIFO clears it only above  *)
(* the trigger level.  uart_irq_tx leaves bytes in the ring only when the  *)
(* FIFO is full, hence above that level.                                   *)
(***************************************************************************)
WillRaise == txris \/ Len(txFifo) > TxTrigger

BeforeEnable == {"w_loop", "w_put", "w_publish", "w_mask", "w_test", "w_enable"}

Armed == /\ nvic \/ pc \in MaskedPCs
         /\ txim => WillRaise \/ pc = "w_fill"
         /\ ~empty(tx) => txim \/ pc \in BeforeEnable

LEMMA ArmedIsTxArmed ==
  ASSUME TypeOK, Armed
  PROVE  TxArmed
  BY DEF TypeOK, PCs, Armed, WillRaise, BeforeEnable, MaskedPCs, TxArmed, Writing

LEMMA FifoNumbers ==
  ASSUME TypeOK
  PROVE  /\ Len(txFifo) \in Nat /\ TxTrigger \in Nat /\ FifoDepth \in Nat
         /\ TxTrigger < FifoDepth
  BY SizesAssumption, LenProperties DEF TypeOK

LEMMA SameArmed ==
  ASSUME Armed, UNCHANGED <<tx, nvic, txim, txris, txFifo>>,
         \/ pc' = pc
         \/ pc \notin MaskedPCs /\ pc' \in BeforeEnable \ {"w_test"}
         \/ ~Writing /\ pc' \in {"idle", "r_loop", "r_get", "r_drop"}
  PROVE  Armed'
  BY DEF Armed, WillRaise, BeforeEnable, MaskedPCs, Writing, empty

\* What uart_irq_tx does to the interrupt, in either context.
LEMMA IrqTxArmed ==
  ASSUME TypeOK, NEW c \in Contexts, irq_tx_get(c) \/ irq_tx_put(c)
  PROVE  (WillRaise => WillRaise') /\ txim' = txim /\ (~empty(tx') => ~empty(tx))
<1>1. CASE irq_tx_get(c)
  BY <1>1 DEF irq_tx_get, WillRaise
<1>2. CASE irq_tx_put(c)
  <2>1. /\ txFifo' = Append(txFifo, held[c]) /\ txim' = txim /\ tx' = tx
        /\ txris' = (txris /\ Len(txFifo) + 1 <= TxTrigger)
    BY <1>2 DEF irq_tx_put
  <2>2. held[c] \in Nat /\ txFifo \in Seq(Nat)
    BY DEF TypeOK
  <2>3. Len(txFifo') = Len(txFifo) + 1
    BY <2>1, <2>2, AppendProperties
  <2>4. WillRaise => WillRaise'
    <3> DEFINE n == Len(txFifo)
               m == Len(txFifo')
    <3>1. txris' <=> (txris /\ n + 1 <= TxTrigger)
      BY <2>1
    <3>2. n \in Nat /\ TxTrigger \in Nat /\ m = n + 1
      BY <2>3, FifoNumbers
    <3>3. WillRaise <=> (txris \/ n > TxTrigger)
      BY DEF WillRaise
    <3>4. WillRaise' <=> (txris' \/ m > TxTrigger)
      BY DEF WillRaise
    <3> HIDE DEF n, m
    <3>5. (n + 1 <= TxTrigger \/ m > TxTrigger) /\ (n > TxTrigger => m > TxTrigger)
      BY <3>2
    <3> QED  BY <3>1, <3>3, <3>4, <3>5
  <2> QED  BY <2>1, <2>4
<1> QED  BY <1>1, <1>2

LEMMA IrqTxDoneArmed ==
  ASSUME TypeOK, NEW c \in Contexts, irq_tx_done(c)
  PROVE  /\ UNCHANGED <<tx, txFifo, txris>>
         /\ txim' => txim /\ WillRaise'
         /\ ~empty(tx') /\ txim => txim'
<1>1. /\ UNCHANGED <<tx, txFifo, txris>> /\ (empty(tx) \/ ~uart_is_writable)
      /\ txim' = (txim /\ ~empty(tx))
  BY DEF irq_tx_done, TximAfter
<1>2. ~uart_is_writable => WillRaise
  BY FifoNumbers DEF uart_is_writable, WillRaise
<1>3. WillRaise' <=> WillRaise
  BY <1>1 DEF WillRaise
<1>4. txim \in BOOLEAN
  BY DEF TypeOK
<1> QED  BY <1>1, <1>2, <1>3, <1>4

LEMMA ArmedStep ==
  ASSUME TypeInv, TypeInv', Armed, [Next]_vars
  PROVE  Armed'
<1> USE DEF TypeInv
<1>1. CASE Call \/ write_loop \/ read_loop \/ read_get \/ read_drop
  <2>1. /\ UNCHANGED <<tx, nvic, txim, txris, txFifo>>
        /\ \/ pc \in {"idle", "w_loop"} /\ pc' \in BeforeEnable \ {"w_test"}
           \/ /\ pc \in {"idle", "r_loop", "r_get", "r_drop"}
              /\ pc' \in {"idle", "r_loop", "r_get", "r_drop"}
    BY <1>1 DEF Call, write, read, flush, write_loop, read_loop, read_get, read_drop, Main,
                BeforeEnable, ringVars, hwVars
  <2> QED  BY <2>1, SameArmed DEF Writing, MaskedPCs
<1>2. CASE isr_enter \/ irq_rx_step \/ irq_rx_done \/ uart_receives \/ UNCHANGED vars
  <2>1. UNCHANGED <<tx, nvic, txim, txris, txFifo, pc>>
    BY <1>2 DEF isr_enter, irq_rx_step, irq_rx_done, uart_receives, vars,
                ringVars, hwVars, ctlVars
  <2> QED  BY <2>1, SameArmed
<1>3. CASE write_put
  <2>1. CASE full(tx, TxSize)
    <3>1. UNCHANGED <<tx, nvic, txim, txris, txFifo>> /\ pc = "w_put" /\ pc' = "w_loop"
      BY <1>3, <2>1 DEF write_put, Main, hwVars
    <3> QED  BY <3>1, SameArmed DEF BeforeEnable, MaskedPCs
  <2>2. CASE ~full(tx, TxSize)
    <3>1. UNCHANGED <<nvic, txim, txris, txFifo>> /\ pc = "w_put" /\ pc' = "w_publish"
      BY <1>3, <2>2 DEF write_put, Main, hwVars
    <3> QED  BY <3>1 DEF Armed, WillRaise, BeforeEnable, MaskedPCs
  <2> QED  BY <2>1, <2>2
<1>4. CASE write_publish
  <2>1. UNCHANGED <<nvic, txim, txris, txFifo>> /\ pc = "w_publish" /\ pc' = "w_loop"
    BY <1>4 DEF write_publish, Main, hwVars
  <2> QED  BY <2>1 DEF Armed, WillRaise, BeforeEnable, MaskedPCs
<1>5. CASE write_mask
  <2>1. UNCHANGED <<tx, txim, txris, txFifo>> /\ pc = "w_mask" /\ pc' = "w_test"
    BY <1>5 DEF write_mask, Main, ringVars
  <2> QED  BY <2>1 DEF Armed, WillRaise, BeforeEnable, MaskedPCs
<1>6. CASE write_test
  <2>1. /\ UNCHANGED <<tx, nvic, txim, txris, txFifo>> /\ pc = "w_test"
        /\ pc' = IF txim THEN "w_unmask" ELSE "w_enable"
    BY <1>6 DEF write_test, Main, ringVars, hwVars
  <2> QED  BY <2>1 DEF Armed, WillRaise, BeforeEnable, MaskedPCs
<1>7. CASE write_enable
  <2>1. UNCHANGED <<tx, nvic>> /\ txim' /\ pc = "w_enable" /\ pc' = "w_fill"
    BY <1>7 DEF write_enable, AfterEnable, Main, ringVars
  <2> QED  BY <2>1 DEF Armed, WillRaise, BeforeEnable, MaskedPCs
<1>8. CASE write_fill
  <2>1. pc = "w_fill" /\ nvic' = nvic /\ "main" \in Contexts
    BY <1>8 DEF write_fill, Main, Contexts
  <2>2. CASE (irq_tx_get("main") \/ irq_tx_put("main")) /\ pc' = "w_fill"
    <3>1. txim' = txim /\ (~empty(tx') => ~empty(tx))
      BY <2>1, <2>2, IrqTxArmed
    <3> QED  BY <2>1, <2>2, <3>1 DEF Armed, BeforeEnable, MaskedPCs
  <2>3. CASE irq_tx_done("main") /\ pc' = "w_unmask"
    <3>1. /\ UNCHANGED <<tx, txFifo, txris>>
          /\ txim' => WillRaise'
          /\ ~empty(tx') /\ txim => txim'
      BY <2>1, <2>3, IrqTxDoneArmed
    <3> QED  BY <2>1, <2>3, <3>1 DEF Armed, BeforeEnable, MaskedPCs
  <2> QED  BY <1>8, <2>2, <2>3 DEF write_fill
<1>9. CASE write_unmask
  <2>1. UNCHANGED <<tx, txim, txris, txFifo>> /\ nvic' /\ pc = "w_unmask" /\ pc' = "idle"
    BY <1>9 DEF write_unmask, Main, Unmasked, ringVars
  <2> QED  BY <2>1 DEF Armed, WillRaise, BeforeEnable, MaskedPCs
<1>10. CASE isr_tx
  <2>1. /\ pc' = pc /\ nvic' = nvic /\ "isr" \in Contexts /\ pc # "w_fill"
        /\ irq_tx_get("isr") \/ irq_tx_put("isr") \/ irq_tx_done("isr")
    BY <1>10 DEF isr_tx, Contexts, Mutex, MaskedPCs
  <2>2. CASE irq_tx_get("isr") \/ irq_tx_put("isr")
    <3>1. (WillRaise => WillRaise') /\ txim' = txim /\ (~empty(tx') => ~empty(tx))
      BY <2>1, <2>2, IrqTxArmed
    <3> QED  BY <2>1, <3>1 DEF Armed
  <2>3. CASE irq_tx_done("isr")
    <3>1. /\ UNCHANGED <<tx, txFifo, txris>>
          /\ txim' => txim /\ WillRaise'
          /\ ~empty(tx') /\ txim => txim'
      BY <2>1, <2>3, IrqTxDoneArmed
    <3> QED  BY <2>1, <3>1 DEF Armed
  <2> QED  BY <2>1, <2>2, <2>3
<1>11. CASE uart_sends
  <2>1. /\ UNCHANGED <<tx, nvic, txim, pc>>
        /\ txFifo # <<>> /\ txFifo' = Tail(txFifo)
        /\ txris' = (txris \/ Len(txFifo) = TxTrigger + 1)
    BY <1>11 DEF uart_sends, ringVars, ctlVars
  <2>2. Len(txFifo') = Len(txFifo) - 1
    <3>1. txFifo \in Seq(Nat)
      BY DEF TypeOK
    <3> QED  BY <2>1, <3>1, HeadTailProperties
  <2>3. WillRaise => WillRaise'
    <3> DEFINE n == Len(txFifo)
               m == Len(txFifo')
    <3>1. txris' <=> (txris \/ n = TxTrigger + 1)
      BY <2>1
    <3>2. n \in Nat /\ TxTrigger \in Nat /\ m = n - 1
      BY <2>2, FifoNumbers
    <3>3. WillRaise <=> (txris \/ n > TxTrigger)
      BY DEF WillRaise
    <3>4. WillRaise' <=> (txris' \/ m > TxTrigger)
      BY DEF WillRaise
    <3> HIDE DEF n, m
    <3>5. n > TxTrigger => n = TxTrigger + 1 \/ m > TxTrigger
      BY <3>2
    <3> QED  BY <3>1, <3>3, <3>4, <3>5
  <2> QED  BY <2>1, <2>3 DEF Armed
<1> QED
  BY <1>1, <1>2, <1>3, <1>4, <1>5, <1>6, <1>7, <1>8, <1>9, <1>10, <1>11
  DEF Next, Continue, Handler

LEMMA InitArmed == Init => Armed
<1>1. Init => empty(tx)
  BY Sizes, NewRingType DEF Init
<1> QED  BY <1>1 DEF Init, Armed

(***************************************************************************)
(* A byte left in the ring when write has returned always has an interrupt *)
(* to come for it, for every depth of the FIFO and every trigger level     *)
(* below it.                                                               *)
(***************************************************************************)
THEOREM NoLostWakeUp == Spec => []TxArmed
<1>1. Init => TypeInv /\ Armed
  BY InitTypeInv, InitArmed
<1>2. TypeInv /\ Armed /\ [Next]_vars => TypeInv' /\ Armed'
  BY NextType, ArmedStep
<1>3. TypeInv /\ Armed => TxArmed
  BY ArmedIsTxArmed DEF TypeInv
<1> QED  BY <1>1, <1>2, <1>3, PTL DEF Spec
=============================================================================
