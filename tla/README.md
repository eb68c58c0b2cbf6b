# Verification of the Pico W firmware in TLA+

The firmware in `src/pico-modbus` is a Raspberry Pi Pico W program: it connects
to a Wi-Fi network and an MQTT broker, publishes temperatures, switches LEDs on
messages, and can read Modbus sensors over a serial port. This directory models
the parts of it that carry state between calls, checks them with TLC and proves
some of the results with TLAPS.

Paths below are relative to `src/pico-modbus`; `MQTTClient.h` is
`paho.mqtt.embedded-c/MQTTClient/src/MQTTClient.h`.

## The system

    main.cpp ── calls ──> MQTT::Client ── read/write ──> IPStack <── callbacks ── lwIP / cyw43
        │                     │
        │                     └── timers ──> Countdown
        └─ (USE_MODBUS) ─> ModbusRegister ─> ModbusClient ─> nanomodbus ─> PicoUart <── interrupts ── UART

There is one thread. lwIP's callbacks run inside `cyw43_arch_poll`, which
`IPStack::read` calls in a loop and `main` once per turn. Interrupts, the
UART's here, run at any moment they are not masked.

| part | state | operations | what is hard | what makes it correct |
|---|---|---|---|---|
| `IPStack`, the receive ring | `buffer`, `count`, `wr`, `rd`, `dropped` | `tcp_client_recv`, `read` | copies split at the end of the array, a full ring, 16-bit sums, a counter never initialised | bytes are read in order, each once; copies stay in the array; every lost byte is counted |
| `IPStack`, the connection | `tcp_pcb`, `connected` | `connect`, `write`, `disconnect`, callbacks | `connected` is never read, two calls of lwIP behind one result, the error callback leaves a dangling pcb | what `write` returns is what becomes of the packet; nothing is written to a dead pcb |
| `PicoUart`, `RingBuffer` | two rings, `imsc`, the NVIC's mask, FIFOs | `write`, `read`, `flush`, `uart_irq_rx`, `uart_irq_tx` | main thread and handler share rings without locks; the transmit interrupt is edge-like | order kept, nothing sent twice, no lost wake-up, everything accepted gets sent |
| `MQTT::Client` | session flags, handlers, the publish in flight, the QoS 2 table, packet id, timers | `connect`, `publish`, `subscribe`, `unsubscribe`, `yield`, `disconnect`, `cycle`, `keepalive` | nested loops around `cycle`, failures that close the session inside them, broken connections, redelivery, late answers | success means what its documentation says; promised messages arrive; QoS 2 once; a dead connection is noticed |
| MQTTPacket, `readPacket` | the buffer of a packet, `Countdown` | serialisers, deserialisers, four readers | the length field's boundaries, packets in pieces, timers that run out within one, packets that do not fit | what was sent is read, field by field; no buffer is overrun; filters match level by level |
| `Countdown` | one deadline | `expired`, `left_ms` | negative rests | a timer that is over stays over |
| `main.cpp` | LED state, temperature, the client | boot, loop, `messageArrived`, `send_temperatures` | allocations that fail, trees that are not freed, reconnects without a new subscription or TCP connection | what is published is what was asked for; the heap stays sound |
| cJSON | trees of items in the heap | create, parse, print, add, insert, detach, replace, duplicate, compare, minify, delete | lists whose tail is kept in the head, references, memory that runs out in the middle of a call | the heap holds the trees promised; texts read back; exactly JSON is accepted |
| `ModbusClient`, `ModbusRegister`, nanomodbus | request and response buffers, transaction number, servers' memory | every client call, every request handler, `nmbs_server_poll` | late responses, lost, altered and broken frames, short writes, servers that have to skip their neighbours' exchanges | a response answers its own request; an acknowledged write is made, and only what was sent is written |
| displays, fonts, SPI, I2C | – | – | sequential output behind macros that are off | not modelled |
| MQTTClient-C, samples, tests | – | – | not compiled into the firmware | only the C client's `readPacket` is |

`PROJECT.json` lists every component with its status, and under `hazards` every
place where something hard to test can go wrong, with the properties that cover
it or the reason none does yet.

## Modules

| module | models | extends |
|---|---|---|
| `ByteStream` | abstract: a lossy byte stream | |
| `RxRing` | `tcp_client_recv`, `IPStack::read` | |
| `IPConnection` | `IPStack`'s `connect`, `write`, `disconnect`, callbacks; lwIP's pcbs | |
| `RingBuffer` | `uart/RingBuffer.cpp`, as operators on a ring | |
| `PicoUart` | `uart/PicoUart.cpp` and the UART it drives | `RingBuffer` |
| `MQTTSession` | private methods of `MQTT::Client`, as operators on the object | |
| `MQTTClient` | the API calls and the turns of their loops | `MQTTSession` |
| `MQTTSystem` | the client with TCP, a broker and an application; properties and fairness | `MQTTClient` |
| `MQTTPacket` | `MQTTPacket/src/*.c`, `isTopicMatched`: every packet to bytes and back | |
| `MQTTReader` | the four readers of packets over a byte stream and a timer | `MQTTPacket` |
| `Crc16` | `nmbs_crc_calc` | |
| `Nanomodbus` | frames, CRC, headers and the response parsers of `nanomodbus.c` | |
| `NmbsClient` | the client's calls | `Nanomodbus` |
| `NmbsServer` | the request handlers and `nmbs_server_poll` | `Nanomodbus` |
| `ModbusSystem` | `ModbusClient`, `ModbusRegister`, servers, the line between them | `NmbsClient`, `NmbsServer` |
| `CJSONList` | `cJSON.c`: items in a heap and the lists they form | |
| `CJSON` | `cJSON.c`: trees of items | `CJSONList` |
| `CJSONText` | `cJSON.c`: printing, parsing, minifying | `CJSON` |
| `JSONGrammar` | JSON's grammar, apart from the code | `CJSONText` |
| `JSONForest` | abstract: what the calls of cJSON promise | |
| `JSONMessages` | the messages of `main.cpp` | `JSONGrammar` |
| `JSONSystem` | main, an editor of trees and a reader of texts on one heap | `JSONMessages`, `JSONForest` |
| `RxRingProofs`, `PicoUartProofs`, `IPConnectionProofs`, `MQTTPacketProofs`, `MQTTSystemProofs` | theorems | the module they are named for |
| `MQTTDeliveryProofs` | theorems about what is published and what is received | `MQTTSystemProofs` |
| `ModbusProofs` | theorems: types, and calls and writes over TCP | `ModbusSystem` |
| `CJSONListProofs` | theorems: what the calls make of lists | `CJSONList` |
| `MCRxRing`, `MCPicoUart`, `MCMQTT`, `MCMQTTPackets`, `MCModbus`, `MCJSON` | instances for TLC | |

### RxRing

Bytes are their positions in the TCP stream, as the code never looks at one.
`tcp_client_recv(n)` is the whole callback for a segment of n bytes. A read is
two steps: `read_call` enters the polling loop, and `read_return` copies and
returns, so that segments arrive between the two. Its timeout is modelled by
letting it return at any time. The derived numbers have a definition each
(`BytesToCopy`, `Wraps`, `FirstCopy`, `RestCopy`, `RestAt`, `CountAfter`, ...),
with sums kept modulo 2^16 as in the code. `dropped`, which the constructor does
not set, starts with any value and wraps at `DroppedModulus`. History variables
(`arrived`, `kept`, `out`, `atBoot`) are for the properties only.

### RingBuffer and PicoUart

One action per access to what main thread and handler share. `put` stores the
byte and then moves `head` (`write_put`, `write_publish`); `get` reads it and
then moves `tail` (`read_get`, `read_drop`). The handler runs between any two
steps of the main thread when the NVIC lets it, and the main thread stands
still meanwhile (`Main(at)` asks for `isr = "off"`). `uart_irq_tx` is one set of
actions run in two contexts, the handler's and `write`'s initial filling,
distinguished by the index of `held`, the byte that has left the ring and not
yet reached the data register. The UART (external) sends, receives, and raises
its transmit interrupt on the *fall* of the FIFO to its trigger level; filling
above the level clears it. Handler and main thread have one core and one
compiled order of accesses; reordering by the compiler is not modelled.

### MQTTSession, MQTTClient, MQTTSystem

`MQTTSession` has the private methods as operators from the object `c` to the
object afterwards, with return code, packets written and message delivered.
Each write has an outcome: `sent`, `failed` (nothing queued) or `late` (queued
by `tcp_write`, but `tcp_output` failed, so that the caller sees an error).

`MQTTClient` has an action per API call up to its first wait, and `turn`, one
turn of the loop of `waitfor` or `yield`: one `cycle`, then what the call does
with its result. A turn reads a packet (`turn_packet`), finds none in time
(`turn_empty`), or is over between two reads of one (`turn_cut`), on a connection
that is up as well: what it has read of that packet is lost, the session ends
(`MQTTClient.h:473`, `567`), and the next turn reads the rest (`turn_rest`), which
may swallow packets behind it. Between turns the network moves and timers run out
(`timer_over`: the call's timer; `idle_over`: `last_sent`, `last_received`;
`ping_over`: `ping_sent`). `ret` is the call that returned last with its code.

`MQTTSystem` adds the TCP connection (which breaks, losing what is on its way
up and any suffix of what is on its way down, possibly within a packet), a
broker that keeps to MQTT 3.1, and an application that makes any call at any
time, publishing each message once. `main.cpp` is one such application; the
model's is more general, since it also uses QoS 1 and 2, sessions that are not
clean, `unsubscribe` and `disconnect`, which the library offers.

Abstractions: a packet is a record and fits the buffer (`MQTTReader` treats bytes).
Its type and its length come together: a timer that is over between the two, where
the length is used as it is (`MQTTClient.h:462`), is `MQTTReader`'s. The rest
of a packet is read as a type without a case: bytes of it that happen to read like a
packet with one are left out, like a connection opened again with such a rest in
the ring. A cut, like any wait for an answer that could have come, counts as a fault. A filter matches its own topic only; acknowledgments
of the broker are well formed. The order of packets in each direction is TCP's.
The ring never overflows in these modules (`RxRing` treats that).

### IPConnection

A connection is numbered by the `connect` that made its pcb, a packet by the
`write` it was given to. lwIP's side is external: pcbs that come up, are reset
(`tcp_client_err`) or closed, and queues that get through in order. `tcp_write`
and `tcp_output` fail or succeed independently of each other, and the second
failure hides the first, as in the code. Once a call has used a pcb that is not
there (`wild`) nothing more is said: that is undefined behaviour. The constructor
leaves `tcp_pcb` as it finds its memory, null or not (`UNSET`), and `connect` with a
name it cannot resolve leaves it so. main never
calls `disconnect` nor `connect` again; `Again` gives an application that does,
and `Careful` one that looks at what `connect` returns.

### MQTTPacket and MQTTReader

A serialiser takes a packet, a record, to its bytes, or to none if the buffer is
too short by the code's own check; a deserialiser takes a whole buffer and
returns `rc` and the record. `MQTTReader` sends a stream of packets, in
segments, to one of four readers (`MQTT::Client`'s `readPacket`, that of
MQTTClient-C, `MQTTPacket_read`, `MQTTPacket_readnb`). One step is one `read` of
the stream: it returns with all it asked for, or after its timeout with less.
What is left of the timer is running, over (0 ms) or past (negative), and a read
keeps the value its timeout was computed from (`patience`). `broken` marks that a
packet was cut short or did not fit.

### Crc16, Nanomodbus, NmbsClient, NmbsServer, ModbusSystem

Frames are bytes. A response parser (`recv_*_res`) takes a reader state (buffer,
bytes left on the line, error) and the request's state; a handler of the server
takes the same and the station's memory. Blocking reads are a chain inside one
step: the step is taken when the last read returns, with what has come by then,
and `waits` tells that it would still be waiting. On RTU every station hears all
others; over TCP there is one connection to one server. A frame may be lost for one station,
altered, cut, sent short (a full transmit ring) or late (after the client's
timeout); callbacks of a server may fail. `Crc16` computes the code's CRC. The
limits of the protocol (2000 bits, 125 registers, ...) are constants so that an
instance reaches them.

### CJSONList, CJSON, CJSONText, JSONGrammar, JSONForest, JSONMessages, JSONSystem

A heap maps addresses to blocks: free, an item, or the characters of a string;
allocation fails when none is free, and freeing a free block corrupts. Every call is an
operator from heap to heap. `IsList` says what a list is: linked both ways, with the last in the
prev of the first; `AreLists` that the lists of all items are, and share nothing. `CJSONList` has what works on
one list, without recursion; `CJSON` the rest. In `JSONSystem` an editor makes, adds, inserts,
detaches, replaces, copies, references and deletes items by every call there is; with
each step `JSONForest` takes the step the call promises. main sends messages and obeys
those that come, and a reader is given every short sequence of tokens, which
`JSONGrammar` judges independently. Numbers are whole and short; hooks and
error positions are left out.

## Runs

| run | instance | checks | shows |
|---|---|---|---|
| `rx_ring` | 3 cells, segments to 5, reads to 4, 9 bytes, 2-bit counter | `TypeOK`, `RingInv`, `InOrder`, `LossAccounted`, `CopiesInBounds`, `ImplementsStream` | the ring is a lossy byte stream that loses only tails of segments |
| `ip_connection` | 2 connections, 3 packets, resets, closing and connecting again | `PeerGetsWhatWasWritten` | what `write` returns is what becomes of the packet, in order, on its own connection |
| `pico_uart` | rings of 3, FIFOs of 2, trigger 1, 5 bytes out, 4 in, fairness | `TypeOK`, `SentInOrder`, `TxArmed`, `ReceivedInOrder`, `AllSent`, `RxServed` | no race loses, repeats or reorders a byte or a wake-up; accepted bytes are sent, received ones fetched |
| `mqtt_out` | shipped build, session kept, 2 messages, QoS 0/1, refusals, 2 breaks, 2 faults, an application that drains and reopens, fairness | `NothingLost`, `ConnectedMeansAccepted`, `EventuallyReceived`, `Reconnects` | success of `connect` is earned; no promised message is lost, and all arrive |
| `mqtt_in` | QoS 2 build, session kept, 2 incoming messages at QoS 2, 2 other calls, refusals, 1 break, 1 fault | `TypeOK`, `HeardOnce`, `HandlersUnique`, `NoNeedlessClose` | QoS 2 messages are heard once across reconnects; neither they nor answers to the calls end a session |
| `mqtt_close` | QoS 2 build, keep-alive, a message out at QoS 2, one in at QoS 0, 1 other call, 1 break that stays, 1 fault, fairness | `NoNeedlessClose`, `DeadLinkNoticed` | sessions end for cause only, and a silent break does end them |
| `mqtt_packets` | streams with every packet and both sides of the first length boundary, all topics to 4 characters, buffers of 9 and 140, 1 timeout, four readers | `TypeOK`, `ReadsWhatWasSent`, `FitsItsBuffer`, `DeliveredAsSubscribed`, `AllRead` | what is sent is read until a packet is cut short or too long; filters match level by level |
| `modbus` | 2 servers, 3 addresses, menus with every function code, RTU and TCP, 3 calls, 1 fault of any kind | `TypeOK`, `AnswersItsRequest`, `AcknowledgedIsWritten`, `WrittenWasSent`, `FaultFreeCallsSucceed`, `RegisterReadsHeld` | answers belong to requests, acknowledged writes are made, neighbours stay in step |
| `json` | 9 blocks, some taken from the start, 5 calls; texts of 5 tokens | `HeapSound`, `HeapIsForest`, `TextsReadBack`, `AcceptsJSON`, `ComparesTrees`, `PublishedIsAsked` | trees survive every call and every failed allocation; cJSON reads JSON and nothing else |

Three runs that TLC must find violated are disagreements between the code and what
is written in it (`findings` in `PROJECT.json` quotes the lines):

| run | property | what happens |
|---|---|---|
| `ip_freed` | `UsesLivePcb` | one connect, a reset, a write: `tcp_client_err` leaves `tcp_pcb` on a pcb that its own comment says is already freed |
| `mqtt_silent` | `CloseReported` | the shipped build subscribes at QoS 2 and has no case for PUBREL: the first such message closes the session with a positive code, and `yield` returns success |
| `mqtt_stale` | `PublishAcked` | an `IPStack` connected again keeps the old connection's bytes in the ring; `publish`, which "waits for all acks to complete", takes an old PUBACK for its own, the packet id not deciding (`MQTTClient.h:951`) |

Further configurations state what the code does not keep. They are violated, like
the three runs, and explain how the passing runs are set:

| configuration | property | what happens | so the passing run |
|---|---|---|---|
| `MCMQTTStaleLost` | `NothingLost` | as in `mqtt_stale`, with a third message: it takes the place in flight of the second, which is reported as published and was never received (`MQTTClient.h:1010`) | lets the application drain the ring first (`DrainsFirst`), which neither `IPStack` nor main does |
| `MCMQTTConnack` | `ConnectedMeansAccepted` | the result of resending a publish in flight overwrites the failed wait for the CONNACK (`MQTTClient.h:776`) | uses QoS 0/1, where the resent publish gets its PUBACK only in a session the broker has accepted |
| `MCMQTTQoS2Sub` | `NoNeedlessClose` | the shipped build ends its session at the first QoS 2 message (`MQTTClient.h:640`, `main.cpp:223`) | uses the build that has the cases |
| `MCMQTTPing` | `Reconnects` | a PINGREQ sent by `yield` between sessions stays outstanding, and once overdue fails every later `connect` (`MQTTClient.h:688`, `main.cpp:271`) | (`mqtt_out`) has no keep-alive |
| `MCMQTTPacketsAccept` | `AcceptedWasSent` | a remaining length cut short by the timeout is used as it is (`MQTTClient.h:462`): a packet that nobody sent is taken for well read | asks `ReadsWhatWasSent` until a packet is cut short |
| `MCMQTTPacketsWait` | `WaitsInTime` | `left_ms` is negative once the timer is over and `IPStack::read` takes it for weeks (`Countdown.cpp:32`) | says nothing about how long a read takes |
| `MCJSONLeak` | `GivesBack` | `messageArrived` frees the tree of a message of a wrong format, and never that of a command it obeys (`main.cpp:96`) | counts those blocks as lost |

Two more departures from what the library's comments say are part of the model,
and no configuration asks about them: without `MQTTCLIENT_QOS2` a publish at
QoS 2 waits for no acknowledgment and returns success (`MQTTClient.h:958`;
line 165 promises to wait "for all QoSs"), and a message that comes before the
SUBACK is acknowledged and given to no handler, as `subscribe` attaches the
handler last (line 878). After main has reconnected, its subscription is gone
with the clean session and it does not subscribe again; nor does it open a new
TCP connection.

`NoNeedlessClose` is about a client that gets whole packets: its causes are the application,
a failed write, an answer that is overdue, a connection that is gone, and a packet that its own
timer cuts short. It is checked twice, as the room for states does not allow everything at once: `mqtt_in`
has the incoming handshake of QoS 2, SUBACKs, UNSUBACKs and failed and late writes, `mqtt_close`
the outgoing handshake and the keep-alive. `MCMQTTBoth`, which passes without fairness, has both
directions at once at QoS 1 and 2, with keep-alive, a subscription and every failed write.

Deadlock is checked in every run but two: an application that has used up its
bound of calls may stop in `ip_connection` and `json`.

### Bounds and why they are enough

* `RxRing`: nine bytes go round a ring of three cells three times; segments and
  reads of every length up to beyond the ring meet every position of the
  indices; a counter of two bits wraps. The proofs remove all these bounds.
* `PicoUart`: five bytes through a ring holding two and a FIFO of two fill both
  and leave more to write; two bytes of FIFO with a trigger at one are the
  smallest with a level above, at and below the trigger. Four bytes coming in
  overrun the FIFO and fill the receive ring. Indices wrap more than once.
* `IPConnection`: two connections are what mistaking one for another takes, three
  packets let one be refused between two that are taken. The proofs remove the bounds.
* MQTT: two messages are what confusing one acknowledgment with another takes;
  two breaks let a message be sent on three connections; two faults let a
  retry fail as well, and one fault may be a packet cut short on a live connection. `MAX_PACKET_ID` is 1 in `mqtt_in` so that ids wrap
  within the run (65535 in the code), where no property depends on them, 2 in `mqtt_out` for two publishes. Two handler slots and two QoS 2 slots: the table of QoS 2
  ids is never full in a run with two messages. `MaxQueue` stops an
  application that calls `connect` for ever at a broker that does not read.
* `mqtt_packets`: payloads of 122 and 123 bytes make remaining lengths of 127 and
  128; the buffer of 9 is overflowed by most packets, the one of 140 by none. Short
  streams come byte by byte, so that each read may meet any part of a packet. Topics of
  four and filters of five characters have up to three levels. The
  other boundaries of the length field are proved.
* `modbus`: three addresses with limits of three put every range check at its edge;
  three calls are one more than a late answer needs to be taken for another's. One fault
  per behaviour, but of any kind, at any frame and byte (of the first five). Answers are too short
  for the tail of one that a neighbour misjudges to be a frame with a right CRC; values that
  spell one, in an answer of about six registers, are not in the menus.
* `json`: nine blocks are one more than main's two trees and text need; the ballast makes
  every allocation of every call fail in some behaviour. Five calls make a list, nest it, and
  take from it. Texts of five tokens hold every list of two elements.

### Fairness and why the code justifies it

* `PicoUart`: the processor carries on with the main thread's operation and with
  the handler (weak fairness), the UART sends what is in its FIFO (weak), and a
  pending interrupt that is unmasked again and again is taken (strong: each
  unmasked moment takes it at once). Nothing is assumed of callers: `write`,
  `read` and arriving bytes need never happen.
* `MQTTSystem` (`mqtt_out`, `mqtt_close`): the application's loop calls `yield` and, when disconnected,
  `connect` again and again, as `main` does every turn and every two seconds;
  calls that keep being made are not always over before their first turn; timers
  run out; the broker reads and answers; a connection that breaks is opened
  again only in runs where the application does that (`Reopens`). Faults,
  breaks and other calls are bounded, never fair.
* The other modules state safety only: an lwIP connection, a Modbus server or a heap owes the
  code nothing in time.

## Proofs

`RxRingProofs` proves, for every `BUF_SIZE` from 1 to 32768 (what 16-bit sums
allow), every segment and read length and every width of the counter:

| theorem | states |
|---|---|
| `TypeCorrect` | `Spec => []TypeOK` |
| `RingCorrect` | `Spec => []RingInv`: at most `BUF_SIZE` bytes, `wr` is `count` cells after `rd` |
| `ReadsInOrder` | `Spec => []InOrder` |
| `NoOverrun` | `Spec => []CopiesInBounds` |
| `RingImplementsStream` | `Spec => ImplementsStream`: refinement of `ByteStream` |
| `DropsAccounted` | `Spec => []LossAccounted` |

The assumptions are the named ones of `RxRing` (`BufSizeAssumption`,
`BoundsAssumption`), evaluated by TLC in `rx_ring`.

The inductive invariant `IndInv` is `TypeOK /\ RingInv /\ InOrder`. Neither
`RingInv` nor `InOrder` is inductive without the others: where a copy lands
depends on `wr`, which only `RingInv` ties to `rd` and `count`, and that no
waiting byte is overwritten needs `count <= BUF_SIZE`. The argument is in three
layers: arithmetic (`ModIsAround`: every remainder the code takes is of a
number below twice the size, and no 16-bit sum overflows), the numbers of a
step (`ArriveNumbers`, `ReadNumbers`), and the ring's contents after it
(`ArriveContents`, `ReadContents`), shared by the invariance and the
refinement. `DropsAccounted` adds modular arithmetic on the counter.

`PicoUartProofs`, for every size of the two rings, depth of the FIFOs, trigger level below
that depth and length of an operation (`SizesAssumption`, `BoundsAssumption`):

| theorem | states |
|---|---|
| `TypeCorrect` | `Spec => []TypeOK` |
| `BytesSentInOrder` | `Spec => []SentInOrder` |
| `BytesReceivedInOrder` | `Spec => []ReceivedInOrder` |
| `NoLostWakeUp` | `Spec => []TxArmed` |

Each needs what one context may rely on while the other runs:

* `TypeInv` adds `Mutex`: from `write_mask` to `write_unmask` no handler runs, so that at most one
  context has a byte in hand, and the room it saw in the FIFO is still there. Without
  it the FIFO's depth is not kept.
* `TxOrder` adds `PutPending`: between the two halves of `put` the byte lies in the cell at
  `head` and the ring still has room, as the handler only takes bytes out.
* `RxOrder` adds `GetPending`: between the two halves of `get` the oldest byte stays where it
  is, as the handler never writes to a cell in use; and that no byte in the ring is later than the last
  that came in.
* `Armed` is about the interrupt: once it is raised, or still will be by the FIFO's fall, it
  stays so, as a write to the FIFO clears it only above the trigger level (`IrqTxArmed`); and
  `uart_irq_tx` stops with bytes left in the ring only when the FIFO is full, hence above that
  level (`IrqTxDoneArmed`).

The lemmas about rings (`WaitingStore`, `WaitingPublish`, `WaitingDrop`) say what each
access to a ring does to the bytes waiting in it; those about sequences (`MoveToHand`,
`MoveToFifo`, `MoveToWire`) that a byte handed on changes nothing of the whole.

`IPConnectionProofs`, for any number of connections and packets, with or without
resets, careful applications and second connections (`IPConnectionAssumption`):

| theorem | states |
|---|---|
| `WrittenReachesPeer` | `Spec => []PeerGetsWhatWasWritten` |
| `ConnectionTypeCorrect` | `Spec => [](TypeOK /\ Unmade)` |

The property alone is not inductive: that a new packet is the last in order needs
that all packets taken so far have smaller numbers, and that a new connection starts with
nothing needs that a pcb not yet made holds nothing (`Unmade`). `IInv` adds both, the
first inside `Sound`, what is true of one connection's packets; lemmas show that `Sound`
survives a packet taken (`TakenBy`), refused (`NotTaken`), delivered (`Moved`),
a connection freed (`Freed`), and a change of state (`StatesChange`).

`MQTTPacketProofs`:

| theorem | states |
|---|---|
| `DecodesWhatWasEncoded`, `DecodesFromBuffer` | every remaining length below 2^28 is decoded as it was encoded, digit by digit and from a buffer in which anything follows |
| `LenIsEnough` | `MQTTPacket_len` is what a packet takes, or one byte more |
| `WrittenFits` | a serialiser that passes its check writes no byte beyond the buffer |
| `ReadsWhatWasWritten` | of every packet of every type (`Packets`), the deserialiser its receiver calls takes every field as it was, whatever follows in the buffer |
| `SerialisersFitTheirBuffer` | `Spec => []FitsItsBuffer`: a buffer one byte too short is refused for every packet of the client |
| `ReadersStayInBuffer` | `Spec => []TypeOK` of `MQTTReader`: whatever the sizes and cuts, digits stay below five and every byte stored inside the buffer |
| `ReadersReturnWhatWasSent` | `Spec => []ReadsWhatWasSent`: what the readers return is what was sent, packet by packet and field by field, until one is cut short or too long |
| `ReadersReadAll` | `Spec => []AllRead`: a reader that waits at the end of the stream has read all of it, until then |
| `MatchesLevelByLevel` | `Matches(filter, topic) <=> Covers(filter, topic)`: a filter is found for a topic if and only if it covers it level by level |
| `DeliversAsSubscribed` | `Spec => []DeliveredAsSubscribed`, for filters and topics of that format |

The theorems on `MQTTReader` assume `ReaderAssumption`: buffers hold at least a header
(five bytes), and streams are sequences of `Packets`. These are the packets one side of the
library writes and the other takes: every type, strings of up to 65535 bytes, as many filters or codes as the
receiver has room for, the last of user name and password not empty, all of it fitting the buffer of 1000
bytes it is written to.

A packet is read back in two halves. `Form` says which bytes a serialiser writes, as a
join of single bytes, numbers and strings; `ReadBack` that the deserialiser takes from such
a join what was put in; `Framed` that the header and the length agree with it. Lists of filters
and codes have no bound but `MaxCount`: what is written of them (`Concat`) and read (`item`) are recursive
functions over numbers, and what holds of them is proved with a set of the numbers for which it
holds (`NatInd`, from the well-foundedness of `<`).

`TypeOK` is not inductive: that no fifth digit is taken needs that a field that has ended is
left (`stage = "digits" => ~Ended(digits)`), and that a body stays inside needs that the rest of it
is never negative (`LengthKnownFits`, which holds for any digits, those cut short
included). `IInv` adds both. `RInv` adds where the reader is in the stream as long as nothing
is broken (`InStep`): what is in the buffer, in the ring and on the wire, one behind the other, is
what has been sent behind the packets returned (`Follows`), and the digits taken are those of the packet
that comes next.

`isTopicMatched` says in a comment what it assumes: `#` only at the end, `+` and `#` only next to a
separator. `ProperFilter` states it, `ProperTopic` that a topic has no empty level, without which `+` and `#`
do not match (`Stops`). The proof takes the walk of the two pointers level by level: `LevelDecides`
says that a level `#` ends both, that `+` or the topic's own level leads to the ends of both levels, and that any other
stops the walk too early; `WalkCovers` puts the levels together by induction over the characters that
are left. Levels are counted by their cuts (`Rank`), as `Covers` counts them.

### The MQTT client in its system

Two modules prove about `MQTTSystem` with tables, packet ids, sets of topics and messages,
breaks, faults and calls of any size, any options of the build and of `connect`, and
packets under way of any number (`ClientAssumption`, `APIAssumption`, `SystemAssumption`).
What a theorem needs besides it says in its hypotheses; each of them excludes a way of
using the library that is known not to work, or that the proof cannot do without:

| theorem | states | if |
|---|---|---|
| `MQTTSystemProofs` `TypeCorrect` | `Spec => []TypeOK` | |
| `HandlersUniqueHolds` | `Spec => []HandlersUnique` | |
| `SessionsAreAccepted` | `Spec => ConnectedMeansAccepted` | `DrainsFirst`, QoS 2 only when compiled in |
| `ClosedForCause` | `Spec => NoNeedlessClose` | a slot for every filter, QoS 2 only when compiled in |
| `MQTTDeliveryProofs` `PublishAckedHolds` | `Spec => []PublishAcked` | `DrainsFirst`, QoS 2 only when compiled in |
| `NothingLostHolds` | `Spec => []NothingLost` | the same, and a session that is not clean |
| `HeardOnceHolds` | `Spec => []HeardOnce` | a clean session; or one that is not, with QoS 2 compiled in and nothing coming at QoS 1 |

`mqtt_stale` and `MCMQTTConnack` show what happens without `DrainsFirst` and with QoS 2
that is not compiled in, `MCMQTTQoS2Sub` the latter for `NoNeedlessClose`. A message at QoS 1 may
be heard again, as MQTT allows, and the build without QoS 2 hears a QoS 2 message as
often as it is sent. `NothingLost` is violated without `DrainsFirst` as well (`MCMQTTStaleLost`).

Every step takes `c` through nested operators (`cycle`, `answered`, `resend`,
`publish_packet`). `MQTTSystemProofs` therefore first says in one lemma per operator what it may
come to (`PacketHandled`, `CycleType`, `PublishCases`, `ResendCases`, `AnsweredCases`,
`UnansweredCases`), then in one per action what the call may do (`ConnectCases`, ..., `TurnCases`,
`TimerCases`); the invariants are proved from these.

* `Types` is stronger than `TypeOK`: packets under way, the messages the broker keeps and the calls
  have their fields, and QoS 2 acknowledgments are only under way if somebody uses QoS 2.
* `SessionsAreAccepted` adds `Tracked`, a publish in flight awaits an acknowledgment, and `Quiet`,
  nothing comes down a connection the broker has not accepted yet. A connect that
  ends well has read a packet, and by `Quiet` that packet is this connection's.
* `ClosedForCause` adds `Offline`, there is no session while connect is under way, and `Whole`, the
  rest of a packet comes down a live connection only as what is read next, after the session has ended; a free slot is found by
  counting (`SlotToHave`).
* `PublishAcked` and `NothingLost` need to know what is under way. `Delivers` says that of all
  packets that are about a publish of the client at most one is between client and broker (`Single`); that it is
  about the publish being made, or the one in flight, and says of it what the broker knows (`Carries`); that
  none is left between two publishes (`Calm`); and that a CONNECT and its CONNACK come before any of
  the next session (`FirstOnly`, `Ordered`). Packets behind a CONNECT the broker will
  close on, or before the first, do not count (`Live`): the broker never reads them. This is why the
  id of a PUBACK, which `publish` ignores, does not matter as long as the ring is drained.
* `HeardOnce` needs to know what will come. `HearsOnce` says that a message under way twice, or heard and
  under way, is at QoS 2 with one id that the client's table has, and no PUBREL of that id comes
  before it (`Repeats`, `Guarded`); that the same holds of what the broker will send over the next connection
  (`Resendable`); that what the broker keeps differs in ids and messages (`Distinct`); that a message nobody has
  published is nowhere (`Unknown`); and that before the first connect of a session that is not clean nothing is subscribed
  (`NotBegun`), as until then the object takes its session for a clean one and forgets its table. `ReadHeld`
  is the step that matters: a PUBLISH is given to a handler only if its id is new,
  and the table has room for it, and is known afterwards.

### Modbus

`ModbusProofs` `TypeCorrect` states `Spec => []TypeOK` of `ModbusSystem` for any menu of calls, number
of servers, memory, callback failures and faults of the line, over TCP and on a serial line, if

* `CrcIsBytes`: the CRC of bytes is bytes. `Crc16`, which the run uses, is `nmbs_crc_calc`; here any will do.
* no server has a callback for file records. Their handlers walk over a list of records of any
  length, which only an induction over that list could follow; TLC runs them.

`LimitsAssumption` bounds what a request may ask by the constants of `nanomodbus.c`, and
`ApplicationAssumption` says what the application's requests and the callbacks are: words and
bits, and lists as long as their length says. The invariant is `Types`: packets on the line and
buffers are sequences of bytes, and a call under way is one the client can make. What carries the proof is
one lemma per operator on a `Reader`: a read that went well has as many bytes as it asked for
(`RecvType`, `CountThenBytes`), so every handler decodes inside what it has received, a count in its
second byte is followed by that many bytes, and an answer fits the byte that holds its length.

Over TCP the same module states the safety properties of the run `modbus`, each with the conditions
under which it holds for every payload, not only for those of the run's menus:

| theorem | property | on a connection |
|---|---|---|
| `AnswersOverTcp` | `AnswersItsRequest` | with no frame cut, for a call that found it silent (`Whole`) |
| `WritesOverTcp` | `AcknowledgedIsWritten` | the same |
| `ReadsOverTcp` | `RegisterReadsHeld` | the same |
| `CallsSucceed` | `FaultFreeCallsSucceed` | with no raw calls; not only without faults, but with failing callbacks as well (`Undisturbed`) |
| `WritesWereSent` | `WrittenWasSent` | with no raw calls, no frame cut or stopped short (`Uncut`); answers may be late |

The conditions are needed: a poll or a call that gets a part of a frame gives up, and takes the rest
of it, or of the next one, for a header. A payload may happen to read like a frame there, and then no
answer or write can be promised; the run's menus have no such payload, so that TLC finds the
properties to hold of them without the conditions. A raw call
(`nmbs_send_raw_pdu`, which the firmware does not make) sends what it likes and says itself how much
it will read. `last.clean`, which `Whole` asks for, is about what was left when the call began:
what happened to the calls before it does not matter otherwise.

The argument follows a frame. Streams first: a reader takes exactly what it asks for and leaves the rest
(`RecvTakes`, `CountedTakes`), so that the frame of a request before any other bytes is taken whole,
answered to its message and data, and the rest left (`PollAnswers`); and the frame of the answer is taken
whole by the function that waits for it and found right (`ResponseObeyed`, `ResponseRefused`). On a connection
nothing waits for a frame it will not answer (`PollNeverWaits`), so that a call that finds it silent is
alone on it. `Exchange` is then the inductive invariant: its request is under way, has come, or a server
has answered it and that answer is under way or has come, and there is nothing else (`InOrder` adds what it means
for the result). `Timely` adds that there is nothing between calls, if nothing is stopped short or too
late. `Framed` is what is left of it when answers may be late: what a server has not read is one sent frame
after another (`Frames`), whoever waits for the answers.

### cJSON's lists

`CJSONListProofs` proves what the calls of cJSON make of lists, for heaps and lists of any size. Each theorem
takes a heap of the right type in which the lists of some parents are `lists` (`AreLists`, which `HeapSound`
says of the heap of the run in every state), and says that the heap after the call has the lists `lists` but for
one, that this one is a given sequence, and that nothing else has changed: not what an item
holds, not the links of any item outside that list (`Becomes`).

| theorem | call | the list is then |
|---|---|---|
| `AddAppends` | `add_item_to_array` | `Append(kids, item)` |
| `InsertInserts` | `cJSON_InsertItemInArray` | `InsertAt(kids, which + 1, item)`, or as above behind the last |
| `DetachRemoves` | `cJSON_DetachItemViaPointer` | `RemoveAt(kids, k)`, and the item is in no list and leads nowhere |
| `ReplaceReplaces` | `cJSON_ReplaceItemViaPointer`, before it frees the item | `ReplaceAt(kids, k, new)`, and the old item is in no list and leads nowhere |
| `NthItem` | `get_array_item` | unchanged; the result is the item at the index, or NULL |

An item that is added must be in no list (`Loose`), as cJSON does not look; and where it is appended to others
its next must be NULL, as `suffix_object` does not reset it. Items are born so, and detached so.

A call is a chain of assignments to one field each. `Sets` says what one of them changes; the lemmas on links
(`AddLast`, `InsertBefore`, `DetachLinks`, `ReplaceLinks`) follow the chain through the branches of the code,
first, last and only item apart, and say of every item what its links are in the end. The lemmas on lists
(`DetachList`, `ReplaceList`) find the new sequence in them, and `OneListChanges` keeps the other lists.
`get_array_item` is a walk, and `NthItem` an induction over its steps.

Model-checked only: liveness (`AllSent`, `RxServed`, `DeadLinkNoticed`, `Reconnects`,
`EventuallyReceived`), which stays with TLC as the prover reasons neither about fairness nor about
ENABLED; what the Modbus properties say of a serial line, where they
rest on the CRC telling altered frames apart and on neighbours judging each other's traffic, of
connections on which a frame was cut, of raw calls and of file records; and the properties of the run
`json`. `CJSON` and the modules on it are written with RECURSIVE operators, as their trees are; no
theorem can be stated about them here, only about the lists that trees consist of.

## What the models say besides

Behaviour met while modelling that a reader of the code might not expect; the
definitions have it, and no property calls it wrong.

* Packets: `MQTTPacket_len` asks for one byte too many when a length is just below a
  boundary. The checks of the server's CONNACK, SUBACK and UNSUBACK ask for two bytes and write more.
  `MQTTDeserialize_suback` stores one code more than it has room for before it gives up.
  `MQTTDeserialize_publish` may make a negative payload length. An empty user name or password is refused
  by `MQTTDeserialize_connect`. The filter `a/#` does not match `a`.
* Modbus: on a serial line a late answer of the same unit and function is taken for the answer to
  the next request. The answers to writes of several coils or registers repeat no
  value. An answer with another header leaves its rest unread. A neighbour's read/write of registers, or
  a write of several file records, is misjudged by the servers that skip it. What they have received is thrown away
  if the request is at fault. After an answer at fault it is not, although the comment at `nanomodbus.c:1569` says so:
  reading the answer has reset `msg.ignored` (lines 265 and 122) before the test of it (line 1568), so that
  the tail is read as the next frame, whose end it may not find before the next request. Exceptions are sent for broadcasts. An unsupported function code is
  neither read to its end nor answered. The size of a file record response is kept in one byte. A write of
  several file records may be carried out in part.
* UART: `get_fifo_level` never sees a disabled FIFO, as `lcr_h | FEN` is never zero.
* cJSON: `AddItemReferenceToObject` loses the reference if the key cannot be copied;
  replacing in an object renames the replacement even if nothing is found; look-ups by exact
  name stop at an item without one; `\u0000` ends a string; `Minify` takes the quotation mark after an
  escaped backslash for an escaped one; a tree with a name twice does not equal its copy.
* main: the payload it prints is not terminated; `blink_leds_temp` sets all three pins
  every second, whatever messages have asked for, and its temperature is the one of the boot;
  `create_json_message` loses strings when it cannot make an object or a key.

## Not modelled, and the plan

Not modelled: displays, fonts, framebuffer, I2C and SPI wrappers (output drivers without
state that anything reads back, behind macros that are off), MQTTClient-C except its
reader, samples and tests (not part of the firmware), `setDefaultMessageHandler`
(never called), `MQTTFormat.c` and other wording, cJSON's hooks.

The plan has left, in this order:

1. proofs about Modbus on a serial line where nothing is altered, lost or late, with two stations;
2. a run that fills the QoS 2 table, and duplicates of outgoing QoS 2 messages.

## Running

    tlc -config MCRxRing.cfg MCRxRing        # and so on, one cfg per run
    tlapm RxRingProofs.tla                   # and so on, one call per module of theorems
