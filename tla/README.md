# A TLA+ verification of the wiznet-rs W6100 driver

`wiznet-rs` drives a WIZnet W6100 Ethernet controller from a single-core
microcontroller. All chip work happens in interrupt handlers; the application
thread only touches socket handles. This directory models that split, checks it
with TLC on small instances and proves, with TLAPS and for every size, the
safety of ring, driver object, transport, TCP and UDP socket and TCP echo.

## 1. Inventory

| Component | State | Operations | Talks to | Must hold |
| --- | --- | --- | --- | --- |
| `SpscRing` (`spsc_ring.rs`) | buffer, capacity, free-running `head`/`tail`, frame counters | `install`, `write`, `read`, `peek`, `len`, `free`, `clear`, frame counting | thread on one end, handlers on the other | FIFO, no lost/torn/stale byte, no slot touched by both ends |
| `AtomicCell` (`atomic_cell.rs`) | value, `busy` | `lock`, `lock_mut`, guard drop | everything | never two guards; a failed lock has a safe fallback |
| `Transceiver` (`transiver.rs`) | idle / in flight / pending, scratch buffers | synchronous register access in batches; `start_*`, `finish_*`, `abort` | `SpiDmaDevice` | one transfer at a time; framing kept |
| Registers (`socket_common.rs`) | none | one access per function | chip | right register, right command |
| `SocketBackend` (`socket.rs`) | `Free`/TCP/UDP, `release_requested` | `claim_*`, `request_release`, `run`, `reset` | state machines | a slot has one owner and returns to the pool |
| `TcpSocketState`, `TcpSocket` (`tcp_socket.rs`) | status, pending error, close request | one handler per status; `read`, `write`, `status`, `close`, `reconnect`, drop | chip socket, rings | bytes conserved and in order, FIN only when drained, teardown ends |
| `UdpSocketState`, `UdpSocket` (`udp_socket.rs`) | same, with framed rings | same, `recv_from`, `send_to` | chip socket, rings | datagram boundaries kept |
| `W6100` (`lib.rs`) | link, configuration and its dirty flag, socket table, transfer in flight | `open_*`, `set_network_config`, `link_up`, `is_link_up`, `service`, `run`, `reset`, `dma_complete` | all of the above | one bus owner, configuration reaches the chip, every transfer ends |
| Transport traits and `HalSpi` (`spi_dma.rs`, `examples/echo/src/hal_spi.rs`) | buffers, chip select, transfer-complete flag, interrupt enable | `transceive`, `wait`, completion handler | DMA engine, NVIC | one command per chip-select frame, no missed completion |
| Echo firmware (`examples/echo/src/main.rs`) | handles, carry-over buffers | echo loop, three interrupt handlers | handles | what arrives is echoed |
| Loopback test, host tester | - | - | hardware | not modelled |

**Who runs when.** The timer tick, the chip's INT edge and the DMA-complete
interrupt share one priority: they never preempt each other, they preempt the
thread anywhere, and the thread runs only while none of them does. The handlers
and the thread share the rings (lock-free), the cells (try-lock, a loser skips
or gives up) and a few atomic flags.

**What is hard.** A thread suspended inside a ring copy or while it holds a
cell; a transfer that is started in one handler and finished in another, with
the thread, the peer and further ticks in between; a chip whose registers are
read one after the other while the peer goes on; link-loss resets that stop
half-way; requests that a later step forgets. `PROJECT.json` lists every hazard
at its line with the property that covers it.

## 2. Modules

| Module | What it is |
| --- | --- |
| `ByteFifo` | the promise: an atomic bounded FIFO of bytes |
| `SpscRing` | the ring, one step per load, store and copied byte |
| `SpscRingProofs` | proofs about `SpscRing`: invariant, properties, refinement of `ByteFifo` |
| `W6100`, `MCW6100` | the driver object: pool, bus, link, configuration, thread against handlers |
| `W6100Proofs` | proofs about `W6100` |
| `Transceiver` | the SPI transport: device cell, batching, `HalSpi`, DMA engine |
| `TransceiverProofs` | proofs about `Transceiver` |
| `TcpSocket` | one TCP socket end to end, with chip, peer, rings and application |
| `TcpSocketProofs` | proofs about `TcpSocket` |
| `TcpEcho` | the echo firmware's TCP loop composed with `TcpSocket` |
| `TcpEchoProofs` | proofs about `TcpEcho`, on top of `TcpSocketProofs` |
| `UdpSocket` | one UDP socket end to end, with frames over the rings |
| `UdpSocketProofs` | proofs about `UdpSocket` |

The layers meet at their promises. `SpscRing` implements `ByteFifo`, and the
socket modules use the ring as that FIFO; `UdpSocket` adds the frame counters
and their order against the bytes. `Transceiver` shows that the bus has one
owner and that a started transfer completes; `W6100` uses that as its external
hardware. `W6100` abstracts the sockets to their status and shows who may touch
which slot and when; `TcpSocket` and `UdpSocket` then look at one slot with its
bytes. `TcpEcho` extends `TcpSocket` and replaces its arbitrary application by
the firmware's thread.

**`SpscRing`.** A byte is its position in the producer's stream, so losses and
repetitions are visible in the data. `WriteBegin` is `write` up to `start`,
`WriteByte` one byte of its two `memcpy`s, `WriteEnd` the store of `tail`;
`ReadBegin`, `ReadByte`, `ReadEnd` and `PeekEnd` likewise for the consumer;
`Clear` is allowed between calls only, as its comment demands. `CounterMod` is
the 2^32 of the counters. `ImplementsFifo` maps the published bytes to the
queue of `ByteFifo`; the models above it use the ring as that queue.

**`W6100`.** `isr` is the handler in progress, `main` the thread's call, `held`
the cells the thread has locked. A handler's steps follow `service`: defer,
read the link, then `reset` (chip, each slot, end) or configuration and `run`
over the slots. The thread's calls are split where holding a cell, or the order
of two stores, is visible: `set_network_config` in three steps, `open_*` slot by
slot, handle calls in lock and unlock, `reconnect` between `rearm` and `clear`.
A slot keeps protocol, status, the two request flags and the number of its
claim; one tick moves the status to any value the state machine can give it,
whatever the chip says. The link may change between any two reads, so each read
of it gives either answer. `SpiFaults` lets any bus access fail. `PollsLink` says
when the thread calls `is_link_up` itself: `"never"` (the echo firmware reads a
flag instead), `"closed"` (only before it opens a socket) or `"any"`.

**`Transceiver`.** A byte on the bus is the pair of its command and its position
in it; the chip's answer names the command whose header opened the chip-select
frame. `Sync` starts a register access, a write of the header followed by a
write or a read of the data, or a delay as `reset` uses it.
`exec_transaction` is its own loops: `PackOp` puts one operation at `offset`
into the scratch buffers until one does not fit, `transceive` and `wait` run the
batch, `UnpackOp` takes the answers out operation by operation, and packing goes
on with the operation that did not fit. `Bulk` starts a transfer that outlives the call; the
completion interrupt, taken when no other handler runs, finishes it; `abort` may
meet it at any moment. `Clock` is the DMA engine, one byte at a time between any
two of those steps; the pending bit of the NVIC survives an abort, so late
interrupts happen. `DeviceFails` lets `transceive` refuse. Scratch is at least a
header and the largest register, as in the firmware.

**`TcpSocket`.** The state machine with one action per handler, split between
the reads of `Sn_IR` and `Sn_SR` because the peer moves in between; the transfer
in flight with its bytes; the handle's calls; and, as external parts, the chip's
socket (`sr`, `cr`, the TIMEOUT bit, both buffers) and a peer that connects,
sends, takes, ends, resets or disappears. Commands other than SEND and RECV take
any time; a command that does not fit the chip's state is ignored; OPEN empties
the buffers. These are what the driver's comments and the chip model of
`tests/echo_harness.rs` assume. `Answer` is the end of a tick including
`SocketBackend::run`'s release of the slot. `link` is the link as `service` saw
it last: `Service` finds it up and goes on to the tick, `LinkReset` is the first
`service` that finds it down; later ones return without running a socket
(`lib.rs:539-549`), so they change nothing and have no action. `dma_complete`
ends in a `service` of its own (`pc = "service"`), which may be either. The
application writes only when `status` said Established and reconnects only when
it said the session is over.
Left out: register contents beyond these, addresses and ports, bus faults.

**`TcpEcho`.** `app` is the position in the thread's three phases, `carry` the
part of its buffer that `write` has not accepted. Handlers interrupt it between
any two calls; when it sleeps (`wfi`), any handler wakes it. Its phases follow
`TcpSocket`'s `link`; resets are whole here.

**`UdpSocket`.** A datagram is a number and a length; rings and chip buffers hold
its cells, header first, so a torn or shifted frame is visible. `recv_from` and
`send_to` are split at every ring access: header, payload piece by piece,
discarded rest, frame counter. A tick is `receive` (nothing, a datagram that can
never fit, an empty one, a transfer) followed by `transmit` when no transfer was
started. `Sn_RX_RD` wraps at `PtrMod`; `fsr` is `Sn_TX_FSR`, what the chip
reports as free of its TX buffer. A sequence of cells is framed (`Framed`) when
every cell lies in a whole copy of its frame, and is `n` frames (`Whole`) when
`n` of its cells are first cells: a definition without recursion, which the
proofs can use as it stands. Bus faults strike inside `receive` (before it has
changed anything, or before or after it has told the chip to skip a datagram),
inside `transmit` (before or after the payload was staged) and in `finish_bulk`
after a transfer (before or after the chip's pointer is written); datagrams
arrive on the chip in pieces. The link is as in `TcpSocket`.

## 3. Runs

Passing:

| Run | Instance | Shows |
| --- | --- | --- |
| `ring` | capacity 4, counters mod 8, calls up to 3, 11 bytes | FIFO, accounting, no data race, refinement of `ByteFifo`, inductive invariant; counters wrap and slots are reused several times |
| `driver` | 2 slots, 2 opens, bus faults, polling while no socket is open | inductive invariant; bus marker and Transceiver agree; no access during a transfer; a transfer is delivered to the claim that started it; no slot lost or shared; a configuration not on the chip is marked, except after a torn reset |
| `driver_live` | 1 slot, fair, no faults, no polling | transfers end, configurations arrive, released slots are closing |
| `transport` | header 2, scratch 4, data up to 2, bulk payloads up to 3, 4 calls, refusing device, fair | inductive invariant; one command per chip-select frame, a read gets the answer to its own header, one bus owner, the device returns |
| `tcp_safety` | rings and chip buffers of 2, 3 bytes each way, 2 connections, both modes | inductive invariant; conservation and order of bytes, FIN after drain, no transfer in a finished session |
| `tcp_live` | sizes 1, 2 connections, 2 link-loss resets, whole or torn, fair | if a lost link comes back: a dropped slot is freed; a close completes unless a reset strikes |
| `tcp_echo` | ring 2, chip buffer 1, carry-over 2, 3 bytes, 2 clients, 1 reset, fair | nothing a client sends is lost or given to another client, all of it comes back, the server always serves again |
| `udp_safety` | header 2, ring 5, chip buffer 8, pointer mod 9, datagrams of 0, 2 and 4 in and of 0 and 1 out, 1 fault after a transfer, 1 reset, close, reconnect or drop | inductive invariant; frame counters and bytes agree; datagrams delivered and sent whole and, without a fault, in order and once |
| `udp_live` | header 1, ring 2, chip buffer 4, datagrams of 0, 1, 2 in, one of 1 out, 1 fault in `receive` or `transmit`, 2 resets or calls, fair | no datagram blocks the chip; if a lost link comes back, an accepted datagram leaves and a dropped slot is freed |

Violations, each a disagreement between a comment and the code (details and
quotes under "findings" in `PROJECT.json`):

| Run | Disagreement |
| --- | --- |
| `config_lost` | a reset stopped by a held cell never marks the configuration |
| `echo_truncated` | the FIN is sent while the echo loop still holds bytes it has read |
| `udp_torn` | `transmit` takes a frame's header out of the ring and then fails on a payload larger than the scratch buffers: the frame is torn |

A fourth finding is shown by a property that holds. After the peer's FIN the
driver sends its own only when the application has emptied the rx ring
(`DrainedAtFin` in `tcp_safety`); the comment at `tcp_socket.rs:447-449` says that
it waits for the chip's buffer only and that "the consumer may still drain the
local ring afterwards". `TcpFinWait.cfg` below is the caller who relies on the
comment.

More weaknesses have a configuration of their own, which `tlc -config X.cfg M`
ends with the violation named, but are not part of the project's runs:

| Configuration | Module, property | Weakness |
| --- | --- | --- |
| `SpscRingWrap.cfg` | `SpscRing`, `Fifo` | `counter % cap` jumps when the counters wrap, unless the capacity divides 2^32 |
| `W6100Poll.cfg` | `MCW6100`, `BusOwnership` | `is_link_up` on the thread while sockets are open makes `dma_complete` lose a transfer |
| `W6100Reconnect.cfg` | `MCW6100`, `ReconnectQuiescent` | `reconnect` can clear rings a transfer is about to use |
| `TcpStale.cfg` | `TcpSocket`, `InOrder` | a link-loss re-arm keeps the old connection's bytes |
| `TcpFinWait.cfg` | `TcpSocket`, `FinFollows` | our FIN, which the comment promises once the chip is empty, never follows the peer's if the application does not read |
| `TcpQuickFin.cfg` | `TcpSocket`, `FinDrains` | an outbound connection half-closed before the next tick loses its bytes |

Others show up when a constant or a property of a passing run is changed:

* with `SpiFaults = TRUE`, `ReleaseCloses` fails: `handle_close` clears the
  request before its first bus access, and a fault there leaves a dropped
  handle's socket open;
* with `PollsLink = "closed"`, `ConfigArrives` fails: a thread that polls the
  link in a tight loop can hold the bus cell at every tick;
* with `CloseAgain = TRUE`, `CloseCompletes` fails: `close` repeated before each
  tick keeps `run` in `handle_close`, which does nothing for a closing socket;
* without its last disjunct `CloseCompletes` fails: a link-loss re-arm forgets a
  close request, and the socket re-opens;
* `st = "Opening" ~> st # "Opening"` fails with torn resets: `handle_opening`
  waits without limit for a chip that was reset underneath it;
* with `Faults = {"transmit"}` in `UdpSafety.cfg`, `TxFramed` fails as it does in
  `udp_torn`: a bus fault after the header was taken out of the tx ring tears the
  frame;
* with `Scratch = 3` in `Transceiver.cfg`, `OneCommandPerFrame` fails: a batch
  boundary between header and data splits a command over two chip-select frames,
  which `hal_spi.rs:81-82` says cannot happen. The firmware's buffers are large
  enough.

**Bounds.** The ring's behaviour depends on the slots and counters modulo their
sizes; 11 bytes pass both seams with every alignment of calls up to 3. Two slots
show one transfer against another slot's owner; a second open re-uses a freed
slot. Two connections show what the first leaves to the second; 3 bytes against
buffers of 2 make every buffer full and every transfer partial. Four calls of
the transport are a bulk transfer, its abort, a late interrupt and the access it
hits; a scratch of 4 makes the largest register fill a batch and a bulk payload
of 3 overrun it. In `udp_safety` a ring of 5 holds one payload and not two,
one of the incoming lengths never fits the ring, the empty one leaves only a
header, a destination of 1 cuts every payload short, and a pointer range of 9
wraps with the second datagram. A bus fault under `receive` is in `udp_live` and
in the proofs, which cover every set of faults. Counters that only bound the
model are named `Max...`.

**Fairness.** The timer keeps firing and a handler runs to its end (weak
fairness of service, tick and handler steps): interrupts are not masked for
ever. `service` ticks the sockets only while it finds the link up, so in
`TcpSocket` and `UdpSocket` fairness of `Service` holds only while `link` is up:
once lost, the link may stay down, and the slots then wait. That it comes back
is not part of those specifications. `Released`, `CloseCompletes` and `TxLeaves`,
which need it, state it themselves (`LinkComesBack`: `service` finds the link up
again and again, though it may lose it in between); without it they fail, as they
do in the code. `RxMoves` does not need it: a reset empties the chip's buffer. A started DMA ends and its interrupt, pending in hardware, is taken; it
competes with the timer for the same priority, so `W6100` asks for strong
fairness there, as it does for a thread that finishes a call between handlers.
In the socket modules the chip processes a command and ends a FIN handshake or a
SEND, by answer or retry limit. `UdpSocket` and `TcpEcho` ask strong fairness of
the thread's steps, because handlers disable and re-enable them; `TcpEcho` also
assumes that a connected peer takes its echo and that a lost link returns, there
as part of the specification's fairness; `ConfigArrives` of `W6100` assumes
within the property that the link stays up. `RxMoves` states its own assumption, an application that keeps calling
`recv_from`. Nothing else is assumed of peers or of the application.

All runs check deadlock except `transport`: its calls are bounded and nothing
else moves the bus, so it stops. Elsewhere the timer can always tick.

## 4. Proofs

Every theorem is checked by `tlapm` from nothing. The constants' assumptions
(`ASSUME ...` in the component modules) only say that sizes are natural numbers,
positive where the code needs it, and what the switches may be; the `Max...`
bounds of the models are arbitrary. Any further hypothesis is in the statement
of the theorem. The inductive invariants are also invariants of the runs `ring`,
`driver`, `transport`, `tcp_safety` and `udp_safety`.

### The ring (`SpscRingProofs`)

For every counter range, call length and number of bytes, and every capacity
that divides the counter range (the hypothesis `Aligned`, `CounterMod % Cap = 0`,
of each theorem; the code does not check it): `RingInvariance`; `FifoHolds`, `AccountingHolds`,
`NoDataRaceHolds`, the properties of the run; and `RingImplementsFifo`, the
refinement of `ByteFifo`.

`Fifo` alone is not inductive: that a copied byte is right needs to know what
the slot holds. `RingInv` adds that counters are stream positions modulo
`CounterMod` (`Counters`), that every published byte is in the slot of its
position (`Published`), and what an interrupted copy has done so far and may
still do (`Writing`, `Reading`). The arithmetic lemmas show that a position's
slot can be computed from the wrapped counter exactly because `Cap` divides
`CounterMod`; `SpscRingWrap.cfg` shows the hypothesis is needed. Each action
then has its own lemma. The refinement rests on one consequence of the
invariant: what lies between the two counters is the producer's stream from
`consumed` to `produced` (`ContentsAreStream`). The store that ends a write or a
read is then the abstract operation, and every copy before it a stutter.

### The driver object (`W6100Proofs`)

For every number of slots and configurations: `DriverInvariance`, and from it
`BusQuietInvariance`, `TransferOwnerInvariance`, `SlotOwnershipInvariance` and
`ConfigFreshInvariance` without further hypotheses. `DriverInv` adds to the
properties which cell the thread's call holds (`HeldCells`: otherwise a handler
could be thought to be locked out of, or to meet, anything), that a call of a
handle is about a live claim (`Claims`), that an armed completion interrupt has
a transfer behind it (`Bus`), and `ConfigFresh` inside handlers (`Staged`).

Two need a hypothesis on how the driver is used. `BusOwnershipInvariance`
assumes `PollsLink # "any"`: `W6100Poll.cfg` is the counterexample without it,
`Polling` is the part of `DriverInv` it feeds, and the echo firmware never polls
(`link_up` reads a flag).
`ReleaseClosesInvariance` assumes `~SpiFaults`, as `HalSpi`, whose transfers
cannot fail, provides; the list in section 3 says what a fault does.

### The transport (`TransceiverProofs`)

For every header, scratch and data length and any number of calls:
`TransportInvariance` and `BusOwnerInvariance`. With `SyncFits`, header and data
of every register access fit the scratch buffers together, also
`OneCommandPerFrameInvariance` and `ReadWindowInvariance`. The firmware's
buffers satisfy it by far; `Scratch = 3` in `Transceiver.cfg` shows it is
needed. `TransportInv` says who owns the bus in every state of call, cell and
DMA engine (`Owner`), that a register access goes out in one batch and which
bytes of it are in which buffer (`Batching`), and that the frame so far is a
prefix of the TX buffer while the RX buffer holds the chip's answer to it
(`Framing`). The last two carry an access across `pack`, `wait` and `unpack`,
with the DMA engine clocking in between.

### The TCP socket (`TcpSocketProofs`)

For every size of rings and chip buffers, both modes and any number of
connections and bytes: `TcpInvariance`, and from it `RxConservedInvariance`,
`TxConservedInvariance`, `InOrderInvariance`, `DrainedAtFinInvariance` and
`TerminalQuietInvariance`, each as `RingCap <= Scratch` proves
`Spec => [](resets = 0 => P)`. Both hypotheses are real limits of the code:

* `resets = 0`: a link-loss reset re-arms the socket but keeps the rings, and
  the old bytes reach the next connection (`TcpStale.cfg`);
* `RingCap <= Scratch`: a larger transfer is refused and stored as an error of a
  connection that is still up, so that a session reported as over goes on. The
  firmware's rings and scratch payload are both 512 bytes (`main.rs`,
  `hal_spi.rs:37-41`).

`TcpInv` says: a handler finds no transfer in flight, and the room `transmit`
saw on the chip is still there at `dma_complete` (`Room`); where the chip can be
in each status (`Phase`); a session whose connection is not up yet has empty
rings (`Fresh`), which is why no byte survives a reconnect; what the error,
close and status flags promise (`Session`); and both byte streams piece by
piece, with the bytes of a receive in flight still on the chip until
`dma_complete` moves them (`Streams`). `RxConserved` by itself is not inductive:
it says nothing while the status and the chip disagree, and nothing about the
transfer in flight. `Streams` therefore speaks of the chip's connection only,
and of its bytes after it has ended. The control part does not look at bytes and
the byte part uses it for the actions that clear buffers, so each has its own
step lemma (`ControlStep`, `StreamStep`).

### The TCP echo (`TcpEchoProofs`)

With `RingCap <= Scratch`: `EchoInvariance`, `EchoConservedInvariance` and
`EchoOwnInvariance` (both properties speak of runs without a reset themselves).
The composition is reused rather than repeated: every step of the firmware
except its write is a step of `TcpSocket` or leaves the socket alone
(`EchoIsSocket`), so `TcpInv`'s parts carry over; the write of several bytes has
its own lemma. New are the thread's position, which is why it re-arms only a
session that is over (`Position`), and the carry-over buffer: it holds what was
read and not yet written, it is empty before a connection is up, and nothing is
echoed that was not sent, also after the connection is gone (`Carried`).

### The UDP socket (`UdpSocketProofs`)

For every size of header, rings, chip buffers and scratch buffers, every set of
datagram lengths and any number of datagrams, faults and resets:
`RxInvariance`, and from it `TypeInvariance`, `RxFramedInvariance` and
`RxIntactInvariance`, without further hypotheses; `RxConservedInvariance`, whose
property itself speaks of a bus without faults. The way out needs what the code
needs:

* `UdpInvariance`, `TxConservedInvariance` and `TxFramedInvariance` assume
  `OutFits`: every payload given to `send_to` fits the scratch buffers. `send_to`
  itself bounds it by the ring only, and `udp_torn` is the counterexample. In the
  firmware the rings are no larger than the scratch payload, so it holds.
* `TxFramedInvariance` assumes besides that the bus does not fail under
  `transmit`; section 3 says what such a fault does.

`UdpInv` is the invariant of the two ways. `RxFramed` is not inductive by
itself, because a frame is written to the ring at the end of a transfer that was
started in an earlier tick: `InFlight` says that its datagram is still the first
on the chip, that the transfer has its payload and pointer, and that the room
`receive` saw in the ring is still there; `Handlers` that no command which
empties the chip's buffers is pending meanwhile; `Received` that the chip holds
whole datagrams that peers sent, the last one perhaps still arriving; `CallRecv`
what `recv_from` has copied and may still throw away. On the way out `TxSound`
says that everything in the tx ring was accepted or is being written, and that
the ring is framed unless `transmit` failed; `Sending` that without faults
nothing lies between the chip's pointers and the transfer carries the payload of
the destination that is programmed; `Room` that the space the chip reported is
still free when the transfer ends.

The frames need no induction over the contents. Lemmas about `Framed` and
`Starts` say what appending one frame, and taking the first one, do to the
counter (`WholeAppend`, `WholeFirst`); that `recv_from` may be inside a frame,
and `send_to` behind the last one, is one cut of the sequence each (`Cut`,
`TxParts`). Order is `InOrder`, the numbers of what is done followed by the
frames that begin in the ring, with a lemma for each thing a step does to it:
append, take the first, drop a piece, forget a number (`OrderAppend`,
`OrderTake`, `OrderDrop`, `OrderForget`). The two ways share types, calls and the
transfer, so those are one part (`RxInv`) that does not depend on the bus, and
each property of a faultless bus has its own step lemma on top of it
(`RxConservedStep`, `SendOkStep`).

### Only model-checked

* Liveness (`TransferEnds`, `ConfigArrives`, `DeviceReturns`, `Released`,
  `CloseCompletes`, `Echoed`, `Serves`, `TxLeaves`, `RxMoves`): out of reach of
  the prover.
* The TCP properties after a link-loss reset, and everything under a violated
  hypothesis above.

## 5. Not modelled

* The UDP echo loop (`main.rs`): `recv_from` and `send_to` are modelled with an
  arbitrary application instead. Reading it shows one weakness: `send_to` returns
  0 both for a full ring and for an empty datagram it accepted, so the loop
  takes an echoed empty datagram for a refused one, sends it again on every wake
  and never calls `recv_from` again (`main.rs:253`).
* The four stores of `SpscRing::clear` one by one: `clear` is one step, and
  `W6100Reconnect.cfg` shows when it overlaps a transfer.
* A UDP datagram that fits the ring and the scratch but not the chip's TX
  buffer: `transmit` would wait for space for ever; the runs keep outgoing
  lengths below it (`OutLens`), as the echo firmware's buffers do.
* An incoming datagram between scratch and ring size: `start_bulk` is refused in
  every tick. The runs keep incoming lengths to those that fit both or neither;
  the proofs hold for every length.
* A UDP socket in Established never reads `Sn_SR`; a chip reset that misses the
  socket (`torn`) is only in `TcpSocket` and `W6100`.
* `src.len() as u16` in `send_to`: payloads above 65535 bytes.
* Starvation of TCP transmit by a peer that never stops sending.
* Register addresses, control bits of the header, socket modes and ports.
* Bus faults in `TcpSocket` (they are in `W6100`, `UdpSocket` and, as a refusing
  device, in `Transceiver`).
* Clock and pin set-up, the loopback test and the host script: hardware or
  tooling without driver logic.

## 6. Plan

1. Done: ring, driver object, transport, TCP socket, TCP echo and UDP socket,
   each with its proofs.
2. `UdpEcho`, in the manner of `TcpEcho`.
