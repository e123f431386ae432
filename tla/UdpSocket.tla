----------------------------- MODULE UdpSocket -----------------------------
(***************************************************************************)
(* One UDP socket end to end: peers, the chip's hardware socket, the       *)
(* UdpSocketState machine driven by the interrupt handlers, the bulk       *)
(* transfer, the rings with their frame counters, and the application's    *)
(* recv_from and send_to, which handlers may interrupt between any two of  *)
(* their accesses to a ring.                                               *)
(*                                                                         *)
(* A datagram is a number, which stands for its peer's address too, and a  *)
(* payload length.  The chip's buffers and the rings hold cells: the       *)
(* position a byte has in a datagram, header first.  Reading a header that *)
(* is not there gives Nobody, the datagram of zero bytes.                  *)
(*                                                                         *)
(* The rings are the bounded FIFOs that SpscRing is shown to implement.    *)
(* The chip and the peers are external, as in TcpSocket: SEND makes one    *)
(* datagram, to the destination programmed then, of all the bytes up to    *)
(* the write pointer; a datagram may arrive in pieces.                     *)
(***************************************************************************)
EXTENDS Integers, Sequences, FiniteSetsExt

CONSTANTS
    Hdr,        \* FRAME_HEADER, and PACKINFO: both are 8 bytes
    RingCap,    \* capacity of the rx and the tx ring
    RxCap,      \* size of the chip's RX buffer
    TxCap,      \* size of the chip's TX buffer
    PtrMod,     \* number of values of Sn_RX_RD, 2^16
    Scratch,    \* payload that fits the DMA scratch buffers
    InLens,     \* payload lengths peers send
    OutLens,    \* payload lengths the application sends
    DstLens,    \* lengths of the buffers given to recv_from
    Faults,     \* where the bus may fail: "receive", "transmit", "epilogue"
    MaxFaults,  \* bound of the model: bus faults
    MaxUpsets,  \* bound of the model: link-loss resets, closes, reconnects, drops
    MaxIn,      \* bound of the model: datagrams sent by peers
    MaxOut      \* bound of the model: datagrams accepted by send_to

ASSUME HeaderAssumption == Hdr \in Nat \ {0}
ASSUME SizesAssumption == {RingCap, RxCap, TxCap, Scratch} \subseteq Nat \ {0}
ASSUME PointerAssumption == PtrMod \in Nat /\ PtrMod > RxCap
ASSUME LensAssumption == InLens \cup OutLens \cup DstLens \subseteq Nat
ASSUME FaultsAssumption == Faults \subseteq {"receive", "transmit", "epilogue"}
ASSUME LimitsAssumption == {MaxFaults, MaxUpsets, MaxIn, MaxOut} \subseteq Nat

VARIABLES
    st,        \* status, or "Free" for BackendState::Free
    err,       \* pending_error is set
    close,     \* close_requested
    release,   \* release_requested
    rx, tx,    \* contents of the rings
    rxFrames, txFrames,    \* frames_in - frames_out of each
    bulk,      \* the transfer in flight: its datagram, payload and pointer
    link,      \* link_up, as service saw it last
    pc,        \* the handler: not running, in service, about to tick, to transmit
    call,      \* recv_from or send_to in progress
    sr,        \* Sn_SR
    cr,        \* Sn_CR: the command not yet processed
    timeout,   \* the TIMEOUT bit of Sn_IR
    chipRx,    \* the chip's RX buffer from Sn_RX_RD on
    rd,        \* Sn_RX_RD
    arriving,  \* the cells of a datagram still to arrive
    dst,       \* Sn_DIPR and Sn_DPORTR
    chipTx,    \* bytes before Sn_TX_WR that no SEND has taken
    wire,      \* datagrams taken by SEND, still in the TX buffer
    fsr,       \* Sn_TX_FSR: what is free of the TX buffer
    faults, upsets,        \* bus faults; resets, closes, reconnects and drops so far
    sent, accepted,        \* datagrams sent by peers, accepted by send_to
    got, peerGot,          \* datagrams read by the application, by peers
    goneIn, goneOut        \* datagrams discarded by chip, network or reconnect

drvVars == <<st, err, close, release, link>>
rxVars == <<rx, rxFrames>>
txVars == <<tx, txFrames>>
chipRxVars == <<chipRx, rd, arriving>>
chipTxVars == <<dst, chipTx, wire, fsr>>
regVars == <<sr, cr, timeout>>
inVars == <<sent, got, goneIn>>
outVars == <<accepted, peerGot, goneOut>>
bounds == <<faults, upsets>>
vars == <<drvVars, rxVars, txVars, bulk, pc, call, regVars, chipRxVars,
          chipTxVars, inVars, outVars, bounds>>

Terminal == {"Closed", "Error", "Timeout"}
Closing == {"Closing", "ClosingDueToError"}
Status == {"Init", "Opening", "Established"} \cup Closing \cup Terminal

-----------------------------------------------------------------------------
(* Datagrams, frames and cells.                                            *)

Datagram(i, n) == [id |-> i, len |-> n]
Nobody == Datagram(0, 0)

Size(d) == Hdr + d.len
Cell(d, k) == [d |-> d, pos |-> k]
Header(d) == [k \in 1..Hdr |-> Cell(d, k)]
Payload(d) == [k \in 1..d.len |-> Cell(d, Hdr + k)]
Frame(d) == Header(d) \o Payload(d)

\* The first n cells of s, and s without them.
Front(s, n) == SubSeq(s, 1, Min({n, Len(s)}))
Rest(s, n) == SubSeq(s, n + 1, Len(s))

\* parse_frame_header, and the decoding of PACKINFO.
ParseHeader(s) ==
    IF Len(s) >= Hdr /\ Front(s, Hdr) = Header(s[1].d) THEN s[1].d ELSE Nobody

\* SpscRing::write takes the part that fits.
Free(ring) == RingCap - Len(ring)
RingWrite(ring, data) == ring \o Front(data, Free(ring))

Datagrams(s) == {s[k].d.id : k \in 1..Len(s)}

NoBulk == [kind |-> "None", d |-> Nobody, data |-> <<>>, pointer |-> 0]
NoCall == [op |-> "none", d |-> Nobody, dst |-> 0, left |-> 0, data |-> <<>>]

Init ==
    /\ st = "Free" /\ err = FALSE /\ close = FALSE /\ release = FALSE
    /\ rx = <<>> /\ tx = <<>> /\ rxFrames = 0 /\ txFrames = 0
    /\ bulk = NoBulk
    /\ pc = "idle" /\ link = FALSE
    /\ call = NoCall
    /\ sr = "Closed" /\ cr = "none" /\ timeout = FALSE
    /\ chipRx = <<>> /\ rd = 0 /\ arriving = <<>>
    /\ dst = Nobody /\ chipTx = <<>> /\ wire = <<>> /\ fsr = TxCap
    /\ faults = 0 /\ upsets = 0
    /\ sent = <<>> /\ accepted = <<>> /\ got = <<>> /\ peerGot = <<>>
    /\ goneIn = {} /\ goneOut = {}

-----------------------------------------------------------------------------
(* The chip and the peers (external).                                      *)

\* The hardware socket's buffers are emptied.
WipeBuffers ==
    /\ chipRx' = <<>> /\ arriving' = <<>>
    /\ chipTx' = <<>> /\ wire' = <<>> /\ fsr' = TxCap
    /\ goneIn' = goneIn \cup Datagrams(chipRx) \cup Datagrams(arriving)
    /\ goneOut' = goneOut \cup {wire[k].d.id : k \in 1..Len(wire)}
    /\ UNCHANGED <<rd, dst, sent, got, accepted, peerGot>>

ChipCommand ==
    /\ cr # "none"
    /\ cr' = "none"
    /\ sr' = IF cr = "OPEN" THEN "Udp" ELSE "Closed"
    /\ WipeBuffers
    /\ UNCHANGED <<drvVars, rxVars, txVars, bulk, pc, call, timeout, bounds>>

\* A datagram of n bytes arrives, at once or first k of its cells only.
PeerSends(n, k) ==
    /\ sr = "Udp" /\ arriving = <<>> /\ Len(sent) < MaxIn
    /\ LET d == Datagram(Len(sent) + 1, n)
       IN /\ Len(chipRx) + Size(d) <= RxCap
          /\ sent' = Append(sent, d)
          /\ chipRx' = chipRx \o Front(Frame(d), k)
          /\ arriving' = Rest(Frame(d), k)
    /\ UNCHANGED <<drvVars, rxVars, txVars, bulk, pc, call, regVars, rd,
                   chipTxVars, got, goneIn, outVars, bounds>>

\* The rest of it arrives.
PeerFinishes ==
    /\ arriving # <<>>
    /\ chipRx' = chipRx \o arriving
    /\ arriving' = <<>>
    /\ UNCHANGED <<drvVars, rxVars, txVars, bulk, pc, call, regVars, rd,
                   chipTxVars, inVars, outVars, bounds>>

\* A datagram leaves the TX buffer, or its ARP request is not answered.
ChipSends(answered) ==
    /\ wire # <<>>
    /\ wire' = Tail(wire)
    /\ fsr' = fsr + Len(Head(wire).data)
    /\ IF answered
         THEN /\ peerGot' = Append(peerGot, Head(wire))
              /\ UNCHANGED <<timeout, goneOut>>
         ELSE /\ timeout' = TRUE
              /\ goneOut' = goneOut \cup {Head(wire).d.id}
              /\ UNCHANGED peerGot
    /\ UNCHANGED <<drvVars, rxVars, txVars, bulk, pc, call, sr, cr, chipRxVars,
                   dst, chipTx, accepted, inVars, bounds>>

\* Sn_RX_RD is written and RECV frees the bytes before it.
SetRxReadPointer(p) ==
    /\ rd' = p
    /\ chipRx' = Rest(chipRx, (p - rd) % PtrMod)
    /\ UNCHANGED arriving

\* set_ipv4_dst_addr and set_dst_port
SetDst(d) == dst' = d

\* SEND, after data was put ahead of the write pointer: everything up to it
\* goes to the programmed destination, if the socket is open.
Send(d, data) ==
    /\ chipTx' = <<>>
    /\ IF sr = "Udp"
         THEN /\ wire' = Append(wire, [d |-> d, data |-> chipTx \o data])
              /\ fsr' = fsr - Len(data)
              /\ UNCHANGED goneOut
         ELSE /\ goneOut' = goneOut \cup {d.id}
              /\ fsr' = fsr + Len(chipTx)
              /\ UNCHANGED wire

\* get_tx_free_size
TxFree == fsr

-----------------------------------------------------------------------------
(* The application and its handle.  It runs only while no handler does.    *)

AppRuns == pc = "idle" /\ st # "Free" /\ ~release
AppFree == AppRuns /\ call = NoCall

\* Both rings are emptied, with what was in them.
EmptyRings ==
    /\ rx' = <<>> /\ tx' = <<>> /\ rxFrames' = 0 /\ txFrames' = 0
    /\ goneIn' = goneIn \cup Datagrams(rx)
    /\ goneOut' = goneOut \cup Datagrams(tx)
    /\ UNCHANGED <<sent, got, accepted, peerGot>>

\* Names the bound: something that interferes with the socket happens.
Upset == upsets < MaxUpsets /\ upsets' = upsets + 1 /\ UNCHANGED faults

\* open_udp, with empty rings installed.
Open ==
    /\ pc = "idle" /\ st = "Free"
    /\ st' = "Init" /\ err' = FALSE /\ close' = FALSE /\ release' = FALSE
    /\ EmptyRings
    /\ UNCHANGED <<link, bulk, pc, call, regVars, chipRxVars, chipTxVars, bounds>>

\* recv_from with a buffer of n bytes: the header of a published frame is read...
RecvBegin(n) ==
    /\ AppFree /\ rxFrames > 0
    /\ LET d == ParseHeader(rx)
       IN call' = [op |-> "recv", d |-> d, dst |-> n, left |-> d.len, data |-> <<>>]
    /\ rx' = Rest(rx, Hdr)
    /\ UNCHANGED <<drvVars, rxFrames, txVars, bulk, pc, regVars, chipRxVars,
                   chipTxVars, inVars, outVars, bounds>>

\* What is still to be copied into the buffer, and to be thrown away.
ToCopy == Min({call.d.len, call.dst}) - Len(call.data)
ToDiscard == call.left - ToCopy

\* ...then the payload, by reads that loop until they are satisfied...
RecvRead ==
    /\ AppRuns /\ call.op = "recv" /\ call.left > 0 /\ rx # <<>>
    /\ LET part == Front(rx, IF ToCopy > 0 THEN ToCopy ELSE ToDiscard)
       IN /\ rx' = Rest(rx, Len(part))
          /\ call' = [call EXCEPT
                        !.left = @ - Len(part),
                        !.data = IF ToCopy > 0 THEN @ \o part ELSE @]
    /\ UNCHANGED <<drvVars, rxFrames, txVars, bulk, pc, regVars, chipRxVars,
                   chipTxVars, inVars, outVars, bounds>>

\* A recv_from that releases the frame without dropping what did not fit.
MutRecvEnd ==
    /\ AppRuns /\ call.op = "recv" /\ ToCopy = 0
    /\ rxFrames' = rxFrames - 1
    /\ got' = Append(got, [d |-> call.d, data |-> call.data])
    /\ call' = NoCall
    /\ UNCHANGED <<drvVars, rx, txVars, bulk, pc, regVars, chipRxVars,
                   chipTxVars, sent, goneIn, outVars, bounds>>

\* ...and the frame is released.
RecvEnd ==
    /\ AppRuns /\ call.op = "recv" /\ call.left = 0
    /\ rxFrames' = rxFrames - 1
    /\ got' = Append(got, [d |-> call.d, data |-> call.data])
    /\ call' = NoCall
    /\ UNCHANGED <<drvVars, rx, txVars, bulk, pc, regVars, chipRxVars,
                   chipTxVars, sent, goneIn, outVars, bounds>>

\* A send_to that counts the frame before its payload is in the ring.
MutSendBegin(n) ==
    /\ AppFree /\ Len(accepted) < MaxOut
    /\ LET d == Datagram(Len(accepted) + 1, n)
       IN /\ Free(tx) >= Size(d)
          /\ tx' = RingWrite(tx, Header(d))
          /\ call' = [NoCall EXCEPT !.op = "header", !.d = d]
    /\ txFrames' = txFrames + 1
    /\ UNCHANGED <<drvVars, rxVars, bulk, pc, regVars, chipRxVars,
                   chipTxVars, inVars, outVars, bounds>>

\* send_to of n bytes: header, payload and frame counter one after the other,
\* once there is room for the whole frame.
SendBegin(n) ==
    /\ AppFree /\ Len(accepted) < MaxOut
    /\ LET d == Datagram(Len(accepted) + 1, n)
       IN /\ Free(tx) >= Size(d)
          /\ tx' = RingWrite(tx, Header(d))
          /\ call' = [NoCall EXCEPT !.op = "header", !.d = d]
    /\ UNCHANGED <<drvVars, rxVars, txFrames, bulk, pc, regVars, chipRxVars,
                   chipTxVars, inVars, outVars, bounds>>

SendPayload ==
    /\ AppRuns /\ call.op = "header"
    /\ tx' = RingWrite(tx, Payload(call.d))
    /\ call' = [call EXCEPT !.op = "payload"]
    /\ UNCHANGED <<drvVars, rxVars, txFrames, bulk, pc, regVars, chipRxVars,
                   chipTxVars, inVars, outVars, bounds>>

SendCommit ==
    /\ AppRuns /\ call.op = "payload"
    /\ txFrames' = txFrames + 1
    /\ accepted' = Append(accepted, call.d)
    /\ call' = NoCall
    /\ UNCHANGED <<drvVars, rxVars, tx, bulk, pc, regVars, chipRxVars,
                   chipTxVars, inVars, peerGot, goneOut, bounds>>

Close ==
    /\ AppFree /\ Upset
    /\ close' = TRUE
    /\ UNCHANGED <<st, err, release, link, rxVars, txVars, bulk, pc, call, regVars,
                   chipRxVars, chipTxVars, inVars, outVars>>

\* reconnect: rearm, then clear both rings.
Reconnect ==
    /\ AppFree /\ Upset
    /\ st' = "Init" /\ err' = FALSE /\ close' = FALSE
    /\ EmptyRings
    /\ UNCHANGED <<release, link, bulk, pc, call, regVars, chipRxVars, chipTxVars>>

\* drop: request_release
Drop ==
    /\ AppFree /\ Upset
    /\ release' = TRUE /\ close' = TRUE
    /\ UNCHANGED <<st, err, link, rxVars, txVars, bulk, pc, call, regVars,
                   chipRxVars, chipTxVars, inVars, outVars>>

-----------------------------------------------------------------------------
(* The handlers: service, then one tick of the state machine.              *)

\* Timer, INT or the end of dma_complete: service defers to a bulk transfer
\* that has the bus, and runs the sockets if it finds the link up.  If it finds
\* it down nothing is run: LinkReset is the first such call, and the later ones
\* change nothing.
Service ==
    /\ pc \in {"idle", "service"} /\ bulk = NoBulk
    /\ link' = TRUE
    /\ pc' = "run"
    /\ UNCHANGED <<st, err, close, release, rxVars, txVars, bulk, call, regVars, chipRxVars,
                   chipTxVars, inVars, outVars, bounds>>

\* SocketBackend::run after the tick: free the slot if it is released and its
\* state machine has come to rest in s.
Settle(s) ==
    IF release /\ s \in Terminal THEN st' = "Free" /\ release' = FALSE
    ELSE st' = s /\ UNCHANGED release

\* A tick that moves no data ends with status s, having written c to Sn_CR.
Answer(s, c) ==
    /\ Settle(s)
    /\ cr' = c
    /\ err' = (err \/ s = "ClosingDueToError")
    /\ pc' = "idle"
    /\ UNCHANGED <<link, rxVars, txVars, bulk, call, sr, chipRxVars, chipTxVars,
                   inVars, outVars, bounds>>

Ticking(s) == pc = "run" /\ ~close /\ st = s

\* A close that waits for a chip it has not told.
MutHandleClose ==
    /\ pc = "run" /\ close
    /\ close' = FALSE
    /\ IF st \in Closing \cup Terminal THEN Answer(st, cr) ELSE Answer("Closing", cr)
    /\ UNCHANGED timeout

\* handle_close: there is nothing to flush, just CLOSE.
HandleClose ==
    /\ pc = "run" /\ close
    /\ close' = FALSE
    /\ IF st \in Closing \cup Terminal THEN Answer(st, cr) ELSE Answer("Closing", "CLOSE")
    /\ UNCHANGED timeout

\* clear_interrupts, for the one bit that matters here.
ClearInterrupts == timeout' = FALSE

\* handle_init: init_socket clears every interrupt, then OPEN.
HandleInit ==
    /\ Ticking("Init")
    /\ ClearInterrupts
    /\ Answer("Opening", "OPEN")
    /\ UNCHANGED close

\* handle_opening: wait for SOCK_UDP.
HandleOpening ==
    /\ Ticking("Opening")
    /\ CASE cr # "none" \/ sr = "Closed" -> Answer("Opening", cr)
         [] cr = "none" /\ sr = "Udp" -> Answer("Established", cr)
         [] OTHER -> Answer("ClosingDueToError", "CLOSE")
    /\ UNCHANGED <<close, timeout>>

\* handle_closing
HandleClosing ==
    /\ pc = "run" /\ ~close /\ st \in Closing
    /\ Answer(IF sr # "Closed" THEN st
              ELSE IF st = "ClosingDueToError" THEN "Error" ELSE "Closed", cr)
    /\ UNCHANGED <<close, timeout>>

\* A closed state machine, or a free slot, has nothing to do.
RunIdle ==
    /\ pc = "run" /\ ~close /\ st \in Terminal \cup {"Free"}
    /\ Answer(st, cr)
    /\ UNCHANGED <<close, timeout>>

\* receive: the datagram at the head of the RX buffer, by its PACKINFO.
Incoming == ParseHeader(chipRx)
Arrived == Len(chipRx) >= Hdr /\ Len(chipRx) >= Size(Incoming)

\* handle_established acknowledges a TIMEOUT and receives; when no transfer
\* was started transmit follows in the same tick.
Receiving == Ticking("Established") /\ ClearInterrupts
ThenTransmit ==
    /\ pc' = "tx"
    /\ UNCHANGED <<drvVars, txVars, bulk, call, sr, cr, chipTxVars, inVars, outVars, bounds>>

\* Back-pressure that ends the tick.
MutReceiveNone ==
    /\ Receiving
    /\ ~Arrived \/ (Size(Incoming) <= RingCap /\ Free(rx) < Size(Incoming))
    /\ pc' = IF Arrived THEN "idle" ELSE "tx"
    /\ UNCHANGED <<drvVars, rxVars, txVars, bulk, call, sr, cr, chipRxVars,
                   chipTxVars, inVars, outVars, bounds>>

\* No whole datagram, or no room for it yet: it stays on the chip.
ReceiveNone ==
    /\ Receiving
    /\ ~Arrived \/ (Size(Incoming) <= RingCap /\ Free(rx) < Size(Incoming))
    /\ ThenTransmit
    /\ UNCHANGED <<rxVars, chipRxVars>>

\* A frame larger than the ring is left to wait like any other.
MutReceiveDrop ==
    /\ Receiving
    /\ Arrived /\ Size(Incoming) > RingCap
    /\ ThenTransmit
    /\ UNCHANGED <<rxVars, chipRxVars>>

\* A frame larger than the ring is skipped on the chip.
ReceiveDrop ==
    /\ Receiving
    /\ Arrived /\ Size(Incoming) > RingCap
    /\ SetRxReadPointer((rd + Size(Incoming)) % PtrMod)
    /\ ThenTransmit
    /\ UNCHANGED rxVars

\* An empty datagram that is framed but not skipped on the chip.
MutReceiveEmpty ==
    /\ Receiving
    /\ Arrived /\ Incoming.len = 0 /\ Free(rx) >= Size(Incoming)
    /\ rx' = RingWrite(rx, Header(Incoming))
    /\ rxFrames' = rxFrames + 1
    /\ ThenTransmit
    /\ UNCHANGED chipRxVars

\* An empty datagram is framed at once.
ReceiveEmpty ==
    /\ Receiving
    /\ Arrived /\ Incoming.len = 0 /\ Free(rx) >= Size(Incoming)
    /\ rx' = RingWrite(rx, Header(Incoming))
    /\ rxFrames' = rxFrames + 1
    /\ SetRxReadPointer((rd + Hdr) % PtrMod)
    /\ ThenTransmit

\* A transfer that starts at the PACKINFO header instead of the payload.
MutReceiveStart ==
    /\ Receiving
    /\ Arrived /\ Incoming.len > 0 /\ Free(rx) >= Size(Incoming)
    /\ bulk' = [kind |-> "ReceiveDatagram", d |-> Incoming,
                data |-> Front(chipRx, Incoming.len),
                pointer |-> (rd + Hdr) % PtrMod]
    /\ pc' = "idle"
    /\ UNCHANGED <<drvVars, rxVars, txVars, call, sr, cr, chipRxVars,
                   chipTxVars, inVars, outVars, bounds>>

\* A transfer of the payload is started, unless the scratch buffers are too
\* small for it: that error is stored, and ends the tick.
ReceiveStart ==
    /\ Receiving
    /\ Arrived /\ Incoming.len > 0 /\ Free(rx) >= Size(Incoming)
    /\ IF Incoming.len <= Scratch
         THEN /\ bulk' = [kind |-> "ReceiveDatagram", d |-> Incoming,
                          data |-> Front(Rest(chipRx, Hdr), Incoming.len),
                          pointer |-> (rd + Hdr) % PtrMod]
              /\ UNCHANGED err
         ELSE err' = TRUE /\ UNCHANGED bulk
    /\ pc' = "idle"
    /\ UNCHANGED <<st, close, release, link, rxVars, txVars, call, sr, cr, chipRxVars,
                   chipTxVars, inVars, outVars, bounds>>

\* The bus fails under receive: before it has changed anything, or while the
\* chip is told to skip a datagram, one that never fits or an empty one that is
\* framed by then.  The error is stored, and ends the tick; Sn_RX_RD may have
\* been written.
ReceiveFails ==
    /\ Receiving
    /\ "receive" \in Faults /\ faults < MaxFaults
    /\ faults' = faults + 1
    /\ err' = TRUE
    /\ pc' = "idle"
    /\ \/ UNCHANGED <<rxVars, chipRxVars>>
       \/ /\ Arrived /\ Size(Incoming) > RingCap
          /\ SetRxReadPointer((rd + Size(Incoming)) % PtrMod)
          /\ UNCHANGED rxVars
       \/ /\ Arrived /\ Incoming.len = 0 /\ Free(rx) >= Size(Incoming)
          /\ rx' = RingWrite(rx, Header(Incoming))
          /\ rxFrames' = rxFrames + 1
          /\ SetRxReadPointer((rd + Hdr) % PtrMod) \/ UNCHANGED chipRxVars
    /\ UNCHANGED <<st, close, release, link, txVars, bulk, call, sr, cr,
                   chipTxVars, inVars, outVars, upsets>>

\* A transmit that does not ask the chip for room.
MutSendable == txFrames > 0

\* transmit: the frame at the head of the tx ring, by its header.
Outgoing == ParseHeader(tx)
Transmitting == pc = "tx" /\ pc' = "idle"
Sendable == txFrames > 0 /\ TxFree >= Outgoing.len

TransmitNone ==
    /\ Transmitting
    /\ ~Sendable
    /\ UNCHANGED <<drvVars, rxVars, txVars, bulk, call, regVars, chipRxVars,
                   chipTxVars, inVars, outVars, bounds>>

\* An empty datagram is sent at once.
TransmitEmpty ==
    /\ Transmitting
    /\ Sendable /\ Outgoing.len = 0
    /\ tx' = Rest(tx, Hdr)
    /\ txFrames' = txFrames - 1
    /\ SetDst(Outgoing)
    /\ Send(Outgoing, <<>>)
    /\ UNCHANGED <<drvVars, rxVars, bulk, call, regVars, chipRxVars, inVars,
                   accepted, peerGot, bounds>>

\* A transmit that stages the payload without taking it out of the ring.
MutTransmitStart ==
    /\ Transmitting
    /\ Sendable /\ Outgoing.len > 0
    /\ SetDst(Outgoing)
    /\ bulk' = [kind |-> "Transmit", d |-> Outgoing,
                data |-> Front(Rest(tx, Hdr), Outgoing.len), pointer |-> 0]
    /\ UNCHANGED <<drvVars, rxVars, txVars, call, regVars, chipRxVars, chipTx,
                   wire, fsr, inVars, outVars, bounds>>

\* The header is taken out of the ring, the destination programmed, and a
\* transfer started that takes the payload; a payload larger than the scratch
\* buffers is refused, and stays in the ring without its header.
TransmitStart ==
    /\ Transmitting
    /\ Sendable /\ Outgoing.len > 0
    /\ SetDst(Outgoing)
    /\ IF Outgoing.len <= Scratch
         THEN /\ bulk' = [kind |-> "Transmit", d |-> Outgoing,
                          data |-> Front(Rest(tx, Hdr), Outgoing.len), pointer |-> 0]
              /\ tx' = Rest(tx, Size(Outgoing))
              /\ txFrames' = txFrames - 1
              /\ UNCHANGED err
         ELSE /\ tx' = Rest(tx, Hdr)
              /\ err' = TRUE
              /\ UNCHANGED <<bulk, txFrames>>
    /\ UNCHANGED <<st, close, release, link, rxVars, call, regVars, chipRxVars, chipTx,
                   wire, fsr, inVars, outVars, bounds>>

\* The bus fails once the header is out of the ring, before or after the
\* payload was staged: the error is stored and the frame never released.
TransmitFails(staged) ==
    /\ Transmitting
    /\ Sendable
    /\ "transmit" \in Faults /\ faults < MaxFaults
    /\ faults' = faults + 1
    /\ tx' = Rest(tx, IF staged THEN Size(Outgoing) ELSE Hdr)
    /\ err' = TRUE
    /\ UNCHANGED <<st, close, release, link, rxVars, txFrames, bulk, call, regVars,
                   chipRxVars, chipTxVars, inVars, outVars, upsets>>

\* dma_complete: finish_bulk, whose errors are dropped, then service.
Completing(ok) ==
    /\ pc = "idle" /\ bulk # NoBulk
    /\ ok \/ ("epilogue" \in Faults /\ faults < MaxFaults)
    /\ faults' = IF ok THEN faults ELSE faults + 1
    /\ bulk' = NoBulk
    /\ pc' = "service"
    /\ UNCHANGED <<drvVars, call, regVars, dst, inVars, accepted, peerGot, upsets>>

\* Frame header and payload go to the ring and are published as one frame;
\* then the datagram is taken off the chip.  The bus may fail before Sn_RX_RD
\* is written, or after.
DmaReceived(ok) ==
    /\ Completing(ok) /\ bulk.kind = "ReceiveDatagram"
    /\ rx' = RingWrite(RingWrite(rx, Header(Datagram(bulk.d.id, Len(bulk.data)))), bulk.data)
    /\ rxFrames' = rxFrames + 1
    /\ \/ SetRxReadPointer((bulk.pointer + Len(bulk.data)) % PtrMod)
       \/ ~ok /\ UNCHANGED chipRxVars
    /\ UNCHANGED <<txVars, chipTx, wire, fsr, goneOut>>

\* The write pointer is advanced and SEND issued; the bus may fail before
\* either.
DmaSent(ok) ==
    /\ Completing(ok) /\ bulk.kind = "Transmit"
    /\ \/ ok /\ Send(dst, bulk.data)
       \/ /\ ~ok
          /\ \/ UNCHANGED <<chipTx, fsr>>
             \/ chipTx' = chipTx \o bulk.data /\ fsr' = fsr - Len(bulk.data)
          /\ UNCHANGED <<wire, goneOut>>
    /\ UNCHANGED <<rxVars, txVars, chipRxVars>>

\* service finds that the link has gone down: the chip is reset, and with it
\* the slot, which is freed if released and re-armed otherwise.
LinkReset ==
    /\ Upset
    /\ pc \in {"idle", "service"} /\ bulk = NoBulk
    /\ pc' = "idle"
    /\ link /\ link' = FALSE
    /\ sr' = "Closed" /\ cr' = "none" /\ timeout' = FALSE
    /\ WipeBuffers
    /\ st' = IF release \/ st = "Free" THEN "Free" ELSE "Init"
    /\ err' = FALSE /\ close' = FALSE /\ release' = FALSE
    /\ UNCHANGED <<rxVars, txVars, bulk, call>>

-----------------------------------------------------------------------------
Peer ==
    \/ \E n \in InLens : \E k \in {1, Hdr, Hdr + n} : PeerSends(n, k)
    \/ PeerFinishes

Chip == ChipCommand \/ \E answered \in BOOLEAN : ChipSends(answered)

RecvFrom == (\E n \in DstLens : RecvBegin(n)) \/ RecvRead \/ RecvEnd
SendTo == (\E n \in OutLens : SendBegin(n)) \/ SendPayload \/ SendCommit

Tick ==
    \/ HandleClose \/ HandleInit \/ HandleOpening \/ HandleClosing \/ RunIdle
    \/ ReceiveNone \/ ReceiveDrop \/ ReceiveEmpty \/ ReceiveStart
    \/ ReceiveFails
    \/ TransmitNone \/ TransmitEmpty \/ TransmitStart
    \/ \E staged \in BOOLEAN : TransmitFails(staged)

DmaComplete == \E ok \in BOOLEAN : DmaReceived(ok) \/ DmaSent(ok)

Next ==
    \/ Peer \/ Chip
    \/ Open \/ RecvFrom \/ SendTo \/ Close \/ Reconnect \/ Drop
    \/ Service \/ Tick \/ DmaComplete \/ LinkReset

Spec == Init /\ [][Next]_vars

(* Fairness: the timer keeps ticking, which runs the socket as long as the *)
(* link is up, and a handler runs to its end; a DMA transfer ends; the     *)
(* chip processes its commands, and each SEND by the peer's answer or by   *)
(* its retry limit; what has begun to arrive arrives; the thread finishes  *)
(* a call it has begun.  The thread runs between two handlers, so its      *)
(* fairness is strong: they leave it time again and again.  That a lost    *)
(* link returns is not assumed here.                                       *)
FairSpec ==
    /\ Spec
    /\ WF_vars(link /\ Service) /\ WF_vars(Tick) /\ WF_vars(DmaComplete)
    /\ WF_vars(Chip) /\ WF_vars(PeerFinishes)
    /\ SF_vars(RecvRead \/ RecvEnd \/ SendPayload \/ SendCommit)

-----------------------------------------------------------------------------
DatagramType == [id : Nat, len : Nat]
CellType == [d : DatagramType, pos : Nat \ {0}]
\* What one recv_from returns, or one SEND sends.
MessageType == [d : DatagramType, data : Seq(CellType)]

TypeOK ==
    /\ st \in Status \cup {"Free"}
    /\ err \in BOOLEAN /\ close \in BOOLEAN /\ release \in BOOLEAN /\ timeout \in BOOLEAN
    /\ link \in BOOLEAN
    /\ rx \in Seq(CellType) /\ Len(rx) <= RingCap /\ rxFrames \in Nat
    /\ tx \in Seq(CellType) /\ Len(tx) <= RingCap /\ txFrames \in Nat
    /\ bulk \in [kind : {"None", "ReceiveDatagram", "Transmit"}, d : DatagramType,
                 data : Seq(CellType), pointer : 0..(PtrMod - 1)]
    /\ pc \in {"idle", "service", "run", "tx"}
    /\ call \in [op : {"none", "recv", "header", "payload"}, d : DatagramType,
                 dst : Nat, left : Nat, data : Seq(CellType)]
    /\ sr \in {"Closed", "Udp"} /\ cr \in {"none", "OPEN", "CLOSE"}
    /\ chipRx \in Seq(CellType) /\ arriving \in Seq(CellType)
    /\ Len(chipRx) + Len(arriving) <= RxCap /\ rd \in 0..(PtrMod - 1)
    /\ dst \in DatagramType /\ chipTx \in Seq(CellType) /\ fsr \in Nat
    /\ wire \in Seq(MessageType) /\ peerGot \in Seq(MessageType) /\ got \in Seq(MessageType)
    /\ sent \in Seq([id : Nat, len : InLens]) /\ accepted \in Seq([id : Nat, len : OutLens])
    /\ Len(sent) <= MaxIn /\ Len(accepted) <= MaxOut
    /\ faults \in 0..MaxFaults /\ upsets \in 0..MaxUpsets

\* Every cell of s lies in a whole copy of its frame.
Framed(s) ==
    \A k \in 1..Len(s) :
      LET d == s[k].d
          b == k - s[k].pos
      IN /\ s[k].pos <= Size(d)
         /\ b >= 0 /\ b + Size(d) <= Len(s)
         /\ \A j \in 1..Size(d) : s[b + j] = Cell(d, j)

\* A sequence of cells that is n whole frames one after the other.
Starts(s) == {k \in 1..Len(s) : s[k].pos = 1}
Whole(s, n) == Framed(s) /\ n = Cardinality(Starts(s))

(* The frame counters agree with the bytes: a frame that is counted is in  *)
(* the rx ring with its header and every byte of its payload, so that the  *)
(* loops of recv_from, which wait for the bytes the header promised, never *)
(* spin; and while recv_from is inside a frame the rest of that frame is   *)
(* what comes next.                                                        *)
RxFramed ==
    IF call.op = "recv"
      THEN /\ Front(rx, call.left) = Rest(Frame(call.d), Size(call.d) - call.left)
           /\ Whole(Rest(rx, call.left), rxFrames - 1)
      ELSE Whole(rx, rxFrames)

\* What a send_to in progress has put in the tx ring.
Writing ==
    IF call.op = "header" THEN Header(call.d)
    ELSE IF call.op = "payload" THEN Frame(call.d) ELSE <<>>

(* A consumer that gates on frames() > 0 never sees a torn datagram: the   *)
(* tx ring holds the frames that are counted, whole, and behind them at    *)
(* most what a send_to in progress has written of one that is not.         *)
TxFramed ==
    LET n == Len(tx) - Len(Writing)
    IN /\ n >= 0 /\ Rest(tx, n) = Writing
       /\ Whole(Front(tx, n), txFrames)

Ids(s) == [k \in 1..Len(s) |-> s[k].d.id]
InSeq(s) == {s[k] : k \in 1..Len(s)}

\* The datagrams numbered by ids and then the frames that begin in the cells
\* s come in the order of their numbers, each once.
InOrder(ids, s) ==
    /\ \A i, j \in 1..Len(ids) : i < j => ids[i] < ids[j]
    /\ \A k \in Starts(s) :
         /\ \A i \in 1..Len(ids) : ids[i] < s[k].d.id
         /\ \A j \in 1..(k - 1) : s[j].d.id < s[k].d.id

\* The datagram a recv_from is in the middle of, and the one a transfer sends.
Reading == IF call.op = "recv" THEN <<call.d.id>> ELSE <<>>
Staged == IF bulk.kind = "Transmit" THEN <<bulk.d.id>> ELSE <<>>

(* Every datagram recv_from returned is one a peer sent: with that peer's  *)
(* address and the beginning of its payload, as much as fits the buffer.   *)
RxIntact ==
    \A k \in 1..Len(got) :
      /\ got[k].d \in InSeq(sent)
      /\ \E n \in DstLens : got[k].data = Front(Payload(got[k].d), n)

(* On a bus without faults datagrams are delivered in order and once, and  *)
(* none is lost between the chip and the application except those too      *)
(* large for the ring.                                                     *)
RxConserved ==
    faults = 0 =>
      LET done == Ids(got) \o Reading
          line == rx \o (chipRx \o arriving)
      IN /\ InOrder(done, line)
         /\ \A d \in InSeq(sent) :
              Size(d) <= RingCap => d.id \in InSeq(done) \cup Datagrams(line) \cup goneIn

(* The same on the way out: each SEND carries the payload of one datagram  *)
(* to the destination given to send_to, in order and once, and none        *)
(* accepted is lost in the driver.                                         *)
TxConserved ==
    faults = 0 =>
      LET out == peerGot \o wire
          done == Ids(out) \o Staged
      IN /\ \A k \in 1..Len(out) : out[k].data = Payload(out[k].d)
         /\ InOrder(done, tx)
         /\ 1..Len(accepted) \subseteq InSeq(done) \cup Datagrams(tx) \cup goneOut

-----------------------------------------------------------------------------
(* What makes these inductive.                                             *)

\* A handler runs only between transfers, and no command is pending that
\* would empty the chip's buffers under a transfer or an open socket.
Handlers ==
    /\ pc # "idle" => bulk = NoBulk
    /\ bulk # NoBulk \/ pc = "tx" \/ st = "Established" => cr = "none"
    /\ bulk.kind = "None" => bulk = NoBulk

\* The room the chip reported for a transfer is still there at its end.
Room == bulk.kind = "Transmit" => Len(bulk.data) <= fsr

\* A call belongs to a handle that is held.
CallHeld ==
    /\ call.op = "none" => call = NoCall
    /\ release \/ st = "Free" => call = NoCall

\* recv_from has copied the beginning of its datagram, and throws bytes away
\* only when the buffer is full.
CallRecv ==
    call.op = "recv" =>
      /\ call.d \in InSeq(sent) /\ call.dst \in DstLens
      /\ call.left <= call.d.len /\ ToCopy >= 0
      /\ ToCopy > 0 => call.left = call.d.len - Len(call.data)
      /\ \A i \in 1..Len(call.data) : call.data[i] = Cell(call.d, Hdr + i)

\* send_to writes the next datagram, and has still room for its payload.
CallSend ==
    /\ call.op \in {"header", "payload"} =>
         /\ call.d.id = Len(accepted) + 1 /\ call.d.id <= MaxOut
         /\ call.d.len \in OutLens
    /\ call.op = "header" => call.d.len <= Free(tx)

\* The chip holds whole datagrams that peers sent, the last one perhaps still
\* arriving; so does the rx ring.
OnChip == chipRx \o arriving
Received ==
    /\ \A i \in 1..Len(sent) : sent[i].id = i
    /\ \A k \in 1..Len(rx) : rx[k].d \in InSeq(sent)
    /\ \A k \in 1..Len(OnChip) : OnChip[k].d \in InSeq(sent)
    /\ Framed(OnChip)

\* A datagram in flight is the first one on the chip, and fits the ring.
InFlight ==
    bulk.kind = "ReceiveDatagram" =>
      /\ Size(bulk.d) <= Len(chipRx)
      /\ \A j \in 1..Size(bulk.d) : chipRx[j] = Cell(bulk.d, j)
      /\ bulk.data = Payload(bulk.d)
      /\ bulk.pointer = (rd + Hdr) % PtrMod
      /\ Size(bulk.d) <= Free(rx)

RxInv ==
    /\ TypeOK /\ Handlers /\ Room /\ CallHeld /\ CallSend
    /\ CallRecv /\ Received /\ InFlight /\ RxFramed /\ RxIntact

\* Unless the bus failed under transmit, the tx ring is framed, and what is
\* being written to it, in it or being sent was accepted in this order.
TxSound ==
    /\ \A i \in 1..Len(accepted) : accepted[i].id = i
    /\ \A k \in 1..Len(tx) :
         \/ tx[k].d \in InSeq(accepted)
         \/ call.op \in {"header", "payload"} /\ tx[k].d = call.d
    /\ faults = 0 \/ "transmit" \notin Faults => TxFramed

\* Without faults nothing is left between the pointers of the chip, and the
\* transfer carries the payload to the destination that is programmed.
Sending ==
    faults = 0 =>
      /\ chipTx = <<>>
      /\ \A k \in 1..Len(peerGot \o wire) : (peerGot \o wire)[k].d.id <= Len(accepted)
      /\ bulk.kind = "Transmit" =>
           bulk.d = dst /\ dst.id <= Len(accepted) /\ bulk.data = Payload(dst)

TxInv == TxSound /\ Sending /\ TxConserved

(* Status, commands, transfer, calls, rings and chip agree at every step   *)
(* of the handlers: in particular every buffer stays within its size, the  *)
(* chip's TX buffer too.                                                   *)
UdpInv == RxInv /\ RxConserved /\ TxInv

-----------------------------------------------------------------------------
\* The application wants the socket open.
Wanted == st \in {"Init", "Opening", "Established"} /\ ~close /\ ~release

\* Service finds the link up again and again, though it may lose it between.
LinkComesBack == []<>link

(* On a bus without faults, and if the link, once lost, comes back, a      *)
(* datagram send_to accepted leaves the driver as long as the socket is    *)
(* not closed: whether it was accepted before the link was lost, while it  *)
(* was down or after, and whether or not the application ever reads what   *)
(* fills the rx ring.  While the link is down service runs no socket, and  *)
(* the datagram waits in the ring.                                         *)
TxLeaves ==
    LinkComesBack =>
      \A i \in 1..MaxOut :
        Len(accepted) >= i /\ Wanted ~>
          ~Wanted \/ faults > 0 \/ i \in InSeq(Ids(peerGot)) \cup goneOut

(* If the application keeps calling recv_from, every datagram that reaches *)
(* the chip is taken off it: neither one that does not fit the ring nor an *)
(* empty one blocks those behind it.                                       *)
RxMoves ==
    SF_vars(\E n \in DstLens : RecvBegin(n)) =>
      \A i \in 1..MaxIn :
        i \in Datagrams(chipRx) /\ Wanted ~> ~Wanted \/ i \notin Datagrams(chipRx)

(* If the link, once lost, comes back, a dropped handle's slot is returned *)
(* to the pool.  A slot dropped while the link is down, when service runs  *)
(* no socket, waits for its return.                                        *)
Released == LinkComesBack => (release ~> ~release)
=============================================================================
