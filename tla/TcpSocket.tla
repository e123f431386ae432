----------------------------- MODULE TcpSocket -----------------------------
(***************************************************************************)
(* One TCP socket end to end: the peer, the chip's hardware socket, the    *)
(* TcpSocketState machine driven by the interrupt handlers, the bulk       *)
(* transfer between the chip and the rings, and the application's handle.  *)
(*                                                                         *)
(* The rings are the bounded FIFOs that SpscRing is shown to implement.    *)
(* The chip and the peer are external: they are what the driver, its       *)
(* comments and the chip model of its tests assume of them.  The chip may  *)
(* take any time over OPEN, LISTEN, CONNECT, DISCON and CLOSE (the driver  *)
(* polls Sn_CR for it); SEND and RECV act at once, as in those tests.      *)
(*                                                                         *)
(* A byte is the pair of the connection it was sent or written in and its  *)
(* position there.                                                         *)
(***************************************************************************)
EXTENDS Naturals, Sequences, FiniteSetsExt

CONSTANTS
    Modes,      \* which of "Listen" and "Connect" the socket may be opened in
    Resets,     \* link-loss resets that happen: "whole", "torn" (stopped by a held cell)
    RingCap,    \* capacity of the rx and the tx ring
    ChipCap,    \* size of the chip's RX and TX buffers
    Scratch,    \* payload that fits the DMA scratch buffers
    CloseAgain, \* may the application call close() again while closing?
    MaxResets,  \* bound of the model: link-loss resets
    MaxConns,   \* bound of the model: connections
    MaxBytes    \* bound of the model: bytes per connection and direction

ASSUME ModesAssumption == Modes \subseteq {"Listen", "Connect"}
ASSUME ResetsAssumption == Resets \subseteq {"whole", "torn"}
ASSUME SizesAssumption == {RingCap, ChipCap, Scratch} \subseteq Nat \ {0}
ASSUME CloseAssumption == CloseAgain \in BOOLEAN
ASSUME LimitsAssumption == {MaxResets, MaxConns, MaxBytes} \subseteq Nat

VARIABLES
    mode,      \* TcpMode
    st,        \* status, or "Free" for BackendState::Free
    err,       \* pending_error is set
    close,     \* close_requested
    release,   \* release_requested
    rx, tx,    \* contents of the rings
    bulk,      \* the transfer in flight: its kind and its bytes
    pc,        \* the handler: not running, in service, about to tick, to read Sn_SR
    link,      \* link_up, as service saw it last
    seen,      \* what the application's last status() told it
    asked,     \* history: the application closed this session
    sr,        \* Sn_SR
    cr,        \* Sn_CR: the command not yet processed
    timeout,   \* the TIMEOUT bit of Sn_IR
    chipRx, chipTx,        \* the chip's buffers
    resets,    \* link-loss resets so far
    conn,      \* connections made so far
    sent, written,         \* bytes sent by the peer, accepted by write
    got, peerGot           \* bytes read by the application, by the peer

drvVars == <<st, err, close, release>>
ringVars == <<rx, tx>>
appVars == <<seen, asked, written, got>>
chipVars == <<sr, cr, timeout, chipRx, chipTx>>
peerVars == <<resets, conn, sent, peerGot>>
vars == <<mode, drvVars, ringVars, bulk, pc, link, appVars, chipVars, peerVars>>

Terminal == {"Closed", "Error", "Timeout"}
Closing == {"Closing", "ClosingDueToError", "ClosingDueToTimeout"}
Status == {"Init", "Opening", "Connecting", "Listening", "Established"}
              \cup Closing \cup Terminal
SR == {"Closed", "Init", "Listen", "SynSent", "SynRecv", "Established",
       "CloseWait", "FinWait", "LastAck"}
CR == {"none", "OPEN", "LISTEN", "CONNECT", "DISCON", "CLOSE"}

NoBulk == [kind |-> "None", data |-> <<>>]

\* The first n bytes of s, and s without them.
Front(s, n) == SubSeq(s, 1, n)
Rest(s, n) == SubSeq(s, n + 1, Len(s))

\* What SpscRing::write leaves in a ring: the part of the data that fits.
RingWrite(ring, data) == ring \o Front(data, Min({Len(data), RingCap - Len(ring)}))

-----------------------------------------------------------------------------
Init ==
    /\ mode \in Modes
    /\ st = "Free" /\ err = FALSE /\ close = FALSE /\ release = FALSE
    /\ rx = <<>> /\ tx = <<>>
    /\ bulk = NoBulk
    /\ pc = "idle" /\ link = FALSE
    /\ seen = "Other" /\ asked = FALSE
    /\ sr = "Closed" /\ cr = "none" /\ timeout = FALSE
    /\ chipRx = <<>> /\ chipTx = <<>>
    /\ resets = 0 /\ conn = 0 /\ sent = 0 /\ written = 0
    /\ got = <<>> /\ peerGot = <<>>

-----------------------------------------------------------------------------
(* The chip and the peer (external).                                       *)

Online == {"Established", "CloseWait", "FinWait", "LastAck"}

\* The socket falls back to SOCK_CLOSED and its buffers are gone.
ChipCloses ==
    /\ sr' = "Closed"
    /\ chipRx' = <<>>
    /\ chipTx' = <<>>

\* A command is processed and Sn_CR cleared; one that does not apply in the
\* current state is ignored.
ChipCommand ==
    /\ cr # "none"
    /\ cr' = "none"
    /\ \/ cr = "OPEN" /\ sr' = "Init" /\ chipRx' = <<>> /\ chipTx' = <<>>
       \/ cr = "CLOSE" /\ ChipCloses
       \/ /\ cr \in {"LISTEN", "CONNECT", "DISCON"}
          /\ sr' = CASE cr = "LISTEN" /\ sr = "Init" -> "Listen"
                     [] cr = "CONNECT" /\ sr = "Init" -> "SynSent"
                     [] cr = "DISCON" /\ sr = "Established" -> "FinWait"
                     [] cr = "DISCON" /\ sr = "CloseWait" -> "LastAck"
                     [] OTHER -> sr
          /\ UNCHANGED <<chipRx, chipTx>>
    /\ UNCHANGED <<mode, link, drvVars, ringVars, bulk, pc, appVars, timeout, peerVars>>

PeerSyn ==
    /\ sr = "Listen" /\ conn < MaxConns
    /\ sr' = "SynRecv"
    /\ UNCHANGED <<mode, link, drvVars, ringVars, bulk, pc, appVars, cr, timeout,
                   chipRx, chipTx, peerVars>>

\* The handshake completes: a new connection starts.
PeerConnects ==
    /\ sr \in {"SynRecv", "SynSent"} /\ conn < MaxConns
    /\ sr' = "Established"
    /\ conn' = conn + 1
    /\ sent' = 0 /\ written' = 0
    /\ got' = <<>> /\ peerGot' = <<>>
    /\ UNCHANGED <<mode, link, drvVars, ringVars, bulk, pc, seen, asked, cr, timeout,
                   chipRx, chipTx, resets>>

PeerSends ==
    /\ sr \in {"Established", "FinWait"}
    /\ sent < MaxBytes /\ Len(chipRx) < ChipCap
    /\ sent' = sent + 1
    /\ chipRx' = Append(chipRx, <<conn, sent + 1>>)
    /\ UNCHANGED <<mode, link, drvVars, ringVars, bulk, pc, appVars, sr, cr, timeout,
                   chipTx, resets, conn, peerGot>>

PeerTakes ==
    /\ sr \in Online /\ chipTx # <<>>
    /\ peerGot' = Append(peerGot, Head(chipTx))
    /\ chipTx' = Tail(chipTx)
    /\ UNCHANGED <<mode, link, drvVars, ringVars, bulk, pc, appVars, sr, cr, timeout,
                   chipRx, resets, conn, sent>>

PeerFin ==
    /\ sr = "Established"
    /\ sr' = "CloseWait"
    /\ UNCHANGED <<mode, link, drvVars, ringVars, bulk, pc, appVars, cr, timeout,
                   chipRx, chipTx, peerVars>>

\* Our FIN is acknowledged, after the bytes sent ahead of it.
CloseEnds ==
    /\ sr \in {"FinWait", "LastAck"} /\ chipTx = <<>>
    /\ ChipCloses
    /\ UNCHANGED <<mode, link, drvVars, ringVars, bulk, pc, appVars, cr, timeout, peerVars>>

\* RST from the peer, or retries exhausted: only the latter raises TIMEOUT.
PeerFails(late) ==
    /\ sr \in Online \cup {"SynSent", "SynRecv"}
    /\ ChipCloses
    /\ timeout' = (timeout \/ late)
    /\ UNCHANGED <<mode, link, drvVars, ringVars, bulk, pc, appVars, cr, peerVars>>

-----------------------------------------------------------------------------
(* The application and its handle.  It runs only while no handler does; it *)
(* writes when it was told Established and reconnects when it was told     *)
(* that the session is over.                                               *)

AppRuns == pc = "idle" /\ st # "Free" /\ ~release

\* open_tcp_connect and open_tcp_listen, with empty rings installed.
Open ==
    /\ pc = "idle" /\ st = "Free"
    /\ st' = "Init" /\ err' = FALSE /\ close' = FALSE /\ release' = FALSE
    /\ rx' = <<>> /\ tx' = <<>>
    /\ seen' = "Other" /\ asked' = FALSE
    /\ UNCHANGED <<mode, link, bulk, pc, written, got, chipVars, peerVars>>

AppStatus ==
    /\ AppRuns
    /\ seen' = IF err \/ st \in Terminal THEN "Terminal"
               ELSE IF st = "Established" THEN "Established" ELSE "Other"
    /\ UNCHANGED <<mode, link, drvVars, ringVars, bulk, pc, asked, written, got,
                   chipVars, peerVars>>

AppRead(n) ==
    /\ AppRuns
    /\ n <= Len(rx)
    /\ got' = got \o Front(rx, n)
    /\ rx' = Rest(rx, n)
    /\ UNCHANGED <<mode, link, drvVars, tx, bulk, pc, seen, asked, written, chipVars, peerVars>>

AppWrite ==
    /\ AppRuns /\ seen = "Established"
    /\ written < MaxBytes /\ Len(tx) < RingCap
    /\ tx' = RingWrite(tx, << <<conn, written + 1>> >>)
    /\ written' = written + 1
    /\ UNCHANGED <<mode, link, drvVars, rx, bulk, pc, seen, asked, got, chipVars, peerVars>>

AppClose ==
    /\ AppRuns
    /\ CloseAgain \/ ~asked
    /\ close' = TRUE
    /\ asked' = TRUE
    /\ UNCHANGED <<mode, link, st, err, release, ringVars, bulk, pc, seen, written, got,
                   chipVars, peerVars>>

\* A reconnect that leaves the rings as they are.
MutRearm ==
    /\ AppRuns
    /\ st' = "Init" /\ err' = FALSE /\ close' = FALSE
    /\ seen' = "Other" /\ asked' = FALSE
    /\ UNCHANGED <<mode, link, release, ringVars, bulk, pc, written, got, chipVars, peerVars>>

\* reconnect: rearm, then clear both rings.
Rearm ==
    /\ AppRuns
    /\ st' = "Init" /\ err' = FALSE /\ close' = FALSE
    /\ rx' = <<>> /\ tx' = <<>>
    /\ seen' = "Other" /\ asked' = FALSE
    /\ UNCHANGED <<mode, link, release, bulk, pc, written, got, chipVars, peerVars>>

Reconnect == seen = "Terminal" /\ Rearm

\* drop: request_release
Drop ==
    /\ AppRuns
    /\ release' = TRUE
    /\ close' = TRUE
    /\ asked' = TRUE
    /\ UNCHANGED <<mode, link, st, err, ringVars, bulk, pc, seen, written, got,
                   chipVars, peerVars>>

-----------------------------------------------------------------------------
(* The handlers: service, then one tick of the state machine.              *)

\* A service that forgets about the transfer in flight.
MutService ==
    /\ pc \in {"idle", "service"}
    /\ link' = TRUE
    /\ pc' = "run"
    /\ UNCHANGED <<mode, drvVars, ringVars, bulk, appVars, chipVars, peerVars>>

\* Timer, INT or the end of dma_complete: service defers to a bulk transfer
\* that has the bus, and runs the sockets if it finds the link up.  If it finds
\* it down nothing is run: LinkReset is the first such call, and the later ones
\* change nothing.
Service ==
    /\ pc \in {"idle", "service"} /\ bulk = NoBulk
    /\ link' = TRUE
    /\ pc' = "run"
    /\ UNCHANGED <<mode, drvVars, ringVars, bulk, appVars, chipVars, peerVars>>

\* SocketBackend::run after the tick: free the slot if it is released and its
\* state machine has come to rest in s.
Settle(s) ==
    IF release /\ s \in Terminal THEN st' = "Free" /\ release' = FALSE
    ELSE st' = s /\ UNCHANGED release

\* The tick ends with status s, having written command c to Sn_CR.
Answer(s, c) ==
    /\ Settle(s)
    /\ cr' = c
    /\ err' = (err \/ s = "ClosingDueToError")
    /\ pc' = "idle"

Ticking(s) == pc = "run" /\ ~close /\ st = s

\* A close that sends no FIN when there is nothing left to flush.
MutHandleClose ==
    /\ pc = "run" /\ close
    /\ close' = FALSE
    /\ Answer(IF st \in Closing \cup Terminal THEN st ELSE "Closing", cr)
    /\ UNCHANGED <<mode, link, ringVars, bulk, appVars, sr, timeout, chipRx, chipTx, peerVars>>

\* handle_close: flush what fits on the chip, then the FIN; a socket that is
\* still coming up is aborted.
HandleClose ==
    /\ pc = "run" /\ close
    /\ close' = FALSE
    /\ LET n == Min({Len(tx), ChipCap - Len(chipTx)})
       IN IF st = "Established"
            THEN /\ tx' = Rest(tx, n)
                 /\ chipTx' = IF sr \in Online THEN chipTx \o Front(tx, n) ELSE chipTx
            ELSE UNCHANGED <<tx, chipTx>>
    /\ \/ st \in Closing \cup Terminal /\ Answer(st, cr)
       \/ st = "Established" /\ Answer("Closing", "DISCON")
       \/ st \in {"Init", "Opening", "Connecting", "Listening"}
            /\ Answer("Closing", "CLOSE")
    /\ UNCHANGED <<mode, link, rx, bulk, appVars, sr, timeout, chipRx, peerVars>>

\* init_socket: of what it programs, the cleared interrupts matter here.
InitSocket == timeout' = FALSE

\* is_command_pending
CommandPending == cr # "none"

\* handle_init, then OPEN.
HandleInit ==
    /\ Ticking("Init")
    /\ InitSocket
    /\ Answer("Opening", "OPEN")
    /\ UNCHANGED <<mode, link, close, ringVars, bulk, appVars, sr, chipRx, chipTx, peerVars>>

\* handle_opening: wait for OPEN, then CONNECT or LISTEN.
HandleOpening ==
    /\ Ticking("Opening")
    /\ CASE CommandPending \/ sr = "Closed" -> Answer("Opening", cr)
         [] ~CommandPending /\ sr = "Init" ->
              IF mode = "Connect" THEN Answer("Connecting", "CONNECT")
              ELSE Answer("Listening", "LISTEN")
         [] OTHER -> Answer("ClosingDueToError", "CLOSE")
    /\ UNCHANGED <<mode, link, close, ringVars, bulk, appVars, sr, timeout, chipRx,
                   chipTx, peerVars>>

\* handle_listening: a client that has sent its FIN already is a client.
HandleListening ==
    /\ Ticking("Listening")
    /\ CASE CommandPending \/ sr \in {"Listen", "SynRecv"} -> Answer("Listening", cr)
         [] ~CommandPending /\ sr \in {"Established", "CloseWait"} ->
              Answer("Established", cr)
         [] ~CommandPending /\ sr = "Closed" -> Answer("Closed", cr)
         [] OTHER -> Answer("ClosingDueToError", "CLOSE")
    /\ timeout' = (timeout /\ ~(~CommandPending /\ sr = "Closed"))
    /\ UNCHANGED <<mode, link, close, ringVars, bulk, appVars, sr, chipRx, chipTx, peerVars>>

\* handle_connecting and handle_established, up to the look at Sn_IR: a
\* TIMEOUT tears the socket down, otherwise Sn_SR is read next.
ReadInterrupts ==
    /\ Ticking("Established") \/ (Ticking("Connecting") /\ ~CommandPending)
    /\ IF timeout
         THEN /\ timeout' = FALSE
              /\ Answer("ClosingDueToTimeout", "CLOSE")
         ELSE /\ pc' = "sr"
              /\ UNCHANGED <<st, err, release, cr, timeout>>
    /\ UNCHANGED <<mode, link, close, ringVars, bulk, appVars, sr, chipRx, chipTx, peerVars>>

ConnectPending ==
    /\ Ticking("Connecting") /\ CommandPending
    /\ pc' = "idle"
    /\ UNCHANGED <<mode, link, drvVars, ringVars, bulk, appVars, chipVars, peerVars>>

\* handle_connecting from read_status on.
ConnectingStatus ==
    /\ pc = "sr" /\ st = "Connecting"
    /\ CASE sr = "Established" -> Answer("Established", cr)
         [] sr \in {"SynSent", "Init"} -> Answer("Connecting", cr)
         [] sr = "Closed" -> Answer("Closed", cr)
         [] OTHER -> Answer("ClosingDueToError", "CLOSE")
    /\ UNCHANGED <<mode, link, close, ringVars, bulk, appVars, sr, timeout, chipRx,
                   chipTx, peerVars>>

\* Amounts that ignore the room at the other end.
MutToRead == Len(chipRx)
MutToSend == Len(tx)

\* The amounts receive and transmit would move now.
ToRead == Min({Len(chipRx), RingCap - Len(rx)})
ToSend == Min({Len(tx), ChipCap - Len(chipTx)})

\* receive: capture the bytes; they stay on the chip until dma_complete.  A
\* transfer larger than the scratch buffers is refused, and that error stored.
Receive ==
    /\ pc = "sr" /\ st = "Established"
    /\ sr \in {"Established", "CloseWait"}
    /\ ToRead > 0
    /\ IF ToRead <= Scratch
         THEN bulk' = [kind |-> "Receive", data |-> Front(chipRx, ToRead)]
              /\ UNCHANGED err
         ELSE err' = TRUE /\ UNCHANGED bulk
    /\ pc' = "idle"
    /\ UNCHANGED <<mode, link, st, close, release, ringVars, appVars, chipVars, peerVars>>

\* A transmit that stages the bytes without taking them out of the ring.
MutTransmit ==
    /\ pc = "sr" /\ st = "Established"
    /\ sr \in {"Established", "CloseWait"}
    /\ ToRead = 0 /\ ToSend > 0
    /\ bulk' = [kind |-> "Transmit", data |-> Front(tx, ToSend)]
    /\ pc' = "idle"
    /\ UNCHANGED <<mode, link, drvVars, ringVars, appVars, chipVars, peerVars>>

\* transmit: only when there was nothing to receive; the ring is drained into
\* the scratch buffer at once.
Transmit ==
    /\ pc = "sr" /\ st = "Established"
    /\ sr \in {"Established", "CloseWait"}
    /\ ToRead = 0 /\ ToSend > 0
    /\ IF ToSend <= Scratch
         THEN /\ bulk' = [kind |-> "Transmit", data |-> Front(tx, ToSend)]
              /\ tx' = Rest(tx, ToSend)
              /\ UNCHANGED err
         ELSE err' = TRUE /\ UNCHANGED <<bulk, tx>>
    /\ pc' = "idle"
    /\ UNCHANGED <<mode, link, st, close, release, rx, appVars, chipVars, peerVars>>

\* handle_established with nothing to move: after the peer's FIN our side is
\* closed once both rings and the chip's RX buffer are empty.
\* A close that does not wait for the application to drain the rx ring.
MutEstablishedIdle ==
    /\ pc = "sr" /\ st = "Established"
    /\ sr \notin {"Established", "CloseWait"} \/ (ToRead = 0 /\ ToSend = 0)
    /\ CASE sr = "Established" -> Answer("Established", cr)
         [] sr = "CloseWait" -> IF tx = <<>> THEN Answer("Closing", "DISCON")
                                ELSE Answer("Established", cr)
         [] sr = "Closed" -> Answer("Closed", cr)
         [] OTHER -> Answer("ClosingDueToError", "CLOSE")
    /\ UNCHANGED <<mode, link, close, ringVars, bulk, appVars, sr, timeout, chipRx,
                   chipTx, peerVars>>

EstablishedIdle ==
    /\ pc = "sr" /\ st = "Established"
    /\ sr \notin {"Established", "CloseWait"} \/ (ToRead = 0 /\ ToSend = 0)
    /\ CASE sr = "Established" -> Answer("Established", cr)
         [] sr = "CloseWait" ->
              IF tx = <<>> /\ rx = <<>> /\ chipRx = <<>>
                THEN Answer("Closing", "DISCON") ELSE Answer("Established", cr)
         [] sr = "Closed" -> Answer("Closed", cr)
         [] OTHER -> Answer("ClosingDueToError", "CLOSE")
    /\ UNCHANGED <<mode, link, close, ringVars, bulk, appVars, sr, timeout, chipRx,
                   chipTx, peerVars>>

Finished(s) ==
    CASE s = "ClosingDueToError" -> "Error"
      [] s = "ClosingDueToTimeout" -> "Timeout"
      [] OTHER -> "Closed"

\* handle_closing
HandleClosing ==
    /\ pc = "run" /\ ~close /\ st \in Closing
    /\ Answer(IF sr = "Closed" THEN Finished(st) ELSE st, cr)
    /\ UNCHANGED <<mode, link, close, ringVars, bulk, appVars, sr, timeout, chipRx,
                   chipTx, peerVars>>

\* A closed state machine, or a free slot, has nothing to do.
RunIdle ==
    /\ pc = "run" /\ ~close /\ st \in Terminal \cup {"Free"}
    /\ Settle(st)
    /\ pc' = "idle"
    /\ UNCHANGED <<mode, link, err, close, ringVars, bulk, appVars, chipVars, peerVars>>

\* dma_complete: finish_bulk, then service.  A receive is written to the ring
\* and taken off the chip; a transmit is sent unless the chip has closed.
DmaComplete ==
    /\ pc = "idle" /\ bulk # NoBulk
    /\ IF bulk.kind = "Receive"
         THEN /\ rx' = RingWrite(rx, bulk.data)
              /\ chipRx' = Rest(chipRx, Len(bulk.data))
              /\ UNCHANGED chipTx
         ELSE /\ chipTx' = IF sr \in Online THEN chipTx \o bulk.data ELSE chipTx
              /\ UNCHANGED <<rx, chipRx>>
    /\ bulk' = NoBulk
    /\ pc' = "service"
    /\ UNCHANGED <<mode, link, drvVars, tx, appVars, sr, cr, timeout, peerVars>>

\* A reset that re-arms a socket whose handle is gone.
MutLinkReset(kind) ==
    /\ kind \in Resets /\ resets < MaxResets
    /\ resets' = resets + 1
    /\ pc \in {"idle", "service"} /\ bulk = NoBulk
    /\ pc' = "idle"
    /\ link /\ link' = FALSE
    /\ ChipCloses
    /\ cr' = "none" /\ timeout' = FALSE
    /\ st' = IF st = "Free" THEN "Free" ELSE "Init"
    /\ err' = FALSE /\ close' = FALSE
    /\ UNCHANGED <<mode, release, ringVars, bulk, appVars, conn, sent, peerGot>>

\* service finds that the link has gone down: the chip is reset, and with it
\* the slot, which is freed if released and re-armed otherwise.  A torn reset
\* stops before it reaches the slot, and is not repeated.
LinkReset(kind) ==
    /\ kind \in Resets /\ resets < MaxResets
    /\ resets' = resets + 1
    /\ pc \in {"idle", "service"} /\ bulk = NoBulk
    /\ pc' = "idle"
    /\ link /\ link' = FALSE
    /\ ChipCloses
    /\ cr' = "none" /\ timeout' = FALSE
    /\ IF kind = "torn" THEN UNCHANGED drvVars
       ELSE /\ st' = IF release \/ st = "Free" THEN "Free" ELSE "Init"
            /\ err' = FALSE /\ close' = FALSE /\ release' = FALSE
    /\ UNCHANGED <<mode, ringVars, bulk, appVars, conn, sent, peerGot>>

-----------------------------------------------------------------------------
Peer ==
    \/ PeerSyn \/ PeerConnects \/ PeerSends \/ PeerTakes \/ PeerFin \/ CloseEnds
    \/ \E late \in BOOLEAN : PeerFails(late)

App ==
    \/ Open \/ AppStatus \/ AppWrite \/ AppClose \/ Reconnect \/ Drop
    \/ \E n \in 1..RingCap : AppRead(n)

Tick ==
    \/ HandleClose \/ HandleInit \/ HandleOpening \/ HandleListening
    \/ ReadInterrupts \/ ConnectPending \/ ConnectingStatus
    \/ Receive \/ Transmit \/ EstablishedIdle \/ HandleClosing \/ RunIdle

Next ==
    \/ Peer \/ ChipCommand \/ App
    \/ Service \/ Tick \/ DmaComplete
    \/ \E kind \in {"whole", "torn"} : LinkReset(kind)

Spec == Init /\ [][Next]_vars

(* Fairness: the timer keeps ticking, which runs the socket as long as the *)
(* link is up, and a handler runs to its end; a DMA transfer ends; the     *)
(* chip processes its commands; a FIN handshake ends, by the peer's answer *)
(* or by the chip's retry limit, and so do the bytes ahead of it.  That a  *)
(* lost link returns is not assumed here.                                  *)
FairSpec ==
    /\ Spec
    /\ WF_vars(link /\ Service) /\ WF_vars(Tick) /\ WF_vars(DmaComplete)
    /\ WF_vars(ChipCommand) /\ WF_vars(CloseEnds) /\ WF_vars(PeerTakes)

-----------------------------------------------------------------------------
Bytes(c, n) == [k \in 1..n |-> <<c, k>>]
ByteType == (0..MaxConns) \X (1..MaxBytes)

TypeOK ==
    /\ mode \in Modes
    /\ st \in Status \cup {"Free"}
    /\ err \in BOOLEAN /\ close \in BOOLEAN /\ release \in BOOLEAN
    /\ asked \in BOOLEAN /\ timeout \in BOOLEAN /\ link \in BOOLEAN
    /\ rx \in Seq(ByteType) /\ tx \in Seq(ByteType)
    /\ chipRx \in Seq(ByteType) /\ chipTx \in Seq(ByteType)
    /\ got \in Seq(ByteType) /\ peerGot \in Seq(ByteType)
    /\ Len(rx) <= RingCap /\ Len(tx) <= RingCap
    /\ Len(chipRx) <= ChipCap /\ Len(chipTx) <= ChipCap
    /\ bulk \in [kind : {"None", "Receive", "Transmit"}, data : Seq(ByteType)]
    /\ pc \in {"idle", "service", "run", "sr"}
    /\ seen \in {"Other", "Established", "Terminal"}
    /\ sr \in SR /\ cr \in CR
    /\ resets \in 0..MaxResets /\ conn \in 0..MaxConns
    /\ sent \in 0..MaxBytes /\ written \in 0..MaxBytes

\* The connection is up on both sides.
Live == st = "Established" /\ sr \in {"Established", "CloseWait"}

\* The bytes a transmit in flight has taken out of the tx ring.
InFlight == IF bulk.kind = "Transmit" THEN bulk.data ELSE <<>>

(* While a connection is up no received byte is lost, repeated or          *)
(* reordered: what the application has read, what is in the rx ring and    *)
(* what is still on the chip are together what the peer has sent.  The     *)
(* room receive saw in the ring is used only at dma_complete, after the    *)
(* application has run again.                                              *)
RxConserved == Live => got \o rx \o chipRx = Bytes(conn, sent)

(* The same for the other direction: what the peer has, what is on the     *)
(* chip, in the scratch buffer and in the tx ring is what write accepted.  *)
TxConserved ==
    Live => peerGot \o chipTx \o InFlight \o tx = Bytes(conn, written)

(* Whatever becomes of the connection, each side only ever sees a prefix   *)
(* of what the other sent in this connection, and nothing of an earlier    *)
(* one.                                                                    *)
InOrder ==
    /\ \A i \in 1..Len(got) : got[i] = <<conn, i>>
    /\ \A i \in 1..Len(peerGot) : peerGot[i] = <<conn, i>>

(* A connection the peer has ended with a FIN, and the application has not *)
(* asked to close, is acknowledged with our own FIN only when the          *)
(* application has read every byte the peer sent: handle_established waits *)
(* for an empty rx ring too.  The comment beside that code, which lets the *)
(* consumer drain the ring after our side has closed, says otherwise; see  *)
(* FinFollows.                                                             *)
DrainedAtFin == sr = "LastAck" /\ ~asked => Len(got) = sent

(* A session reported as over has no transfer in flight, so the            *)
(* application that reconnects it cannot have old bytes delivered into the *)
(* rings it has just cleared.                                              *)
TerminalQuiet == err \/ st \in Terminal => bulk = NoBulk

-----------------------------------------------------------------------------
(* The inductive invariant behind these properties.                        *)

\* A handler runs only without a transfer in flight, and the room transmit saw
\* on the chip is still there when its bytes arrive.
Room ==
    /\ bulk.kind = "None" => bulk = NoBulk
    /\ pc # "idle" => bulk = NoBulk
    /\ bulk.kind = "Transmit" => Len(chipTx) + Len(bulk.data) <= ChipCap

\* Where the chip can be while the state machine is in st.
Phase ==
    /\ st \in Terminal \cup {"Free"} =>
         sr = "Closed" /\ cr \in {"none", "CLOSE", "DISCON"}
    /\ st = "Init" =>
         /\ cr \in {"none", "CLOSE", "DISCON"}
         /\ sr = "Closed" \/ (sr = "CloseWait" /\ cr = "CLOSE")
    /\ st = "Opening" =>
         \/ cr = "OPEN" /\ sr \in {"Closed", "CloseWait"}
         \/ cr = "none" /\ sr = "Init"
    /\ st = "Listening" =>
         \/ cr = "LISTEN" /\ sr = "Init"
         \/ cr = "none"
              /\ sr \in {"Listen", "SynRecv", "Established", "CloseWait", "Closed"}
    /\ st = "Connecting" =>
         \/ cr = "CONNECT" /\ sr = "Init"
         \/ cr = "none" /\ sr \in {"SynSent", "Established", "CloseWait", "Closed"}
    /\ st = "Established" =>
         cr = "none" /\ sr \in {"Established", "CloseWait", "Closed"}
    /\ st = "Closing" =>
         \/ cr = "CLOSE"
         \/ cr = "DISCON" /\ sr \in {"Established", "CloseWait", "Closed"}
         \/ cr = "none" /\ sr \in {"FinWait", "LastAck", "Closed"}
    /\ st = "ClosingDueToTimeout" => cr = "CLOSE" \/ (cr = "none" /\ sr = "Closed")
    /\ st = "ClosingDueToError" =>
         (sr = "CloseWait" /\ cr = "CLOSE") \/ (sr = "Closed" /\ cr \in {"none", "CLOSE"})

\* A session whose connection is not up yet has moved no byte, and a socket
\* without a connection has none on the chip.
Fresh ==
    /\ \/ st \in {"Init", "Opening", "Connecting", "Listening", "ClosingDueToError"}
       \/ sr \in {"Init", "Listen", "SynSent", "SynRecv"}
       => rx = <<>> /\ tx = <<>> /\ bulk = NoBulk /\ seen # "Established"
    /\ sr \notin Online => chipRx = <<>> /\ chipTx = <<>>

\* What the flags say of the session.
Session ==
    /\ err => st \in {"ClosingDueToError", "Error", "Free"}
    /\ seen = "Terminal" => err \/ st \in Terminal \cup {"Free"}
    /\ pc = "sr" => st \in {"Connecting", "Established"}
    /\ bulk # NoBulk => st = "Established"
    /\ close => asked
    /\ cr = "DISCON" /\ ~asked /\ sr \in Online =>
         sr = "CloseWait" /\ rx = <<>> /\ chipRx = <<>>
    /\ sr = "LastAck" /\ ~asked => rx = <<>> /\ chipRx = <<>>

\* The bytes a receive in flight will write to the rx ring.
Arriving == IF bulk.kind = "Receive" THEN bulk.data ELSE <<>>

\* Both directions of the connection, piece by piece, while it lasts and after.
Streams ==
    /\ sr \in Online =>
         /\ got \o rx \o chipRx = Bytes(conn, sent)
         /\ peerGot \o chipTx \o InFlight \o tx = Bytes(conn, written)
         /\ Len(Arriving) <= Len(chipRx)
         /\ Arriving = Front(chipRx, Len(Arriving))
    /\ got \o rx \o Arriving = Bytes(conn, Len(got \o rx \o Arriving))
    /\ peerGot = Bytes(conn, Len(peerGot))
    /\ Len(rx) + Len(Arriving) <= RingCap

(* The inductive invariant.  Types and room hold always.  As long as no    *)
(* link-loss reset has happened, and if the scratch buffers hold a full    *)
(* ring, chip, status, flags and both streams agree.  The hypotheses are   *)
(* needed: a reset takes the chip away under the state machine, and a      *)
(* transfer refused for its size is an error that the connection, still    *)
(* up, does not notice.                                                    *)
TcpInv ==
    /\ TypeOK
    /\ Room
    /\ resets = 0 /\ RingCap <= Scratch => Phase /\ Fresh /\ Session /\ Streams

(* What the comment on CloseWait says, for the whole state machine: after  *)
(* the peer's FIN the driver closes its side of a healthy connection only  *)
(* with the chip's RX buffer drained.                                      *)
FinDrains ==
    [][cr' # cr /\ cr' \in {"CLOSE", "DISCON"} /\ sr = "CloseWait"
         /\ ~asked /\ ~timeout => chipRx = <<>>]_vars

\* Service finds the link up again and again, though it may lose it between.
LinkComesBack == []<>link

(* If the link, once lost, comes back, a dropped handle's slot is returned *)
(* to the pool: also if the chip is reset, whole or in part, while the     *)
(* socket is being torn down.  With the link down service runs no socket,  *)
(* and a slot dropped then waits for its return.                           *)
Released == LinkComesBack => (release ~> ~release)

(* If the link, once lost, comes back, a session the application asked to  *)
(* close comes to an end, unless a link-loss reset re-arms the socket and  *)
(* with it drops the request.                                              *)
CloseCompletes ==
    LinkComesBack =>
      (asked ~> st \in Terminal \cup {"Free"} \/ ~asked \/ resets > 0)

(* What the comment on CloseWait lets a caller expect: once every byte of  *)
(* a peer that has sent its FIN is off the chip, our side closes, and the  *)
(* application may read the rest from the ring afterwards.  The code waits *)
(* for the application instead, for ever if it does not read.              *)
FinFollows ==
    LinkComesBack =>
      (sr = "CloseWait" /\ chipRx = <<>> ~> sr # "CloseWait")
=============================================================================
