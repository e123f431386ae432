------------------------------- MODULE W6100 -------------------------------
(***************************************************************************)
(* The W6100 driver object of lib.rs: one SPI bus, one DMA transfer in     *)
(* flight at most, a pool of hardware sockets, and everything that touches *)
(* them.                                                                   *)
(*                                                                         *)
(* Who runs when.  The interrupt handlers (timer tick, INT line, DMA       *)
(* complete) have one priority: none preempts another, each preempts the   *)
(* application thread between any two of its instructions, and the thread  *)
(* runs only while no handler does.  A handler is a sequence of steps here *)
(* (variable isr); a call of the thread is split where its holding a cell, *)
(* or the order of two stores, is visible to a handler (variable main).    *)
(* The DMA controller moves on its own, and what the PHY says of the link  *)
(* is anyone's guess each time it is asked.                                *)
(*                                                                         *)
(* The protocol state machines are kept as the status they are in and the  *)
(* statuses one tick can lead to, whatever the chip answers; TcpSocket     *)
(* models them, the chip's socket and the bytes in detail.                 *)
(***************************************************************************)
EXTENDS Naturals, FiniteSets

CONSTANTS
    N,           \* number of hardware sockets (8 on the chip)
    Configs,     \* network configurations the application may set
    None,        \* no configuration, no transfer
    MaxOpens,    \* bound of the model: successful opens
    MaxSets,     \* bound of the model: calls of set_network_config
    SpiFaults,   \* may a bus transfer fail?  HalSpi's never do; the trait allows it
    PollsLink    \* when the application thread calls is_link_up itself: "never",
                 \* "closed" (only while no socket is open), "any" time

ASSUME NAssumption == N \in Nat \ {0}
ASSUME ConfigsAssumption == None \notin Configs
ASSUME FlagsAssumption == SpiFaults \in BOOLEAN /\ PollsLink \in {"never", "closed", "any"}
ASSUME BoundsAssumption == MaxOpens \in Nat /\ MaxSets \in Nat

Sockets == 1..N
\* A transfer: the slot and the claim it is for.  Its direction makes no
\* difference here.
BulkOp == [idx : Sockets, id : 0..MaxOpens]

ASSUME NoneAssumption == None \notin BulkOp

VARIABLES
    linkUp,    \* link_up: the link state service saw last
    config,    \* the staged network configuration
    dirty,     \* config_dirty
    sets,      \* calls of set_network_config so far
    net,       \* the network configuration in the chip's registers
    dma,       \* the Transceiver: "Idle" or "InFlight"
    dmaIrq,    \* the transfer-complete interrupt is pending
    bulk,      \* the BulkOp recorded for the transfer in flight
    sock,      \* the SocketBackend of every slot
    handle,    \* claim number of the live handle to each slot, 0 if none
    opens,     \* successful opens so far: gives every claim its own number
    held,      \* cells the application thread has locked
    main,      \* the application thread's call in progress
    isr,       \* the handler in progress
    torn       \* history: the last chip reset stopped half-way

linkVars == <<linkUp, net, torn>>
cfgVars == <<config, dirty, sets>>
busVars == <<dma, dmaIrq, bulk>>
poolVars == <<sock, handle, opens>>
threadVars == <<held, main>>
vars == <<linkVars, cfgVars, busVars, poolVars, threadVars, isr>>

\* The AtomicCells: one per slot, the device's and the configuration's.
Device == 0
ConfigCell == N + 1
Cells == 0..(N + 1)

Partial == "partial"       \* network registers written in part

Terminal == {"Closed", "Error", "Timeout"}
Closing == {"Closing", "ClosingDueToError", "ClosingDueToTimeout"}
Status == {"Init", "Opening", "Connecting", "Listening", "Established"}
              \cup Closing \cup Terminal

\* A slot: protocol, status, the two request flags and the number of the
\* claim.  "Free" is BackendState::Free.
Slot == [proto : {"Tcp", "Udp"}, st : Status \cup {"Free"}, close : BOOLEAN,
         release : BOOLEAN, id : 0..MaxOpens]
FreeSlot == [proto |-> "Tcp", st |-> "Free", close |-> FALSE,
             release |-> FALSE, id |-> 0]

MainIdle == [op |-> "idle", s |-> 0]
IsrIdle == [pc |-> "idle", i |-> 0]

\* The thread executes: it is never running while a handler is.
ThreadRuns == isr.pc = "idle"

-----------------------------------------------------------------------------
(* new: the chip has been reset, every slot is free, nothing is known of   *)
(* the link.                                                               *)
Init ==
    /\ linkUp = FALSE
    /\ config = None
    /\ dirty = FALSE
    /\ sets = 0
    /\ net = None
    /\ dma = "Idle"
    /\ dmaIrq = FALSE
    /\ bulk = None
    /\ sock = [s \in Sockets |-> FreeSlot]
    /\ handle = [s \in Sockets |-> 0]
    /\ opens = 0
    /\ held = {}
    /\ main = MainIdle
    /\ isr = IsrIdle
    /\ torn = FALSE

-----------------------------------------------------------------------------
(* The hardware: the end of a DMA transfer.                                *)
TransferDone ==
    /\ dma = "InFlight"
    /\ ~dmaIrq
    /\ dmaIrq' = TRUE
    /\ UNCHANGED <<linkVars, cfgVars, dma, bulk, poolVars, threadVars, isr>>

-----------------------------------------------------------------------------
(* The application thread.                                                 *)

(* set_network_config: stage the value under its cell, then raise dirty.   *)
SetConfigLock ==
    /\ ThreadRuns /\ main = MainIdle
    /\ sets < MaxSets
    /\ sets' = sets + 1
    /\ held' = held \cup {ConfigCell}
    /\ main' = [op |-> "stage", s |-> 0]
    /\ UNCHANGED <<linkVars, config, dirty, busVars, poolVars, isr>>

SetConfigStage(c) ==
    /\ ThreadRuns /\ main.op = "stage"
    /\ config' = c
    /\ held' = held \ {ConfigCell}
    /\ main' = [op |-> "dirty", s |-> 0]
    /\ UNCHANGED <<linkVars, dirty, sets, busVars, poolVars, isr>>

SetConfigDirty ==
    /\ ThreadRuns /\ main.op = "dirty"
    /\ dirty' = TRUE
    /\ main' = MainIdle
    /\ UNCHANGED <<linkVars, config, sets, busVars, poolVars, held, isr>>

(* open_tcp_connect, open_tcp_listen, open_udp: walk the slots, locking    *)
(* each in turn; the rings are installed and the slot claimed under its    *)
(* cell.  The thread's own lock_mut never fails: no handler runs now.      *)
OpenLock ==
    /\ ThreadRuns /\ main = MainIdle
    /\ held' = held \cup {1}
    /\ main' = [op |-> "open", s |-> 1]
    /\ UNCHANGED <<linkVars, cfgVars, busVars, poolVars, isr>>

\* A claim that leaves the release request of the previous owner behind.
MutOpenClaim(proto) ==
    /\ ThreadRuns /\ main.op = "open"
    /\ sock[main.s].st = "Free" /\ opens < MaxOpens
    /\ opens' = opens + 1
    /\ sock' = [sock EXCEPT ![main.s] =
                  [proto |-> proto, st |-> "Init", close |-> FALSE,
                   release |-> opens > 0, id |-> opens + 1]]
    /\ handle' = [handle EXCEPT ![main.s] = opens + 1]
    /\ held' = held \ {main.s}
    /\ main' = MainIdle
    /\ UNCHANGED <<linkVars, cfgVars, busVars, isr>>

OpenClaim(proto) ==
    /\ ThreadRuns /\ main.op = "open"
    /\ sock[main.s].st = "Free" /\ opens < MaxOpens
    /\ opens' = opens + 1
    /\ sock' = [sock EXCEPT ![main.s] =
                  [proto |-> proto, st |-> "Init", close |-> FALSE,
                   release |-> FALSE, id |-> opens + 1]]
    /\ handle' = [handle EXCEPT ![main.s] = opens + 1]
    /\ held' = held \ {main.s}
    /\ main' = MainIdle
    /\ UNCHANGED <<linkVars, cfgVars, busVars, isr>>

\* A walk that goes one slot too far.
MutOpenSkip ==
    /\ ThreadRuns /\ main.op = "open"
    /\ sock[main.s].st # "Free" \/ opens = MaxOpens
    /\ held' = (held \ {main.s}) \cup {main.s + 1}
    /\ main' = [op |-> "open", s |-> main.s + 1]
    /\ UNCHANGED <<linkVars, cfgVars, busVars, poolVars, isr>>

\* The slot is taken: unlock it and try the next, or return WouldBlock.
OpenSkip ==
    /\ ThreadRuns /\ main.op = "open"
    /\ sock[main.s].st # "Free" \/ opens = MaxOpens
    /\ IF main.s < N
         THEN /\ held' = (held \ {main.s}) \cup {main.s + 1}
              /\ main' = [op |-> "open", s |-> main.s + 1]
         ELSE /\ held' = held \ {main.s}
              /\ main' = MainIdle
    /\ UNCHANGED <<linkVars, cfgVars, busVars, poolVars, isr>>

(* The handle's control calls: status, close, reconnect and drop all start *)
(* by locking the slot's cell.                                             *)
HandleLock(op, s) ==
    /\ ThreadRuns /\ main = MainIdle
    /\ handle[s] # 0
    /\ held' = held \cup {s}
    /\ main' = [op |-> op, s |-> s]
    /\ UNCHANGED <<linkVars, cfgVars, busVars, poolVars, isr>>

\* The call's body is done: the guard is dropped.
Unlock ==
    /\ held' = held \ {main.s}
    /\ main' = MainIdle

StatusUnlock ==
    /\ ThreadRuns /\ main.op = "status"
    /\ Unlock
    /\ UNCHANGED <<linkVars, cfgVars, busVars, poolVars, isr>>

CloseUnlock ==
    /\ ThreadRuns /\ main.op = "close"
    /\ sock' = [sock EXCEPT ![main.s].close = @ \/ sock[main.s].st # "Free"]
    /\ Unlock
    /\ UNCHANGED <<linkVars, cfgVars, busVars, handle, opens, isr>>

\* rearm
Rearmed(slot) ==
    IF slot.st = "Free" THEN slot ELSE [slot EXCEPT !.st = "Init", !.close = FALSE]

\* reconnect re-arms the state machine first, then clears the rings.
ReconnectRearm ==
    /\ ThreadRuns /\ main.op = "reconnect"
    /\ sock' = [sock EXCEPT ![main.s] = Rearmed(@)]
    /\ main' = [main EXCEPT !.op = "clear"]
    /\ UNCHANGED <<linkVars, cfgVars, busVars, handle, opens, held, isr>>

ReconnectClear ==
    /\ ThreadRuns /\ main.op = "clear"
    /\ Unlock
    /\ UNCHANGED <<linkVars, cfgVars, busVars, poolVars, isr>>

\* A drop that marks the slot without asking its state machine to close.
MutDropUnlock ==
    /\ ThreadRuns /\ main.op = "drop"
    /\ sock' = [sock EXCEPT ![main.s].release = TRUE]
    /\ handle' = [handle EXCEPT ![main.s] = 0]
    /\ Unlock
    /\ UNCHANGED <<linkVars, cfgVars, busVars, opens, isr>>

\* drop: request_release
DropUnlock ==
    /\ ThreadRuns /\ main.op = "drop"
    /\ sock' = [sock EXCEPT ![main.s].release = TRUE, ![main.s].close = TRUE]
    /\ handle' = [handle EXCEPT ![main.s] = 0]
    /\ Unlock
    /\ UNCHANGED <<linkVars, cfgVars, busVars, opens, isr>>

(* is_link_up called by the application: the device cell is held across a  *)
(* synchronous register read, which returns WouldBlock if a bulk transfer  *)
(* has the bus.                                                            *)
PollLock ==
    /\ \/ PollsLink = "any"
       \/ PollsLink = "closed" /\ \A s \in Sockets : sock[s].st = "Free"
    /\ ThreadRuns /\ main = MainIdle
    /\ held' = held \cup {Device}
    /\ main' = [op |-> "poll", s |-> 0]
    /\ UNCHANGED <<linkVars, cfgVars, busVars, poolVars, isr>>

PollUnlock ==
    /\ ThreadRuns /\ main.op = "poll"
    /\ held' = held \ {Device}
    /\ main' = MainIdle
    /\ UNCHANGED <<linkVars, cfgVars, busVars, poolVars, isr>>

-----------------------------------------------------------------------------
(* The servicing handlers.                                                 *)

(* Timer tick or INT edge: both call service.                              *)
Tick ==
    /\ isr = IsrIdle
    /\ isr' = [pc |-> "service", i |-> 0]
    /\ UNCHANGED <<linkVars, cfgVars, busVars, poolVars, threadVars>>

Return == isr' = IsrIdle

(* service: nothing while a bulk transfer has the bus.                     *)
\* A service that goes on although a transfer is in flight.
MutServiceDefers ==
    /\ isr.pc = "service"
    /\ bulk # None
    /\ isr' = [pc |-> "run", i |-> 1]
    /\ UNCHANGED <<linkVars, cfgVars, busVars, poolVars, threadVars>>

ServiceDefers ==
    /\ isr.pc = "service"
    /\ bulk # None
    /\ Return
    /\ UNCHANGED <<linkVars, cfgVars, busVars, poolVars, threadVars>>

(* service: is_link_up fails (device cell held by the thread, Transceiver  *)
(* not idle, bus fault): give up this tick.                                *)
ServiceFails ==
    /\ isr.pc = "service"
    /\ bulk = None
    /\ Device \in held \/ dma # "Idle" \/ SpiFaults
    /\ Return
    /\ UNCHANGED <<linkVars, cfgVars, busVars, poolVars, threadVars>>

(* service: the link state is read and swapped into link_up; what follows  *)
(* depends on its edge.                                                    *)
ServiceReadsLink(up) ==
    /\ isr.pc = "service"
    /\ bulk = None
    /\ Device \notin held
    /\ dma = "Idle"
    /\ linkUp' = up
    /\ isr' = IF up THEN [pc |-> "config", i |-> 0]
              ELSE IF linkUp THEN [pc |-> "reset", i |-> 0]
              ELSE IsrIdle
    /\ UNCHANGED <<net, torn, cfgVars, busVars, poolVars, threadVars>>

(* reset, first half: any transfer in flight is drained, the marker is     *)
(* cleared and the RST pin wipes the chip.                                 *)
ResetChip ==
    /\ isr.pc = "reset"
    /\ dma' = "Idle"
    /\ dmaIrq' = FALSE
    /\ bulk' = None
    /\ net' = None
    /\ torn' = TRUE
    /\ isr' = [pc |-> "rearm", i |-> 1]
    /\ UNCHANGED <<linkUp, cfgVars, poolVars, threadVars>>

(* SocketBackend::reset.                                                   *)
ResetSlot(slot) ==
    IF slot.release THEN FreeSlot ELSE Rearmed(slot)

(* reset, the walk over the slots.  A slot whose cell the thread holds     *)
(* ends the whole reset, and with it service, with WouldBlock; so does a   *)
(* bus fault or a chip that does not identify itself in time.              *)
ResetSocket ==
    /\ isr.pc = "rearm"
    /\ isr.i \in Sockets
    /\ isr.i \notin held
    /\ sock' = [sock EXCEPT ![isr.i] = ResetSlot(@)]
    /\ isr' = [isr EXCEPT !.i = @ + 1]
    /\ UNCHANGED <<linkVars, cfgVars, busVars, handle, opens, threadVars>>

ResetFails ==
    /\ isr.pc = "rearm"
    /\ isr.i \in held \/ SpiFaults
    /\ Return
    /\ UNCHANGED <<linkVars, cfgVars, busVars, poolVars, threadVars>>

(* reset, the end: interrupts are routed again; back in service the        *)
(* configuration is marked for re-application.                             *)
\* A service that takes the configuration for still applied after a reset.
MutResetDone ==
    /\ isr.pc = "rearm"
    /\ isr.i > N
    /\ torn' = FALSE
    /\ Return
    /\ UNCHANGED <<linkUp, net, cfgVars, busVars, poolVars, threadVars>>

ResetDone ==
    /\ isr.pc = "rearm"
    /\ isr.i > N
    /\ torn' = FALSE
    /\ dirty' = TRUE
    /\ Return
    /\ UNCHANGED <<linkUp, net, config, sets, busVars, poolVars, threadVars>>

\* A service that clears the mark without writing the registers.
MutServiceConfig ==
    /\ isr.pc = "config"
    /\ dirty' = FALSE
    /\ isr' = [pc |-> "run", i |-> 1]
    /\ UNCHANGED <<linkVars, config, sets, busVars, poolVars, threadVars>>

(* service with the link up: apply the staged configuration if it is dirty *)
(* and can be read, then drive the sockets.                                *)
ServiceConfig ==
    /\ isr.pc = "config"
    /\ IF dirty /\ ConfigCell \notin held /\ config # None
         THEN net' = config /\ dirty' = FALSE
         ELSE UNCHANGED <<net, dirty>>
    /\ isr' = [pc |-> "run", i |-> 1]
    /\ UNCHANGED <<linkUp, torn, config, sets, busVars, poolVars, threadVars>>

(* setup_network stopped by a bus fault: some registers hold the new       *)
(* values, dirty stays raised.                                             *)
ServiceConfigFails ==
    /\ isr.pc = "config"
    /\ SpiFaults
    /\ dirty /\ ConfigCell \notin held /\ config # None
    /\ net' = Partial
    /\ Return
    /\ UNCHANGED <<linkUp, torn, cfgVars, busVars, poolVars, threadVars>>

-----------------------------------------------------------------------------
(* What one tick of a protocol state machine can make of its status,       *)
(* whatever the chip's registers say.                                      *)
Finished(st) ==
    CASE st = "ClosingDueToError" -> "Error"
      [] st = "ClosingDueToTimeout" -> "Timeout"
      [] OTHER -> "Closed"

TickTcp(st) ==
    CASE st = "Init" -> {"Opening"}
      [] st = "Opening" -> {"Opening", "Connecting", "Listening", "ClosingDueToError"}
      [] st = "Connecting" -> {"Connecting", "Established", "Closed",
                               "ClosingDueToTimeout", "ClosingDueToError"}
      [] st = "Listening" -> {"Listening", "Established", "Closed",
                              "ClosingDueToError"}
      [] st = "Established" -> {"Established", "Closing", "Closed",
                                "ClosingDueToTimeout", "ClosingDueToError"}
      [] st \in Closing -> {st, Finished(st)}
      [] OTHER -> {st}

TickUdp(st) ==
    CASE st = "Init" -> {"Opening"}
      [] st = "Opening" -> {"Opening", "Established", "ClosingDueToError"}
      [] st \in Closing -> {st, Finished(st)}
      [] OTHER -> {st}

(* handle_close: forget the request, and close unless already closing.     *)
TickClose(st) == IF st \in Closing \cup Terminal THEN st ELSE "Closing"

(* Statuses after one tick without a bulk transfer.  A bus fault before    *)
(* the handler has assigned the status leaves it as it was.                *)
TickStatus(slot) ==
    (IF slot.st = "Free" THEN {"Free"}
     ELSE IF slot.close THEN {TickClose(slot.st)}
     ELSE IF slot.proto = "Tcp" THEN TickTcp(slot.st) ELSE TickUdp(slot.st))
    \cup (IF SpiFaults THEN {slot.st} ELSE {})

(* SocketBackend::run around it: a slot whose release was requested is     *)
(* freed once its state machine is closed.                                 *)
AfterTick(slot, st) ==
    IF slot.release /\ st \in Terminal \cup {"Free"} THEN FreeSlot
    ELSE [slot EXCEPT !.st = st, !.close = FALSE]

\* run skips a slot whose cell the thread holds.
RunSkips ==
    /\ isr.pc = "run"
    /\ isr.i \in Sockets \cap held
    /\ isr' = [isr EXCEPT !.i = @ + 1]
    /\ UNCHANGED <<linkVars, cfgVars, busVars, poolVars, threadVars>>

RunSocket(st) ==
    /\ isr.pc = "run"
    /\ isr.i \in Sockets \ held
    /\ st \in TickStatus(sock[isr.i])
    /\ sock' = [sock EXCEPT ![isr.i] = AfterTick(@, st)]
    /\ isr' = [isr EXCEPT !.i = @ + 1]
    /\ UNCHANGED <<linkVars, cfgVars, busVars, handle, opens, threadVars>>

(* receive or transmit started a DMA: record it and stop servicing.        *)
\* A run that goes on to the next socket after starting a transfer.
MutRunStartsBulk ==
    /\ isr.pc = "run"
    /\ isr.i \in Sockets \ held
    /\ sock[isr.i].st = "Established"
    /\ ~sock[isr.i].close
    /\ dma' = "InFlight"
    /\ dmaIrq' = FALSE
    /\ bulk' = [idx |-> isr.i, id |-> sock[isr.i].id]
    /\ isr' = [isr EXCEPT !.i = @ + 1]
    /\ UNCHANGED <<linkVars, cfgVars, poolVars, threadVars>>

RunStartsBulk ==
    /\ isr.pc = "run"
    /\ isr.i \in Sockets \ held
    /\ sock[isr.i].st = "Established"
    /\ ~sock[isr.i].close
    /\ dma = "Idle"
    /\ dma' = "InFlight"
    /\ bulk' = [idx |-> isr.i, id |-> sock[isr.i].id]
    /\ Return
    /\ UNCHANGED <<linkVars, cfgVars, dmaIrq, poolVars, threadVars>>

RunDone ==
    /\ isr.pc = "run"
    /\ isr.i > N
    /\ Return
    /\ UNCHANGED <<linkVars, cfgVars, busVars, poolVars, threadVars>>

-----------------------------------------------------------------------------
(* dma_complete.  The recorded transfer is finished (Transceiver back to   *)
(* idle, interrupt flag cleared by its wait), the marker is cleared and    *)
(* service follows.  With the device cell held by the thread the finish is *)
(* skipped and the rest happens all the same; the flag stays set.          *)
\* A completion that keeps the marker.
MutDmaComplete ==
    /\ isr = IsrIdle
    /\ dmaIrq
    /\ bulk # None
    /\ dma' = "Idle"
    /\ dmaIrq' = FALSE
    /\ isr' = [pc |-> "service", i |-> 0]
    /\ UNCHANGED <<linkVars, cfgVars, bulk, poolVars, threadVars>>

DmaComplete ==
    /\ isr = IsrIdle
    /\ dmaIrq
    /\ bulk # None
    /\ IF Device \in held
         THEN UNCHANGED <<dma, dmaIrq>>
         ELSE dma' = "Idle" /\ dmaIrq' = FALSE
    /\ bulk' = None
    /\ isr' = [pc |-> "service", i |-> 0]
    /\ UNCHANGED <<linkVars, cfgVars, poolVars, threadVars>>

-----------------------------------------------------------------------------
MainStep ==
    \/ \E c \in Configs : SetConfigStage(c)
    \/ SetConfigDirty
    \/ \E proto \in {"Tcp", "Udp"} : OpenClaim(proto)
    \/ OpenSkip
    \/ StatusUnlock \/ CloseUnlock \/ ReconnectRearm \/ ReconnectClear
    \/ DropUnlock \/ PollUnlock

MainCall ==
    \/ SetConfigLock \/ OpenLock \/ PollLock
    \/ \E op \in {"status", "close", "reconnect", "drop"}, s \in Sockets :
           HandleLock(op, s)

Handler ==
    \/ ServiceDefers \/ ServiceFails \/ (\E up \in BOOLEAN : ServiceReadsLink(up))
    \/ ResetChip \/ ResetSocket \/ ResetFails \/ ResetDone
    \/ ServiceConfig \/ ServiceConfigFails
    \/ RunSkips \/ (\E st \in Status \cup {"Free"} : RunSocket(st)) \/ RunDone
    \/ RunStartsBulk

Next == TransferDone \/ MainCall \/ MainStep \/ Tick \/ DmaComplete \/ Handler

Spec == Init /\ [][Next]_vars

(* Fairness.  The timer keeps ticking and a handler that has started runs  *)
(* to its end; a transfer that was started ends; a pending DMA interrupt   *)
(* is taken before the lower-priority timer can be taken forever; handlers *)
(* leave the thread time to finish a call it is in.                        *)
FairSpec ==
    /\ Spec
    /\ WF_vars(Tick) /\ WF_vars(Handler) /\ WF_vars(TransferDone)
    /\ SF_vars(DmaComplete) /\ SF_vars(MainStep)

-----------------------------------------------------------------------------
MainOps == {"idle", "stage", "dirty", "open", "status", "close", "reconnect",
            "clear", "drop", "poll"}
IsrPcs == {"idle", "service", "reset", "rearm", "config", "run"}

TypeOK ==
    /\ linkUp \in BOOLEAN
    /\ torn \in BOOLEAN
    /\ net \in Configs \cup {None, Partial}
    /\ config \in Configs \cup {None}
    /\ dirty \in BOOLEAN
    /\ sets \in 0..MaxSets
    /\ dma \in {"Idle", "InFlight"}
    /\ dmaIrq \in BOOLEAN
    /\ bulk \in BulkOp \cup {None}
    /\ sock \in [Sockets -> Slot]
    /\ handle \in [Sockets -> 0..MaxOpens]
    /\ opens \in 0..MaxOpens
    /\ held \subseteq Cells
    /\ main \in [op : MainOps, s : 0..N]
    /\ isr \in [pc : IsrPcs, i : 0..(N + 1)]

(* Between handlers the marker and the Transceiver agree: a transfer is    *)
(* recorded exactly while one owns the bus.  If the marker were lost the   *)
(* Transceiver would refuse every later access.                            *)
BusOwnership ==
    isr.pc = "idle" => (bulk # None <=> dma = "InFlight")

(* While a handler works on the registers no transfer is in flight: service *)
(* never talks over a DMA and never starts a second one.                   *)
BusQuiet ==
    isr.pc \in {"reset", "rearm", "config", "run"} =>
        bulk = None /\ dma = "Idle" /\ ~dmaIrq

(* The slot a transfer was started for still belongs to the same claim     *)
(* when it completes: dma_complete delivers by index, without looking at   *)
(* the cell, so a slot that had been freed and opened again would get the  *)
(* bytes of its previous owner.                                            *)
TransferOwner ==
    bulk # None => sock[bulk.idx].id = bulk.id /\ sock[bulk.idx].st # "Free"

(* A live handle always finds its own claim in its slot, and a slot in use *)
(* without a handle is marked for release: no slot is lost or shared.      *)
SlotOwnership ==
    \A s \in Sockets :
        /\ handle[s] # 0 => sock[s].st # "Free" /\ sock[s].id = handle[s]
        /\ handle[s] = 0 /\ sock[s].st # "Free" => sock[s].release

(* A slot whose handle is gone is on its way back to the pool: its close   *)
(* is requested, under way or over.                                        *)
ReleaseCloses ==
    \A s \in Sockets :
        sock[s].release => sock[s].close \/ sock[s].st \in Closing \cup Terminal

(* If nothing is marked for re-application, the chip has the staged        *)
(* configuration, except after a reset that stopped half-way.              *)
ConfigFresh ==
    ThreadRuns /\ ~torn /\ ~dirty /\ main.op # "dirty" => net = config

-----------------------------------------------------------------------------
(* The inductive invariant behind the properties above.                    *)

\* The thread holds the one cell its call in progress is about.
HeldCells ==
    /\ main.op \in {"idle", "dirty"} => held = {}
    /\ main.op = "stage" => held = {ConfigCell}
    /\ main.op = "poll" => held = {Device}
    /\ main.op \notin {"idle", "dirty", "stage", "poll"} =>
         held = {main.s} /\ main.s \in Sockets

\* A handle's slot is its own and not marked for release; a call of a handle
\* is about a live one.
Claims ==
    /\ SlotOwnership
    /\ \A s \in Sockets : handle[s] # 0 => ~sock[s].release
    /\ main.op \in {"status", "close", "reconnect", "clear", "drop"} => handle[main.s] # 0

\* Once a handler has read the link the bus is its own until it returns.
Bus ==
    /\ BusQuiet
    /\ dmaIrq => dma = "InFlight"
    /\ TransferOwner

\* The marker and the Transceiver agree even during a handler, unless the
\* thread has the device while a transfer completes: a thread that polls only
\* with every slot free never does.
Polling ==
    PollsLink # "any" =>
        /\ bulk # None <=> dma = "InFlight"
        /\ main.op = "poll" => \A s \in Sockets : sock[s].st = "Free"

\* ConfigFresh also holds while a handler runs.
Staged == ~torn /\ ~dirty /\ main.op # "dirty" => net = config

DriverInv == TypeOK /\ HeldCells /\ Claims /\ Bus /\ Polling /\ Staged

-----------------------------------------------------------------------------
(* What the comment on the config field says of service, without that      *)
(* exception: with the link up, the configuration is on the chip or marked.*)
ConfigReapplied ==
    ThreadRuns /\ linkUp /\ ~dirty /\ main.op # "dirty" => net = config

(* What the comment in reconnect says: while it clears the rings no        *)
(* handler is moving bytes through them.                                   *)
ReconnectQuiescent ==
    main.op = "clear" => bulk = None \/ bulk.idx # main.s

(* Every transfer in flight is finished.                                   *)
TransferEnds == bulk # None ~> bulk = None

(* With the link up a staged configuration reaches the chip, unless service *)
(* sees the link go down or another one replaces it.                       *)
ConfigArrives ==
    \A c \in Configs :
        (config = c /\ dirty) ~> (net = c \/ config # c \/ ~linkUp)
=============================================================================
