---------------------------- MODULE Transceiver ----------------------------
(***************************************************************************)
(* The SPI transport: Transceiver's DmaState and its batching of SPI       *)
(* operations into the scratch buffers, the SpiDmaDevice of the echo       *)
(* firmware (HalSpi) with its chip select, transfer-complete flag and      *)
(* completion interrupt, and the DMA engine that clocks the bytes while    *)
(* the processor does something else.                                      *)
(*                                                                         *)
(* Callers are the interrupt handlers, which do not interrupt each other:  *)
(* the completion interrupt is taken when no call is in progress.  A byte  *)
(* of a command is the pair of the command's number and its position,      *)
(* header first; the chip answers the byte at position p of a chip-select  *)
(* frame with the pair of the command the frame began with, 0 if it did    *)
(* not begin with a header, and p.                                         *)
(***************************************************************************)
EXTENDS Integers, Sequences

CONSTANTS
    Hdr,        \* HEADER: bytes of a W6100 command header
    Scratch,    \* length of the scratch buffers
    Lens,       \* data lengths of synchronous reads and writes
    BulkLens,   \* payload lengths of bulk reads and writes
    DeviceFails, \* may transceive return an error?
    MaxCalls    \* bound of the model: calls of the transport

ASSUME SizesAssumption == {Hdr, Scratch} \subseteq Nat \ {0} /\ Hdr <= Scratch
ASSUME LensAssumption == Lens \cup BulkLens \subseteq Nat \ {0}
ASSUME FailsAssumption == DeviceFails \in BOOLEAN
ASSUME CallsAssumption == MaxCalls \in Nat

VARIABLES
    cell,       \* DmaState: "Idle", "Pending" or "InFlight"
    pc,         \* the call in progress: "none", or where it is
    ops,        \* operations of the transaction in progress
    index, start,  \* exec_transaction's next operation and start of the batch
    offset,     \* its offset into the scratch buffers
    marker,     \* the caller's record of the bulk transfer: its kind and length
    tx, rx,     \* the scratch buffers
    len,        \* DmaBuffers::len
    cs,         \* chip select is asserted
    tcif, tcie, \* transfer-complete flag and interrupt enable of the RX channel
    pend,       \* the completion interrupt is pending at the NVIC
    frame,      \* bytes sent in the current, or else the last, chip-select frame
    calls,      \* calls so far; also the number of the command begun last
    out         \* what a read delivered last: the command and its bytes

callVars == <<pc, ops, index, start, offset>>
bufVars == <<tx, rx, len>>
hwVars == <<cs, tcif, tcie, pend, frame>>
vars == <<cell, callVars, marker, bufVars, hwVars, calls, out>>

NoMarker == [kind |-> "None", len |-> 0]
NoOut == [cmd |-> 0, data |-> <<>>]

\* Bytes i to j of command c.
Bytes(c, i, j) == [k \in 1..(j - i + 1) |-> <<c, i + k - 1>>]
Header(c) == Bytes(c, 1, Hdr)

\* Operations: what is sent (for a Read, that many arbitrary bytes).
Write(data) == [kind |-> "Write", data |-> data]
Read(n) == [kind |-> "Read", data |-> [k \in 1..n |-> <<0, 0>>]]
Delay == [kind |-> "DelayNs", data |-> <<>>]

Init ==
    /\ cell = "Idle"
    /\ pc = "none" /\ ops = <<>> /\ index = 1 /\ start = 1 /\ offset = 0
    /\ marker = NoMarker
    /\ tx = [k \in 1..Scratch |-> <<0, 0>>]
    /\ rx = [k \in 1..Scratch |-> <<0, 0>>]
    /\ len = 0
    /\ cs = FALSE /\ tcif = FALSE /\ tcie = FALSE /\ pend = FALSE
    /\ frame = <<>>
    /\ calls = 0
    /\ out = NoOut

-----------------------------------------------------------------------------
(* The DMA engine and the chip (external).                                 *)

\* The command a frame began with.
Command(f) ==
    IF Len(f) >= Hdr /\ SubSeq(f, 1, Hdr) = Header(f[1][1]) THEN f[1][1] ELSE 0

\* One byte is clocked out and one in; the last one raises TCIF.
Clock ==
    /\ cs /\ Len(frame) < len
    /\ LET p == Len(frame) + 1
       IN /\ rx' = [rx EXCEPT ![p] = <<Command(frame), p>>]
          /\ frame' = Append(frame, tx[p])
          /\ tcif' = (tcif \/ p = len)
    /\ pend' = (pend \/ (tcif' /\ tcie))
    /\ UNCHANGED <<cell, callVars, marker, tx, len, cs, tcie, calls, out>>

-----------------------------------------------------------------------------
(* HalSpi.                                                                 *)

\* The HAL's own clear of TCIF, which may not stick.
MutClearRxTc == tcif' \in {tcif, FALSE}

\* The channel-specific clear of TCIF.
ClearRxTc == tcif' = FALSE

\* transceive: clear a stale flag, arm the interrupt, assert CS, start.
Transceive(completion, n) ==
    /\ len' = n
    /\ ClearRxTc
    /\ tcie' = (tcie \/ completion = "Interrupt")
    /\ cs' = TRUE
    /\ frame' = <<>>
    /\ pend' = (pend \/ (tcif' /\ tcie'))

\* A wait that leaves the interrupt armed.
MutWait ==
    /\ cs /\ tcif
    /\ cs' = FALSE
    /\ ClearRxTc
    /\ UNCHANGED <<tcie, pend, frame, len>>

\* wait: returns when TCIF is set; CS is released, the flag cleared and the
\* interrupt disarmed.
Wait ==
    /\ cs /\ tcif
    /\ cs' = FALSE
    /\ ClearRxTc
    /\ tcie' = FALSE
    /\ UNCHANGED <<pend, frame, len>>

-----------------------------------------------------------------------------
(* Synchronous transactions.                                               *)

CallBegins == pc = "none" /\ calls < MaxCalls /\ calls' = calls + 1

\* read, write and the delays of reset; refused unless the state is Idle.
Transaction(o) ==
    /\ CallBegins
    /\ cell = "Idle"
    /\ cell' = "Pending"
    /\ pc' = "pack"
    /\ ops' = o /\ index' = 1 /\ start' = 1 /\ offset' = 0
    /\ UNCHANGED <<marker, bufVars, hwVars, out>>

ReadCommand(n) == Transaction(<<Write(Header(calls + 1)), Read(n)>>)
WriteCommand(n) ==
    Transaction(<<Write(Header(calls + 1)), Write(Bytes(calls + 1, Hdr + 1, Hdr + n))>>)
DelayCommand == Transaction(<<Delay>>)

\* A batch of one operation at a time.
MutFits ==
    /\ index = start /\ index <= Len(ops)
    /\ ops[index].kind # "DelayNs"
    /\ offset + Len(ops[index].data) <= Scratch

\* The next operation still fits the batch.
Fits ==
    /\ index <= Len(ops)
    /\ ops[index].kind # "DelayNs"
    /\ offset + Len(ops[index].data) <= Scratch

\* The scratch TX buffer with the data of a write put in at offset.
Placed(op) ==
    [p \in 1..Scratch |->
       IF op.kind = "Write" /\ p \in (offset + 1)..(offset + Len(op.data))
         THEN op.data[p - offset] ELSE tx[p]]

\* One turn of the inner loop: the operation joins the batch.
PackOp ==
    /\ pc = "pack" /\ Fits
    /\ tx' = Placed(ops[index])
    /\ offset' = offset + Len(ops[index].data)
    /\ index' = index + 1
    /\ UNCHANGED <<cell, pc, ops, start, marker, rx, len, hwVars, calls, out>>

\* The call returns, with the device back in Idle.
Return ==
    /\ cell' = "Idle" /\ pc' = "none"
    /\ ops' = <<>> /\ index' = 1 /\ start' = 1 /\ offset' = 0

\* The end of the operations, or a single operation that cannot fit.
PackEnds ==
    /\ pc = "pack" /\ ~Fits /\ start = index
    /\ index <= Len(ops) => ops[index].kind # "DelayNs"
    /\ Return
    /\ UNCHANGED <<marker, bufVars, hwVars, calls, out>>

PackDelay ==
    /\ pc = "pack" /\ start = index /\ index <= Len(ops)
    /\ ops[index].kind = "DelayNs"
    /\ index' = index + 1 /\ start' = index + 1
    /\ UNCHANGED <<cell, pc, ops, offset, marker, bufVars, hwVars, calls, out>>

\* The batch is full or at its end: its transfer is started.
PackBatch ==
    /\ pc = "pack" /\ ~Fits /\ start < index
    /\ Transceive("Poll", offset)
    /\ pc' = "wait"
    /\ UNCHANGED <<cell, ops, index, start, offset, marker, tx, rx, calls, out>>

\* transceive refuses: the error is returned with the device.
PackFails ==
    /\ DeviceFails
    /\ pc = "pack" /\ ~Fits /\ start < index
    /\ len' = offset
    /\ Return
    /\ UNCHANGED <<marker, tx, rx, hwVars, calls, out>>

\* The transfer has ended.
BatchDone ==
    /\ pc = "wait"
    /\ Wait
    /\ offset' = 0
    /\ pc' = "unpack"
    /\ UNCHANGED <<cell, ops, index, start, marker, tx, rx, calls, out>>

\* A copy-back that does not count the bytes clocked in under a write.
MutUnpackOp ==
    /\ pc = "unpack" /\ start < index
    /\ LET op == ops[start]
       IN /\ out' = IF op.kind = "Read"
                      THEN [cmd |-> calls, data |-> SubSeq(rx, offset + 1, offset + Len(op.data))]
                      ELSE out
          /\ offset' = IF op.kind = "Read" THEN offset + Len(op.data) ELSE offset
    /\ start' = start + 1
    /\ UNCHANGED <<cell, pc, ops, index, marker, bufVars, hwVars, calls>>

\* One turn of the copy-back: a read gets its window of the RX buffer.
UnpackOp ==
    /\ pc = "unpack" /\ start < index
    /\ LET op == ops[start]
       IN /\ out' = IF op.kind = "Read"
                      THEN [cmd |-> calls, data |-> SubSeq(rx, offset + 1, offset + Len(op.data))]
                      ELSE out
          /\ offset' = offset + Len(op.data)
    /\ start' = start + 1
    /\ UNCHANGED <<cell, pc, ops, index, marker, bufVars, hwVars, calls>>

\* The next turn of the outer loop.
UnpackEnds ==
    /\ pc = "unpack" /\ start = index
    /\ pc' = "pack"
    /\ offset' = 0
    /\ UNCHANGED <<cell, ops, index, start, marker, bufVars, hwVars, calls, out>>

-----------------------------------------------------------------------------
(* Bulk transfers, finished from the completion interrupt.                 *)

\* Header and, for a write, the payload drained by fill are put in place.
Stage(kind, n) ==
    tx' = [p \in 1..Scratch |->
             IF p <= Hdr \/ (kind = "Write" /\ p <= Hdr + n) THEN <<calls + 1, p>> ELSE tx[p]]

\* A start that forgets the completion interrupt.
MutStartBulk(kind, n) ==
    /\ CallBegins
    /\ cell = "Idle" /\ Hdr + n <= Scratch
    /\ cell' = "InFlight"
    /\ marker' = [kind |-> kind, len |-> n]
    /\ Stage(kind, n)
    /\ Transceive("Poll", Hdr + n)
    /\ UNCHANGED <<callVars, rx, out>>

\* start_read and start_write: refused unless the state is Idle and header
\* and payload fit; only start_write stages a payload.
StartBulk(kind, n) ==
    /\ CallBegins
    /\ cell = "Idle" /\ Hdr + n <= Scratch
    /\ cell' = "InFlight"
    /\ marker' = [kind |-> kind, len |-> n]
    /\ Stage(kind, n)
    /\ Transceive("Interrupt", Hdr + n)
    /\ UNCHANGED <<callVars, rx, out>>

\* transceive refuses: back to Idle with the error, what was staged is lost.
StartBulkFails(kind, n) ==
    /\ DeviceFails
    /\ CallBegins
    /\ cell = "Idle" /\ Hdr + n <= Scratch
    /\ Stage(kind, n)
    /\ len' = Hdr + n
    /\ UNCHANGED <<cell, callVars, marker, rx, hwVars, out>>

\* The completion interrupt: dma_complete returns at once if no transfer is
\* recorded, and otherwise finishes it.
Interrupt ==
    /\ pc = "none" /\ pend
    /\ pend' = FALSE
    /\ pc' = IF marker = NoMarker THEN "none" ELSE "finish"
    /\ UNCHANGED <<cell, ops, index, start, offset, marker, bufVars, cs, tcif, tcie, frame,
                   calls, out>>

\* A finish blocks for completion and returns to Idle.
Finish ==
    /\ pc = "finish" /\ cell = "InFlight"
    /\ Wait
    /\ cell' = "Idle" /\ pc' = "none"
    /\ marker' = NoMarker
    /\ UNCHANGED <<ops, index, start, offset, tx, rx, calls>>

\* finish_read: the payload window is handed over.
FinishRead ==
    /\ Finish /\ marker.kind = "Read"
    /\ out' = [cmd |-> calls, data |-> SubSeq(rx, Hdr + 1, Hdr + marker.len)]

FinishWrite == Finish /\ marker.kind = "Write" /\ UNCHANGED out

\* abort, from a reset that finds a transfer in flight: drain it.
AbortBegin ==
    /\ pc = "none" /\ cell = "InFlight"
    /\ pc' = "abort"
    /\ UNCHANGED <<cell, ops, index, start, offset, marker, bufVars, hwVars, calls, out>>

AbortEnd ==
    /\ pc = "abort"
    /\ Wait
    /\ cell' = "Idle" /\ pc' = "none"
    /\ marker' = NoMarker
    /\ UNCHANGED <<ops, index, start, offset, tx, rx, calls, out>>

-----------------------------------------------------------------------------
Sync == (\E n \in Lens : ReadCommand(n) \/ WriteCommand(n)) \/ DelayCommand
Bulk ==
    \E kind \in {"Read", "Write"}, n \in BulkLens :
      StartBulk(kind, n) \/ StartBulkFails(kind, n)
Proceed ==
    \/ PackOp \/ PackEnds \/ PackDelay \/ PackBatch \/ PackFails
    \/ BatchDone \/ UnpackOp \/ UnpackEnds
    \/ Interrupt \/ FinishRead \/ FinishWrite \/ AbortEnd

Next == Sync \/ Bulk \/ AbortBegin \/ Proceed \/ Clock

Spec == Init /\ [][Next]_vars

(* Fairness: the DMA engine clocks on, a call in progress and a pending    *)
(* interrupt are not held up for ever.                                     *)
FairSpec == Spec /\ WF_vars(Clock) /\ WF_vars(Proceed)

-----------------------------------------------------------------------------
ByteType == (0..MaxCalls) \X Nat
Op == [kind : {"Read", "Write", "DelayNs"}, data : Seq(ByteType)]

TypeOK ==
    /\ cell \in {"Idle", "Pending", "InFlight"}
    /\ pc \in {"none", "pack", "wait", "unpack", "finish", "abort"}
    /\ ops \in Seq(Op) /\ offset \in Nat
    /\ index \in 1..(Len(ops) + 1) /\ start \in 1..index
    /\ marker \in [kind : {"None", "Read", "Write"}, len : Nat]
    /\ tx \in [1..Scratch -> ByteType] /\ rx \in [1..Scratch -> ByteType]
    /\ len \in 0..Scratch
    /\ frame \in Seq(ByteType) /\ Len(frame) <= Scratch
    /\ cs \in BOOLEAN /\ tcif \in BOOLEAN /\ tcie \in BOOLEAN /\ pend \in BOOLEAN
    /\ calls \in 0..MaxCalls

\* The transfer under way is a write, of a register or of a payload.
Writes ==
    \/ cell = "InFlight" /\ marker.kind = "Write"
    \/ pc = "wait" /\ ops[2].kind = "Write"

(* A chip-select frame carries exactly one chip transaction: the bytes     *)
(* sent since CS was asserted are the beginning of the command begun last, *)
(* its header and, for a write, its data; and CS is not released before    *)
(* some data was sent.                                                     *)
OneCommandPerFrame ==
    frame # <<>> =>
      /\ \A p \in 1..Len(frame) :
           p <= Hdr \/ (cs /\ Writes) => frame[p] = <<frame[1][1], p>>
      /\ cs => frame[1][1] = calls
      /\ ~cs => Len(frame) > Hdr

(* A read returns what the chip answered to its own header, from the byte  *)
(* after the header on: not a window clocked in under a header, nor one    *)
(* that a transfer had not reached yet when the wait returned.             *)
ReadWindow ==
    \A k \in 1..Len(out.data) : out.data[k] = <<out.cmd, Hdr + k>>

(* The bus has one owner: CS is asserted exactly while a batch or a bulk   *)
(* transfer is out, a bulk transfer is recorded by the caller exactly while *)
(* the device is in flight, and the completion interrupt is asserted only  *)
(* for a bulk transfer, so that it cannot storm.                           *)
BusOwner ==
    /\ cs = (cell = "InFlight" \/ pc = "wait")
    /\ (cell = "InFlight") = (marker # NoMarker)
    /\ tcif /\ tcie => cell = "InFlight"

-----------------------------------------------------------------------------
(* The inductive invariant behind the properties above.                    *)

\* Who has the device, where the call in progress is and what the caller has
\* recorded agree; the interrupt is armed for a bulk transfer only, and the
\* flag means that all bytes of the frame are out.
Owner ==
    /\ cell = "Pending" <=> pc \in {"pack", "wait", "unpack"}
    /\ pc \in {"finish", "abort"} => cell = "InFlight"
    /\ cs = (cell = "InFlight" \/ pc = "wait")
    /\ (cell = "InFlight") = (marker # NoMarker)
    /\ tcie => cell = "InFlight"
    /\ tcif => cs /\ Len(frame) = len
    /\ pc = "pack" => offset <= Scratch

\* Header and data of every synchronous access fit the scratch buffers
\* together.  exec_transaction would otherwise send them in two frames.
SyncFits == \A n \in Lens : Hdr + n <= Scratch

\* The bytes of a buffer from i to j are those of the current command.
Own(b, i, j) == \A p \in i..j : b[p] = <<calls, p>>

\* The second operation of a register access.
DataOp(kind, n) == IF kind = "Read" THEN Read(n) ELSE Write(Bytes(calls, Hdr + 1, Hdr + n))

\* A register access goes out in one batch: header and data in the TX buffer
\* when it is started, the chip's answer in the RX buffer when it is over.
Batching ==
    pc \in {"pack", "wait", "unpack"} =>
      \/ ops = <<Delay>> /\ pc = "pack" /\ offset = 0 /\ start = index
      \/ \E kind \in {"Read", "Write"}, n \in Lens :
           /\ ops = <<Write(Header(calls)), DataOp(kind, n)>>
           /\ pc = "pack" =>
                \/ index = 1 /\ start = 1 /\ offset = 0
                \/ index = 2 /\ start = 1 /\ offset = Hdr /\ Own(tx, 1, Hdr)
                \/ /\ index = 3 /\ start = 1 /\ offset = Hdr + n
                   /\ Own(tx, 1, IF kind = "Write" THEN offset ELSE Hdr)
                \/ index = 3 /\ start = 3 /\ offset = 0
           /\ pc = "wait" => index = 3 /\ start = 1 /\ len = Hdr + n
           /\ pc = "unpack" =>
                /\ index = 3
                /\ \/ start = 1 /\ offset = 0
                   \/ start = 2 /\ offset = Hdr
                   \/ start = 3
                /\ Own(rx, Hdr + 1, Hdr + n)

\* What is on the bus comes from the TX buffer, and what the chip answered
\* after the header is in the RX buffer.
Framing ==
    /\ cs => /\ Hdr < len /\ Len(frame) <= len
             /\ \A p \in 1..Len(frame) : frame[p] = tx[p]
             /\ Own(tx, 1, IF Writes THEN len ELSE Hdr)
             /\ Own(rx, Hdr + 1, Len(frame))
    /\ ~cs /\ frame # <<>> =>
         Len(frame) > Hdr /\ \A p \in 1..Hdr : frame[p] = <<frame[1][1], p>>
    /\ cell = "InFlight" => len = Hdr + marker.len

TransportInv ==
    /\ TypeOK
    /\ Owner
    /\ SyncFits => Batching /\ Framing /\ ReadWindow

(* Every transfer comes to its end: a bulk transfer's completion interrupt *)
(* is never missed, and the device returns to Idle.                        *)
DeviceReturns == cell # "Idle" ~> cell = "Idle"
=============================================================================
