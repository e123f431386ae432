------------------------- MODULE TransceiverProofs -------------------------
(***************************************************************************)
(* The transport for every header and scratch length, every data length    *)
(* and any number of calls: the bus has one owner, and if header and data  *)
(* of every synchronous access fit the scratch buffers together, a chip-   *)
(* select frame is one command and a read gets the answer to its header.   *)
(***************************************************************************)
EXTENDS Transceiver, TLAPS

-----------------------------------------------------------------------------
(* Operations.                                                             *)

(* The bytes of a command are numbered.                                    *)
LEMMA BytesOf ==
    ASSUME NEW c \in 0..MaxCalls, NEW i \in Nat, NEW n \in Nat
    PROVE  /\ Bytes(c, i + 1, i + n) \in Seq(ByteType)
           /\ Len(Bytes(c, i + 1, i + n)) = n
           /\ \A k \in 1..n : Bytes(c, i + 1, i + n)[k] = <<c, i + k>>
  <1>1. (i + n) - (i + 1) + 1 = n /\ \A k \in 1..n : (i + 1) + k - 1 = i + k /\ i + k \in Nat
    OBVIOUS
  <1>2. Bytes(c, i + 1, i + n) = [k \in 1..n |-> <<c, i + k>>]
    BY <1>1 DEF Bytes
  <1>3. \A k \in 1..n : <<c, i + k>> \in ByteType
    BY <1>1 DEF ByteType
  <1>. DEFINE b == Bytes(c, i + 1, i + n)
  <1>4. b \in [1..n -> ByteType] /\ \A k \in 1..n : b[k] = <<c, i + k>>
    BY <1>2, <1>3
  <1>. HIDE DEF b
  <1>5. b \in Seq(ByteType) /\ Len(b) = n
    BY <1>4
  <1>. QED
    BY <1>4, <1>5 DEF b

(* The three kinds of operations a call is made of.                        *)
LEMMA OpsTyped ==
    ASSUME NEW c \in 0..MaxCalls, NEW n \in Nat
    PROVE  /\ Delay \in Op
           /\ Read(n) \in Op /\ Read(n).kind = "Read" /\ Len(Read(n).data) = n
           /\ Write(Header(c)) \in Op
           /\ Write(Bytes(c, Hdr + 1, Hdr + n)) \in Op
  <1>. USE SizesAssumption
  <1>1. Delay \in Op
    BY DEF Delay, Op
  <1>2. <<0, 0>> \in ByteType
    BY CallsAssumption DEF ByteType
  <1>3. [k \in 1..n |-> <<0, 0>>] \in Seq(ByteType) /\ Len([k \in 1..n |-> <<0, 0>>]) = n
    BY <1>2
  <1>4. Read(n) \in Op /\ Read(n).kind = "Read" /\ Len(Read(n).data) = n
    BY <1>3 DEF Read, Op
  <1>5. Header(c) \in Seq(ByteType)
    <2>1. Bytes(c, 0 + 1, 0 + Hdr) \in Seq(ByteType)
      BY BytesOf
    <2>. QED
      BY <2>1 DEF Header
  <1>6. Bytes(c, Hdr + 1, Hdr + n) \in Seq(ByteType)
    BY BytesOf
  <1>. QED
    BY <1>1, <1>4, <1>5, <1>6 DEF Write, Op

-----------------------------------------------------------------------------
(* Types and ownership.                                                    *)

(* The DMA engine: the flag is raised with the last byte and not before.   *)
LEMMA ClockOwner ==
    ASSUME TypeOK, Owner, Clock
    PROVE  TypeOK' /\ Owner'
  <1>. USE SizesAssumption, CallsAssumption DEF callVars
  <1>. DEFINE p == Len(frame) + 1
  <1>1. p \in 1..Scratch /\ p <= len /\ len \in Nat /\ Len(frame) \in Nat
    BY DEF Clock, TypeOK
  <1>2. Command(frame) \in 0..MaxCalls
    <2>1. Len(frame) >= Hdr => frame[1] \in ByteType
      BY DEF TypeOK
    <2>. QED
      BY <2>1 DEF Command, ByteType
  <1>3. rx' \in [1..Scratch -> ByteType]
    <2>1. <<Command(frame), p>> \in ByteType
      BY <1>1, <1>2 DEF ByteType
    <2>2. rx' = [rx EXCEPT ![p] = <<Command(frame), p>>]
      BY DEF Clock
    <2>. QED
      BY <1>1, <2>1, <2>2 DEF TypeOK
  <1>4. frame' \in Seq(ByteType) /\ Len(frame') = p
    <2>1. tx[p] \in ByteType /\ frame \in Seq(ByteType) /\ frame' = Append(frame, tx[p])
      BY <1>1 DEF Clock, TypeOK
    <2>. QED
      BY <2>1
  <1>5. tcif' \in BOOLEAN /\ pend' \in BOOLEAN
    BY DEF Clock, TypeOK
  <1>6. TypeOK'
    BY <1>1, <1>3, <1>4, <1>5 DEF Clock, TypeOK
  <1>7. tcif' => p = len
    <2>1. ~tcif
      BY <1>1 DEF Clock, Owner
    <2>. QED
      BY <2>1 DEF Clock, TypeOK
  <1>. QED
    BY <1>4, <1>6, <1>7 DEF Clock, Owner

(* A synchronous call takes an idle device.                                *)
LEMMA TransactionOwner ==
    ASSUME TypeOK, Owner, NEW o \in Seq(Op), Transaction(o)
    PROVE  TypeOK' /\ Owner'
  <1>. USE SizesAssumption, CallsAssumption DEF bufVars, hwVars
  <1>1. calls' \in 0..MaxCalls
    BY DEF Transaction, CallBegins, TypeOK
  <1>2. Len(o) \in Nat
    OBVIOUS
  <1>3. TypeOK'
    BY <1>1, <1>2 DEF Transaction, CallBegins, TypeOK
  <1>. QED
    BY <1>3 DEF Transaction, CallBegins, Owner, TypeOK

(* The loops of exec_transaction hold the device until the call returns.   *)
LEMMA ExecOwner ==
    ASSUME TypeOK, Owner,
           \/ PackOp \/ PackEnds \/ PackDelay \/ PackBatch \/ PackFails
           \/ BatchDone \/ UnpackOp \/ UnpackEnds
    PROVE  TypeOK' /\ Owner'
  <1>. USE SizesAssumption DEF bufVars, hwVars, Return
  <1>1. Len(ops) \in Nat /\ index \in Nat /\ start \in Nat
    BY DEF TypeOK
  <1>2. ASSUME NEW i \in 1..Len(ops)
        PROVE  /\ ops[i] \in Op /\ Len(ops[i].data) \in Nat
               /\ \A k \in 1..Len(ops[i].data) : ops[i].data[k] \in ByteType
    <2>1. ops[i] \in Op
      BY DEF TypeOK
    <2>. QED
      BY <2>1 DEF Op
  <1>3. CASE PackOp
    <2>1. index \in 1..Len(ops) /\ offset + Len(ops[index].data) <= Scratch
      BY <1>1, <1>3 DEF PackOp, Fits, TypeOK
    <2>2. tx' \in [1..Scratch -> ByteType]
      <3>. DEFINE d == ops[index].data
      <3>1. \A p \in 1..Scratch : p \in (offset + 1)..(offset + Len(d)) => d[p - offset] \in ByteType
        <4>. SUFFICES ASSUME NEW p \in 1..Scratch, p \in (offset + 1)..(offset + Len(d))
                      PROVE  d[p - offset] \in ByteType
          OBVIOUS
        <4>1. p - offset \in 1..Len(d)
          BY <1>2, <2>1, SMTT(30) DEF TypeOK
        <4>. QED
          BY <1>2, <2>1, <4>1
      <3>2. tx \in [1..Scratch -> ByteType]
        BY DEF TypeOK
      <3>3. tx' = Placed(ops[index])
        BY <1>3 DEF PackOp
      <3>. QED
        BY <3>1, <3>2, <3>3 DEF Placed
    <2>3. offset' \in Nat /\ offset' <= Scratch /\ index' \in 1..(Len(ops) + 1) /\ start \in 1..index'
      BY <1>1, <1>2, <1>3, <2>1 DEF PackOp, TypeOK
    <2>4. TypeOK'
      BY <1>3, <2>2, <2>3 DEF PackOp, TypeOK
    <2>. QED
      BY <1>3, <2>3, <2>4 DEF PackOp, Owner
  <1>4. CASE PackEnds \/ PackFails
    <2>1. /\ ops' = <<>> /\ index' = 1 /\ start' = 1 /\ offset' = 0
          /\ ops' \in Seq(Op) /\ Len(ops') = 0
      <3>1. ops' = <<>> /\ index' = 1 /\ start' = 1 /\ offset' = 0
        BY <1>4 DEF PackEnds, PackFails
      <3>. QED
        BY <3>1
    <2>2. len' \in 0..Scratch
      BY <1>4 DEF PackEnds, PackFails, TypeOK, Owner
    <2>3. TypeOK'
      BY <1>4, <2>1, <2>2 DEF PackEnds, PackFails, TypeOK
    <2>. QED
      BY <1>4, <2>3 DEF PackEnds, PackFails, Owner, TypeOK
  <1>5. CASE PackDelay
    <2>1. index' \in 1..(Len(ops) + 1) /\ start' \in 1..index'
      BY <1>1, <1>5 DEF PackDelay, TypeOK
    <2>2. TypeOK'
      BY <1>5, <2>1 DEF PackDelay, TypeOK
    <2>. QED
      BY <1>5, <2>2 DEF PackDelay, Owner
  <1>6. CASE PackBatch
    <2>1. len' \in 0..Scratch /\ frame' \in Seq(ByteType) /\ Len(frame') = 0
      BY <1>6 DEF PackBatch, Transceive, TypeOK, Owner
    <2>2. tcif' = FALSE /\ cs' = TRUE /\ tcie' = tcie /\ pend' = pend
      BY <1>6 DEF PackBatch, Transceive, ClearRxTc, TypeOK
    <2>3. TypeOK'
      <3>1. cs' \in BOOLEAN /\ tcif' \in BOOLEAN /\ tcie' \in BOOLEAN /\ pend' \in BOOLEAN
        BY <2>2 DEF TypeOK
      <3>. QED
        BY <1>6, <2>1, <3>1 DEF PackBatch, TypeOK
    <2>. QED
      BY <1>6, <2>2, <2>3 DEF PackBatch, Owner
  <1>7. CASE BatchDone
    <2>1. tcif' = FALSE /\ cs' = FALSE /\ tcie' = FALSE
      BY <1>7 DEF BatchDone, Wait, ClearRxTc
    <2>2. TypeOK'
      BY <1>7, <2>1 DEF BatchDone, Wait, TypeOK
    <2>. QED
      BY <1>7, <2>1, <2>2 DEF BatchDone, Owner
  <1>8. CASE UnpackOp
    <2>1. start \in 1..Len(ops) /\ start' \in 1..index
      BY <1>1, <1>8 DEF UnpackOp, TypeOK
    <2>2. offset' \in Nat
      BY <1>2, <1>8, <2>1 DEF UnpackOp, TypeOK
    <2>3. TypeOK'
      BY <1>8, <2>1, <2>2 DEF UnpackOp, TypeOK
    <2>. QED
      BY <1>8, <2>3 DEF UnpackOp, Owner
  <1>9. CASE UnpackEnds
    <2>1. TypeOK'
      BY <1>9 DEF UnpackEnds, TypeOK
    <2>. QED
      BY <1>9, <2>1 DEF UnpackEnds, Owner
  <1>. QED
    BY <1>3, <1>4, <1>5, <1>6, <1>7, <1>8, <1>9

(* A bulk transfer is started on an idle device, recorded, and ended by    *)
(* the completion interrupt or an abort.                                   *)
LEMMA BulkOwner ==
    ASSUME TypeOK, Owner,
           Bulk \/ Interrupt \/ FinishRead \/ FinishWrite \/ AbortBegin \/ AbortEnd
    PROVE  TypeOK' /\ Owner'
  <1>. USE SizesAssumption, CallsAssumption, LensAssumption DEF callVars, bufVars, hwVars
  <1>1. ASSUME NEW kind \in {"Read", "Write"}, NEW n \in BulkLens,
               StartBulk(kind, n) \/ StartBulkFails(kind, n)
        PROVE  TypeOK' /\ Owner'
    <2>1. calls + 1 \in 0..MaxCalls /\ calls' = calls + 1 /\ n \in Nat /\ Hdr + n \in 0..Scratch
      BY <1>1 DEF StartBulk, StartBulkFails, CallBegins, TypeOK
    <2>2. tx' \in [1..Scratch -> ByteType]
      <3>1. Stage(kind, n) /\ tx \in [1..Scratch -> ByteType]
        BY <1>1 DEF StartBulk, StartBulkFails, TypeOK
      <3>2. \A p \in 1..Scratch : <<calls + 1, p>> \in ByteType
        BY <2>1 DEF ByteType
      <3>. QED
        BY <3>1, <3>2 DEF Stage
    <2>3. CASE StartBulk(kind, n)
      <3>1. /\ len' = Hdr + n /\ frame' = <<>> /\ tcif' = FALSE /\ cs' = TRUE
            /\ tcif' \in BOOLEAN /\ cs' \in BOOLEAN
            /\ tcie' \in BOOLEAN /\ pend' \in BOOLEAN
        BY <2>3 DEF StartBulk, Transceive, ClearRxTc, TypeOK
      <3>2. frame' \in Seq(ByteType) /\ Len(frame') = 0
        BY <3>1
      <3>3. marker' \in [kind : {"None", "Read", "Write"}, len : Nat] /\ marker' # NoMarker
        BY <2>1, <2>3 DEF StartBulk, NoMarker
      <3>4. TypeOK'
        BY <2>1, <2>2, <2>3, <3>1, <3>2, <3>3 DEF StartBulk, TypeOK
      <3>. QED
        BY <2>3, <3>1, <3>3, <3>4 DEF StartBulk, CallBegins, Owner
    <2>4. CASE StartBulkFails(kind, n)
      <3>1. TypeOK'
        BY <2>1, <2>2, <2>4 DEF StartBulkFails, TypeOK
      <3>. QED
        BY <2>4, <3>1 DEF StartBulkFails, CallBegins, Owner, TypeOK
    <2>. QED
      BY <1>1, <2>3, <2>4
  <1>2. CASE Interrupt
    <2>1. TypeOK'
      BY <1>2 DEF Interrupt, TypeOK
    <2>. QED
      BY <1>2, <2>1 DEF Interrupt, Owner
  <1>3. CASE FinishRead \/ FinishWrite \/ AbortEnd
    <2>1. /\ cell' = "Idle" /\ pc' = "none" /\ marker' = NoMarker
          /\ tcif' = FALSE /\ cs' = FALSE /\ tcie' = FALSE
          /\ UNCHANGED <<ops, index, start, offset, tx, rx, len, pend, frame, calls>>
      BY <1>3 DEF FinishRead, FinishWrite, Finish, AbortEnd, Wait, ClearRxTc
    <2>2. TypeOK'
      BY <2>1 DEF TypeOK, NoMarker
    <2>. QED
      BY <2>1, <2>2 DEF Owner
  <1>4. CASE AbortBegin
    <2>1. TypeOK'
      BY <1>4 DEF AbortBegin, TypeOK
    <2>. QED
      BY <1>4, <2>1 DEF AbortBegin, Owner
  <1>. QED
    BY <1>1, <1>2, <1>3, <1>4 DEF Bulk

-----------------------------------------------------------------------------
(* Frames, when every synchronous access fits the scratch buffers.         *)

(* The two operations of a register access.                                *)
LEMMA AccessOps ==
    ASSUME TypeOK, NEW kind \in {"Read", "Write"}, NEW n \in Lens
    PROVE  /\ Write(Header(calls)).kind = "Write"
           /\ Len(Write(Header(calls)).data) = Hdr
           /\ \A k \in 1..Hdr : Write(Header(calls)).data[k] = <<calls, k>>
           /\ DataOp(kind, n).kind = kind
           /\ Len(DataOp(kind, n).data) = n
           /\ kind = "Write" => \A k \in 1..n : DataOp(kind, n).data[k] = <<calls, Hdr + k>>
  <1>1. calls \in 0..MaxCalls /\ n \in Nat /\ Hdr \in Nat /\ 0 \in Nat
    BY LensAssumption, SizesAssumption DEF TypeOK
  <1>2. /\ Len(Bytes(calls, 0 + 1, 0 + Hdr)) = Hdr
        /\ \A k \in 1..Hdr : Bytes(calls, 0 + 1, 0 + Hdr)[k] = <<calls, 0 + k>>
    BY <1>1, BytesOf
  <1>3. /\ Len(Bytes(calls, Hdr + 1, Hdr + n)) = n
        /\ \A k \in 1..n : Bytes(calls, Hdr + 1, Hdr + n)[k] = <<calls, Hdr + k>>
    BY <1>1, BytesOf
  <1>4. Len(Header(calls)) = Hdr /\ \A k \in 1..Hdr : Header(calls)[k] = <<calls, k>>
    <2>1. 0 + 1 = 1 /\ 0 + Hdr = Hdr /\ \A k \in 1..Hdr : 0 + k = k
      BY <1>1
    <2>. QED
      BY <1>2, <2>1 DEF Header
  <1>5. Read(n).kind = "Read" /\ Len(Read(n).data) = n
    BY <1>1, OpsTyped
  <1>. QED
    BY <1>3, <1>4, <1>5 DEF DataOp, Write

(* The chip knows the command of a frame once its header is complete, and  *)
(* answers every byte after it in the command's name.                      *)
LEMMA ClockFrames ==
    ASSUME TransportInv, SyncFits, Clock
    PROVE  Batching' /\ Framing' /\ ReadWindow'
  <1>. USE SizesAssumption DEF TransportInv, callVars
  <1>. DEFINE p == Len(frame) + 1
  <1>1. /\ cs /\ p \in 1..Scratch /\ p <= len /\ Len(frame) \in Nat /\ len \in Nat
        /\ frame \in Seq(ByteType)
    BY DEF Clock, TypeOK
  <1>2. frame' = Append(frame, tx[p]) /\ rx' = [rx EXCEPT ![p] = <<Command(frame), p>>]
    BY DEF Clock
  <1>3. UNCHANGED <<cell, pc, ops, index, start, offset, marker, tx, len, cs, calls, out>>
    BY DEF Clock
  <1>4. p > Hdr => Command(frame) = calls
    <2>. SUFFICES ASSUME p > Hdr
                  PROVE  Command(frame) = calls
      OBVIOUS
    <2>1. Len(frame) >= Hdr /\ \A k \in 1..Hdr : frame[k] = <<calls, k>>
      BY <1>1 DEF Framing, Own
    <2>2. frame[1][1] = calls
      BY <2>1
    <2>3. SubSeq(frame, 1, Hdr) = [k \in 1..Hdr |-> <<calls, k>>]
      BY <1>1, <2>1
    <2>4. Header(calls) = [k \in 1..Hdr |-> <<calls, k>>]
      BY DEF Header, Bytes
    <2>. QED
      BY <2>1, <2>2, <2>3, <2>4 DEF Command
  <1>5. Batching'
    BY <1>1, <1>3 DEF Batching, Owner, Own, DataOp
  <1>6. Framing'
    <2>1. Len(frame') = p /\ frame'[p] = tx[p] /\ \A k \in 1..Len(frame) : frame'[k] = frame[k]
      BY <1>1, <1>2 DEF TypeOK
    <2>2. \A k \in 1..Len(frame') : frame'[k] = tx'[k]
      BY <1>1, <1>3, <2>1 DEF Framing
    <2>3. Own(rx, Hdr + 1, Len(frame))'
      <3>. SUFFICES ASSUME NEW k \in (Hdr + 1)..p
                    PROVE  rx'[k] = <<calls, k>>
        BY <1>3, <2>1 DEF Own
      <3>1. CASE k = p
        BY <1>1, <1>2, <1>4, <3>1 DEF TypeOK
      <3>2. CASE k # p
        <4>1. k \in (Hdr + 1)..Len(frame) /\ rx'[k] = rx[k]
          BY <1>1, <1>2, <3>2 DEF TypeOK
        <4>. QED
          BY <1>1, <4>1 DEF Framing, Own
      <3>. QED
        BY <3>1, <3>2
    <2>. QED
      BY <1>1, <1>3, <2>1, <2>2, <2>3 DEF Framing, Own, Writes
  <1>7. ReadWindow'
    BY <1>3 DEF ReadWindow
  <1>. QED
    BY <1>5, <1>6, <1>7

(* A call starts with an empty batch.                                      *)
LEMMA SyncFrames ==
    ASSUME TransportInv, SyncFits, Sync
    PROVE  Batching' /\ Framing' /\ ReadWindow'
  <1>. USE DEF TransportInv, bufVars, hwVars
  <1>1. ASSUME NEW o, Transaction(o)
        PROVE  /\ ops' = o /\ pc' = "pack" /\ index' = 1 /\ start' = 1 /\ offset' = 0
               /\ calls' = calls + 1 /\ ~cs /\ ~cs' /\ frame' = frame /\ out' = out
               /\ cell' = "Pending"
    BY <1>1 DEF Transaction, CallBegins, Owner, TypeOK
  <1>2. ASSUME NEW o, Transaction(o)
        PROVE  Framing' /\ ReadWindow'
    BY <1>1, <1>2 DEF Framing, ReadWindow
  <1>3. ASSUME NEW n \in Lens, ReadCommand(n)
        PROVE  Batching'
    <2>1. ops' = <<Write(Header(calls')), DataOp("Read", n)'>>
      BY <1>1, <1>3 DEF ReadCommand, DataOp
    <2>. QED
      BY <1>1, <1>3, <2>1 DEF ReadCommand, Batching
  <1>4. ASSUME NEW n \in Lens, WriteCommand(n)
        PROVE  Batching'
    <2>1. ops' = <<Write(Header(calls')), DataOp("Write", n)'>>
      BY <1>1, <1>4 DEF WriteCommand, DataOp
    <2>. QED
      BY <1>1, <1>4, <2>1 DEF WriteCommand, Batching
  <1>5. CASE DelayCommand
    BY <1>1, <1>2, <1>5 DEF DelayCommand, Batching
  <1>6. ASSUME NEW n \in Lens, ReadCommand(n) \/ WriteCommand(n)
        PROVE  Framing' /\ ReadWindow'
    BY <1>2, <1>6 DEF ReadCommand, WriteCommand
  <1>. QED
    BY <1>3, <1>4, <1>5, <1>6 DEF Sync

(* Where a call that is packing a register access can be.                  *)
LEMMA PackingAccess ==
    ASSUME TransportInv, SyncFits, pc \in {"pack", "wait", "unpack"}, ops # <<Delay>>
    PROVE  \E kind \in {"Read", "Write"}, n \in Lens :
             /\ ops = <<Write(Header(calls)), DataOp(kind, n)>>
             /\ Len(ops) = 2 /\ ops[1].kind = "Write" /\ Len(ops[1].data) = Hdr
             /\ ops[2].kind = kind /\ Len(ops[2].data) = n
             /\ n \in Nat \ {0} /\ Hdr + n <= Scratch
             /\ pc = "pack" =>
                  \/ index = 1 /\ start = 1 /\ offset = 0
                  \/ index = 2 /\ start = 1 /\ offset = Hdr /\ Own(tx, 1, Hdr)
                  \/ /\ index = 3 /\ start = 1 /\ offset = Hdr + n
                     /\ Own(tx, 1, IF kind = "Write" THEN offset ELSE Hdr)
                  \/ index = 3 /\ start = 3 /\ offset = 0
             /\ pc = "wait" => index = 3 /\ start = 1 /\ len = Hdr + n
             /\ pc = "unpack" =>
                  /\ index = 3
                  /\ \/ start = 1 /\ offset = 0
                     \/ start = 2 /\ offset = Hdr
                     \/ start = 3
                  /\ Own(rx, Hdr + 1, Hdr + n)
  <1>1. PICK kind \in {"Read", "Write"}, n \in Lens :
             /\ ops = <<Write(Header(calls)), DataOp(kind, n)>>
             /\ pc = "pack" =>
                  \/ index = 1 /\ start = 1 /\ offset = 0
                  \/ index = 2 /\ start = 1 /\ offset = Hdr /\ Own(tx, 1, Hdr)
                  \/ /\ index = 3 /\ start = 1 /\ offset = Hdr + n
                     /\ Own(tx, 1, IF kind = "Write" THEN offset ELSE Hdr)
                  \/ index = 3 /\ start = 3 /\ offset = 0
             /\ pc = "wait" => index = 3 /\ start = 1 /\ len = Hdr + n
             /\ pc = "unpack" =>
                  /\ index = 3
                  /\ \/ start = 1 /\ offset = 0
                     \/ start = 2 /\ offset = Hdr
                     \/ start = 3
                  /\ Own(rx, Hdr + 1, Hdr + n)
    BY DEF TransportInv, Batching
  <1>2. /\ Len(ops) = 2 /\ ops[1] = Write(Header(calls)) /\ ops[2] = DataOp(kind, n)
        /\ n \in Nat \ {0} /\ Hdr + n <= Scratch
    BY <1>1, LensAssumption DEF SyncFits
  <1>3. /\ ops[1].kind = "Write" /\ Len(ops[1].data) = Hdr
        /\ ops[2].kind = kind /\ Len(ops[2].data) = n
    BY <1>2, AccessOps DEF TransportInv
  <1>. QED
    BY <1>1, <1>2, <1>3

(* A single delay is not a batch.                                          *)
LEMMA PackingDelay ==
    ASSUME TransportInv, SyncFits, pc \in {"pack", "wait", "unpack"}, ops = <<Delay>>
    PROVE  /\ pc = "pack" /\ offset = 0 /\ start = index
           /\ Len(ops) = 1 /\ ops[1].kind = "DelayNs" /\ ~Fits
  <1>1. Len(ops) = 1 /\ ops[1].kind = "DelayNs"
    BY DEF Delay
  <1>2. ~ \E kind \in {"Read", "Write"}, n \in Lens :
             ops = <<Write(Header(calls)), DataOp(kind, n)>>
    BY <1>1
  <1>3. pc = "pack" /\ offset = 0 /\ start = index
    BY <1>2 DEF TransportInv, Batching
  <1>4. index = 1 \/ index = 2
    BY <1>1 DEF TransportInv, TypeOK
  <1>. QED
    BY <1>1, <1>3, <1>4 DEF Fits

(* The inner loop packs header and data into one batch.                    *)
LEMMA PackOpFrames ==
    ASSUME TransportInv, SyncFits, PackOp
    PROVE  Batching' /\ Framing' /\ ReadWindow'
  <1>. USE SizesAssumption DEF hwVars
  <1>1. pc = "pack" /\ Fits /\ ops # <<Delay>>
    BY PackingDelay DEF PackOp
  <1>2. PICK kind \in {"Read", "Write"}, n \in Lens :
             /\ ops = <<Write(Header(calls)), DataOp(kind, n)>>
             /\ Len(ops) = 2 /\ ops[1].kind = "Write" /\ Len(ops[1].data) = Hdr
             /\ ops[2].kind = kind /\ Len(ops[2].data) = n
             /\ n \in Nat \ {0} /\ Hdr + n <= Scratch
             /\ \/ index = 1 /\ start = 1 /\ offset = 0
                \/ index = 2 /\ start = 1 /\ offset = Hdr /\ Own(tx, 1, Hdr)
                \/ index = 3
    BY <1>1, PackingAccess
  <1>3. /\ \A k \in 1..Hdr : ops[1].data[k] = <<calls, k>>
        /\ kind = "Write" => \A k \in 1..n : ops[2].data[k] = <<calls, Hdr + k>>
    BY <1>2, AccessOps DEF TransportInv
  <1>4. tx' = Placed(ops[index]) /\ offset' = offset + Len(ops[index].data) /\ index' = index + 1
    BY DEF PackOp
  <1>5. UNCHANGED <<cell, pc, ops, start, marker, rx, len, cs, frame, calls, out>>
    BY DEF PackOp
  <1>6. index # 3
    BY <1>1, <1>2 DEF Fits
  <1>7. CASE index = 1
    <2>1. Own(tx, 1, Hdr)'
      <3>. SUFFICES ASSUME NEW p \in 1..Hdr
                    PROVE  tx'[p] = <<calls, p>>
        BY <1>5 DEF Own
      <3>1. p \in 1..Scratch /\ p \in (offset + 1)..(offset + Len(ops[1].data)) /\ p - offset = p
        BY <1>2, <1>7
      <3>. QED
        BY <1>2, <1>3, <1>4, <1>7, <3>1 DEF Placed
    <2>2. index' = 2 /\ start' = 1 /\ offset' = Hdr
      BY <1>2, <1>4, <1>5, <1>7
    <2>. QED
      BY <1>1, <1>2, <1>5, <2>1, <2>2 DEF TransportInv, Owner, Batching, Framing, ReadWindow, DataOp
  <1>8. CASE index = 2
    <2>1. index' = 3 /\ start' = 1 /\ offset' = Hdr + n
      BY <1>2, <1>4, <1>5, <1>8
    <2>2. Own(tx, 1, IF kind = "Write" THEN offset ELSE Hdr)'
      <3>. SUFFICES ASSUME NEW p \in 1..(Hdr + n), p <= Hdr \/ kind = "Write"
                    PROVE  tx'[p] = <<calls, p>>
        BY <1>2, <1>5, <2>1 DEF Own
      <3>1. p \in 1..Scratch
        BY <1>2
      <3>2. CASE p <= Hdr
        <4>1. p \notin (offset + 1)..(offset + Len(ops[2].data)) /\ p \in 1..Hdr
          BY <1>2, <1>8, <3>2
        <4>. QED
          BY <1>2, <1>4, <1>8, <3>1, <4>1 DEF Placed, Own
      <3>3. CASE p > Hdr
        <4>1. /\ p \in (offset + 1)..(offset + Len(ops[2].data))
              /\ p - offset \in 1..n /\ Hdr + (p - offset) = p
          BY <1>2, <1>8, <3>3
        <4>. QED
          BY <1>2, <1>3, <1>4, <1>8, <3>1, <3>3, <4>1, SMTT(30) DEF Placed
      <3>. QED
        BY <3>2, <3>3
    <2>. QED
      BY <1>1, <1>2, <1>5, <2>1, <2>2 DEF TransportInv, Owner, Batching, Framing, ReadWindow, DataOp
  <1>. QED
    BY <1>2, <1>6, <1>7, <1>8

(* The whole access is sent in one frame.                                  *)
LEMMA PackBatchFrames ==
    ASSUME TransportInv, SyncFits, PackBatch
    PROVE  Batching' /\ Framing' /\ ReadWindow'
  <1>. USE SizesAssumption
  <1>1. pc = "pack" /\ ~Fits /\ start < index /\ index \in Nat
    BY DEF PackBatch, TransportInv, TypeOK
  <1>2. ops # <<Delay>>
    BY <1>1, PackingDelay
  <1>3. PICK kind \in {"Read", "Write"}, n \in Lens :
             /\ ops = <<Write(Header(calls)), DataOp(kind, n)>>
             /\ Len(ops) = 2 /\ ops[2].kind = kind /\ Len(ops[2].data) = n
             /\ n \in Nat \ {0} /\ Hdr + n <= Scratch
             /\ \/ index = 1 /\ start = 1
                \/ index = 2 /\ offset = Hdr
                \/ /\ index = 3 /\ start = 1 /\ offset = Hdr + n
                   /\ Own(tx, 1, IF kind = "Write" THEN offset ELSE Hdr)
                \/ index = 3 /\ start = 3
    BY <1>1, <1>2, PackingAccess
  <1>4. index # 2
    BY <1>1, <1>3 DEF Fits
  <1>5. /\ index = 3 /\ start = 1 /\ offset = Hdr + n
        /\ Own(tx, 1, IF kind = "Write" THEN offset ELSE Hdr)
    BY <1>1, <1>3, <1>4
  <1>6. /\ len' = offset /\ cs' = TRUE /\ frame' = <<>> /\ pc' = "wait"
        /\ UNCHANGED <<cell, ops, index, start, offset, marker, tx, rx, calls, out>>
    BY DEF PackBatch, Transceive
  <1>7. Batching'
    BY <1>3, <1>5, <1>6 DEF Batching, DataOp
  <1>8. Framing'
    <2>1. Len(frame') = 0
      BY <1>6
    <2>2. cell' # "InFlight"
      BY <1>1, <1>6 DEF TransportInv, Owner
    <2>3. Writes' <=> kind = "Write"
      BY <1>3, <1>6, <2>2 DEF Writes
    <2>4. Own(tx, 1, IF Writes THEN len ELSE Hdr)'
      BY <1>5, <1>6, <2>3 DEF Own
    <2>5. Own(rx, Hdr + 1, Len(frame))'
      BY <2>1 DEF Own
    <2>. QED
      BY <1>3, <1>5, <1>6, <2>1, <2>2, <2>4, <2>5 DEF Framing
  <1>9. ReadWindow'
    BY <1>6 DEF TransportInv, ReadWindow
  <1>. QED
    BY <1>7, <1>8, <1>9

(* A frame that ends is a whole command, answered as such.                 *)
LEMMA WaitFrames ==
    ASSUME TransportInv, SyncFits, Wait
    PROVE  /\ cs /\ Len(frame) = len /\ Own(rx, Hdr + 1, len)
           /\ frame' = frame /\ cs' = FALSE
           /\ Len(frame) > Hdr /\ \A p \in 1..Hdr : frame[p] = <<frame[1][1], p>>
  <1>. USE SizesAssumption
  <1>1. cs /\ Len(frame) = len /\ frame' = frame /\ cs' = FALSE
    BY DEF Wait, TransportInv, Owner
  <1>2. Own(rx, Hdr + 1, len) /\ Len(frame) > Hdr
    BY <1>1 DEF TransportInv, Framing
  <1>3. len \in Nat
    BY DEF TransportInv, TypeOK
  <1>4. \A p \in 1..Hdr : frame[p] = <<calls, p>>
    BY <1>1, <1>2, <1>3 DEF TransportInv, Framing, Own
  <1>5. frame[1][1] = calls
    BY <1>4
  <1>. QED
    BY <1>1, <1>2, <1>4, <1>5

(* The window a read takes out of the RX buffer is the chip's answer.      *)
LEMMA Window ==
    ASSUME TypeOK, NEW n \in Nat, Hdr + n <= Scratch, Own(rx, Hdr + 1, Hdr + n),
           out' = [cmd |-> calls, data |-> SubSeq(rx, Hdr + 1, Hdr + n)]
    PROVE  ReadWindow'
  <1>. USE SizesAssumption
  <1>1. Hdr \in Nat /\ Scratch \in Nat /\ rx \in [1..Scratch -> ByteType]
    BY DEF TypeOK
  <1>2. rx \in Seq(ByteType) /\ Len(rx) = Scratch
    BY <1>1
  <1>. DEFINE w == SubSeq(rx, Hdr + 1, Hdr + n)
  <1>3. Len(w) = n /\ \A k \in 1..n : w[k] = rx[(Hdr + 1) + k - 1]
    BY <1>1, <1>2
  <1>4. ASSUME NEW k \in 1..n
        PROVE  w[k] = <<calls, Hdr + k>>
    <2>1. (Hdr + 1) + k - 1 = Hdr + k /\ Hdr + k \in (Hdr + 1)..(Hdr + n)
      BY <1>1
    <2>2. rx[Hdr + k] = <<calls, Hdr + k>>
      BY <2>1 DEF Own
    <2>. QED
      BY <1>3, <2>1, <2>2
  <1>. HIDE DEF w
  <1>5. out'.cmd = calls /\ out'.data = w
    BY DEF w
  <1>. QED
    BY <1>3, <1>4, <1>5 DEF ReadWindow

(* The end of a batch and the copy-back.                                   *)
LEMMA UnpackFrames ==
    ASSUME TransportInv, SyncFits, BatchDone \/ UnpackOp \/ UnpackEnds
    PROVE  Batching' /\ Framing' /\ ReadWindow'
  <1>. USE SizesAssumption DEF bufVars, hwVars
  <1>1. pc \in {"wait", "unpack"} /\ ops # <<Delay>>
    BY PackingDelay DEF BatchDone, UnpackOp, UnpackEnds
  <1>2. PICK kind \in {"Read", "Write"}, n \in Lens :
             /\ ops = <<Write(Header(calls)), DataOp(kind, n)>>
             /\ ops[1].kind = "Write" /\ Len(ops[1].data) = Hdr
             /\ ops[2].kind = kind /\ Len(ops[2].data) = n
             /\ n \in Nat \ {0} /\ Hdr + n <= Scratch
             /\ pc = "wait" => index = 3 /\ start = 1 /\ len = Hdr + n
             /\ pc = "unpack" =>
                  /\ index = 3
                  /\ \/ start = 1 /\ offset = 0
                     \/ start = 2 /\ offset = Hdr
                     \/ start = 3
                  /\ Own(rx, Hdr + 1, Hdr + n)
    BY <1>1, PackingAccess
  <1>3. cell = "Pending"
    BY <1>1 DEF TransportInv, Owner
  <1>4. CASE BatchDone
    <2>1. /\ Len(frame) = len /\ Own(rx, Hdr + 1, len) /\ frame' = frame /\ cs' = FALSE
          /\ Len(frame) > Hdr /\ \A p \in 1..Hdr : frame[p] = <<frame[1][1], p>>
      BY <1>4, WaitFrames DEF BatchDone
    <2>2. /\ pc = "wait" /\ pc' = "unpack" /\ offset' = 0
          /\ UNCHANGED <<cell, ops, index, start, marker, tx, rx, calls, out>>
      BY <1>4 DEF BatchDone
    <2>3. Batching'
      BY <1>2, <2>1, <2>2 DEF Batching, DataOp, Own
    <2>4. Framing'
      BY <1>3, <2>1, <2>2 DEF Framing
    <2>. QED
      BY <2>2, <2>3, <2>4 DEF TransportInv, ReadWindow
  <1>5. CASE UnpackOp
    <2>1. /\ pc = "unpack" /\ start < index /\ start' = start + 1
          /\ offset' = offset + Len(ops[start].data)
          /\ UNCHANGED <<cell, pc, ops, index, marker, tx, rx, len, cs, frame, calls>>
      BY <1>5 DEF UnpackOp
    <2>2. \/ start = 1 /\ offset = 0 /\ start' = 2 /\ offset' = Hdr
          \/ start = 2 /\ offset = Hdr /\ start' = 3
      BY <1>2, <2>1
    <2>3. Batching'
      BY <1>2, <2>1, <2>2 DEF Batching, DataOp, Own
    <2>4. ~cs /\ Framing'
      BY <1>3, <2>1 DEF TransportInv, Framing, Owner
    <2>5. ReadWindow'
      <3>1. CASE start = 2 /\ kind = "Read"
        <4>1. out' = [cmd |-> calls, data |-> SubSeq(rx, Hdr + 1, Hdr + n)]
          BY <1>2, <1>5, <2>2, <3>1 DEF UnpackOp
        <4>. QED
          BY <1>2, <2>1, <4>1, Window DEF TransportInv
      <3>2. CASE ~(start = 2 /\ kind = "Read")
        <4>1. ops[start].kind # "Read"
          BY <1>2, <2>2, <3>2
        <4>2. out' = out
          BY <1>5, <4>1 DEF UnpackOp
        <4>. QED
          BY <4>2 DEF TransportInv, ReadWindow
      <3>. QED
        BY <3>1, <3>2
    <2>. QED
      BY <2>3, <2>4, <2>5
  <1>6. CASE UnpackEnds
    <2>1. /\ pc = "unpack" /\ start = index /\ pc' = "pack" /\ offset' = 0
          /\ UNCHANGED <<cell, ops, index, start, marker, tx, rx, len, cs, frame, calls, out>>
      BY <1>6 DEF UnpackEnds
    <2>2. index' = 3 /\ start' = 3
      BY <1>2, <2>1
    <2>3. Batching'
      BY <1>2, <2>1, <2>2 DEF Batching, DataOp
    <2>4. ~cs /\ Framing'
      BY <1>3, <2>1 DEF TransportInv, Framing, Owner
    <2>. QED
      BY <2>1, <2>3, <2>4 DEF TransportInv, ReadWindow
  <1>. QED
    BY <1>4, <1>5, <1>6

(* The other steps of exec_transaction: delays and returns.                *)
LEMMA ReturnFrames ==
    ASSUME TransportInv, SyncFits, PackEnds \/ PackDelay \/ PackFails
    PROVE  Batching' /\ Framing' /\ ReadWindow'
  <1>. USE SizesAssumption DEF bufVars, hwVars, Return
  <1>1. pc = "pack" /\ ~cs /\ cell = "Pending" /\ ~cs' /\ cell' # "InFlight"
    BY DEF PackEnds, PackDelay, PackFails, TransportInv, Owner
  <1>2. UNCHANGED <<frame, out>>
    BY DEF PackEnds, PackDelay, PackFails
  <1>3. Framing' /\ ReadWindow'
    BY <1>1, <1>2 DEF TransportInv, Framing, ReadWindow
  <1>4. CASE PackEnds \/ PackFails
    BY <1>3, <1>4 DEF PackEnds, PackFails, Batching
  <1>5. CASE PackDelay
    <2>1. ops = <<Delay>>
      <3>. SUFFICES ASSUME ops # <<Delay>>
                    PROVE  FALSE
        OBVIOUS
      <3>1. /\ Len(ops) = 2 /\ ops[1].kind = "Write" /\ ops[2].kind # "DelayNs"
        BY <1>1, PackingAccess
      <3>2. index = 1 \/ index = 2
        BY <1>5, <3>1 DEF PackDelay, TransportInv, TypeOK
      <3>. QED
        BY <1>5, <3>1, <3>2 DEF PackDelay
    <2>2. offset = 0
      BY <1>1, <2>1, PackingDelay
    <2>. QED
      BY <1>3, <1>5, <2>1, <2>2 DEF PackDelay, Batching
  <1>. QED
    BY <1>4, <1>5

(* Bulk transfers: the staged command is sent as it is, and finish_read    *)
(* hands over the answer to it.                                            *)
LEMMA BulkFrames ==
    ASSUME TransportInv, SyncFits,
           Bulk \/ Interrupt \/ FinishRead \/ FinishWrite \/ AbortBegin \/ AbortEnd
    PROVE  Batching' /\ Framing' /\ ReadWindow'
  <1>. USE SizesAssumption, LensAssumption DEF callVars, bufVars, hwVars
  <1>1. ASSUME NEW kind \in {"Read", "Write"}, NEW n \in BulkLens, StartBulk(kind, n)
        PROVE  Batching' /\ Framing' /\ ReadWindow'
    <2>1. n \in Nat \ {0} /\ Hdr + n <= Scratch
      BY <1>1 DEF StartBulk
    <2>2. /\ pc' = "none" /\ cs' = TRUE /\ len' = Hdr + n /\ frame' = <<>>
          /\ cell' = "InFlight" /\ marker' = [kind |-> kind, len |-> n]
          /\ calls' = calls + 1 /\ out' = out
      BY <1>1 DEF StartBulk, CallBegins, Transceive
    <2>3. \A p \in 1..Scratch : p <= Hdr \/ (kind = "Write" /\ p <= Hdr + n) => tx'[p] = <<calls', p>>
      BY <1>1, <2>2 DEF StartBulk, Stage
    <2>4. Writes' <=> kind = "Write"
      BY <2>2 DEF Writes
    <2>5. Own(tx, 1, IF Writes THEN len ELSE Hdr)'
      BY <2>1, <2>2, <2>3, <2>4 DEF Own
    <2>6. Len(frame') = 0
      BY <2>2
    <2>7. Own(rx, Hdr + 1, Len(frame))'
      BY <2>6 DEF Own
    <2>8. Framing'
      BY <2>1, <2>2, <2>5, <2>6, <2>7 DEF Framing
    <2>. QED
      BY <2>2, <2>8 DEF TransportInv, Batching, ReadWindow
  <1>2. ASSUME NEW kind \in {"Read", "Write"}, NEW n \in BulkLens, StartBulkFails(kind, n)
        PROVE  Batching' /\ Framing' /\ ReadWindow'
    <2>1. pc' = "none" /\ ~cs /\ ~cs' /\ cell' = "Idle" /\ frame' = frame /\ out' = out
      BY <1>2 DEF StartBulkFails, CallBegins, TransportInv, Owner
    <2>. QED
      BY <2>1 DEF TransportInv, Batching, Framing, ReadWindow
  <1>3. CASE Interrupt \/ AbortBegin
    <2>1. /\ pc = "none" /\ pc' \in {"none", "finish", "abort"}
          /\ UNCHANGED <<cell, marker, tx, rx, len, cs, frame, calls, out>>
      BY <1>3 DEF Interrupt, AbortBegin
    <2>2. Writes' <=> Writes
      BY <2>1 DEF Writes
    <2>. QED
      BY <2>1, <2>2 DEF TransportInv, Batching, Framing, ReadWindow, Own
  <1>4. CASE FinishRead \/ FinishWrite \/ AbortEnd
    <2>1. /\ cs /\ Len(frame) = len /\ Own(rx, Hdr + 1, len) /\ frame' = frame /\ cs' = FALSE
          /\ Len(frame) > Hdr /\ \A p \in 1..Hdr : frame[p] = <<frame[1][1], p>>
      BY <1>4, WaitFrames DEF FinishRead, FinishWrite, Finish, AbortEnd
    <2>2. pc' = "none" /\ cell' = "Idle"
      BY <1>4 DEF FinishRead, FinishWrite, Finish, AbortEnd
    <2>3. Framing' /\ Batching'
      BY <2>1, <2>2 DEF Framing, Batching
    <2>4. ReadWindow'
      <3>1. CASE FinishRead
        <4>1. len = Hdr + marker.len /\ marker.len \in Nat /\ Hdr + marker.len <= Scratch
          BY <3>1 DEF FinishRead, Finish, TransportInv, Framing, TypeOK
        <4>2. out' = [cmd |-> calls, data |-> SubSeq(rx, Hdr + 1, Hdr + marker.len)]
          BY <3>1 DEF FinishRead
        <4>. QED
          BY <2>1, <4>1, <4>2, Window DEF TransportInv
      <3>2. CASE FinishWrite \/ AbortEnd
        BY <3>2 DEF FinishWrite, AbortEnd, TransportInv, ReadWindow
      <3>. QED
        BY <1>4, <3>1, <3>2
    <2>. QED
      BY <2>3, <2>4
  <1>. QED
    BY <1>1, <1>2, <1>3, <1>4 DEF Bulk

-----------------------------------------------------------------------------
(* The new transport.                                                      *)
LEMMA TransportInit == Init => TransportInv
  <1>. SUFFICES ASSUME Init
                PROVE  TransportInv
    OBVIOUS
  <1>. USE SizesAssumption, CallsAssumption DEF Init
  <1>1. <<0, 0>> \in ByteType
    BY DEF ByteType
  <1>2. tx \in [1..Scratch -> ByteType] /\ rx \in [1..Scratch -> ByteType]
    BY <1>1
  <1>3. ops \in Seq(Op) /\ Len(ops) = 0 /\ frame \in Seq(ByteType) /\ Len(frame) = 0
    OBVIOUS
  <1>4. TypeOK
    <2>1. marker \in [kind : {"None", "Read", "Write"}, len : Nat]
      BY DEF NoMarker
    <2>2. index \in 1..(Len(ops) + 1) /\ start \in 1..index
      BY <1>3
    <2>3. len \in 0..Scratch /\ Len(frame) <= Scratch /\ calls \in 0..MaxCalls
      BY <1>3
    <2>. QED
      BY <1>2, <1>3, <2>1, <2>2, <2>3 DEF TypeOK
  <1>5. Owner
    BY DEF Owner
  <1>6. Batching /\ Framing /\ ReadWindow
    BY DEF Batching, Framing, ReadWindow, NoOut
  <1>. QED
    BY <1>4, <1>5, <1>6 DEF TransportInv

LEMMA TransportStep == TransportInv /\ [Next]_vars => TransportInv'
  <1>. SUFFICES ASSUME TransportInv, [Next]_vars
                PROVE  TransportInv'
    OBVIOUS
  <1>1. TypeOK' /\ Owner'
    <2>1. CASE Sync
      <3>1. ASSUME NEW n \in Lens
            PROVE  /\ calls + 1 \in 0..MaxCalls =>
                        /\ <<Write(Header(calls + 1)), Read(n)>> \in Seq(Op)
                        /\ <<Write(Header(calls + 1)),
                             Write(Bytes(calls + 1, Hdr + 1, Hdr + n))>> \in Seq(Op)
        BY OpsTyped, LensAssumption
      <3>2. <<Delay>> \in Seq(Op)
        BY DEF Delay, Op
      <3>3. ASSUME NEW o, Transaction(o)
            PROVE  calls + 1 \in 0..MaxCalls
        BY <3>3, CallsAssumption DEF Transaction, CallBegins, TransportInv, TypeOK
      <3>. QED
        BY <2>1, <3>1, <3>2, <3>3, TransactionOwner
           DEF Sync, ReadCommand, WriteCommand, DelayCommand, TransportInv
    <2>2. CASE Bulk \/ AbortBegin \/ Proceed
      BY <2>2, ExecOwner, BulkOwner DEF Proceed, TransportInv
    <2>3. CASE UNCHANGED vars
      BY <2>3 DEF vars, callVars, bufVars, hwVars, TransportInv, TypeOK, Owner
    <2>. QED
      BY <2>1, <2>2, <2>3, ClockOwner DEF Next, TransportInv
  <1>2. ASSUME SyncFits
        PROVE  Batching' /\ Framing' /\ ReadWindow'
    <2>1. CASE Proceed
      BY <1>2, <2>1, PackOpFrames, PackBatchFrames, UnpackFrames, ReturnFrames, BulkFrames
         DEF Proceed
    <2>2. CASE UNCHANGED vars
      BY <1>2, <2>2 DEF vars, callVars, bufVars, hwVars, TransportInv, Batching, Framing,
                        ReadWindow, Own, DataOp, Writes
    <2>. QED
      BY <1>2, <2>1, <2>2, ClockFrames, SyncFrames, BulkFrames DEF Next
  <1>. QED
    BY <1>1, <1>2 DEF TransportInv

(* The inductive invariant of the transport.                               *)
THEOREM TransportInvariance == Spec => []TransportInv
  BY TransportInit, TransportStep, PTL DEF Spec

(* The bus has one owner, whatever the lengths: chip select is asserted    *)
(* exactly while a transfer is out, a bulk transfer is recorded exactly    *)
(* while the device is in flight, and the completion interrupt cannot      *)
(* storm after wait has disarmed it.                                       *)
THEOREM BusOwnerInvariance == Spec => []BusOwner
  <1>1. TransportInv => BusOwner
    BY DEF TransportInv, Owner, BusOwner
  <1>. QED
    BY <1>1, TransportInvariance, PTL

(* If header and data of every register access fit the scratch buffers,    *)
(* exec_transaction's batching never splits a command over two chip-select *)
(* frames or mixes two commands in one.                                    *)
THEOREM OneCommandPerFrameInvariance ==
    ASSUME SyncFits
    PROVE  Spec => []OneCommandPerFrame
  <1>1. TransportInv => OneCommandPerFrame
    <2>. SUFFICES ASSUME TransportInv, frame # <<>>
                  PROVE  OneCommandPerFrame
      BY DEF OneCommandPerFrame
    <2>. USE SizesAssumption
    <2>1. Framing /\ Len(frame) \in Nat \ {0} /\ len \in Nat
      BY DEF TransportInv, TypeOK
    <2>2. CASE cs
      <3>1. \A p \in 1..Len(frame) : p <= Hdr \/ Writes => frame[p] = <<calls, p>>
        BY <2>1, <2>2 DEF Framing, Own
      <3>2. frame[1][1] = calls
        BY <2>1, <3>1
      <3>. QED
        BY <2>2, <3>1, <3>2 DEF OneCommandPerFrame
    <2>3. CASE ~cs
      BY <2>1, <2>3 DEF Framing, OneCommandPerFrame
    <2>. QED
      BY <2>2, <2>3
  <1>. QED
    BY <1>1, TransportInvariance, PTL

(* Under the same hypothesis a read, register or bulk, gets what the chip  *)
(* answered to its own header.                                             *)
THEOREM ReadWindowInvariance ==
    ASSUME SyncFits
    PROVE  Spec => []ReadWindow
  <1>1. TransportInv => ReadWindow
    BY DEF TransportInv
  <1>. QED
    BY <1>1, TransportInvariance, PTL

=============================================================================
